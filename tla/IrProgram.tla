------------------------------ MODULE IrProgram ------------------------------
(***************************************************************************)
(* The control skeleton of an IR program (crates/xb-compiler/src/ir.rs,    *)
(* enum IrItem), shared by the interpreter model (ExecItems) and by the    *)
(* model of the emitted C (CFlow).                                         *)
(*                                                                         *)
(* A program is a family of blocks: the body of each function (a ROOT      *)
(* block) and the bodies nested in its IF, loop, SELECT and Compound       *)
(* items.  An item keeps what decides control flow:                        *)
(*   op    the IrItem variant,                                             *)
(*   arg   the label it names, or the function it calls (its root block),  *)
(*   body  the blocks nested in it.                                        *)
(* Conditions are data: each one may come out either way.                  *)
(***************************************************************************)
EXTENDS Naturals, Sequences

CONSTANTS Block,      \* names of blocks
          Label,      \* names of GOTO labels and of inlined SUBs
          None,       \* "no argument"
          Main,       \* root block of the entry function
          Programs    \* the programs considered

Corpus == Programs

(***************************************************************************)
(* DO ... LOOP has four shapes: "dopre" tests at the top (with or without  *)
(* a test at the bottom), "dopost" only at the bottom, "do" nowhere.       *)
(* "if"/"select" lack an ELSE, "ifelse"/"selectelse" have one.             *)
(***************************************************************************)
DoLoops     == {"dopre", "dopost", "do"}
RetestLoops == {"while"} \cup DoLoops
Loops       == RetestLoops \cup {"for"}
Selects     == {"select", "selectelse"}
Containers  == Loops \cup Selects \cup {"if", "ifelse", "compound"}

\* Items whose body may be passed over: no branch taken, no first iteration.
Skippable   == {"if", "select", "while", "dopre", "for"}

\* Straight-line statements; ir.rs has many, none of which touches control.
Plain       == {"act", "label"}

Leaves == Plain \cup {"goto", "gotoexpr", "gosub", "gosubexpr", "gosubreturn",
                      "return", "stop", "exitloop", "exitselect", "call"}

\* Items that evaluate an expression, where evaluation may fail or QUIT.
Evaluating  == {"act", "if", "ifelse", "while", "dopre", "for", "select",
                "selectelse", "return", "call", "gosubexpr", "gotoexpr"}
TestedLoops == Loops \ {"do"}

Item == [op : Leaves \cup Containers, arg : Block \cup Label \cup {None},
         body : SUBSET Block]

\* Of several depths of nesting, the innermost.
Innermost(depths) == CHOOSE k \in depths : \A j \in depths : j <= k

\* Where a block hangs: the position, in its parent, of the item holding it.
Pos == [block : Block, idx : Nat]

(***************************************************************************)
(* path[b] lists the positions of the items that enclose block b, from the *)
(* root block down; it is empty for a root block.                          *)
(***************************************************************************)
Program == [code : [Block -> Seq(Item)], path : [Block -> Seq(Pos)]]

OpAt(p, pos) == p.code[pos.block][pos.idx].op

\* The function body (func_body in exec_items) that block b belongs to.
Root(p, b) == IF p.path[b] = <<>> THEN b ELSE p.path[b][1].block

IsLabel(p, b, i, l) == /\ p.code[b][i].op = "label"
                       /\ p.code[b][i].arg = l

\* label_map of exec_items: the labels among the items of this very block.
LabelsIn(p, b) ==
  {l \in Label : \E i \in DOMAIN p.code[b] : IsLabel(p, b, i, l)}

LabelIdx(p, b, l) == CHOOSE i \in DOMAIN p.code[b] : IsLabel(p, b, i, l)

\* Every label of the function that b belongs to, nested blocks included.
FnLabels(p, b) ==
  UNION {LabelsIn(p, c) : c \in {d \in Block : Root(p, d) = Root(p, b)}}

LabelPos(p, b, l) ==
  LET home == CHOOSE c \in Block : Root(p, c) = Root(p, b)
                                   /\ l \in LabelsIn(p, c)
  IN  [block |-> home, idx |-> LabelIdx(p, home, l)]

(***************************************************************************)
(* Shape of a program: paths agree with the nesting of bodies, items carry *)
(* the arguments their op needs, and a label names one place in a function *)
(* (c_emit_hoist.rs disambiguates duplicates before emission).             *)
(***************************************************************************)
ItemOK(p, it) ==
  /\ it.op \in Containers <=> it.body # {}
  /\ it.op \in {"label", "goto", "gosub"} => it.arg \in Label
  /\ it.op \in {"gotoexpr", "gosubexpr"}  => it.arg \in Label \cup {None}
  /\ it.op = "call" => it.arg \in Block /\ p.path[it.arg] = <<>>

PathOK(p, b) ==
  \A k \in DOMAIN p.path[b] :
    LET q == p.path[b][k]
        below == IF k = Len(p.path[b]) THEN b ELSE p.path[b][k + 1].block
    IN  /\ q.idx \in DOMAIN p.code[q.block]
        /\ below \in p.code[q.block][q.idx].body
        /\ p.path[q.block] = SubSeq(p.path[b], 1, k - 1)

NestingOK(p, b) ==
  \A i \in DOMAIN p.code[b] : \A c \in p.code[b][i].body :
    p.path[c] = Append(p.path[b], [block |-> b, idx |-> i])

LabelsOnce(p) ==
  \A b, c \in Block : \A i \in DOMAIN p.code[b], j \in DOMAIN p.code[c] :
    (/\ Root(p, b) = Root(p, c)
     /\ p.code[b][i].op = "label"
     /\ p.code[c][j] = p.code[b][i]) => b = c /\ i = j

WellFormed(p) ==
  /\ \A b \in Block : /\ PathOK(p, b)
                      /\ NestingOK(p, b)
                      /\ \A i \in DOMAIN p.code[b] : ItemOK(p, p.code[b][i])
  /\ LabelsOnce(p)
  /\ p.path[Main] = <<>>

ASSUME NamesAssumption ==
  /\ Main \in Block
  /\ None \notin Block \cup Label
  /\ Block \cap Label = {}

ASSUME ProgramsAssumption ==
  \A p \in Corpus : p \in Program /\ WellFormed(p)
=============================================================================
