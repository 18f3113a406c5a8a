---------------------------- MODULE FlowRefinement ----------------------------
(***************************************************************************)
(* The implementations of control flow side by side: on the programs of a  *)
(* PORTABLE class every behaviour of the interpreter (ExecItems) is a      *)
(* behaviour of the emitted C (CFlow) or of the LLVM code (LFlow).  Each   *)
(* clause of Portable and PortableLlvm names a construct on which the      *)
(* interpreter and that back end part ways.                                *)
(***************************************************************************)
EXTENDS ExecItems

CONSTANT GosubLimit

PosOf(f) == [block |-> f.block, idx |-> f.idx]
After(f) == [block |-> f.block, idx |-> f.idx + 1]
Nowhere  == [block |-> Main, idx |-> 0]

(***************************************************************************)
(* What an activation adds to the state of the compiled programs: the body *)
(* of an item nothing, a GOSUB a return position on the GOSUB stack, a     *)
(* call an entry of the call stack.  In LLVM code each call keeps the      *)
(* return positions of its own GOSUBs.                                     *)
(***************************************************************************)
Pushed(m, f, caller) ==
  CASE f.via = "block" -> m
    [] f.via = "gosub" ->
         [calls  |-> m.calls,
          gosubs |-> Append(m.gosubs, caller),
          lcalls |-> [m.lcalls EXCEPT ![Len(m.lcalls)].rets = Append(@, caller)]]
    [] f.via = "call" ->
         [calls  |-> Append(m.calls, [ret |-> caller, base |-> Len(m.gosubs)]),
          gosubs |-> m.gosubs,
          lcalls |-> Append(m.lcalls, [ret |-> caller, rets |-> <<>>])]

\* Where the caller of frame j goes on.
Caller(s, j) == IF j = 1 THEN Nowhere ELSE After(s[j-1])

\* What the lowest n activations of the stack s stand for.
StandsFor(s) ==
  LET m[n \in 0..Len(s)] ==
        IF n = 0 THEN [calls |-> <<>>, gosubs |-> <<>>, lcalls |-> <<>>]
        ELSE Pushed(m[n-1], s[n], Caller(s, n))
  IN  m

\* The state that a Rust stack stands for: the program counter is the top
\* frame, the frames below it have become return positions.
pcBar   == IF stack = <<>> THEN Nowhere ELSE PosOf(Top)
Machine == StandsFor(stack)[Len(stack)]

C == INSTANCE CFlow WITH pc <- pcBar, calls <- Machine.calls,
                         gosubs <- Machine.gosubs, MaxCalls <- MaxDepth

L == INSTANCE LFlow WITH pc <- pcBar, calls <- Machine.lcalls,
                         MaxCalls <- MaxDepth

-----------------------------------------------------------------------------
(***************************************************************************)
(* The portable programs.                                                  *)
(***************************************************************************)
Positions(p) == UNION {{[block |-> b, idx |-> i] : i \in DOMAIN p.code[b]} :
                         b \in Block}

ArgAt(p, pos) == p.code[pos.block][pos.idx].arg

\* The loop or SELECT nearest to an EXIT is of the kind the EXIT names.
ExitsTheNearest(p, pos, kind) ==
  \E k \in DOMAIN p.path[pos.block] :
    /\ OpAt(p, p.path[pos.block][k]) \in kind
    /\ \A m \in (k+1)..Len(p.path[pos.block]) :
         OpAt(p, p.path[pos.block][m]) \notin Loops \cup Selects

\* The label is in the same block, or is reached by leaving an item whose
\* arm consults the label map and then leaves it.
GotoArrives(p, pos, l) ==
  LET to == LabelPos(p, pos.block, l) IN
  /\ l \in FnLabels(p, pos.block)
  /\ \/ to.block = pos.block
     \/ \E k \in DOMAIN p.path[pos.block] :
          /\ p.path[pos.block][k].block = to.block
          /\ OpAt(p, p.path[pos.block][k]) \notin RetestLoops \cup {"compound"}

InFn(p, b) == {pos \in Positions(p) : Root(p, pos.block) = Root(p, b)}

UsesGosub(p, b) ==
  \E pos \in InFn(p, b) : OpAt(p, pos) \in {"gosub", "gosubexpr"}

TopLevelLabel(p, b, l) == l \in LabelsIn(p, Root(p, b))

\* A subroutine ends in RETURN, not at the end of its function.
SubsEnd(p) ==
  \A b \in Block :
    p.path[b] = <<>> /\ UsesGosub(p, b) =>
      /\ p.code[b] # <<>>
      /\ p.code[b][Len(p.code[b])].op \in {"gosubreturn", "return", "goto", "stop"}

\* STOP ends the process in C and a call of Main in the interpreter.
MainIsCalled(p) ==
  \E pos \in Positions(p) : OpAt(p, pos) = "call" /\ ArgAt(p, pos) = Main

Portable(p) ==
  /\ \A pos \in Positions(p) :
       LET op == OpAt(p, pos)
           l  == ArgAt(p, pos)
           b  == pos.block
       IN  /\ op = "exitloop"   => ExitsTheNearest(p, pos, Loops)
           /\ op = "exitselect" => ExitsTheNearest(p, pos, Selects)
           /\ op = "goto"       => GotoArrives(p, pos, l)
           /\ op = "gotoexpr"   => TopLevelLabel(p, b, l)
                                   /\ GotoArrives(p, pos, l)
           /\ op = "gosub"      => TopLevelLabel(p, b, l)
           /\ op = "gosubexpr"  => /\ TopLevelLabel(p, b, l)
                                   /\ LabelPos(p, b, l).idx > 1
           /\ op = "return"     => ~UsesGosub(p, b)
           /\ op = "stop"       => Root(p, b) = Main /\ ~MainIsCalled(p)
  /\ SubsEnd(p)

\* LLVM code has no EXIT, no STOP, no label addresses and no nested labels; a
\* return inside a GOSUB is no trouble.
PortableLlvm(p) ==
  /\ \A pos \in Positions(p) :
       LET op == OpAt(p, pos)
           l  == ArgAt(p, pos)
           b  == pos.block
       IN  /\ op \notin {"exitloop", "exitselect", "stop", "gotoexpr", "gosubexpr"}
           /\ op = "goto"  => TopLevelLabel(p, b, l) /\ GotoArrives(p, pos, l)
           /\ op = "gosub" => TopLevelLabel(p, b, l)
  /\ SubsEnd(p)

ForC    == {p \in Corpus : Portable(p)}
ForLlvm == {p \in Corpus : PortableLlvm(p)}

(***************************************************************************)
(* On portable programs the interpreter does what the emitted C does, step *)
(* for step: the charter's "one contract, independent implementations".    *)
(***************************************************************************)
RefinesC == /\ prog \in ForC => C!CInit
            /\ [][(prog \in ForC) => C!CNext]_(C!cvars)

(***************************************************************************)
(* The same for the code of the LLVM back end, whose state machine         *)
(* "mirrors the interpreter's index-based exec_items" (emit_body_sm).      *)
(***************************************************************************)
RefinesLlvm == /\ prog \in ForLlvm => L!LInit
               /\ [][(prog \in ForLlvm) => L!LNext]_(L!lvars)
=============================================================================
