------------------------------ MODULE ExecItems ------------------------------
(***************************************************************************)
(* Control flow of the interpreter: exec_items and the Flow values it      *)
(* returns (crates/xb-runtime/src/interpreter.rs, interpreter_select.rs,   *)
(* eval.rs exec_for, call.rs call_function).                               *)
(*                                                                         *)
(* The Rust call stack is the state.  One frame stands for one activation  *)
(* of exec_items:                                                          *)
(*   block  the items it runs (its func_body is Root(prog, block)),        *)
(*   idx    the local variable idx (counted from 1),                       *)
(*   cur    the item whose match arm is running; the arms of WHILE and DO  *)
(*          may assign idx while they keep looping over that item,         *)
(*   via    who called exec_items: the arm of an enclosing item ("block"), *)
(*          a GOSUB arm ("gosub") or call_function ("call").               *)
(*                                                                         *)
(* A step runs one item of the top frame to the point where the next item  *)
(* starts, every return of a Flow value on the way included.  A Flow never *)
(* changes kind while it is propagated, so it ends in the innermost frame  *)
(* whose arm consumes it.                                                  *)
(***************************************************************************)
EXTENDS IrProgram

CONSTANT MaxDepth     \* bound on the activations of exec_items
ASSUME MaxDepthAssumption == MaxDepth \in Nat \ {0}

VARIABLES prog,       \* the program being run
          stack,      \* activations of exec_items, innermost last
          addrs,      \* label_addresses of the call whose frame is stack[n]
          halted      \* how the run ended: "no", "end" or "error"

vars == <<prog, stack, addrs, halted>>

Frame == [block : Block, idx : Nat \ {0}, cur : Nat \ {0},
          via : {"block", "gosub", "call"}]

NewFrame(b, i, v) == [block |-> b, idx |-> i, cur |-> i, via |-> v]

\* The frame as it goes on at item i.
Moved(f, i) == [f EXCEPT !.idx = i, !.cur = i]

\* label_addresses maps the labels met so far to their index, from 0, in the
\* block that holds them; a label not met yet reads as 0.
NoAddrs == [l \in Label |-> 0]

\* Mutant: positions counted one too low.
RegisterLow(map, b) == [l \in Label |-> IF l \in LabelsIn(prog, b)
                                        THEN LabelIdx(prog, b, l) - 2
                                        ELSE map[l]]

Register(map, b) == [l \in Label |-> IF l \in LabelsIn(prog, b)
                                     THEN LabelIdx(prog, b, l) - 1
                                     ELSE map[l]]

Init == /\ prog \in Corpus
        /\ stack = <<NewFrame(Main, 1, "call")>>
        /\ addrs = [n \in 1..MaxDepth |->
                     IF n = 1 THEN Register(NoAddrs, Main) ELSE NoAddrs]
        /\ halted = "no"

Top == stack[Len(stack)]

Items(j) == prog.code[stack[j].block]

\* The item whose arm called the activation above stack[j].
Arm(j) == Items(j)[stack[j].cur]

AtItem(ops) == /\ stack # <<>>
               /\ Top.idx <= Len(prog.code[Top.block])
               /\ prog.code[Top.block][Top.idx].op \in ops

Here == prog.code[Top.block][Top.idx]

\* The frame of the function call that the top frame works for.
ThisCall == Innermost({n \in 1..Len(stack) : stack[n].via = "call"})

-----------------------------------------------------------------------------
(***************************************************************************)
(* What the arms do to the stack.                                          *)
(***************************************************************************)
\* Frames above k have returned and frame k goes on at item i; with k = 0
\* the entry function has returned.
Resume(k, i) ==
  /\ stack' = [j \in 1..k |-> IF j = k THEN Moved(stack[j], i) ELSE stack[j]]
  /\ addrs' = [n \in DOMAIN addrs |-> IF n <= k THEN addrs[n] ELSE NoAddrs]
  /\ halted' = IF k = 0 THEN "end" ELSE "no"

\* The arm of frame k is done: `idx += 1`.
ArmDone(k) == Resume(k, IF k = 0 THEN 1 ELSE stack[k].idx + 1)

\* The arm of frame k, with its variable idx at i, runs body b once more.
Iterate(k, i, b) ==
  /\ stack' = Append([j \in 1..k |-> IF j = k THEN [stack[j] EXCEPT !.idx = i]
                                              ELSE stack[j]],
                     NewFrame(b, 1, "block"))
  /\ addrs' = [n \in DOMAIN addrs |-> IF n <= k THEN addrs[n] ELSE NoAddrs]
  /\ halted' = "no"

\* exec_items registers the labels of the block it is given.
Enter(b, i, v, n) ==
  /\ Len(stack) < MaxDepth
  /\ stack' = Append(stack, NewFrame(b, i, v))
  /\ addrs' = [addrs EXCEPT ![n] = Register(@, b)]
  /\ UNCHANGED halted

(***************************************************************************)
(* Which arms consume which Flow.  Frame k + 1 returned the Flow to the    *)
(* arm of frame k; call_function turns every Flow into a function result.  *)
(***************************************************************************)
\* Mutants: call_function hands RETURN on; the GOSUB arm does; FOR hands
\* Break on; SELECT does.
ReturnThroughCall(k)   == k = 0 \/ stack[k+1].via = "gosub"
ReturnThroughGosub(k)  == stack[k+1].via = "call"
BreakThroughFor(k)     == \/ stack[k+1].via \in {"call", "gosub"}
                          \/ Arm(k).op \in RetestLoops \cup Selects
BreakThroughSelect(k)  == \/ stack[k+1].via \in {"call", "gosub"}
                          \/ Arm(k).op \in Loops

ConsumesReturn(k)      == stack[k+1].via = "call"
ConsumesGosubReturn(k) == stack[k+1].via \in {"call", "gosub"}
ConsumesBreak(k)       == \/ stack[k+1].via \in {"call", "gosub"}
                          \/ Arm(k).op \in Loops \cup Selects
ConsumesGoto(k, l)     == \/ stack[k+1].via = "call"
                          \/ /\ l \in LabelsIn(prog, stack[k].block)
                             /\ Arm(k).op # "compound"

\* Of the frames that would consume a Flow returned by the top activation,
\* the innermost gets it.
Below == 0..(Len(stack) - 1)

FlowReturn      == ArmDone(Innermost({k \in Below : ConsumesReturn(k)}))
FlowGosubReturn == ArmDone(Innermost({k \in Below : ConsumesGosubReturn(k)}))
FlowBreak       == ArmDone(Innermost({k \in Below : ConsumesBreak(k)}))

(***************************************************************************)
(* Flow::Goto.  The arms of WHILE and DO assign idx and `continue` the     *)
(* inner loop: the condition at the top is tested again and the loop goes  *)
(* on; what idx names is left behind, and only its successor is reached.   *)
(***************************************************************************)
FlowGoto(l) ==
  LET k   == Innermost({n \in Below : ConsumesGoto(n, l)})
      pos == LabelIdx(prog, stack[k].block, l)
  IN  IF stack[k+1].via = "call" THEN ArmDone(k)
      ELSE IF stack[k+1].via = "block" /\ Arm(k).op \in RetestLoops
      THEN \/ \E b \in Arm(k).body : Iterate(k, pos, b)
           \/ Arm(k).op \in {"while", "dopre"} /\ Resume(k, pos + 1)
      ELSE Resume(k, pos)

GotoLabel(l) == IF l \in LabelsIn(prog, Top.block)
                THEN Resume(Len(stack), LabelIdx(prog, Top.block, l))
                ELSE FlowGoto(l)

RuntimeError == /\ stack' = <<>>
                /\ halted' = "error"
                /\ addrs' = [n \in DOMAIN addrs |-> NoAddrs]

-----------------------------------------------------------------------------
(***************************************************************************)
(* One action per arm of the match in exec_items.                          *)
(***************************************************************************)
ExecPlain == /\ AtItem(Plain)
             /\ ArmDone(Len(stack))
             /\ UNCHANGED prog

EnterBody == /\ AtItem(Containers)
             /\ \E b \in Here.body :
                  Enter(b, 1, "block", ThisCall)
             /\ UNCHANGED prog

SkipBody == /\ AtItem(Skippable)
            /\ ArmDone(Len(stack))
            /\ UNCHANGED prog

\* The items ran out: Flow::Continue goes to the arm that started them.
EndOfItems ==
  LET k == Len(stack) - 1 IN
  /\ stack # <<>>
  /\ Top.idx > Len(prog.code[Top.block])
  /\ IF Top.via = "block" /\ Arm(k).op \in Loops
     THEN \/ \E b \in Arm(k).body : Iterate(k, stack[k].idx, b)
          \/ Arm(k).op # "do" /\ ArmDone(k)
     ELSE ArmDone(k)
  /\ UNCHANGED prog

ExecGoto == /\ AtItem({"goto"})
            /\ GotoLabel(Here.arg)
            /\ UNCHANGED prog

ExecExit == /\ AtItem({"exitloop", "exitselect"})
            /\ FlowBreak
            /\ UNCHANGED prog

ExecReturn == /\ AtItem({"return", "stop"})
              /\ FlowReturn
              /\ UNCHANGED prog

ExecGosubReturn == /\ AtItem({"gosubreturn"})
                   /\ FlowGosubReturn
                   /\ UNCHANGED prog

\* Mutant: the subroutine is run in the items at hand, not in func_body.
GosubInItems ==
  LET body == Root(prog, Top.block) IN
  /\ AtItem({"gosub"})
  /\ IF Here.arg \in LabelsIn(prog, body)
     THEN Enter(Top.block, LabelIdx(prog, body, Here.arg), "gosub", ThisCall)
     ELSE ArmDone(Len(stack))
  /\ UNCHANGED prog

\* find_label_index looks at the top level of the function body only.
ExecGosub ==
  LET body == Root(prog, Top.block) IN
  /\ AtItem({"gosub"})
  /\ IF Here.arg \in LabelsIn(prog, body)
     THEN Enter(body, LabelIdx(prog, body, Here.arg), "gosub", ThisCall)
     ELSE ArmDone(Len(stack))
  /\ UNCHANGED prog

\* The value of &label, or of a variable that never got one.
LabelAddress(l) == IF l = None THEN 0 ELSE addrs[ThisCall][l]

\* The target is taken as an index into the function body.
ExecGosubExpr ==
  LET addr == LabelAddress(Here.arg) IN
  /\ AtItem({"gosubexpr"})
  /\ IF addr = 0 THEN ArmDone(Len(stack))
     ELSE Enter(Root(prog, Top.block), addr + 1, "gosub", ThisCall)
  /\ UNCHANGED prog

ExecGotoExpr ==
  LET body == Root(prog, Top.block)
      target == LabelAddress(Here.arg) + 1
  IN
  /\ AtItem({"gotoexpr"})
  /\ IF Top.block = body THEN Resume(Len(stack), target)
     ELSE IF /\ target \in DOMAIN prog.code[body]
             /\ prog.code[body][target].op = "label"
          THEN GotoLabel(prog.code[body][target].arg)
          ELSE RuntimeError
  /\ UNCHANGED prog

ExecCall == /\ AtItem({"call"})
            /\ Enter(Here.arg, 1, "call", Len(stack) + 1)
            /\ UNCHANGED prog

\* `?` in exec_items: an expression failed, or QUIT was called.
ExecFault == /\ \/ AtItem(Evaluating)
                \/ /\ stack # <<>> /\ Top.via = "block"
                   /\ Top.idx > Len(prog.code[Top.block])
                   /\ Arm(Len(stack) - 1).op \in TestedLoops
             /\ RuntimeError
             /\ UNCHANGED prog

Next == \/ ExecPlain \/ EnterBody \/ SkipBody \/ EndOfItems
        \/ ExecGoto \/ ExecExit \/ ExecReturn \/ ExecGosubReturn
        \/ ExecGosub \/ ExecGosubExpr \/ ExecGotoExpr \/ ExecCall \/ ExecFault

Spec == Init /\ [][Next]_vars

-----------------------------------------------------------------------------
(***************************************************************************)
(* Properties.                                                             *)
(***************************************************************************)
\* Types of the four variables.
TypeOK == /\ prog \in Corpus
          /\ stack \in Seq(Frame) /\ Len(stack) <= MaxDepth
          /\ addrs \in [1..MaxDepth -> [Label -> Nat]]
          /\ halted \in {"no", "end", "error"}

\* What an activation runs is what the arm below it handed to exec_items.
StartedBy(j) ==
  /\ stack[j].cur \in DOMAIN Items(j)
  /\ stack[j].idx = stack[j].cur \/ Arm(j).op \in RetestLoops
  /\ CASE stack[j+1].via = "block" -> stack[j+1].block \in Arm(j).body
       [] stack[j+1].via = "gosub" ->
            /\ Arm(j).op \in {"gosub", "gosubexpr"}
            /\ stack[j+1].block = Root(prog, stack[j].block)
       [] stack[j+1].via = "call"  ->
            /\ Arm(j).op = "call"
            /\ stack[j+1].block = Arm(j).arg

(***************************************************************************)
(* The Rust stack follows the nesting of the program: each activation runs *)
(* a body of the item below it, its own function's body for GOSUB, or the  *)
(* called function; the bottom one is Main, called by nobody.  A Flow that *)
(* came to rest in the wrong frame of exec_items would break the chain at  *)
(* some later item.                                                        *)
(***************************************************************************)
StackNested ==
  /\ stack = <<>> <=> halted # "no"
  /\ stack # <<>> => /\ stack[1].block = Main
                     /\ stack[1].via = "call"
                     /\ Top.cur = Top.idx
  /\ \A j \in 1..(Len(stack) - 1) : StartedBy(j)

(***************************************************************************)
(* No Flow crosses call_function: a step that ends a call ends that call   *)
(* only, and the caller goes on at the item after its CALL.                *)
(* docs/stage2-contract-v0.16.md: BREAK "does not propagate through        *)
(* function call boundaries"; GOTO, RETURN and STOP go the same way.       *)
(***************************************************************************)
CallEndsAlone ==
  \A n \in 2..Len(stack) :
    (/\ stack[n].via = "call"
     /\ Len(stack') < n
     /\ halted' # "error")
    => /\ Len(stack') = n - 1
       /\ stack'[n-1] = Moved(stack[n-1], stack[n-1].idx + 1)

CallsEndAlone == [][CallEndsAlone]_vars

(***************************************************************************)
(* RETURN ends the innermost GOSUB: its own activations only, and control  *)
(* comes back to the item after the GOSUB that started it, however deep    *)
(* the blocks were from which GOSUB and RETURN were executed.              *)
(***************************************************************************)
GosubResumes ==
  \A n \in 2..Len(stack) :
    (/\ AtItem({"gosubreturn"})
     /\ stack[n].via = "gosub"
     /\ \A m \in (n+1)..Len(stack) : stack[m].via = "block")
    => stack' = [j \in 1..(n-1) |->
                   IF j = n - 1 THEN Moved(stack[j], stack[j].idx + 1)
                                ELSE stack[j]]

GosubsResume == [][GosubResumes]_vars

(***************************************************************************)
(* EXIT leaves at most one loop: of the activations it abandons, at most   *)
(* one is the body of a loop (docs/stage2-contract-v0.16.md: BREAK "only   *)
(* affects the innermost loop in the current function scope").             *)
(***************************************************************************)
ExitLeavesOneLoop ==
  AtItem({"exitloop", "exitselect"}) =>
    \A i, j \in (Len(stack') + 1)..Len(stack) :
      (/\ i > 1 /\ stack[i].via = "block" /\ Arm(i-1).op \in Loops
       /\ j > 1 /\ stack[j].via = "block" /\ Arm(j-1).op \in Loops) => i = j

ExitsLeaveOneLoop == [][ExitLeavesOneLoop]_vars

=============================================================================
