-------------------------------- MODULE LFlow --------------------------------
(***************************************************************************)
(* Control flow of the code the LLVM back end emits for an IR program      *)
(* (llvm_backend in crates/xb-compiler/src/lib.rs).                        *)
(*                                                                         *)
(* Structured items become basic blocks.  A body with labels or jumps at   *)
(* its top level becomes a state machine: a switch over `pc` with a case   *)
(* per top-level item and a landing per GOSUB, and a stack of landings     *)
(* that is an alloca, so each call of the function has its own.  Items     *)
(* emit_item does not know (EXIT, STOP) are passed over.                   *)
(***************************************************************************)
EXTENDS IrProgram

CONSTANTS GosubLimit,        \* 256 entries of retstack
          MaxCalls           \* bound on the call stack

VARIABLES prog, pc,          \* the program, and the next item
          calls              \* call stack: return position, retstack

lvars == <<prog, pc, calls>>

At(b, i) == [block |-> b, idx |-> i]
Nowhere  == At(Main, 0)
After(pos) == At(pos.block, pos.idx + 1)

LInit == /\ prog \in Corpus
         /\ pc = At(Main, 1)
         /\ calls = <<[ret |-> Nowhere, rets |-> <<>>]>>

Running(ops) == /\ calls # <<>>
                /\ pc.idx \in DOMAIN prog.code[pc.block]
                /\ OpAt(prog, pc) \in ops

This == prog.code[pc.block][pc.idx]
ThisCall == calls[Len(calls)]
Jumps == {"goto", "gotoexpr", "gosub", "gosubexpr"}

\* body_has_labels: only the top level of the body counts.
StateMachine ==
  LET body == prog.code[Root(prog, pc.block)]
  IN  \E i \in DOMAIN body : body[i].op \in Jumps \cup {"label", "gosubreturn"}

Go(pos) == pc' = pos /\ UNCHANGED <<prog, calls>>

Exit == pc' = Nowhere /\ calls' = <<>> /\ UNCHANGED prog

\* `ret`: retstack goes with the frame.
ReturnFromFunction ==
  IF Len(calls) = 1 THEN Exit
  ELSE /\ pc' = ThisCall.ret
       /\ calls' = [n \in 1..(Len(calls) - 1) |-> calls[n]]
       /\ UNCHANGED prog

Rets(r) == [calls EXCEPT ![Len(calls)].rets = r]

-----------------------------------------------------------------------------
\* `_ => {}`, and jumps where there is no state machine.
LPlain == /\ \/ Running(Plain \cup {"exitloop", "exitselect", "stop"})
             \/ Running(Jumps) /\ ~StateMachine
          /\ Go(After(pc))

LEnterBody == Running(Containers) /\ \E b \in This.body : Go(At(b, 1))

LSkipBody == Running(Skippable) /\ Go(After(pc))

\* branch_to(header) or branch_to(merge); at the end of a body, ret_default.
LEndOfItems ==
  LET path == prog.path[pc.block]
      up   == path[Len(path)]
  IN
  /\ calls # <<>>
  /\ pc.idx \notin DOMAIN prog.code[pc.block]
  /\ IF path = <<>> THEN ReturnFromFunction
     ELSE IF OpAt(prog, up) \in Loops
     THEN \/ \E b \in prog.code[up.block][up.idx].body : Go(At(b, 1))
          \/ OpAt(prog, up) # "do" /\ Go(After(up))
     ELSE Go(After(up))

\* The block of a label; SM_EXIT_PC for any other name.
Dispatch(l, rets) ==
  LET body == Root(prog, pc.block)
  IN  IF l \in LabelsIn(prog, body)
      THEN /\ pc' = At(body, LabelIdx(prog, body, l))
           /\ calls' = Rets(rets)
           /\ UNCHANGED prog
      ELSE ReturnFromFunction

LGoto == Running({"goto"}) /\ StateMachine /\ Dispatch(This.arg, ThisCall.rets)

\* sm_gosub: push a landing, without a test of the limit, and dispatch.
LGosub == /\ Running({"gosub"}) /\ StateMachine
          /\ Len(ThisCall.rets) < GosubLimit
          /\ Dispatch(This.arg, Append(ThisCall.rets, After(pc)))

\* The address of a label is not translated and reads as 0, the first item.
LJumpExpr ==
  /\ Running({"gotoexpr", "gosubexpr"}) /\ StateMachine
  /\ This.op = "gosubexpr" => Len(ThisCall.rets) < GosubLimit
  /\ pc' = At(Root(prog, pc.block), 1)
  /\ calls' = Rets(IF This.op = "gotoexpr" THEN ThisCall.rets
                   ELSE Append(ThisCall.rets, After(pc)))
  /\ UNCHANGED prog

\* Mutant: the landing stays on the stack.
GosubReturnPeeks ==
  /\ Running({"gosubreturn"})
  /\ IF StateMachine /\ ThisCall.rets # <<>>
     THEN Go(ThisCall.rets[Len(ThisCall.rets)])
     ELSE ReturnFromFunction

\* Pop a landing; with none, or outside a state machine, return.
LGosubReturn ==
  LET rets == ThisCall.rets IN
  /\ Running({"gosubreturn"})
  /\ IF StateMachine /\ rets # <<>>
     THEN /\ pc' = rets[Len(rets)]
          /\ calls' = Rets([n \in 1..(Len(rets) - 1) |-> rets[n]])
          /\ UNCHANGED prog
     ELSE ReturnFromFunction

LReturn == Running({"return"}) /\ ReturnFromFunction

LCall == /\ Running({"call"})
         /\ Len(calls) < MaxCalls
         /\ pc' = At(This.arg, 1)
         /\ calls' = Append(calls, [ret |-> After(pc), rets |-> <<>>])
         /\ UNCHANGED prog

\* A trap, or exit() in a run-time function.
LFault == /\ \/ Running(Evaluating)
             \/ /\ calls # <<>> /\ prog.path[pc.block] # <<>>
                /\ pc.idx \notin DOMAIN prog.code[pc.block]
                /\ OpAt(prog, prog.path[pc.block][Len(prog.path[pc.block])])
                     \in TestedLoops
          /\ Exit

LNext == \/ LPlain \/ LEnterBody \/ LSkipBody \/ LEndOfItems \/ LGoto
         \/ LGosub \/ LJumpExpr \/ LGosubReturn \/ LReturn \/ LCall \/ LFault

LSpec == LInit /\ [][LNext]_lvars
=============================================================================
