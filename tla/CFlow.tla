-------------------------------- MODULE CFlow --------------------------------
(***************************************************************************)
(* Control flow of the C program that CEmitter writes for an IR program    *)
(* (crates/xb-compiler/src/c_emit_stmt.rs, c_emit_select.rs, c_emit.rs and *)
(* the GOSUB stack declared in c_runtime.rs).                              *)
(*                                                                         *)
(* Structured items become structured C, GOTO and GOSUB become goto, so    *)
(* control is a program counter and the C call stack.  GOSUB keeps its     *)
(* return labels on ONE process-wide stack of GosubLimit entries           *)
(* (xb_gosub_stack); each function that uses it notes the height at entry  *)
(* (xb_gosub_base).                                                        *)
(***************************************************************************)
EXTENDS IrProgram

CONSTANTS GosubLimit,        \* 256 in c_runtime.rs
          MaxCalls           \* bound on the C call stack
ASSUME GosubLimitAssumption == GosubLimit \in Nat
ASSUME MaxCallsAssumption == MaxCalls \in Nat

\* The depths at which block b is nested in items whose op is in ops.
Enclosing(p, b, ops) == {k \in DOMAIN p.path[b] : OpAt(p, p.path[b][k]) \in ops}

(***************************************************************************)
(* cc accepts the emitted C: `break` stands in a loop and the label        *)
(* _exit_sel_<id> exists, that is, EXIT SELECT stands in a SELECT.         *)
(***************************************************************************)
Compiles(p) ==
  \A b \in Block : \A i \in DOMAIN p.code[b] :
    /\ p.code[b][i].op = "exitloop"   => Enclosing(p, b, Loops) # {}
    /\ p.code[b][i].op = "exitselect" => Enclosing(p, b, Selects) # {}

ASSUME CompilesAssumption == \A p \in Corpus : Compiles(p)

VARIABLES prog,              \* the program being run
          pc,                \* next item of the running function
          calls,             \* C call stack: return position, xb_gosub_base
          gosubs             \* xb_gosub_stack[0 .. xb_gosub_sp - 1]

cvars == <<prog, pc, calls, gosubs>>

At(b, i) == [block |-> b, idx |-> i]

\* Where control is once the process has ended.
Nowhere == At(Main, 0)

Call == [ret : Pos, base : Nat]

CInit == /\ prog \in Corpus
         /\ pc = At(Main, 1)
         /\ calls = <<[ret |-> Nowhere, base |-> 0]>>
         /\ gosubs = <<>>

After(pos) == At(pos.block, pos.idx + 1)

Running(ops) == /\ calls # <<>>
                /\ pc.idx \in DOMAIN prog.code[pc.block]
                /\ OpAt(prog, pc) \in ops

This == prog.code[pc.block][pc.idx]

ThisCall == calls[Len(calls)]

\* The nearest enclosing item whose op is in ops.
Nearest(ops) == prog.path[pc.block][Innermost(Enclosing(prog, pc.block, ops))]

Jump(pos) == /\ pc' = pos
             /\ UNCHANGED <<calls, gosubs>>

\* The process is gone, and xb_gosub_stack with it.
Exit == /\ pc' = Nowhere
        /\ calls' = <<>>
        /\ gosubs' = <<>>

\* A C `return`: xb_gosub_sp stays where it is.
ReturnFromFunction ==
  IF Len(calls) = 1 THEN Exit
  ELSE /\ pc' = ThisCall.ret
       /\ calls' = [n \in 1..(Len(calls) - 1) |-> calls[n]]
       /\ UNCHANGED gosubs

-----------------------------------------------------------------------------
CPlain == Running(Plain) /\ Jump(After(pc)) /\ UNCHANGED prog

CEnterBody == /\ Running(Containers)
              /\ \E b \in This.body : Jump(At(b, 1))
              /\ UNCHANGED prog

CSkipBody == Running(Skippable) /\ Jump(After(pc)) /\ UNCHANGED prog

\* The closing brace of a body: back to the loop's test, or on to what
\* follows the enclosing item; at the end of a function, return from it.
CEndOfItems ==
  LET path == prog.path[pc.block]
      up   == path[Len(path)]
  IN
  /\ calls # <<>>
  /\ pc.idx \notin DOMAIN prog.code[pc.block]
  /\ IF path = <<>> THEN ReturnFromFunction
     ELSE IF OpAt(prog, up) \in Loops
     THEN \/ \E b \in prog.code[up.block][up.idx].body : Jump(At(b, 1))
          \/ OpAt(prog, up) # "do" /\ Jump(After(up))
     ELSE Jump(After(up))
  /\ UNCHANGED prog

\* `break;` leaves the innermost C loop: SELECT is emitted as an if chain.
CExitLoop == /\ Running({"exitloop"})
             /\ Jump(After(Nearest(Loops)))
             /\ UNCHANGED prog

\* `goto _exit_sel_<id>;` with the id of the innermost SELECT.
CExitSelect == /\ Running({"exitselect"})
               /\ Jump(After(Nearest(Selects)))
               /\ UNCHANGED prog

CGoto == /\ Running({"goto"})
         /\ IF This.arg \in FnLabels(prog, pc.block)
            THEN Jump(LabelPos(prog, pc.block, This.arg))
            ELSE Jump(After(pc))
         /\ UNCHANGED prog

\* Mutant: no test of the limit.
PushUnchecked(pos) == gosubs' = Append(gosubs, pos)

\* `if (xb_gosub_sp < 256) push; goto label;`: at the limit the return label
\* is dropped and the jump is made all the same.
PushReturn(pos) == gosubs' = IF Len(gosubs) < GosubLimit
                             THEN Append(gosubs, pos) ELSE gosubs

CGosub == /\ Running({"gosub"})
          /\ IF This.arg \in FnLabels(prog, pc.block)
             THEN /\ PushReturn(After(pc))
                  /\ pc' = LabelPos(prog, pc.block, This.arg)
                  /\ UNCHANGED calls
             ELSE Jump(After(pc))
          /\ UNCHANGED prog

\* Mutant: xb_gosub_base ignored.
GosubReturnAnyFrame ==
  /\ Running({"gosubreturn"})
  /\ IF gosubs # <<>>
     THEN /\ pc' = gosubs[Len(gosubs)]
          /\ gosubs' = [n \in 1..(Len(gosubs) - 1) |-> gosubs[n]]
          /\ UNCHANGED calls
     ELSE ReturnFromFunction
  /\ UNCHANGED prog

\* `if (xb_gosub_sp > xb_gosub_base) goto *pop; return 0;`
CGosubReturn ==
  /\ Running({"gosubreturn"})
  /\ IF Len(gosubs) > ThisCall.base
     THEN /\ pc' = gosubs[Len(gosubs)]
          /\ gosubs' = [n \in 1..(Len(gosubs) - 1) |-> gosubs[n]]
          /\ UNCHANGED calls
     ELSE ReturnFromFunction
  /\ UNCHANGED prog

\* A computed GOSUB whose address is 0, or at the limit, does nothing.
CGosubExpr ==
  /\ Running({"gosubexpr"})
  /\ IF This.arg \in FnLabels(prog, pc.block) /\ Len(gosubs) < GosubLimit
     THEN /\ PushReturn(After(pc))
          /\ pc' = LabelPos(prog, pc.block, This.arg)
          /\ UNCHANGED calls
     ELSE Jump(After(pc))
  /\ UNCHANGED prog

\* `goto *(void*)addr;`: address 0 is a crash.
CGotoExpr == /\ Running({"gotoexpr"})
             /\ IF This.arg \in FnLabels(prog, pc.block)
                THEN Jump(LabelPos(prog, pc.block, This.arg))
                ELSE Exit
             /\ UNCHANGED prog

CReturn == Running({"return"}) /\ ReturnFromFunction /\ UNCHANGED prog

CStop == Running({"stop"}) /\ Exit /\ UNCHANGED prog

\* Mutant: the height noted one too low.
CallNotesLow ==
  /\ Running({"call"})
  /\ Len(calls) < MaxCalls
  /\ pc' = At(This.arg, 1)
  /\ calls' = Append(calls, [ret |-> After(pc), base |-> Len(gosubs) - 1])
  /\ UNCHANGED <<prog, gosubs>>

CCall == /\ Running({"call"})
         /\ Len(calls) < MaxCalls
         /\ pc' = At(This.arg, 1)
         /\ calls' = Append(calls, [ret |-> After(pc), base |-> Len(gosubs)])
         /\ UNCHANGED <<prog, gosubs>>

\* An expression, or a loop's test, ends the process: xb_quit, abort().
CFault == /\ \/ Running(Evaluating)
             \/ /\ calls # <<>> /\ prog.path[pc.block] # <<>>
                /\ pc.idx \notin DOMAIN prog.code[pc.block]
                /\ OpAt(prog, prog.path[pc.block][Len(prog.path[pc.block])])
                     \in TestedLoops
          /\ Exit
          /\ UNCHANGED prog

CNext == \/ CPlain \/ CEnterBody \/ CSkipBody \/ CEndOfItems
         \/ CExitLoop \/ CExitSelect \/ CGoto \/ CGosub \/ CGosubReturn
         \/ CGosubExpr \/ CGotoExpr \/ CReturn \/ CStop \/ CCall
         \/ CFault

CSpec == CInit /\ [][CNext]_cvars

-----------------------------------------------------------------------------
\* Types of the four variables.
CTypeOK == /\ prog \in Corpus
           /\ pc \in Pos
           /\ calls \in Seq(Call)
           /\ gosubs \in Seq(Pos)

(***************************************************************************)
(* The GOSUB stack stays inside its array, and the heights noted at entry  *)
(* by the active functions rise with the call stack and never exceed the   *)
(* present height, so `--xb_gosub_sp` never underruns a caller's part.     *)
(***************************************************************************)
GosubStackSound ==
  /\ Len(gosubs) <= GosubLimit
  /\ \A m, n \in DOMAIN calls :
       m <= n => calls[m].base <= calls[n].base /\ calls[n].base <= Len(gosubs)

(***************************************************************************)
(* CGEN-GOSUB-SCOPE (docs/17, comment at GosubReturn in c_emit_stmt.rs):   *)
(* while a function runs, the return labels its callers pushed stay where  *)
(* they are, whatever GOSUBs and RETURNs it executes.                      *)
(***************************************************************************)
CallerLabelsKept ==
  calls' # <<>> /\ calls # <<>> =>
    \A n \in 1..ThisCall.base : n <= Len(gosubs') /\ gosubs'[n] = gosubs[n]

CallersLabelsKept == [][CallerLabelsKept]_cvars

-----------------------------------------------------------------------------
(***************************************************************************)
(* A promise the emitted C does not keep, refuted by a run of its own.     *)
(***************************************************************************)
\* RETURN stays in the function that executes it: it "Pop[s] only this
\* function's own GOSUB frames" (c_emit_stmt.rs, GosubReturn).
ReturnPopsOwnFrame ==
  [][Running({"gosubreturn"}) /\ Len(gosubs) > ThisCall.base
     => Root(prog, pc'.block) = Root(prog, pc.block)]_cvars
=============================================================================
