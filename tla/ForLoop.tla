------------------------------- MODULE ForLoop -------------------------------
(***************************************************************************)
(* FOR var = start TO end STEP step ... NEXT in the three engines:         *)
(*   "interp"  exec_for (crates/xb-runtime/src/eval.rs),                   *)
(*   "c"       the C for statement CEmitter writes (c_emit_stmt.rs),       *)
(*   "llvm"    the basic blocks of the LLVM backend (xb-compiler lib.rs).  *)
(* They differ in what they keep apart: the interpreter counts in a Rust   *)
(* variable of its own; the interpreter and LLVM evaluate end and step     *)
(* once, C at every pass; LLVM looks at the sign of the step at run time,  *)
(* C at whether the emitter saw a literal with a '-'.                      *)
(***************************************************************************)
EXTENDS Integers

CONSTANTS MinInt, MaxInt,   \* the range of an i32
          MinPtr, MaxPtr,   \* the range of an intptr_t
          Headers,          \* FOR headers: start, end, step, neg
          Engines,          \* the engines considered
          Assignable,       \* what the body may assign, for each engine
          Value,            \* the values it assigns
          MaxPass           \* passes are counted up to here

Int32 == MinInt..MaxInt

Header == [start : Int32, end : Int32, step : Int32, neg : BOOLEAN]

ASSUME ForAssumption ==
  /\ MinInt \in Int /\ MaxInt \in Int /\ 0 \in Int32
  /\ MinPtr \in Int /\ MaxPtr \in Int /\ Int32 \subseteq MinPtr..MaxPtr
  /\ Headers \subseteq Header
  /\ Engines \subseteq {"interp", "c", "llvm"}
  /\ Assignable \in [Engines -> SUBSET {"var", "lim", "stp"}]
  /\ Value \subseteq Int32
  /\ MaxPass \in Nat

VARIABLES engine, loop,     \* the engine and the loop it runs
          at,               \* "start", "body", "done" or "error"
          i, ei, si,        \* the interpreter's counter; end and step as
                            \* evaluated on entry
          var, lim, stp,    \* the loop variable; the variables that the
                            \* expressions for end and step read
          pass,             \* history: how often the body was started
          left              \* history: was the loop left by EXIT FOR?

vars == <<engine, loop, at, i, ei, si, var, lim, stp, pass, left>>

Init == /\ engine \in Engines
        /\ loop \in Headers
        /\ at = "start"
        /\ i = 0 /\ ei = 0 /\ si = 0
        /\ var = 0 /\ lim = loop.end /\ stp = loop.step
        /\ pass = 0 /\ left = FALSE

\* Mutant: a sum is kept as it is.
Unwrapped(n) == n

\* The i32 that a sum wraps to.
Wrap(n) == IF n > MaxInt THEN n - (MaxInt - MinInt + 1)
           ELSE IF n < MinInt THEN n + (MaxInt - MinInt + 1)
           ELSE n

\* `for i <= end` or `for i >= end`?
Ascending(s) == \/ engine = "interp" /\ s > 0
                \/ engine = "llvm" /\ s >= 0
                \/ engine = "c" /\ ~loop.neg

\* The test before each pass.  The interpreter sets its loop variable only
\* when the body is about to run.
Head(c, e, s) ==
  LET goesOn == IF Ascending(s) THEN c <= e ELSE c >= e IN
  /\ i' = c
  /\ at' = IF goesOn THEN "body" ELSE "done"
  /\ var' = IF goesOn \/ engine # "interp" THEN c ELSE var
  /\ pass' = IF goesOn /\ pass < MaxPass THEN pass + 1 ELSE pass

\* Entry; a step of 0 is an error in the interpreter only.
StartLoop ==
  /\ at = "start"
  /\ ei' = lim /\ si' = stp
  /\ IF engine = "interp" /\ stp = 0
     THEN at' = "error" /\ UNCHANGED <<i, var, pass>>
     ELSE Head(loop.start, lim, stp)
  /\ UNCHANGED <<engine, loop, lim, stp, left>>

Counter == IF engine = "interp" THEN i ELSE var
EndNow  == IF engine = "c" THEN lim ELSE ei
StepNow == IF engine = "c" THEN stp ELSE si

\* Mutant: the pass at end goes back to the body without counting.
RepeatLastPass ==
  /\ at = "body"
  /\ IF Counter = EndNow THEN UNCHANGED <<at, i, var, pass>>
     ELSE Head(Wrap(Counter + StepNow), EndNow, StepNow)
  /\ UNCHANGED <<engine, loop, ei, si, lim, stp, left>>

\* Mutant: the interpreter counts in the loop variable.
CountInVar ==
  /\ at = "body"
  /\ Head(var + StepNow, EndNow, StepNow)
  /\ UNCHANGED <<engine, loop, ei, si, lim, stp, left>>

\* NEXT.  Past the range of i32 the interpreter wraps (release) or panics
\* (debug) and LLVM wraps.  The C variable is an intptr_t, past whose range
\* the program is undefined and is not followed.
NextIteration ==
  LET next == Counter + StepNow IN
  /\ at = "body"
  /\ \/ /\ engine = "c" => next \in MinPtr..MaxPtr
        /\ Head(IF engine = "c" THEN next ELSE Wrap(next), EndNow, StepNow)
     \/ /\ \/ engine = "interp" /\ next \notin Int32
           \/ engine = "c" /\ next \notin MinPtr..MaxPtr
        /\ at' = "error" /\ UNCHANGED <<i, var, pass>>
  /\ UNCHANGED <<engine, loop, ei, si, lim, stp, left>>

\* EXIT FOR, or any other way out of the body.
ExitFor == /\ at = "body"
           /\ at' = "done" /\ left' = TRUE
           /\ UNCHANGED <<engine, loop, i, ei, si, var, lim, stp, pass>>

\* The body assigns a variable that the header mentions.
AssignVar(v) == /\ at = "body" /\ "var" \in Assignable[engine]
                /\ var' = v
                /\ UNCHANGED <<engine, loop, at, i, ei, si, lim, stp, pass, left>>

AssignEnd(v) == /\ at = "body" /\ "lim" \in Assignable[engine]
                /\ lim' = v
                /\ UNCHANGED <<engine, loop, at, i, ei, si, var, stp, pass, left>>

AssignStep(v) == /\ at = "body" /\ "stp" \in Assignable[engine]
                 /\ stp' = v
                 /\ UNCHANGED <<engine, loop, at, i, ei, si, var, lim, pass, left>>

Next == \/ StartLoop \/ NextIteration \/ ExitFor
        \/ \E v \in Value : AssignVar(v) \/ AssignEnd(v) \/ AssignStep(v)

\* A body that is started comes to its end.
Spec == Init /\ [][Next]_vars /\ WF_vars(StartLoop) /\ WF_vars(NextIteration)

-----------------------------------------------------------------------------
\* What the engine's variables can hold.
Word == IF engine = "c" THEN MinPtr..MaxPtr ELSE Int32

\* Types of the variables.
TypeOK == /\ engine \in Engines /\ loop \in Headers
          /\ at \in {"start", "body", "done", "error"}
          /\ i \in Word /\ var \in Word
          /\ ei \in Int32 /\ si \in Int32 /\ lim \in Int32 /\ stp \in Int32
          /\ pass \in 0..MaxPass /\ left \in BOOLEAN

\* Headers with a step other than 0 whose last sum is still an i32; for C, the
\* emitter must also have picked the comparison that suits the step.
Regular == /\ loop.step # 0
           /\ loop.end + loop.step \in Int32
           /\ engine = "c" => (loop.neg <=> loop.step < 0)

Beyond(c) == IF loop.step > 0 THEN c > loop.end ELSE c < loop.end

\* In the k-th pass the counter is start + (k - 1) * step and not beyond end;
\* unless EXIT FOR was taken, the loop is over only when the next value would
\* be beyond end.
Exact == /\ at = "body" => /\ Counter = loop.start + (pass - 1) * loop.step
                           /\ ~Beyond(Counter)
         /\ at = "done" /\ ~left => Beyond(loop.start + pass * loop.step)
         /\ at # "error"

(***************************************************************************)
(* A regular loop runs its body once for each of start, start + step, ...  *)
(* up to end, whatever the body assigns (within Assignable) to the loop    *)
(* variable or to what end and step were computed from.                    *)
(***************************************************************************)
IterationsExact == Regular /\ pass < MaxPass => Exact

\* A regular loop comes to its end, whatever its body assigns.
RegularLoopsEnd == Regular ~> at \in {"done", "error"}

=============================================================================
