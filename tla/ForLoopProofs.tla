---------------------------- MODULE ForLoopProofs ----------------------------
(***************************************************************************)
(* A regular FOR loop runs over exactly its range, in every engine and for *)
(* every width of integers, as long as bodies keep to what the engine      *)
(* lets them assign.                                                       *)
(***************************************************************************)
EXTENDS ForLoop, TLAPS

\* Bodies leave alone what the engine reads again: the loop variable except
\* in the interpreter, and in C also what end and step are computed from.
Disciplined == \A e \in Engines : /\ "var" \in Assignable[e] => e = "interp"
                                  /\ e = "c" => Assignable[e] = {}

\* What IterationsExact needs to be inductive: before the loop nothing has
\* happened, and in the body the values the next test uses are those of the
\* header.
Captured ==
  /\ at = "start" => pass = 0 /\ lim = loop.end /\ stp = loop.step /\ ~left
  /\ at = "body"  => /\ EndNow = loop.end /\ StepNow = loop.step
                     /\ ~left

Inv == TypeOK /\ Captured /\ IterationsExact

\* The counter of the next pass, and where a loop that ends would have gone.
LEMMA NextValue ==
  ASSUME NEW a \in Int, NEW p \in Int, NEW s \in Int
  PROVE  /\ a + ((p + 1) - 1) * s = (a + (p - 1) * s) + s
         /\ a + p * s = (a + (p - 1) * s) + s
  OBVIOUS

\* A sum that overflows wraps back into i32.
LEMMA WrapInt32 ==
  ASSUME NEW m \in Int32, NEW n \in Int32
  PROVE  /\ Wrap(m + n) \in Int32
         /\ m + n \in Int32 => Wrap(m + n) = m + n
  BY ForAssumption DEF Wrap, Int32

LEMMA HeaderType ==
  ASSUME TypeOK
  PROVE  /\ loop.start \in Int32 /\ loop.end \in Int32 /\ loop.step \in Int32
         /\ loop.neg \in BOOLEAN
         /\ engine \in {"interp", "c", "llvm"}
         /\ pass \in Int /\ MaxPass \in Nat
  BY ForAssumption DEF TypeOK, Header

LEMMA IntRanges ==
  /\ MinInt \in Int /\ MaxInt \in Int /\ MinPtr \in Int /\ MaxPtr \in Int
  /\ MinPtr <= MinInt /\ MaxInt <= MaxPtr
  /\ Int32 \subseteq Int /\ 0 \in Int32
  /\ \A n \in Int32 : n \in Word
  BY ForAssumption DEF Int32, Word

\* Init establishes the invariant.
LEMMA InitInv == Init => Inv
  <1> SUFFICES ASSUME Init PROVE Inv
    OBVIOUS
  <1>1. engine \in Engines /\ loop \in Headers /\ loop \in Header
    BY ForAssumption DEF Init
  <1>2. lim \in Int32 /\ stp \in Int32
    BY <1>1 DEF Init, Header
  <1>3. TypeOK
    <2>1. i \in Word /\ var \in Word /\ ei \in Int32 /\ si \in Int32
      BY IntRanges DEF Init
    <2>2. pass \in 0..MaxPass
      BY ForAssumption DEF Init
    <2> QED BY <1>1, <1>2, <2>1, <2>2 DEF Init, TypeOK
  <1>4. Captured
    BY DEF Init, Captured
  <1>5. IterationsExact
    BY DEF Init, IterationsExact, Exact
  <1> QED BY <1>3, <1>4, <1>5 DEF Inv

\* The test of a pass keeps the types, if the counter it is given has one.
LEMMA HeadType ==
  ASSUME TypeOK, NEW c \in Word, NEW e, NEW s, Head(c, e, s)
  PROVE  /\ i' \in Word /\ var' \in Word
         /\ at' \in {"start", "body", "done", "error"}
         /\ pass' \in 0..MaxPass
  BY ForAssumption DEF Head, TypeOK

\* The test of a regular loop, given the header's end and step and a counter
\* that the passes so far lead to, keeps the passes exact.
LEMMA HeadExact ==
  ASSUME TypeOK, Regular, ~left,
         NEW c \in Word, c = loop.start + pass * loop.step,
         Head(c, loop.end, loop.step), pass' < MaxPass,
         UNCHANGED <<engine, loop, left>>
  PROVE  Exact'
  <1> DEFINE goesOn == IF Ascending(loop.step) THEN c <= loop.end ELSE c >= loop.end
  <1>1. loop.end \in Int /\ loop.step \in Int /\ loop.start \in Int /\ c \in Int
        /\ pass \in Int /\ MaxPass \in Nat /\ pass <= MaxPass
        /\ loop.neg \in BOOLEAN /\ engine \in {"interp", "c", "llvm"}
    BY HeaderType, IntRanges, ForAssumption DEF TypeOK, Word, Int32
  <1>2. goesOn <=> ~Beyond(c)
    BY <1>1 DEF Ascending, Beyond, Regular
  <1>3. CASE goesOn
    <2>1. at' = "body" /\ Counter' = c /\ pass' = pass + 1
      BY <1>1, <1>3 DEF Head, Counter
    <2>2. Counter' = loop.start + (pass' - 1) * loop.step
      BY <2>1, <1>1
    <2> QED BY <2>1, <2>2, <1>2, <1>3 DEF Exact, Beyond
  <1>4. CASE ~goesOn
    <2>1. at' = "done" /\ pass' = pass
      BY <1>1, <1>4 DEF Head
    <2> QED BY <2>1, <1>2, <1>4 DEF Exact, Beyond
  <1> QED BY <1>3, <1>4

\* StartLoop: the first test.
LEMMA StartLoopInv == Inv /\ StartLoop => Inv'
  <1> SUFFICES ASSUME Inv, StartLoop PROVE Inv'
    OBVIOUS
  <1> USE DEF Inv
  <1>1. /\ at = "start" /\ pass = 0 /\ lim = loop.end /\ stp = loop.step /\ ~left
        /\ ei' = loop.end /\ si' = loop.step
        /\ UNCHANGED <<engine, loop, lim, stp, left>>
    BY DEF StartLoop, Captured
  <1>2. loop.start \in Word /\ loop.end \in Int32 /\ loop.step \in Int32
    BY HeaderType, IntRanges
  <1>3. CASE engine = "interp" /\ stp = 0
    <2>1. at' = "error" /\ UNCHANGED <<i, var, pass>> /\ ~Regular'
      BY <1>1, <1>3 DEF StartLoop, Regular
    <2>2. TypeOK'
      BY <1>1, <1>2, <2>1 DEF TypeOK, Word
    <2> QED BY <2>1, <2>2 DEF Captured, IterationsExact
  <1>4. CASE ~(engine = "interp" /\ stp = 0)
    <2>1. Head(loop.start, loop.end, loop.step)
      BY <1>1, <1>4 DEF StartLoop
    <2>2. TypeOK'
      BY <1>1, <1>2, <2>1, HeadType DEF TypeOK, Word
    <2>3. Captured'
      BY <1>1, <2>1 DEF Captured, Head, EndNow, StepNow
    <2>4. loop.start = loop.start + pass * loop.step
      <3>1. loop.start \in Int /\ loop.step \in Int
        BY HeaderType, IntRanges
      <3> QED BY <1>1, <3>1
    <2>5. IterationsExact'
      BY <1>1, <1>2, <2>1, <2>4, HeadExact DEF IterationsExact, Regular
    <2> QED BY <2>2, <2>3, <2>5
  <1> QED BY <1>3, <1>4

\* NextIteration: the counter goes up by the step and is tested.
LEMMA NextIterationInv == Inv /\ NextIteration => Inv'
  <1> SUFFICES ASSUME Inv, NextIteration PROVE Inv'
    OBVIOUS
  <1> USE DEF Inv
  <1> DEFINE next == Counter + StepNow
             c == IF engine = "c" THEN next ELSE Wrap(next)
  <1>1. /\ at = "body" /\ EndNow = loop.end /\ StepNow = loop.step /\ ~left
        /\ UNCHANGED <<engine, loop, ei, si, lim, stp, left>>
    BY DEF NextIteration, Captured
  <1>2. /\ loop.start \in Int32 /\ loop.end \in Int32 /\ loop.step \in Int32
        /\ Counter \in Word /\ Counter \in Int /\ pass \in Int
    BY HeaderType, IntRanges DEF TypeOK, Counter, Word, Int32
  <1>3. engine # "c" => Counter \in Int32
    BY <1>2 DEF Word
  <1>4. ASSUME Regular, pass < MaxPass
        PROVE  /\ next = loop.start + pass * loop.step
               /\ next \in Word
               /\ c = next
    <2>1. Counter = loop.start + (pass - 1) * loop.step /\ ~Beyond(Counter)
      BY <1>1, <1>4 DEF IterationsExact, Exact
    <2>2. loop.start \in Int /\ loop.step \in Int /\ loop.end \in Int
      BY <1>2, IntRanges
    <2>3. next = Counter + loop.step
      BY <1>1
    <2>4. next = loop.start + pass * loop.step
      <3>1. Counter = loop.start + (pass - 1) * loop.step
        BY <2>1, <2>2
      <3>2. loop.start \in Int /\ pass \in Int /\ loop.step \in Int
        BY <1>2, IntRanges
      <3>3. loop.start + pass * loop.step
              = (loop.start + (pass - 1) * loop.step) + loop.step
        BY <3>2, NextValue, Zenon
      <3> HIDE DEF next
      <3> QED BY <2>3, <3>1, <3>3, Zenon
    <2>5. next \in Word
      BY SMTT(60), <1>2, <1>3, <1>4, <2>1, <2>2, <2>3, IntRanges
         DEF Beyond, Regular, Word, Int32
    <2>6. c = next
      BY <1>2, <1>3, <2>3, <2>5, WrapInt32 DEF Word
    <2> QED BY <2>4, <2>5, <2>6
  <1>5. engine # "c" => Wrap(next) \in Int32
    BY <1>1, <1>2, <1>3, WrapInt32
  <1>6. CASE Head(c, EndNow, StepNow) /\ (engine = "c" => next \in MinPtr..MaxPtr)
    <2>1. c \in Word
      BY <1>5, <1>6 DEF Word
    <2>2. Head(c, loop.end, loop.step)
      BY <1>1, <1>6
    <2>3. TypeOK'
      <3>1. /\ i' \in Word /\ var' \in Word /\ pass' \in 0..MaxPass
            /\ at' \in {"start", "body", "done", "error"}
        BY <2>1, <2>2, HeadType
      <3> QED BY <1>1, <3>1 DEF TypeOK, Word
    <2>4. Captured'
      BY <1>1, <2>2 DEF Captured, Head, EndNow, StepNow
    <2>5. ASSUME Regular', pass' < MaxPass PROVE Exact'
      <3>1. Regular
        BY <1>1, <2>5 DEF Regular
      <3>2. pass < MaxPass
        BY <1>2, <2>2, <2>5, HeaderType DEF Head
      <3>3. c = loop.start + pass * loop.step
        BY <1>4, <3>1, <3>2
      <3> QED BY <1>1, <2>1, <2>2, <2>5, <3>1, <3>3, HeadExact
    <2>6. IterationsExact'
      BY <2>5 DEF IterationsExact
    <2> QED BY <2>3, <2>4, <2>6
  <1>7. CASE /\ \/ engine = "interp" /\ next \notin Int32
                \/ engine = "c" /\ next \notin MinPtr..MaxPtr
             /\ at' = "error" /\ UNCHANGED <<i, var, pass>>
    <2>1. ~(Regular /\ pass < MaxPass)
      BY <1>4, <1>7 DEF Word
    <2>2. TypeOK'
      BY <1>1, <1>7 DEF TypeOK, Word
    <2>3. Captured'
      BY <1>7 DEF Captured
    <2>4. IterationsExact'
      BY <1>1, <1>7, <2>1 DEF IterationsExact, Regular
    <2> QED BY <2>2, <2>3, <2>4
  <1> QED BY <1>6, <1>7 DEF NextIteration

\* The other steps: EXIT FOR, and assignments of the body.
LEMMA BodyInv ==
  ASSUME Inv, Disciplined,
         ExitFor \/ \E v \in Value : AssignVar(v) \/ AssignEnd(v) \/ AssignStep(v)
  PROVE  Inv'
  <1> USE DEF Inv
  <1>0. engine \in Engines /\ Value \subseteq Int32
    BY ForAssumption DEF TypeOK
  <1>1. CASE ExitFor
    <2>1. /\ at = "body" /\ at' = "done" /\ left'
          /\ UNCHANGED <<engine, loop, i, ei, si, var, lim, stp, pass>>
      BY <1>1 DEF ExitFor
    <2>2. TypeOK'
      BY <2>1, <1>1 DEF TypeOK, Word, ExitFor
    <2> QED BY <2>1, <2>2 DEF Captured, IterationsExact, Exact, Regular
  <1>2. ASSUME NEW v \in Value, AssignVar(v) PROVE Inv'
    <2>1. /\ engine = "interp" /\ at = "body" /\ var' = v
          /\ UNCHANGED <<engine, loop, at, i, ei, si, lim, stp, pass, left>>
      BY <1>0, <1>2 DEF AssignVar, Disciplined
    <2>2. TypeOK'
      BY <1>0, <2>1 DEF TypeOK, Word
    <2>3. Captured'
      BY <2>1 DEF Captured, EndNow, StepNow
    <2>4. IterationsExact'
      BY <2>1 DEF IterationsExact, Exact, Regular, Counter, Beyond
    <2> QED BY <2>2, <2>3, <2>4
  <1>3. ASSUME NEW v \in Value, AssignEnd(v) \/ AssignStep(v) PROVE Inv'
    <2>1. /\ engine # "c" /\ at = "body" /\ lim' \in Int32 /\ stp' \in Int32
          /\ UNCHANGED <<engine, loop, at, i, ei, si, var, pass, left>>
      BY <1>0, <1>3 DEF AssignEnd, AssignStep, Disciplined, TypeOK
    <2>2. TypeOK'
      BY <2>1 DEF TypeOK, Word
    <2>3. Captured'
      BY <2>1 DEF Captured, EndNow, StepNow
    <2>4. IterationsExact'
      BY <2>1 DEF IterationsExact, Exact, Regular, Counter, Beyond
    <2> QED BY <2>2, <2>3, <2>4
  <1> QED BY <1>1, <1>2, <1>3

(***************************************************************************)
(* In every engine, for every width of integers and every header, a        *)
(* regular loop with a disciplined body runs over exactly its range        *)
(* (exec_for, the C for statement, the LLVM blocks).                       *)
(***************************************************************************)
THEOREM RegularLoopsExact ==
  ASSUME Disciplined PROVE Spec => []IterationsExact
  <1>1. Init => Inv
    BY InitInv
  <1>2. Inv /\ [Next]_vars => Inv'
    <2> SUFFICES ASSUME Inv, [Next]_vars PROVE Inv'
      OBVIOUS
    <2>1. CASE UNCHANGED vars
      <3>1. TypeOK' /\ Captured'
        BY <2>1 DEF Inv, vars, TypeOK, Word, Captured, EndNow, StepNow
      <3>2. IterationsExact'
        BY <2>1 DEF Inv, vars, IterationsExact, Exact, Regular, Counter, Beyond
      <3> QED BY <3>1, <3>2 DEF Inv
    <2> QED BY <2>1, StartLoopInv, NextIterationInv, BodyInv DEF Next
  <1>3. Inv => IterationsExact
    BY DEF Inv
  <1> QED BY <1>1, <1>2, <1>3, PTL DEF Spec

(***************************************************************************)
(* Types alone need no discipline: whatever the bodies assign, in every    *)
(* engine, no step takes a counter out of its word.                        *)
(***************************************************************************)
LEMMA TypeStep == TypeOK /\ Next => TypeOK'
  <1> SUFFICES ASSUME TypeOK, Next PROVE TypeOK'
    OBVIOUS
  <1>1. engine \in {"interp", "c", "llvm"} /\ Value \subseteq Int32
    BY HeaderType, ForAssumption
  <1>2. CASE StartLoop
    <2>1. loop.start \in Word
      BY HeaderType, IntRanges
    <2>2. /\ i' \in Word /\ var' \in Word /\ pass' \in 0..MaxPass
          /\ at' \in {"start", "body", "done", "error"}
      BY <1>2, <2>1, HeadType DEF StartLoop, TypeOK
    <2> QED BY <1>2, <2>2 DEF StartLoop, TypeOK, Word
  <1>3. CASE NextIteration
    <2> DEFINE next == Counter + StepNow
               c == IF engine = "c" THEN next ELSE Wrap(next)
    <2>1. engine # "c" => Counter \in Int32 /\ StepNow \in Int32
      BY DEF TypeOK, Word, Counter, StepNow
    <2>2. engine # "c" => Wrap(next) \in Int32
      BY <2>1, WrapInt32
    <2>3. CASE (engine = "c" => next \in MinPtr..MaxPtr) /\ Head(c, EndNow, StepNow)
      <3>1. c \in Word
        BY <2>2, <2>3 DEF Word
      <3>2. /\ i' \in Word /\ var' \in Word /\ pass' \in 0..MaxPass
            /\ at' \in {"start", "body", "done", "error"}
        BY <2>3, <3>1, HeadType
      <3> QED BY <1>3, <3>2 DEF NextIteration, TypeOK, Word
    <2>4. CASE at' = "error" /\ UNCHANGED <<i, var, pass>>
      BY <1>3, <2>4 DEF NextIteration, TypeOK, Word
    <2> QED BY <1>3, <2>3, <2>4 DEF NextIteration
  <1>4. CASE ExitFor
    BY <1>4 DEF ExitFor, TypeOK, Word
  <1>5. ASSUME NEW v \in Value, AssignVar(v) \/ AssignEnd(v) \/ AssignStep(v)
        PROVE  TypeOK'
    <2>1. v \in Int32 /\ v \in Word
      BY <1>1, <1>5, IntRanges
    <2> QED BY <1>5, <2>1 DEF AssignVar, AssignEnd, AssignStep, TypeOK, Word
  <1> QED BY <1>2, <1>3, <1>4, <1>5 DEF Next

(***************************************************************************)
(* The counter, the loop variable, the end and the step stay within i32,   *)
(* or in C within intptr_t, in every run of every header.                  *)
(***************************************************************************)
THEOREM LoopsTyped == Spec => []TypeOK
  <1>1. Init => TypeOK
    BY InitInv DEF Inv
  <1>2. TypeOK /\ [Next]_vars => TypeOK'
    <2>1. TypeOK /\ UNCHANGED vars => TypeOK'
      BY DEF TypeOK, Word, vars
    <2> QED BY <2>1, TypeStep
  <1> QED BY <1>1, <1>2, PTL DEF Spec
=============================================================================
