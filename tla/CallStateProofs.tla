--------------------------- MODULE CallStateProofs ---------------------------
(***************************************************************************)
(* Proofs about CallState, for any depth of calls, any variables and any   *)
(* argument lists: copying in and out is as good as a reference            *)
(* (ByRefTransparent), standard input is one stream and the error code is  *)
(* one (InputInOrder, ErrorCodeIsLast).                                    *)
(***************************************************************************)
EXTENDS CallState, WellFoundedInduction, TLAPS

-----------------------------------------------------------------------------
(***************************************************************************)
(* Argument lists and variables.                                           *)
(***************************************************************************)
ArgList == ArgLists \cup {<<>>}

LEMMA ArgTypes ==
  ASSUME NEW al \in ArgList
  PROVE  /\ Len(al) \in Nat /\ DOMAIN al = 1..Len(al)
         /\ \A k \in DOMAIN al : /\ al[k].param \in Local
                                 /\ al[k].byref \in BOOLEAN
                                 /\ al[k].from \in Var
         /\ \A k, m \in DOMAIN al : al[k].param = al[m].param => k = m
<1>1. al \in Seq(Arg)
  <2>1. <<>> \in Seq(Arg)
    OBVIOUS
  <2> QED
    BY <2>1, CallAssumption DEF ArgList
<1>2. \A k \in DOMAIN al : al[k] \in Arg
  BY <1>1
<1>3. \A a \in Arg : a.param \in Local /\ a.byref \in BOOLEAN /\ a.from \in Var
  BY DEF Arg
<1>4. \A k, m \in DOMAIN al : al[k].param = al[m].param => k = m
  BY CallAssumption DEF ArgList
<1> QED BY <1>1, <1>2, <1>3, <1>4

\* A variable is a local or a shared one.
LEMMA VarCases ==
  ASSUME NEW v \in Var
  PROVE  \/ v[1] = "local" /\ v[2] \in Local /\ v = <<"local", v[2]>>
         \/ v[1] = "shared" /\ v[2] \in Shared /\ v = <<"shared", v[2]>>
BY DEF Var

\* The argument for a parameter is the one with its name.
LEMMA ArgForParam ==
  ASSUME NEW al \in ArgList
  PROVE  /\ \A k \in DOMAIN al : al[k].param \in ParamsOf(al)
                                 /\ ArgFor(al, al[k].param) = al[k]
         /\ \A x \in ParamsOf(al) : \E k \in DOMAIN al :
              al[k].param = x /\ ArgFor(al, x) = al[k]
<1>1. ASSUME NEW x \in ParamsOf(al)
      PROVE  \E k \in DOMAIN al : al[k].param = x /\ ArgFor(al, x) = al[k]
  <2>1. \E k \in DOMAIN al : al[k].param = x
    BY DEF ParamsOf
  <2> QED BY <2>1 DEF ArgFor
<1>2. ASSUME NEW k \in DOMAIN al
      PROVE  al[k].param \in ParamsOf(al) /\ ArgFor(al, al[k].param) = al[k]
  <2>1. al[k].param \in ParamsOf(al)
    BY DEF ParamsOf
  <2>2. PICK m \in DOMAIN al : al[m].param = al[k].param
                               /\ ArgFor(al, al[k].param) = al[m]
    BY <1>1, <2>1
  <2> QED BY <2>1, <2>2, ArgTypes
<1> QED BY <1>1, <1>2

\* What is passed for a parameter.
LEMMA ArgForType ==
  ASSUME NEW al \in ArgList, NEW x \in ParamsOf(al)
  PROVE  ArgFor(al, x).byref \in BOOLEAN /\ ArgFor(al, x).from \in Var
BY ArgForParam, ArgTypes

\* If some `@` argument names v, the last one does.
LEMMA LastRefExists ==
  ASSUME NEW al \in ArgList, NEW v, HasRef(al, v)
  PROVE  /\ LastRef(al, v) \in DOMAIN al
         /\ al[LastRef(al, v)].byref /\ al[LastRef(al, v)].from = v
<1> DEFINE is == {k \in DOMAIN al : al[k].byref /\ al[k].from = v}
           n == Len(al)
           D == {n - j : j \in is}
           R == OpToRel(<, Nat)
<1>1. n \in Nat /\ is \subseteq 1..n /\ is # {}
  BY ArgTypes DEF HasRef
<1>2. D \subseteq Nat /\ D # {}
  BY <1>1
<1>3. PICK d \in D : \A e \in D : ~(<<e, d>> \in R)
  BY <1>2, NatLessThanWellFounded, WFMin
<1>4. \A e \in D : ~(e < d)
  BY <1>2, <1>3 DEF OpToRel
<1>5. PICK k \in is : d = n - k
  OBVIOUS
<1>6. ASSUME NEW j \in is PROVE j <= k
  <2>1. ~(n - j < n - k)
    BY <1>4, <1>5
  <2>2. j \in 1..n /\ k \in 1..n /\ n \in Nat
    BY <1>1
  <2> HIDE DEF is, n, D
  <2> QED BY <2>1, <2>2
<1>7. LastRef(al, v) \in is
  BY <1>5, <1>6 DEF LastRef
<1> QED BY <1>7

-----------------------------------------------------------------------------
(***************************************************************************)
(* Types.                                                                  *)
(***************************************************************************)
LEMMA StateFields ==
  ASSUME NEW st \in State
  PROVE  /\ st.slots \in [Local -> Value] /\ st.shared \in [Shared -> Value]
         /\ st.input_pos \in 0..Lines /\ st.error_code \in Code
         /\ st.data_len \in {0, DataLen} /\ st.data_pos \in 0..DataLen
         /\ st.gui_close_sent \in BOOLEAN
BY DEF State

LEMMA Stacks ==
  ASSUME TypeOK
  PROVE  /\ Depth \in Nat \ {0} /\ Depth <= MaxDepth
         /\ \A j \in 1..Depth : /\ states[j] \in State
                                /\ args[j] \in ArgList
                                /\ env[j] \in [Local -> Cell]
         /\ DOMAIN states = 1..Depth /\ DOMAIN env = 1..Depth
         /\ DOMAIN args = 1..Depth
         /\ Top \in State
<1>1. Depth \in Nat \ {0} /\ Depth <= MaxDepth
  BY CallAssumption DEF TypeOK
<1>2. /\ states \in Seq(State) /\ Len(states) = Depth
      /\ args \in Seq(ArgList) /\ Len(args) = Depth
      /\ env \in Seq([Local -> Cell]) /\ Len(env) = Depth
  BY DEF TypeOK, Depth, ArgList
<1> HIDE DEF ArgList
<1>3. Top \in State
  BY <1>1, <1>2 DEF Top
<1> QED
  BY <1>1, <1>2, <1>3

\* A field of a state given a new value.
LEMMA FieldsWritten ==
  ASSUME NEW st \in State
  PROVE  /\ \A n \in 0..Lines : [st EXCEPT !.input_pos = n] \in State
         /\ \A n \in Code : [st EXCEPT !.error_code = n] \in State
         /\ \A n \in 0..DataLen : [st EXCEPT !.data_pos = n] \in State
         /\ [st EXCEPT !.gui_close_sent = TRUE] \in State
BY DEF State

\* A function on 1..n is a sequence.
LEMMA SeqOfFunction ==
  ASSUME NEW S, NEW n \in Nat, NEW f \in [1..n -> S]
  PROVE  f \in Seq(S) /\ Len(f) = n /\ DOMAIN f = 1..n
OBVIOUS

\* OnTop changes the state of the running function only.
LEMMA OnTopFacts ==
  ASSUME TypeOK, NEW st, OnTop(st)
  PROVE  /\ Depth' = Depth /\ Top' = st
         /\ DOMAIN states' = 1..Depth /\ states'[Depth] = st
         /\ \A j \in 1..Depth : j # Depth => states'[j] = states[j]
         /\ st \in State => states' \in Seq(State)
<1>1. states \in Seq(State) /\ Depth \in 1..Len(states) /\ Len(states) \in Nat
  BY Stacks DEF TypeOK, Depth
<1>2. states' = [states EXCEPT ![Depth] = st]
  BY DEF OnTop
<1>3. /\ Len(states') = Len(states) /\ states'[Depth] = st
      /\ DOMAIN states' = 1..Len(states)
      /\ \A j \in 1..Len(states) : j # Depth => states'[j] = states[j]
      /\ st \in State => states' \in Seq(State)
  BY <1>1, <1>2
<1>4. Depth' = Depth
  BY <1>3 DEF Depth
<1> QED
  BY <1>3, <1>4 DEF Depth, Top

LEMMA OnTopTypeOK ==
  ASSUME TypeOK, NEW st \in State, OnTop(st), UNCHANGED <<args, fault, env>>,
         mem' \in [Cell -> Value], taken' \in Seq(1..Lines), err' \in Code
  PROVE  TypeOK'
BY OnTopFacts DEF TypeOK

\* Every variable of the running function has a value and a cell.
LEMMA ValueAndCell ==
  ASSUME TypeOK, NEW v \in Var
  PROVE  ValueOf(Top, v) \in Value /\ CellOf(v) \in Cell
<1>1. Top \in State /\ Depth \in 1..Depth /\ env[Depth] \in [Local -> Cell]
  BY Stacks
<1>2. Top.slots \in [Local -> Value] /\ Top.shared \in [Shared -> Value]
  BY <1>1, StateFields
<1> QED
  BY <1>1, <1>2, VarCases DEF ValueOf, CellOf, Cell

-----------------------------------------------------------------------------
(***************************************************************************)
(* Every step keeps the types.                                             *)
(***************************************************************************)
LEMMA InitTypes == Init => TypeOK
<1> SUFFICES ASSUME Init PROVE TypeOK
  OBVIOUS
<1> DEFINE st == [slots |-> [x \in Local |-> Zero],
                  shared |-> [s \in Shared |-> Zero],
                  input_pos |-> 0, error_code |-> Zero,
                  data_len |-> DataLen, data_pos |-> 0,
                  gui_close_sent |-> FALSE]
           e == [x \in Local |-> <<1, x>>]
<1>1. st \in State
  BY CallAssumption DEF State
<1>2. e \in [Local -> Cell]
  BY CallAssumption DEF Cell
<1>3. states = <<st>> /\ env = <<e>> /\ args = <<<<>>>>
  BY DEF Init
<1> HIDE DEF st, e
<1>4. /\ states \in Seq(State) /\ Len(states) = 1
      /\ env \in Seq([Local -> Cell]) /\ Len(env) = 1
  BY <1>1, <1>2, <1>3
<1>5. args \in Seq(ArgList) /\ Len(args) = 1
  BY <1>3 DEF ArgList
<1>6. mem \in [Cell -> Value] /\ taken \in Seq(1..Lines) /\ err \in Code
  BY CallAssumption DEF Init
<1>7. Depth \in 1..MaxDepth
  BY <1>4, CallAssumption DEF Depth
<1>8. fault \in BOOLEAN
  BY DEF Init
<1> QED
  BY <1>4, <1>5, <1>6, <1>7, <1>8 DEF TypeOK, Depth, ArgList

\* A variable is assigned: in the state of the running function and in its
\* cell.
LEMMA CellWritten ==
  ASSUME TypeOK, NEW c \in Cell, NEW v \in Value
  PROVE  [mem EXCEPT ![c] = v] \in [Cell -> Value]
BY DEF TypeOK

LEMMA SlotWritten ==
  ASSUME NEW st \in State, NEW x \in Local, NEW v \in Value
  PROVE  [st EXCEPT !.slots[x] = v] \in State
BY DEF State

LEMMA CallTypes ==
  ASSUME TypeOK, NEW al \in ArgLists, CallFunction(al)
  PROVE  TypeOK'
<1>1. /\ states \in Seq(State) /\ args \in Seq(ArgList) /\ env \in Seq([Local -> Cell])
      /\ Len(states) = Depth /\ Len(args) = Depth /\ Len(env) = Depth
      /\ Depth \in Nat \ {0} /\ Depth + 1 \in 1..MaxDepth
      /\ MaxDepth \in Nat
      /\ al \in ArgList
  BY Stacks, CallAssumption DEF TypeOK, CallFunction, Depth, ArgList
<1>2. \A x \in ParamsOf(al) : /\ ArgFor(al, x).from \in Var
                              /\ ValueOf(Top, ArgFor(al, x).from) \in Value
                              /\ CellOf(ArgFor(al, x).from) \in Cell
  BY <1>1, ArgForType, ValueAndCell
<1>3. Callee(al) \in State
  <2>1. Top \in State
    BY Stacks
  <2>2. [x \in Local |-> IF x \in ParamsOf(al)
                         THEN ValueOf(Top, ArgFor(al, x).from) ELSE Zero]
          \in [Local -> Value]
    BY <1>2, CallAssumption
  <2> QED
    BY <2>1, <2>2, StateFields, CallAssumption DEF Callee, State
<1>4. CalleeEnv(al) \in [Local -> Cell]
  BY <1>1, <1>2 DEF CalleeEnv, Cell
<1>5. CalleeMem(al) \in [Cell -> Value]
  <2>1. mem \in [Cell -> Value] /\ Zero \in Value
    BY CallAssumption DEF TypeOK
  <2> QED
    BY <1>2, <2>1 DEF CalleeMem
<1>6. /\ states' \in Seq(State) /\ Len(states') = Depth + 1
      /\ args' \in Seq(ArgList) /\ Len(args') = Depth + 1
      /\ env' \in Seq([Local -> Cell]) /\ Len(env') = Depth + 1
  BY <1>1, <1>3, <1>4 DEF CallFunction
<1>7. Depth' = Depth + 1
  BY <1>6 DEF Depth
<1> QED
  BY <1>1, <1>5, <1>6, <1>7 DEF CallFunction, TypeOK, ArgList

\* What the caller gets back from the function it called.
LEMMA WritebackType ==
  ASSUME NEW st \in State, NEW sub \in State, NEW al \in ArgList
  PROVE  Writeback(CopyOut(st, sub), sub, al) \in State
<1>1. \A v : HasRef(al, v) => sub.slots[al[LastRef(al, v)].param] \in Value
  BY LastRefExists, ArgTypes, StateFields
<1>2. CopyOut(st, sub) \in State
  BY StateFields DEF CopyOut, State
<1> DEFINE out == CopyOut(st, sub)
           slots == [x \in Local |-> IF HasRef(al, <<"local", x>>)
                       THEN sub.slots[al[LastRef(al, <<"local", x>>)].param]
                       ELSE out.slots[x]]
           shared == [s \in Shared |-> IF HasRef(al, <<"shared", s>>)
                       THEN sub.slots[al[LastRef(al, <<"shared", s>>)].param]
                       ELSE out.shared[s]]
<1>3. slots \in [Local -> Value] /\ shared \in [Shared -> Value]
  BY <1>1, <1>2, StateFields
<1>4. Writeback(out, sub, al) = [out EXCEPT !.slots = slots, !.shared = shared]
  BY DEF Writeback
<1> HIDE DEF out, slots, shared
<1>5. [out EXCEPT !.slots = slots, !.shared = shared] \in State
  BY <1>2, <1>3 DEF State, out
<1> QED
  BY <1>4, <1>5 DEF out

LEMMA ReturnTypes ==
  ASSUME TypeOK, ReturnFromFunction
  PROVE  TypeOK'
<1> DEFINE back == Writeback(CopyOut(states[Depth-1], Top), Top, args[Depth])
<1>1. Depth \in Nat /\ Depth > 1 /\ Depth <= MaxDepth /\ Depth - 1 \in Nat
  BY Stacks DEF ReturnFromFunction
<1>2. \A j \in 1..Depth : /\ states[j] \in State
                          /\ args[j] \in ArgList
                          /\ env[j] \in [Local -> Cell]
  BY Stacks
<1>3. back \in State
  <2>1. states[Depth-1] \in State /\ Top \in State /\ args[Depth] \in ArgList
    BY <1>1, <1>2, Stacks
  <2> QED
    BY <2>1, WritebackType
<1>4. /\ states' = [j \in 1..(Depth-1) |-> IF j = Depth - 1 THEN back ELSE states[j]]
      /\ args' = [j \in 1..(Depth-1) |-> args[j]]
      /\ env' = [j \in 1..(Depth-1) |-> env[j]]
  BY DEF ReturnFromFunction
<1> HIDE DEF back
<1>5. \A j \in 1..(Depth-1) : j \in 1..Depth
  BY <1>1
<1>6. /\ states' \in [1..(Depth-1) -> State]
      /\ args' \in [1..(Depth-1) -> ArgList]
      /\ env' \in [1..(Depth-1) -> [Local -> Cell]]
  BY <1>2, <1>3, <1>4, <1>5
<1>7. /\ states' \in Seq(State) /\ Len(states') = Depth - 1
      /\ args' \in Seq(ArgList) /\ Len(args') = Depth - 1
      /\ env' \in Seq([Local -> Cell]) /\ Len(env') = Depth - 1
  BY <1>1, <1>6, SeqOfFunction
<1>8. Depth' = Depth - 1
  BY <1>7 DEF Depth
<1>9. mem' \in [Cell -> Value]
  BY CallAssumption DEF ReturnFromFunction, TypeOK
<1>10. taken' \in Seq(1..Lines) /\ err' \in Code /\ fault' \in BOOLEAN
  BY DEF ReturnFromFunction, TypeOK
<1>11. Depth' \in 1..MaxDepth
  BY <1>1, <1>8, CallAssumption
<1> QED
  BY <1>7, <1>8, <1>9, <1>10, <1>11 DEF TypeOK, ArgList

LEMMA StepTypes ==
  ASSUME TypeOK, Next
  PROVE  TypeOK'
<1>0. /\ Top \in State /\ mem \in [Cell -> Value] /\ taken \in Seq(1..Lines)
      /\ err \in Code /\ Lines \in Nat /\ DataLen \in Nat
      /\ Top.input_pos \in 0..Lines /\ Top.data_pos \in 0..DataLen
      /\ Top.data_len \in {0, DataLen}
  BY Stacks, StateFields, CallAssumption DEF TypeOK
<1>1. ASSUME NEW x \in Local, NEW v \in Value, Assign(x, v) PROVE TypeOK'
  <2>1. CellOf(<<"local", x>>) \in Cell
    BY ValueAndCell DEF Var
  <2> QED
    BY <1>0, <1>1, <2>1, CellWritten, SlotWritten, OnTopTypeOK DEF Assign
<1>2. ASSUME NEW s \in Shared, NEW v \in Value, ExecShared(s, v) PROVE TypeOK'
  <2>1. [Top EXCEPT !.shared[s] = v] \in State
    BY <1>0 DEF State
  <2>2. <<0, s>> \in Cell
    BY DEF Cell
  <2> QED
    BY <1>0, <1>2, <2>1, <2>2, CellWritten, OnTopTypeOK DEF ExecShared
<1>3. CASE ReadLine
  <2>1. Top.input_pos + 1 \in 1..Lines
    BY <1>0, <1>3 DEF ReadLine
  <2>2. [Top EXCEPT !.input_pos = @ + 1] \in State
    <3>1. Top.input_pos + 1 \in 0..Lines
      BY <2>1
    <3> QED
      BY <1>0, <3>1, FieldsWritten
  <2>3. Append(taken, Top.input_pos + 1) \in Seq(1..Lines)
    BY <1>0, <2>1
  <2> QED
    BY <1>0, <1>3, <2>2, <2>3, OnTopTypeOK DEF ReadLine
<1>4. CASE ReadFile
  <2> DEFINE rest == [i \in 1..(Lines - Top.input_pos) |-> Top.input_pos + i]
  <2>1. rest \in Seq(1..Lines)
    <3>1. Lines - Top.input_pos \in Nat
      BY <1>0
    <3>2. \A i \in 1..(Lines - Top.input_pos) : Top.input_pos + i \in 1..Lines
      BY <1>0
    <3>3. rest \in [1..(Lines - Top.input_pos) -> 1..Lines]
      BY <3>2
    <3> QED
      BY <3>1, <3>3, SeqOfFunction
  <2>2. taken' = taken \o rest
    BY <1>4 DEF ReadFile
  <2> HIDE DEF rest
  <2>3. taken' \in Seq(1..Lines)
    <3>1. taken \in Seq(1..Lines)
      BY DEF TypeOK
    <3> HIDE DEF TypeOK
    <3>2. \A S : \A s, t \in Seq(S) : s \o t \in Seq(S)
      OBVIOUS
    <3> QED
      BY <2>1, <2>2, <3>1, <3>2, Zenon
  <2>4. [Top EXCEPT !.input_pos = Lines] \in State
    BY <1>0, SMTT(30) DEF State
  <2>5. /\ OnTop([Top EXCEPT !.input_pos = Lines])
        /\ UNCHANGED <<args, fault, env, mem, err>>
    BY <1>4 DEF ReadFile
  <2>6. mem' \in [Cell -> Value] /\ err' \in Code
    BY <2>5 DEF TypeOK
  <2> QED
    BY <2>3, <2>4, <2>5, <2>6, OnTopTypeOK
<1>5. ASSUME NEW n \in Code, Error(n) PROVE TypeOK'
  <2>1. [Top EXCEPT !.error_code = n] \in State
    BY <1>0 DEF State
  <2> QED
    BY <1>0, <1>5, <2>1, OnTopTypeOK DEF Error
<1>6. CASE GuiNextCallback
  <2>1. [Top EXCEPT !.gui_close_sent = TRUE] \in State
    BY <1>0 DEF State
  <2> QED
    BY <1>0, <1>6, <2>1, OnTopTypeOK DEF GuiNextCallback
<1>7. ASSUME NEW x \in Local, NEW v \in Value, ExecRead(x, v) PROVE TypeOK'
  <2>1. CASE Top.data_pos < Top.data_len
    <3>1. CellOf(<<"local", x>>) \in Cell
      BY ValueAndCell DEF Var
    <3>2. Top.data_pos + 1 \in 0..DataLen
      BY <1>0, <2>1
    <3>3. [Top EXCEPT !.data_pos = @ + 1, !.slots[x] = v] \in State
      BY <1>0, <3>2 DEF State
    <3> QED
      BY <1>0, <1>7, <2>1, <3>1, <3>3, CellWritten, OnTopTypeOK DEF ExecRead
  <2>2. CASE ~(Top.data_pos < Top.data_len)
    BY <1>7, <2>2 DEF ExecRead, TypeOK, Depth
  <2> QED
    BY <2>1, <2>2
<1>8. CASE ExecRestore
  <2>1. 0 \in 0..DataLen
    BY <1>0
  <2>2. [Top EXCEPT !.data_pos = 0] \in State
    BY <1>0, <2>1, FieldsWritten
  <2> QED
    BY <1>0, <1>8, <2>2, OnTopTypeOK DEF ExecRestore
<1> QED
  BY <1>1, <1>2, <1>3, <1>4, <1>5, <1>6, <1>7, <1>8, CallTypes, ReturnTypes
     DEF Next

(***************************************************************************)
(* Types: whatever the program does, aliasing included.                    *)
(***************************************************************************)
THEOREM CallsTyped == Spec => []TypeOK
<1>1. TypeOK /\ UNCHANGED vars => TypeOK'
  BY DEF vars, TypeOK, Depth
<1> QED
  BY <1>1, InitTypes, StepTypes, PTL DEF Spec

-----------------------------------------------------------------------------
(***************************************************************************)
(* What a call and a return do to the stacks.                              *)
(***************************************************************************)
LEMMA CallFacts ==
  ASSUME TypeOK, NEW al \in ArgLists, CallFunction(al)
  PROVE  /\ Depth' = Depth + 1 /\ Top' = Callee(al)
         /\ states'[Depth+1] = Callee(al)
         /\ args'[Depth+1] = al /\ env'[Depth+1] = CalleeEnv(al)
         /\ DOMAIN env' = 1..(Depth+1)
         /\ \A j \in 1..Depth : /\ states'[j] = states[j]
                                /\ args'[j] = args[j]
                                /\ env'[j] = env[j]
<1>1. /\ states \in Seq(State) /\ args \in Seq(ArgLists \cup {<<>>})
      /\ env \in Seq([Local -> Cell])
      /\ Len(states) = Depth /\ Len(args) = Depth /\ Len(env) = Depth
      /\ Depth \in Nat
  BY Stacks DEF TypeOK, Depth
<1>2. /\ Len(states') = Depth + 1 /\ states'[Depth+1] = Callee(al)
      /\ args'[Depth+1] = al /\ env'[Depth+1] = CalleeEnv(al)
      /\ DOMAIN env' = 1..(Depth+1)
      /\ \A j \in 1..Depth : /\ states'[j] = states[j]
                             /\ args'[j] = args[j]
                             /\ env'[j] = env[j]
  BY <1>1 DEF CallFunction
<1>3. Depth' = Depth + 1
  BY <1>2 DEF Depth
<1> QED
  BY <1>2, <1>3 DEF Top

\* The caller's state once the function it called has returned.
Returned == Writeback(CopyOut(states[Depth-1], Top), Top, args[Depth])

LEMMA ReturnFacts ==
  ASSUME TypeOK, ReturnFromFunction
  PROVE  /\ Depth - 1 \in Nat \ {0} /\ Depth' = Depth - 1
         /\ Top' = Returned /\ states'[Depth-1] = Returned
         /\ DOMAIN env' = 1..(Depth-1)
         /\ \A j \in 1..(Depth-1) : /\ j # Depth - 1 => states'[j] = states[j]
                                    /\ args'[j] = args[j]
                                    /\ env'[j] = env[j]
<1>1. Depth \in Nat /\ Depth > 1 /\ Depth - 1 \in Nat \ {0}
  BY Stacks DEF ReturnFromFunction
<1>2. /\ states' = [j \in 1..(Depth-1) |->
                     IF j = Depth - 1 THEN Returned ELSE states[j]]
      /\ args' = [j \in 1..(Depth-1) |-> args[j]]
      /\ env' = [j \in 1..(Depth-1) |-> env[j]]
  BY DEF ReturnFromFunction, Returned
<1>3. Len(states') = Depth - 1 /\ states'[Depth-1] = Returned
  BY <1>1, <1>2
<1>4. Depth' = Depth - 1
  BY <1>3 DEF Depth
<1> QED
  BY <1>1, <1>2, <1>3, <1>4 DEF Top

-----------------------------------------------------------------------------
(***************************************************************************)
(* One input stream, one error code.                                       *)
(***************************************************************************)
\* Taking the next line, or all that are left, extends the list of lines.
LEMMA LinesExtend ==
  ASSUME NEW n \in Nat, NEW m \in Nat, n <= m
  PROVE  /\ Append([i \in 1..n |-> i], n + 1) = [i \in 1..(n + 1) |-> i]
         /\ [i \in 1..n |-> i] \o [i \in 1..(m - n) |-> n + i]
              = [i \in 1..m |-> i]
OBVIOUS

\* A call and a return carry the input position and the error code over.
LEMMA CalleePositions ==
  ASSUME NEW al
  PROVE  /\ Callee(al).input_pos = Top.input_pos
         /\ Callee(al).error_code = Top.error_code
BY DEF Callee

LEMMA ReturnedFields ==
  ASSUME TypeOK, ReturnFromFunction
  PROVE  /\ Returned.input_pos = Top.input_pos
         /\ Returned.error_code = Top.error_code
         /\ Returned.slots =
              [x \in Local |-> IF HasRef(args[Depth], <<"local", x>>)
                 THEN Top.slots[args[Depth][LastRef(args[Depth], <<"local", x>>)].param]
                 ELSE states[Depth-1].slots[x]]
         /\ Returned.shared =
              [s \in Shared |-> IF HasRef(args[Depth], <<"shared", s>>)
                 THEN Top.slots[args[Depth][LastRef(args[Depth], <<"shared", s>>)].param]
                 ELSE Top.shared[s]]
<1>1. states[Depth-1] \in State /\ Top \in State
  <2>1. Depth \in Nat /\ Depth > 1 /\ Depth - 1 \in 1..Depth
    BY Stacks DEF ReturnFromFunction
  <2> QED
    BY <2>1, Stacks
<1> DEFINE out == CopyOut(states[Depth-1], Top)
<1>2. /\ out \in State
      /\ out.slots = states[Depth-1].slots /\ out.shared = Top.shared
      /\ out.input_pos = Top.input_pos /\ out.error_code = Top.error_code
  BY <1>1, StateFields DEF CopyOut, State
<1> HIDE DEF out
<1>3. Returned = Writeback(out, Top, args[Depth])
  BY DEF Returned, out
<1> QED
  BY <1>2, <1>3 DEF Writeback, State

LEMMA StepInput ==
  ASSUME TypeOK, InputInOrder, Next
  PROVE  InputInOrder'
<1> DEFINE n == Top.input_pos
<1>0. Top \in State /\ n \in Nat /\ Lines \in Nat /\ n <= Lines
      /\ taken = [i \in 1..n |-> i]
  BY Stacks, StateFields, CallAssumption DEF InputInOrder
<1>1. CASE ReadLine
  <2>1. Top' = [Top EXCEPT !.input_pos = @ + 1] /\ taken' = Append(taken, n + 1)
    BY <1>1, OnTopFacts DEF ReadLine
  <2>2. Top'.input_pos = n + 1
    BY <1>0, <2>1 DEF State
  <2> QED
    BY <1>0, <2>1, <2>2, LinesExtend DEF InputInOrder
<1>2. CASE ReadFile
  <2>1. /\ Top' = [Top EXCEPT !.input_pos = Lines]
        /\ taken' = taken \o [i \in 1..(Lines - n) |-> n + i]
    BY <1>2, OnTopFacts DEF ReadFile
  <2>2. Top'.input_pos = Lines
    BY <1>0, <2>1 DEF State
  <2>3. [i \in 1..n |-> i] \o [i \in 1..(Lines - n) |-> n + i] = [i \in 1..Lines |-> i]
    BY <1>0, LinesExtend
  <2> HIDE DEF n
  <2> QED
    BY <1>0, <2>1, <2>2, <2>3 DEF InputInOrder
<1>3. ASSUME Top'.input_pos = n, taken' = taken PROVE InputInOrder'
  BY <1>3 DEF InputInOrder
<1>4. ASSUME NEW x \in Local, NEW v \in Value, Assign(x, v) \/ ExecRead(x, v)
      PROVE  InputInOrder'
  <2>1. taken' = taken
    BY <1>4 DEF Assign, ExecRead
  <2>2. CASE states' = states
    BY <1>3, <2>1, <2>2 DEF Top, Depth
  <2>3. CASE states' # states
    <3>1. PICK st : /\ OnTop(st)
                    /\ \/ st = [Top EXCEPT !.slots[x] = v]
                       \/ st = [Top EXCEPT !.data_pos = @ + 1, !.slots[x] = v]
      BY <1>4, <2>3 DEF Assign, ExecRead
    <3>2. Top' = st /\ st.input_pos = n
      BY <1>0, <3>1, OnTopFacts DEF State
    <3> QED
      BY <1>3, <2>1, <3>2
  <2> QED
    BY <2>2, <2>3
<1>5. ASSUME NEW s \in Shared, NEW v \in Value, ExecShared(s, v) PROVE InputInOrder'
  <2>1. Top' = [Top EXCEPT !.shared[s] = v] /\ taken' = taken
    BY <1>5, OnTopFacts DEF ExecShared
  <2> QED
    BY <1>0, <1>3, <2>1 DEF State
<1>6. ASSUME NEW c \in Code, Error(c) PROVE InputInOrder'
  <2>1. Top' = [Top EXCEPT !.error_code = c] /\ taken' = taken
    BY <1>6, OnTopFacts DEF Error
  <2> QED
    BY <1>0, <1>3, <2>1 DEF State
<1>7. CASE GuiNextCallback
  <2>1. Top' = [Top EXCEPT !.gui_close_sent = TRUE] /\ taken' = taken
    BY <1>7, OnTopFacts DEF GuiNextCallback
  <2> QED
    BY <1>0, <1>3, <2>1 DEF State
<1>8. CASE ExecRestore
  <2>1. Top' = [Top EXCEPT !.data_pos = 0] /\ taken' = taken
    BY <1>8, OnTopFacts DEF ExecRestore
  <2> QED
    BY <1>0, <1>3, <2>1 DEF State
<1>9. ASSUME NEW al \in ArgLists, CallFunction(al) PROVE InputInOrder'
  BY <1>3, <1>9, CallFacts, CalleePositions DEF CallFunction
<1>10. CASE ReturnFromFunction
  BY <1>3, <1>10, ReturnFacts, ReturnedFields DEF ReturnFromFunction
<1> QED
  BY <1>1, <1>2, <1>4, <1>5, <1>6, <1>7, <1>8, <1>9, <1>10 DEF Next

LEMMA StepError ==
  ASSUME TypeOK, ErrorCodeIsLast, Next
  PROVE  ErrorCodeIsLast'
<1>0. Top \in State /\ Top.error_code = err
  BY Stacks DEF ErrorCodeIsLast
<1>1. ASSUME NEW n \in Code, Error(n) PROVE ErrorCodeIsLast'
  <2>1. Top' = [Top EXCEPT !.error_code = n] /\ err' = n
    BY <1>1, OnTopFacts DEF Error
  <2> QED
    BY <1>0, <2>1 DEF State, ErrorCodeIsLast
<1>2. ASSUME NEW al \in ArgLists, CallFunction(al) PROVE ErrorCodeIsLast'
  BY <1>0, <1>2, CallFacts, CalleePositions DEF CallFunction, ErrorCodeIsLast
<1>3. CASE ReturnFromFunction
  BY <1>0, <1>3, ReturnFacts, ReturnedFields DEF ReturnFromFunction, ErrorCodeIsLast
<1>4. ASSUME NEW st, OnTop(st), st.error_code = Top.error_code, err' = err
      PROVE  ErrorCodeIsLast'
  BY <1>0, <1>4, OnTopFacts DEF ErrorCodeIsLast
<1>5. CASE ReadLine
  BY <1>0, <1>4, <1>5 DEF ReadLine, State
<1>6. CASE ReadFile
  BY <1>0, <1>4, <1>6 DEF ReadFile, State
<1>7. CASE GuiNextCallback \/ ExecRestore
  BY <1>0, <1>4, <1>7 DEF GuiNextCallback, ExecRestore, State
<1>8. ASSUME NEW x \in Local, NEW v \in Value, Assign(x, v) PROVE ErrorCodeIsLast'
  BY <1>0, <1>4, <1>8 DEF Assign, State
<1>9. ASSUME NEW s \in Shared, NEW v \in Value, ExecShared(s, v)
      PROVE  ErrorCodeIsLast'
  BY <1>0, <1>4, <1>9 DEF ExecShared, State
<1>10. ASSUME NEW x \in Local, NEW v \in Value, ExecRead(x, v)
       PROVE  ErrorCodeIsLast'
  <2>1. CASE Top.data_pos < Top.data_len
    BY <1>0, <1>4, <1>10, <2>1 DEF ExecRead, State
  <2>2. CASE ~(Top.data_pos < Top.data_len)
    BY <1>0, <1>10, <2>2 DEF ExecRead, ErrorCodeIsLast, Top, Depth
  <2> QED
    BY <2>1, <2>2
<1> QED
  BY <1>1, <1>2, <1>3, <1>5, <1>6, <1>7, <1>8, <1>9, <1>10 DEF Next

(***************************************************************************)
(* Standard input is read once and in order, by whichever functions, in    *)
(* every program: READLINE$ and ReadFile in a callee go on where the       *)
(* caller stopped, and the caller goes on where the callee stopped.        *)
(***************************************************************************)
THEOREM InputTakenInOrder == Spec => []InputInOrder
<1>1. Init => InputInOrder
  BY DEF Init, InputInOrder, Top, Depth
<1>2. TypeOK /\ InputInOrder /\ [Next]_vars => InputInOrder'
  <2>1. InputInOrder /\ UNCHANGED vars => InputInOrder'
    BY DEF vars, InputInOrder, Top, Depth
  <2> QED
    BY <2>1, StepInput
<1> QED
  BY <1>1, <1>2, CallsTyped, PTL DEF Spec

(***************************************************************************)
(* ERROR reports the code set last, in whichever function it was set.      *)
(***************************************************************************)
THEOREM ErrorCodeIsOne == Spec => []ErrorCodeIsLast
<1>1. Init => ErrorCodeIsLast
  BY DEF Init, ErrorCodeIsLast, Top, Depth
<1>2. TypeOK /\ ErrorCodeIsLast /\ [Next]_vars => ErrorCodeIsLast'
  <2>1. ErrorCodeIsLast /\ UNCHANGED vars => ErrorCodeIsLast'
    BY DEF vars, ErrorCodeIsLast, Top, Depth
  <2> QED
    BY <2>1, StepError
<1> QED
  BY <1>1, <1>2, CallsTyped, PTL DEF Spec

-----------------------------------------------------------------------------
(***************************************************************************)
(* References.                                                             *)
(*                                                                         *)
(* ByRefTransparent speaks of the running function; while it runs, its     *)
(* callers hold stale copies of what they passed on, and it is the return  *)
(* that brings those up to date.  The invariant therefore says of EVERY    *)
(* active call which of its copies are current: all but those it passed    *)
(* on with `@`; and that what a call did not pass on cannot be reached     *)
(* from the calls above it.                                                *)
(***************************************************************************)
\* The cell that the j-th call knows as variable v.
CellAt(j, v) == IF v[1] = "local" THEN env[j][v[2]] ELSE <<0, v[2]>>

\* The j-th call passed its local x on to the call above it with `@`.
PassedOn(j, x) == j < Depth /\ HasRef(args[j+1], <<"local", x>>)

\* An `@` parameter names the cell of its argument, any other local its own.
Linked(j, x) ==
  env[j][x] = IF j > 1 /\ x \in ParamsOf(args[j]) /\ ArgFor(args[j], x).byref
              THEN CellAt(j-1, ArgFor(args[j], x).from) ELSE <<j, x>>

EnvLinked == \A j \in 1..Depth : \A x \in Local : Linked(j, x)

\* No call knows a cell that was made after it.
CellsOlder == \A j \in 1..Depth : \A x \in Local : env[j][x][1] \in 0..j

\* Within a call, two locals are two cells.
NamesApart ==
  \A j \in 1..Depth : \A x, y \in Local : env[j][x] = env[j][y] => x = y

\* A cell known to two calls was passed on by the lower one.
SharedByPassing ==
  \A j, k \in 1..Depth : \A x, y \in Local :
    j < k /\ env[k][y] = env[j][x] => PassedOn(j, x)

\* Copies of locals are current unless passed on.
SlotsCurrent ==
  \A j \in 1..Depth : \A x \in Local :
    ~PassedOn(j, x) => states[j].slots[x] = mem[env[j][x]]

\* So is the running function's copy of a SHARED variable, unless that is
\* also a parameter somewhere.
SharedCurrent ==
  \A s \in Shared : s \notin Bound => Top.shared[s] = mem[<<0, s>>]

EnvInv == EnvLinked /\ CellsOlder /\ NamesApart /\ SharedByPassing
RefInv == EnvInv /\ SlotsCurrent /\ SharedCurrent

LEMMA EnvSame ==
  ASSUME EnvInv, UNCHANGED <<args, env>>, Depth' = Depth
  PROVE  EnvInv' /\ (\A j, x : PassedOn(j, x)' <=> PassedOn(j, x)) /\ Bound' = Bound
<1>1. \A j, x : PassedOn(j, x)' <=> PassedOn(j, x)
  BY DEF PassedOn
<1>2. EnvLinked'
  BY DEF EnvInv, EnvLinked, Linked, CellAt
<1>3. CellsOlder' /\ NamesApart'
  BY DEF EnvInv, CellsOlder, NamesApart
<1>4. SharedByPassing'
  BY <1>1 DEF EnvInv, SharedByPassing
<1>5. Bound' = Bound
  BY DEF Bound
<1> QED
  BY <1>1, <1>2, <1>3, <1>4, <1>5 DEF EnvInv

\* A step that touches neither variables nor calls.
LEMMA NoVariableRef ==
  ASSUME TypeOK, RefInv, UNCHANGED <<args, env, mem>>, NEW st, OnTop(st),
         st.slots = Top.slots, st.shared = Top.shared
  PROVE  RefInv'
<1>1. /\ Depth' = Depth /\ Top' = st
      /\ \A j \in 1..Depth : states'[j].slots = states[j].slots
  BY OnTopFacts DEF Top
<1>2. /\ EnvInv' /\ Bound' = Bound
      /\ \A j, x : PassedOn(j, x)' <=> PassedOn(j, x)
  BY <1>1, EnvSame DEF RefInv
<1>3. SlotsCurrent'
  BY <1>1, <1>2 DEF RefInv, SlotsCurrent
<1>4. SharedCurrent'
  BY <1>1, <1>2 DEF RefInv, SharedCurrent
<1> QED
  BY <1>2, <1>3, <1>4 DEF RefInv

\* Assigning a local writes its cell: no other current copy is of that cell.
LEMMA AssignRef ==
  ASSUME TypeOK, RefInv, UNCHANGED <<args, env>>,
         NEW x \in Local, NEW v \in Value, NEW st, OnTop(st),
         st.slots = [Top.slots EXCEPT ![x] = v], st.shared = Top.shared,
         mem' = [mem EXCEPT ![env[Depth][x]] = v]
  PROVE  RefInv'
<1>1. /\ Depth' = Depth /\ Top' = st /\ Depth \in 1..Depth
      /\ states'[Depth] = st
      /\ \A j \in 1..Depth : j # Depth => states'[j] = states[j]
  BY OnTopFacts, Stacks
<1>2. /\ EnvInv' /\ Bound' = Bound
      /\ \A j, y : PassedOn(j, y)' <=> PassedOn(j, y)
  BY <1>1, EnvSame DEF RefInv
<1>3. /\ \A j \in 1..Depth : env[j] \in [Local -> Cell]
      /\ mem \in [Cell -> Value] /\ Top.slots \in [Local -> Value]
      /\ DOMAIN env = 1..Depth
      /\ Depth \in Nat
  BY Stacks, StateFields DEF TypeOK
<1>4. ASSUME NEW j \in 1..Depth, NEW y \in Local, ~PassedOn(j, y)
      PROVE  states'[j].slots[y] = mem'[env[j][y]]
  <2>1. states[j].slots[y] = mem[env[j][y]]
    BY <1>4 DEF RefInv, SlotsCurrent
  <2>2. env[j][y] \in Cell /\ env[Depth][x] \in Cell
    BY <1>1, <1>3
  <2>3. CASE j = Depth /\ y = x
    BY <1>1, <1>3, <2>2, <2>3
  <2>4. CASE j = Depth /\ y # x
    <3>1. env[j][y] # env[Depth][x]
      BY <1>1, <2>4 DEF RefInv, EnvInv, NamesApart
    <3> QED
      BY <1>1, <1>3, <2>1, <2>2, <2>4, <3>1 DEF Top
  <2>5. CASE j # Depth
    <3>1. j < Depth
      BY <1>3, <2>5
    <3>2. env[j][y] # env[Depth][x]
      BY <1>1, <1>4, <3>1 DEF RefInv, EnvInv, SharedByPassing
    <3> QED
      BY <1>1, <1>3, <2>1, <2>2, <2>5, <3>2
  <2> QED
    BY <2>3, <2>4, <2>5
<1>5. SlotsCurrent'
  BY <1>1, <1>2, <1>4 DEF SlotsCurrent
<1>6. ASSUME NEW s \in Shared, s \notin Bound
      PROVE  st.shared[s] = mem'[<<0, s>>]
  <2>1. <<0, s>> # env[Depth][x]
    BY <1>1, <1>3, <1>6 DEF Bound
  <2>2. <<0, s>> \in Cell
    BY DEF Cell
  <2> QED
    BY <1>3, <1>6, <2>1, <2>2 DEF RefInv, SharedCurrent
<1>7. SharedCurrent'
  BY <1>1, <1>2, <1>6 DEF SharedCurrent
<1> QED
  BY <1>2, <1>5, <1>7 DEF RefInv

\* Assigning a SHARED variable under its own name: no local is that variable.
LEMMA SharedRef ==
  ASSUME TypeOK, RefInv, ~MayAlias, NEW s \in Shared, NEW v \in Value,
         ExecShared(s, v)
  PROVE  RefInv'
<1> DEFINE st == [Top EXCEPT !.shared[s] = v]
<1>1. /\ Depth' = Depth /\ Top' = st /\ Depth \in 1..Depth
      /\ states'[Depth] = st
      /\ \A j \in 1..Depth : j # Depth => states'[j] = states[j]
  BY OnTopFacts, Stacks DEF ExecShared
<1>2. /\ EnvInv' /\ Bound' = Bound
      /\ \A j, y : PassedOn(j, y)' <=> PassedOn(j, y)
  BY <1>1, EnvSame DEF RefInv, ExecShared
<1>3. /\ \A j \in 1..Depth : env[j] \in [Local -> Cell]
      /\ mem \in [Cell -> Value] /\ Top \in State
      /\ DOMAIN env = 1..Depth
  BY Stacks DEF TypeOK
<1>4. /\ st.slots = Top.slots
      /\ st.shared = [Top.shared EXCEPT ![s] = v]
      /\ Top.shared \in [Shared -> Value]
  BY <1>3 DEF State
<1>5. \A j \in 1..Depth : states'[j].slots = states[j].slots
  BY <1>1, <1>4 DEF Top
<1> HIDE DEF st
<1>6. s \notin Bound /\ mem' = [mem EXCEPT ![<<0, s>>] = v] /\ env' = env
  BY DEF ExecShared, Touchable
<1>7. ASSUME NEW j \in 1..Depth, NEW y \in Local
      PROVE  mem'[env[j][y]] = mem[env[j][y]]
  <2>1. env[j][y] # <<0, s>> /\ env[j][y] \in Cell
    BY <1>3, <1>6 DEF Bound
  <2> QED
    BY <1>3, <1>6, <2>1
<1>8. SlotsCurrent'
  BY <1>1, <1>2, <1>5, <1>6, <1>7 DEF RefInv, SlotsCurrent
<1>9. \A t \in Shared : <<0, t>> \in Cell
  BY DEF Cell
<1>10. SharedCurrent'
  BY <1>1, <1>2, <1>3, <1>4, <1>6, <1>9 DEF RefInv, SharedCurrent
<1> QED
  BY <1>2, <1>8, <1>10 DEF RefInv

\* A call: the arguments are current copies, and an `@` parameter is a cell
\* that only its argument names.
LEMMA CallRef ==
  ASSUME TypeOK, RefInv, ~MayAlias, NEW al \in ArgLists, CallFunction(al)
  PROVE  RefInv'
<1> PICK D : D = Depth
  OBVIOUS
<1>0. /\ D = Depth /\ D \in Nat \ {0} /\ D \in 1..D /\ al \in ArgList /\ NoAlias(al)
      /\ DOMAIN env = 1..D
      /\ \A j \in 1..D : env[j] \in [Local -> Cell]
      /\ mem \in [Cell -> Value]
      /\ mem' = CalleeMem(al) /\ D + 1 \in 1..MaxDepth
  BY Stacks, CallAssumption DEF CallFunction, ArgList, TypeOK
<1>1. /\ Depth' = D + 1 /\ Top' = Callee(al)
      /\ states'[D+1] = Callee(al)
      /\ args'[D+1] = al /\ env'[D+1] = CalleeEnv(al)
      /\ DOMAIN env' = 1..(D+1)
      /\ \A j \in 1..D : /\ states'[j] = states[j]
                         /\ args'[j] = args[j]
                         /\ env'[j] = env[j]
  BY CallFacts
<1>2. \A j \in 1..(D+1) : j \in 1..D \/ j = D + 1
  BY <1>0
\* The cells of the callee.
<1> DEFINE ByRef(x) == x \in ParamsOf(al) /\ ArgFor(al, x).byref
           From(x) == ArgFor(al, x).from
<1>3. ASSUME NEW x \in Local
      PROVE  /\ ByRef(x) => env'[D+1][x] = CellOf(From(x))
             /\ ~ByRef(x) => /\ env'[D+1][x] = <<D+1, x>>
                             /\ env'[D+1][x][1] = D+1 /\ env'[D+1][x][2] = x
  BY <1>0, <1>1 DEF CalleeEnv
<1>4. ASSUME NEW v \in Var
      PROVE  /\ CellOf(v) = CellAt(D, v) /\ CellOf(v) \in Cell
             /\ CellOf(v)[1] \in 0..D
             /\ CellOf(v)[1] # D + 1
  <2>1. CellOf(v) = CellAt(D, v) /\ CellOf(v) \in Cell
    BY ValueAndCell DEF CellOf, CellAt
  <2>2. CellOf(v)[1] \in 0..D
    <3>1. CASE v[1] = "local" /\ v[2] \in Local
      BY <1>0, <3>1 DEF RefInv, EnvInv, CellsOlder, CellOf
    <3>2. CASE v[1] = "shared"
      BY <1>0, <3>2 DEF CellOf
    <3> QED
      BY <3>1, <3>2, VarCases
  <2> QED
    BY <1>0, <2>1, <2>2
<1>5. \A x : ByRef(x) \/ x \in ParamsOf(al) => From(x) \in Var
  BY <1>0, ArgForType
<1> HIDE DEF ByRef, From
<1>6. ASSUME NEW j \in 1..D, NEW x \in Local
      PROVE  PassedOn(j, x)' <=> IF j = D THEN HasRef(al, <<"local", x>>)
                                 ELSE PassedOn(j, x)
  <2>1. CASE j = D
    <3>1. j < Depth' /\ args'[j+1] = al
      BY <1>0, <1>1, <2>1
    <3> QED
      BY <2>1, <3>1 DEF PassedOn, HasRef
  <2>2. CASE j # D
    <3>1. j < Depth /\ j < Depth' /\ j + 1 \in 1..D
      BY <1>0, <1>1, <2>2
    <3>2. args'[j+1] = args[j+1]
      BY <1>1, <3>1
    <3> QED
      BY <2>2, <3>1, <3>2 DEF PassedOn, HasRef
  <2> QED
    BY <2>1, <2>2
<1>7. ASSUME NEW x \in Local PROVE ~PassedOn(D + 1, x)'
  BY <1>0, <1>1 DEF PassedOn
<1>8. Bound \subseteq Bound'
  <2>1. \A j \in 1..D : j \in 1..(D+1)
    BY <1>0
  <2> QED
    BY <1>0, <1>1, <2>1 DEF Bound
\* The environments.
<1>9. EnvLinked'
  <2>1. ASSUME NEW j \in 1..D, NEW x \in Local PROVE Linked(j, x)'
    <3>1. j > 1 => j - 1 \in 1..D
      BY <1>0
    <3>2. \A v : j > 1 => CellAt(j-1, v)' = CellAt(j-1, v)
      BY <1>1, <3>1 DEF CellAt
    <3>3. Linked(j, x)
      BY <1>0 DEF RefInv, EnvInv, EnvLinked
    <3> QED
      BY <1>1, <3>2, <3>3 DEF Linked
  <2>2. ASSUME NEW x \in Local PROVE Linked(D+1, x)'
    <3>1. \A v : CellAt(D, v)' = CellAt(D, v)
      BY <1>0, <1>1 DEF CellAt
    <3>2. D + 1 > 1 /\ (D + 1) - 1 = D
      BY <1>0
    <3>3. CASE ByRef(x)
      <4>1. env'[D+1][x] = CellAt(D, From(x))
        BY <1>3, <1>4, <1>5, <3>3
      <4> QED
        BY <1>1, <3>1, <3>2, <3>3, <4>1 DEF Linked, ByRef, From
    <3>4. CASE ~ByRef(x)
      BY <1>1, <1>3, <3>4 DEF Linked, ByRef, From
    <3> QED
      BY <3>3, <3>4
  <2> QED
    BY <1>1, <1>2, <2>1, <2>2 DEF EnvLinked
<1>10. CellsOlder'
  <2>1. ASSUME NEW x \in Local PROVE env'[D+1][x][1] \in 0..(D+1)
    BY <1>0, <1>3, <1>4, <1>5
  <2>2. ASSUME NEW j \in 1..D, NEW x \in Local PROVE env'[j][x][1] \in 0..j
    BY <1>1 DEF RefInv, EnvInv, CellsOlder
  <2> QED
    BY <1>1, <1>2, <2>1, <2>2 DEF CellsOlder
<1>11. NamesApart'
  <2>1. ASSUME NEW x \in Local, NEW y \in Local, env'[D+1][x] = env'[D+1][y]
        PROVE  x = y
    <3>1. CASE ByRef(x) /\ ByRef(y)
      <4>1. PICK i \in DOMAIN al : al[i].param = x /\ ArgFor(al, x) = al[i]
        BY <1>0, <3>1, ArgForParam DEF ByRef
      <4>2. PICK k \in DOMAIN al : al[k].param = y /\ ArgFor(al, y) = al[k]
        BY <1>0, <3>1, ArgForParam DEF ByRef
      <4>3. CellOf(al[i].from) = CellOf(al[k].from)
        BY <1>3, <2>1, <3>1, <4>1, <4>2 DEF From
      <4>4. i = k
        BY <1>0, <3>1, <4>1, <4>2, <4>3 DEF NoAlias, ByRef
      <4> QED
        BY <4>1, <4>2, <4>4
    <3>2. CASE ~ByRef(x) /\ ~ByRef(y)
      BY <1>3, <2>1, <3>2
    <3>3. CASE ByRef(x) /\ ~ByRef(y)
      BY <1>0, <1>3, <1>4, <1>5, <2>1, <3>3
    <3>4. CASE ~ByRef(x) /\ ByRef(y)
      BY <1>0, <1>3, <1>4, <1>5, <2>1, <3>4
    <3> QED
      BY <3>1, <3>2, <3>3, <3>4
  <2>2. ASSUME NEW j \in 1..D, NEW x \in Local, NEW y \in Local,
               env'[j][x] = env'[j][y]
        PROVE  x = y
    BY <1>1, <2>2 DEF RefInv, EnvInv, NamesApart
  <2> QED
    BY <1>1, <1>2, <2>1, <2>2 DEF NamesApart
<1>12. SharedByPassing'
  <2>1. ASSUME NEW j \in 1..D, NEW x \in Local, NEW y \in Local,
               env'[D+1][y] = env[j][x]
        PROVE  PassedOn(j, x)'
    <3>1. env[j][x][1] \in 0..j /\ j <= D /\ j \in Nat
      BY <1>0 DEF RefInv, EnvInv, CellsOlder
    <3>2. ByRef(y)
      <4>1. ~ByRef(y) => env'[D+1][y][1] = D + 1
        BY <1>3
      <4> QED
        BY <1>0, <2>1, <3>1, <4>1
    <3>3. From(y) \in Var /\ CellOf(From(y)) = env[j][x]
      BY <1>3, <1>5, <2>1, <3>2
    <3>4. PICK i \in DOMAIN al : ArgFor(al, y) = al[i] /\ al[i].byref
      BY <1>0, <3>2, ArgForParam DEF ByRef
    <3>5. From(y)[1] = "local" /\ From(y)[2] \in Local /\ From(y) = <<"local", From(y)[2]>>
      <4>1. CASE From(y)[1] = "shared" /\ From(y)[2] \in Shared
        <5>1. env[j][x] = <<0, From(y)[2]>>
          BY <3>3, <4>1 DEF CellOf
        <5>2. From(y)[2] \in Bound
          BY <1>0, <4>1, <5>1 DEF Bound
        <5> QED
          BY <1>0, <3>4, <4>1, <5>2 DEF NoAlias, From
      <4> QED
        BY <3>3, <4>1, VarCases
    <3> DEFINE z == From(y)[2]
    <3>6. env[D][z] = env[j][x]
      BY <3>3, <3>5 DEF CellOf
    <3>7. HasRef(al, <<"local", z>>)
      BY <3>4, <3>5 DEF HasRef, From
    <3> HIDE DEF z
    <3>8. CASE j = D
      <4>1. z = x
        BY <1>0, <3>5, <3>6, <3>8 DEF RefInv, EnvInv, NamesApart, z
      <4> QED
        BY <1>6, <3>7, <3>8, <4>1
    <3>9. CASE j # D
      <4>1. j < D
        BY <3>1, <3>9, <1>0
      <4>2. PassedOn(j, x)
        BY <1>0, <3>5, <3>6, <4>1 DEF RefInv, EnvInv, SharedByPassing, z
      <4> QED
        BY <1>6, <3>9, <4>2
    <3> QED
      BY <3>8, <3>9
  <2>2. ASSUME NEW j \in 1..D, NEW k \in 1..D, NEW x \in Local, NEW y \in Local,
               j < k, env[k][y] = env[j][x]
        PROVE  PassedOn(j, x)'
    <3>1. PassedOn(j, x) /\ j # D
      BY <1>0, <2>2 DEF RefInv, EnvInv, SharedByPassing
    <3> QED
      BY <1>6, <3>1
  <2>3. ASSUME NEW j \in 1..(D+1), NEW k \in 1..(D+1), j < k
        PROVE  j \in 1..D /\ (k = D + 1 \/ k \in 1..D)
    BY <1>0, <2>3
  <2> QED
    BY <1>1, <2>1, <2>2, <2>3 DEF SharedByPassing
<1>13. EnvInv'
  BY <1>9, <1>10, <1>11, <1>12 DEF EnvInv
\* The values.
<1>14. ASSUME NEW c \in Cell, c[1] # D + 1 PROVE mem'[c] = mem[c]
  BY <1>0, <1>14 DEF CalleeMem
<1>15. ASSUME NEW x \in ParamsOf(al) PROVE ValueOf(Top, From(x)) = mem[CellOf(From(x))]
  <2>1. PICK i \in DOMAIN al : ArgFor(al, x) = al[i]
    BY <1>0, ArgForParam
  <2>2. From(x) \in Var /\ From(x) = al[i].from
    BY <1>5, <2>1 DEF From
  <2>3. CASE From(x)[1] = "local" /\ From(x)[2] \in Local
    <3>1. ~PassedOn(D, From(x)[2])
      BY <1>0 DEF PassedOn
    <3> QED
      BY <1>0, <2>3, <3>1 DEF RefInv, SlotsCurrent, ValueOf, CellOf, Top
  <2>4. CASE From(x)[1] = "shared" /\ From(x)[2] \in Shared
    <3>1. From(x)[2] \notin Bound
      BY <1>0, <2>1, <2>2, <2>4 DEF NoAlias
    <3> QED
      BY <2>4, <3>1 DEF RefInv, SharedCurrent, ValueOf, CellOf
  <2> QED
    BY <2>2, <2>3, <2>4, VarCases
<1>16. ASSUME NEW x \in Local PROVE Callee(al).slots[x] = mem'[env'[D+1][x]]
  <2>1. Callee(al).slots[x] = IF x \in ParamsOf(al) THEN ValueOf(Top, From(x)) ELSE Zero
    BY DEF Callee, From
  <2>2. CASE ByRef(x)
    BY <1>3, <1>4, <1>5, <1>14, <1>15, <2>1, <2>2 DEF ByRef
  <2>3. CASE ~ByRef(x)
    <3>1. env'[D+1][x] = <<D+1, x>> /\ <<D+1, x>> \in Cell
      BY <1>0, <1>3, <2>3 DEF Cell
    <3>2. mem'[<<D+1, x>>] = IF x \in ParamsOf(al) THEN mem[CellOf(From(x))] ELSE Zero
      BY <1>0, <3>1 DEF CalleeMem, From
    <3> QED
      BY <1>15, <2>1, <3>1, <3>2
  <2> QED
    BY <2>2, <2>3
<1>17. ASSUME NEW j \in 1..D, NEW x \in Local, ~PassedOn(j, x)'
       PROVE  states[j].slots[x] = mem'[env[j][x]]
  <2>1. ~PassedOn(j, x)
    BY <1>0, <1>6, <1>17 DEF PassedOn
  <2>2. states[j].slots[x] = mem[env[j][x]]
    BY <2>1 DEF RefInv, SlotsCurrent
  <2>3. env[j][x] \in Cell /\ env[j][x][1] \in 0..j
    BY <1>0 DEF RefInv, EnvInv, CellsOlder
  <2>4. env[j][x][1] # D + 1
    BY <1>0, <2>3
  <2> QED
    BY <1>14, <2>2, <2>3, <2>4
<1>18. SlotsCurrent'
  BY <1>1, <1>2, <1>16, <1>17 DEF SlotsCurrent
<1>19. SharedCurrent'
  <2>1. ASSUME NEW s \in Shared, s \notin Bound'
        PROVE  Callee(al).shared[s] = mem'[<<0, s>>]
    <3>1. Callee(al).shared[s] = Top.shared[s] /\ s \notin Bound
      BY <1>8, <2>1 DEF Callee
    <3>2. <<0, s>> \in Cell /\ 0 # D + 1
      BY <1>0 DEF Cell
    <3> QED
      BY <1>14, <3>1, <3>2 DEF RefInv, SharedCurrent
  <2> QED
    BY <1>1, <2>1 DEF SharedCurrent
<1> QED
  BY <1>13, <1>18, <1>19 DEF RefInv

\* A return: what the caller passed on is written back, from the cell that it
\* shares with the parameter; the caller's other copies stayed current.
LEMMA ReturnRef ==
  ASSUME TypeOK, RefInv, ReturnFromFunction
  PROVE  RefInv'
<1> PICK D, n, al : D = Depth /\ n = D - 1 /\ al = args[D]
  OBVIOUS
<1>0. /\ D = Depth /\ D \in Nat /\ n \in Nat \ {0} /\ n = D - 1 /\ n < D /\ n + 1 = D
      /\ D \in 1..D /\ n \in 1..n /\ n \in 1..D
      /\ al = args[D] /\ al \in ArgList
      /\ DOMAIN env = 1..D
      /\ \A j \in 1..D : env[j] \in [Local -> Cell]
      /\ mem \in [Cell -> Value]
  BY Stacks, ReturnFacts DEF TypeOK
<1>1. /\ Depth' = n /\ Top' = Returned /\ states'[n] = Returned
      /\ DOMAIN env' = 1..n
      /\ \A j \in 1..n : /\ j # n => states'[j] = states[j]
                         /\ args'[j] = args[j]
                         /\ env'[j] = env[j]
  BY <1>0, ReturnFacts
<1>2. \A j \in 1..n : j \in 1..D /\ j # D /\ j - 1 \in 0..n
  BY <1>0
<1>3. \A j \in 1..D : j \in 1..n \/ j = D
  BY <1>0
\* The environments of the calls that remain.
<1>4. ASSUME NEW j \in 1..n, NEW x \in Local
      PROVE  PassedOn(j, x)' <=> PassedOn(j, x) /\ j # n
  <2>1. CASE j = n
    BY <1>0, <1>1, <2>1 DEF PassedOn
  <2>2. CASE j # n
    <3>1. j < Depth /\ j < Depth' /\ j + 1 \in 1..n
      BY <1>0, <1>1, <2>2
    <3>2. args'[j+1] = args[j+1]
      BY <1>1, <3>1
    <3> QED
      BY <2>2, <3>1, <3>2 DEF PassedOn, HasRef
  <2> QED
    BY <2>1, <2>2
<1>5. ASSUME NEW j \in 1..n, NEW x \in Local PROVE Linked(j, x)'
  <2>1. j > 1 => j - 1 \in 1..n
    BY <1>0
  <2>2. \A v : j > 1 => CellAt(j-1, v)' = CellAt(j-1, v)
    BY <1>1, <2>1 DEF CellAt
  <2>3. Linked(j, x)
    BY <1>0, <1>2 DEF RefInv, EnvInv, EnvLinked
  <2> QED
    BY <1>1, <2>2, <2>3 DEF Linked
<1>6. EnvLinked' /\ CellsOlder' /\ NamesApart'
  BY <1>0, <1>1, <1>2, <1>5
     DEF RefInv, EnvInv, EnvLinked, CellsOlder, NamesApart
<1>7. SharedByPassing'
  <2>1. ASSUME NEW j \in 1..n, NEW k \in 1..n, NEW x \in Local, NEW y \in Local,
               j < k, env[k][y] = env[j][x]
        PROVE  PassedOn(j, x)'
    <3>1. PassedOn(j, x)
      BY <1>0, <1>2, <2>1 DEF RefInv, EnvInv, SharedByPassing
    <3>2. j # n
      BY <1>0, <2>1
    <3> QED
      BY <1>4, <3>1, <3>2
  <2> QED
    BY <1>1, <2>1 DEF SharedByPassing
\* A parameter passed with `@` is the cell of its argument.
<1>8. ASSUME NEW v, HasRef(al, v)
      PROVE  /\ al[LastRef(al, v)].param \in Local
             /\ Top.slots[al[LastRef(al, v)].param] = mem[CellAt(n, v)]
  <2> DEFINE k == LastRef(al, v)
             p == al[k].param
  <2>1. k \in DOMAIN al /\ al[k].byref /\ al[k].from = v
    BY <1>0, <1>8, LastRefExists
  <2> HIDE DEF k
  <2>2. p \in Local /\ p \in ParamsOf(al) /\ ArgFor(al, p) = al[k]
    BY <1>0, <2>1, ArgTypes, ArgForParam
  <2>3. env[D][p] = CellAt(n, v)
    <3>1. Linked(D, p) /\ D > 1
      BY <1>0, <2>2 DEF RefInv, EnvInv, EnvLinked
    <3> QED
      BY <1>0, <2>1, <2>2, <3>1 DEF Linked
  <2>4. Top.slots[p] = mem[env[D][p]]
    <3>1. ~PassedOn(D, p)
      BY <1>0 DEF PassedOn
    <3> QED
      BY <1>0, <2>2, <3>1 DEF RefInv, SlotsCurrent, Top
  <2> QED
    BY <2>2, <2>3, <2>4 DEF k
\* The values.
<1>9. ASSUME NEW c \in Cell, c[1] # D PROVE mem'[c] = mem[c]
  BY <1>0, <1>9 DEF ReturnFromFunction
<1>10. ASSUME NEW j \in 1..n, NEW x \in Local PROVE mem'[env[j][x]] = mem[env[j][x]]
  <2>1. env[j][x] \in Cell /\ env[j][x][1] \in 0..j
    BY <1>0, <1>2 DEF RefInv, EnvInv, CellsOlder
  <2>2. env[j][x][1] # D
    BY <1>0, <2>1
  <2> QED
    BY <1>9, <2>1, <2>2
<1>11. ASSUME NEW x \in Local PROVE Returned.slots[x] = mem[env[n][x]]
  <2>1. CASE HasRef(al, <<"local", x>>)
    <3>1. Returned.slots[x] = Top.slots[al[LastRef(al, <<"local", x>>)].param]
      BY <1>0, <2>1, ReturnedFields
    <3> QED
      BY <1>8, <2>1, <3>1 DEF CellAt
  <2>2. CASE ~HasRef(al, <<"local", x>>)
    <3>1. Returned.slots[x] = states[n].slots[x]
      BY <1>0, <2>2, ReturnedFields
    <3>2. ~PassedOn(n, x)
      BY <1>0, <2>2 DEF PassedOn
    <3> QED
      BY <1>0, <3>1, <3>2 DEF RefInv, SlotsCurrent
  <2> QED
    BY <2>1, <2>2
<1>12. SlotsCurrent'
  <2>1. ASSUME NEW j \in 1..n, NEW x \in Local, ~PassedOn(j, x)'
        PROVE  states'[j].slots[x] = mem'[env[j][x]]
    <3>1. CASE j = n
      BY <1>1, <1>10, <1>11, <3>1
    <3>2. CASE j # n
      <4>1. states[j].slots[x] = mem[env[j][x]]
        BY <1>0, <1>2, <1>4, <2>1, <3>2 DEF RefInv, SlotsCurrent
      <4> QED
        BY <1>1, <1>10, <3>2, <4>1
    <3> QED
      BY <3>1, <3>2
  <2> QED
    BY <1>1, <2>1 DEF SlotsCurrent
<1>13. ASSUME NEW s \in Shared, s \in Bound, s \notin Bound'
       PROVE  HasRef(al, <<"shared", s>>)
  <2>1. PICK j \in 1..D, x \in Local : env[j][x] = <<0, s>>
    BY <1>0, <1>13 DEF Bound
  <2>2. \A k \in 1..n, y \in Local : env[k][y] # <<0, s>>
    BY <1>1, <1>13 DEF Bound
  <2>3. j = D
    BY <1>3, <2>1, <2>2
  <2>4. Linked(D, x)
    BY <1>0 DEF RefInv, EnvInv, EnvLinked
  <2>5. x \in ParamsOf(al) /\ ArgFor(al, x).byref
    <3>1. <<D, x>> # <<0, s>>
      BY <1>0
    <3> QED
      BY <1>0, <2>1, <2>3, <2>4, <3>1 DEF Linked
  <2>6. PICK i \in DOMAIN al : ArgFor(al, x) = al[i] /\ al[i].byref /\ al[i].from \in Var
    <3>1. PICK i \in DOMAIN al : ArgFor(al, x) = al[i]
      BY <1>0, <2>5, ArgForParam
    <3> QED
      BY <1>0, <2>5, <3>1, ArgTypes
  <2>7. CellAt(n, al[i].from) = <<0, s>>
    BY <1>0, <2>1, <2>3, <2>4, <2>5, <2>6 DEF Linked
  <2>8. CASE al[i].from[1] = "local" /\ al[i].from[2] \in Local
    BY <1>0, <2>2, <2>7, <2>8 DEF CellAt
  <2>9. CASE /\ al[i].from[1] = "shared"
             /\ al[i].from = <<"shared", al[i].from[2]>>
    <3>1. al[i].from[2] = s
      BY <2>7, <2>9 DEF CellAt
    <3> QED
      BY <2>6, <2>9, <3>1 DEF HasRef
  <2> QED
    BY <2>6, <2>8, <2>9, VarCases
<1>14. SharedCurrent'
  <2>1. ASSUME NEW s \in Shared, s \notin Bound'
        PROVE  Returned.shared[s] = mem'[<<0, s>>]
    <3>1. mem'[<<0, s>>] = mem[<<0, s>>]
      <4>1. <<0, s>> \in Cell /\ 0 # D
        BY <1>0 DEF Cell
      <4> QED
        BY <1>9, <4>1
    <3>2. CASE HasRef(al, <<"shared", s>>)
      <4>1. Returned.shared[s] = Top.slots[al[LastRef(al, <<"shared", s>>)].param]
        BY <1>0, <3>2, ReturnedFields
      <4> QED
        BY <1>8, <3>1, <3>2, <4>1 DEF CellAt
    <3>3. CASE ~HasRef(al, <<"shared", s>>)
      <4>1. Returned.shared[s] = Top.shared[s]
        BY <1>0, <3>3, ReturnedFields
      <4>2. s \notin Bound
        BY <1>13, <2>1, <3>3
      <4> QED
        BY <3>1, <4>1, <4>2 DEF RefInv, SharedCurrent
    <3> QED
      BY <3>2, <3>3
  <2> QED
    BY <1>1, <2>1 DEF SharedCurrent
<1> QED
  BY <1>6, <1>7, <1>12, <1>14 DEF RefInv, EnvInv

LEMMA InitRef == Init => RefInv
<1> SUFFICES ASSUME Init PROVE RefInv
  OBVIOUS
<1>1. Depth = 1
  BY DEF Init, Depth
<1>2. /\ env = <<[x \in Local |-> <<1, x>>]>>
      /\ Top.slots = [x \in Local |-> Zero] /\ Top = states[1]
      /\ Top.shared = [s \in Shared |-> Zero]
      /\ mem = [c \in Cell |-> Zero]
  BY <1>1 DEF Init, Top
<1>3. \A j \in 1..Depth : j = 1
  BY <1>1
<1>4. ASSUME NEW x \in Local
      PROVE  /\ env[1][x] = <<1, x>>
             /\ env[1][x][1] = 1 /\ env[1][x][2] = x
             /\ states[1].slots[x] = mem[env[1][x]]
  <2>1. env[1][x] = <<1, x>>
    BY <1>2
  <2>2. <<1, x>> \in Cell
    BY CallAssumption DEF Cell
  <2> QED
    BY <1>2, <2>1, <2>2
<1>5. EnvLinked
  <2>1. ASSUME NEW x \in Local PROVE Linked(1, x)
    BY <1>4 DEF Linked
  <2> QED
    BY <1>3, <2>1 DEF EnvLinked
<1>6. CellsOlder
  <2>1. ASSUME NEW x \in Local PROVE env[1][x][1] \in 0..1
    BY <1>4
  <2> QED
    BY <1>3, <2>1 DEF CellsOlder
<1>7. NamesApart
  <2>1. \A x, y \in Local : env[1][x] = env[1][y] => x = y
    BY <1>4
  <2> QED
    BY <1>3, <2>1 DEF NamesApart
<1>8. SharedByPassing
  BY <1>3 DEF SharedByPassing
<1>9. SlotsCurrent
  BY <1>3, <1>4 DEF SlotsCurrent
<1>10. SharedCurrent
  BY <1>2 DEF SharedCurrent, Cell
<1> QED
  BY <1>5, <1>6, <1>7, <1>8, <1>9, <1>10 DEF RefInv, EnvInv

LEMMA StepRef ==
  ASSUME TypeOK, RefInv, ~MayAlias, Next
  PROVE  RefInv'
<1>0. Top \in State
  BY Stacks
<1>1. ASSUME NEW x \in Local, NEW v \in Value, Assign(x, v) PROVE RefInv'
  <2> DEFINE st == [Top EXCEPT !.slots[x] = v]
  <2>1. st.slots = [Top.slots EXCEPT ![x] = v] /\ st.shared = Top.shared
    BY <1>0 DEF State
  <2>2. OnTop(st) /\ mem' = [mem EXCEPT ![env[Depth][x]] = v] /\ UNCHANGED <<args, env>>
    BY <1>1 DEF Assign, CellOf
  <2> HIDE DEF st
  <2> QED
    BY <2>1, <2>2, AssignRef
<1>2. ASSUME NEW x \in Local, NEW v \in Value, ExecRead(x, v) PROVE RefInv'
  <2>1. CASE Top.data_pos < Top.data_len
    <3> DEFINE st == [Top EXCEPT !.data_pos = @ + 1, !.slots[x] = v]
    <3>1. st.slots = [Top.slots EXCEPT ![x] = v] /\ st.shared = Top.shared
      BY <1>0 DEF State
    <3>2. OnTop(st) /\ mem' = [mem EXCEPT ![env[Depth][x]] = v] /\ UNCHANGED <<args, env>>
      BY <1>2, <2>1 DEF ExecRead, CellOf
    <3> HIDE DEF st
    <3> QED
      BY <3>1, <3>2, AssignRef
  <2>2. CASE ~(Top.data_pos < Top.data_len)
    <3>1. UNCHANGED <<states, args, env, mem>>
      BY <1>2, <2>2 DEF ExecRead
    <3>2. Depth' = Depth /\ Top' = Top
      BY <3>1 DEF Depth, Top
    <3>3. /\ EnvInv' /\ Bound' = Bound
          /\ \A j, y : PassedOn(j, y)' <=> PassedOn(j, y)
      BY <3>1, <3>2, EnvSame DEF RefInv
    <3> QED
      BY <3>1, <3>2, <3>3 DEF RefInv, SlotsCurrent, SharedCurrent
  <2> QED
    BY <2>1, <2>2
<1>3. ASSUME NEW st, OnTop(st), st.slots = Top.slots, st.shared = Top.shared,
             UNCHANGED <<args, env, mem>>
      PROVE  RefInv'
  BY <1>3, NoVariableRef
<1>4. CASE ReadLine
  BY <1>0, <1>3, <1>4 DEF ReadLine, State
<1>5. CASE ReadFile
  BY <1>0, <1>3, <1>5 DEF ReadFile, State
<1>6. ASSUME NEW n \in Code, Error(n) PROVE RefInv'
  BY <1>0, <1>3, <1>6 DEF Error, State
<1>7. CASE GuiNextCallback
  BY <1>0, <1>3, <1>7 DEF GuiNextCallback, State
<1>8. CASE ExecRestore
  BY <1>0, <1>3, <1>8 DEF ExecRestore, State
<1> QED
  BY <1>1, <1>2, <1>4, <1>5, <1>6, <1>7, <1>8, SharedRef, CallRef, ReturnRef DEF Next

(***************************************************************************)
(* In a program that reaches no variable under two names at once, call by  *)
(* copy and write-back (call_function) cannot be told from call by         *)
(* reference: at every moment, at any depth of calls and for any argument  *)
(* lists, the running function reads what one store would hold.            *)
(***************************************************************************)
THEOREM CopiesAreReferences ==
  ASSUME ~MayAlias PROVE Spec => []ByRefTransparent
<1>1. TypeOK /\ RefInv /\ [Next]_vars => RefInv'
  <2> SUFFICES ASSUME TypeOK, RefInv, UNCHANGED vars PROVE RefInv'
    BY StepRef
  <2>1. UNCHANGED <<states, args, env, mem>> /\ Depth' = Depth /\ Top' = Top
    BY DEF vars, Depth, Top
  <2>2. /\ EnvInv' /\ Bound' = Bound
        /\ \A j, y : PassedOn(j, y)' <=> PassedOn(j, y)
    BY <2>1, EnvSame DEF RefInv
  <2> QED
    BY <2>1, <2>2 DEF RefInv, SlotsCurrent, SharedCurrent
<1>2. TypeOK /\ RefInv => ByRefTransparent
  <2> SUFFICES ASSUME TypeOK, RefInv PROVE ByRefTransparent
    OBVIOUS
  <2>1. Depth \in 1..Depth /\ \A x \in Local : ~PassedOn(Depth, x)
    BY Stacks DEF PassedOn
  <2> QED
    BY <2>1 DEF RefInv, SlotsCurrent, SharedCurrent, ByRefTransparent, Touchable, Top
<1> QED
  BY <1>1, <1>2, InitRef, CallsTyped, PTL DEF Spec
=============================================================================
