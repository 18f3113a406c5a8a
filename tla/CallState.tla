------------------------------ MODULE CallState ------------------------------
(***************************************************************************)
(* The interpreter state across function calls (call_function in           *)
(* crates/xb-runtime/src/call.rs; ExecutionState in slot.rs).              *)
(*                                                                         *)
(* A call runs on an ExecutionState of its own, built from the caller's by *)
(* copying; when it returns, SOME fields are copied back, and parameters   *)
(* passed with `@` are written to the variables they came from.  The C     *)
(* backend keeps one set of static variables instead.                      *)
(*                                                                         *)
(* env, mem, taken and err are history variables: what the same steps do   *)
(* on a machine with one store, where an `@` parameter IS the caller's     *)
(* variable.                                                               *)
(***************************************************************************)
EXTENDS Naturals, Sequences

CONSTANTS Local,        \* names of locals and parameters
          Shared,       \* names of SHARED variables
          Value, Zero,  \* values; Zero is the default of a fresh slot
          Code,         \* error codes
          Lines,        \* lines of standard input
          DataLen,      \* length of the DATA segment
          ArgLists,     \* the argument lists calls are made with
          MayAlias,     \* may a variable be reached under two names at once?
          MaxDepth      \* bound on the depth of calls

Var == ({"local"} \X Local) \cup ({"shared"} \X Shared)

\* One argument: `param` of the callee is given variable `from`, with `@` or
\* without.
Arg == [param : Local, from : Var, byref : BOOLEAN]

ASSUME CallAssumption ==
  /\ Zero \in Value \cap Code
  /\ Lines \in Nat /\ DataLen \in Nat /\ MaxDepth \in Nat \ {0}
  /\ ArgLists \subseteq Seq(Arg)
  /\ \A al \in ArgLists : \A i, j \in DOMAIN al :
       al[i].param = al[j].param => i = j
  /\ MayAlias \in BOOLEAN

VARIABLES states,   \* one ExecutionState per active call, innermost last
          args,     \* the argument list each of them was called with
          fault,    \* has an Err ended the run?
          env,      \* history: the cell each local names, per active call
          mem,      \* history: contents of the cells
          taken,    \* history: the input lines taken
          err       \* history: the code last set by ERROR

vars == <<states, args, fault, env, mem, taken, err>>

State == [slots : [Local -> Value], shared : [Shared -> Value],
          input_pos : 0..Lines, error_code : Code,
          data_len : {0, DataLen}, data_pos : 0..DataLen,
          gui_close_sent : BOOLEAN]

\* Cells of locals are numbered by the depth of the call that made them.
Cell == ((1..MaxDepth) \X Local) \cup ({0} \X Shared)

Init ==
  /\ states = <<[slots |-> [x \in Local |-> Zero],
                 shared |-> [s \in Shared |-> Zero],
                 input_pos |-> 0, error_code |-> Zero,
                 data_len |-> DataLen, data_pos |-> 0,
                 gui_close_sent |-> FALSE]>>
  /\ args = <<<<>>>>
  /\ fault = FALSE
  /\ env = <<[x \in Local |-> <<1, x>>]>>
  /\ mem = [c \in Cell |-> Zero]
  /\ taken = <<>> /\ err = Zero

Depth == Len(states)
Top == states[Depth]
OnTop(st) == states' = [states EXCEPT ![Depth] = st]

ValueOf(st, v) == IF v[1] = "local" THEN st.slots[v[2]] ELSE st.shared[v[2]]

CellOf(v) == IF v[1] = "local" THEN env[Depth][v[2]] ELSE <<0, v[2]>>

\* Shared variables that an active call can also reach as an `@` parameter.
Bound == {s \in Shared : \E j \in DOMAIN env, x \in Local : env[j][x] = <<0, s>>}

\* Programs that keep to one name per variable do not touch these.
Touchable(s) == MayAlias \/ s \notin Bound

-----------------------------------------------------------------------------
Assign(x, v) == /\ OnTop([Top EXCEPT !.slots[x] = v])
                /\ mem' = [mem EXCEPT ![CellOf(<<"local", x>>)] = v]
                /\ UNCHANGED <<args, fault, env, taken, err>>

ExecShared(s, v) == /\ Touchable(s)
                    /\ OnTop([Top EXCEPT !.shared[s] = v])
                    /\ mem' = [mem EXCEPT ![<<0, s>>] = v]
                    /\ UNCHANGED <<args, fault, env, taken, err>>

\* Mutant: the end of the input is noticed one line late.
ReadLineLate == /\ Top.input_pos <= Lines
                /\ OnTop([Top EXCEPT !.input_pos = @ + 1])
                /\ taken' = Append(taken, Top.input_pos + 1)
                /\ UNCHANGED <<args, fault, env, mem, err>>

\* READLINE$, INLINE$: the next line, or "" at the end of the input.
ReadLine == /\ Top.input_pos < Lines
            /\ OnTop([Top EXCEPT !.input_pos = @ + 1])
            /\ taken' = Append(taken, Top.input_pos + 1)
            /\ UNCHANGED <<args, fault, env, mem, err>>

\* ReadFile on standard input takes every line that is left (what does not
\* fit the buffer is dropped).
ReadFile == /\ Top.input_pos < Lines
            /\ OnTop([Top EXCEPT !.input_pos = Lines])
            /\ taken' = taken \o [i \in 1..(Lines - Top.input_pos) |->
                                    Top.input_pos + i]
            /\ UNCHANGED <<args, fault, env, mem, err>>

\* ERROR(n) sets the code (ERROR(-1) only reads it).
Error(n) == /\ OnTop([Top EXCEPT !.error_code = n])
            /\ err' = n
            /\ UNCHANGED <<args, fault, env, mem, taken>>

\* XuiGetNextCallback, where it still has the CloseWindow to deliver.
GuiNextCallback == /\ ~Top.gui_close_sent
                   /\ OnTop([Top EXCEPT !.gui_close_sent = TRUE])
                   /\ UNCHANGED <<args, fault, env, mem, taken, err>>

\* READ x: past the end of the segment it is a runtime error.
ExecRead(x, v) ==
  IF Top.data_pos < Top.data_len
  THEN /\ OnTop([Top EXCEPT !.data_pos = @ + 1, !.slots[x] = v])
       /\ mem' = [mem EXCEPT ![CellOf(<<"local", x>>)] = v]
       /\ UNCHANGED <<args, fault, env, taken, err>>
  ELSE /\ fault' = TRUE
       /\ UNCHANGED <<states, args, env, mem, taken, err>>

ExecRestore == /\ Top.data_pos > 0
               /\ OnTop([Top EXCEPT !.data_pos = 0])
               /\ UNCHANGED <<args, fault, env, mem, taken, err>>

-----------------------------------------------------------------------------
(***************************************************************************)
(* The call.                                                               *)
(***************************************************************************)
ParamsOf(al) == {al[i].param : i \in DOMAIN al}
ArgFor(al, x) == al[CHOOSE i \in DOMAIN al : al[i].param = x]

\* The new state: parameters from the arguments, what is shared and the
\* positions from the caller; no DATA.
Callee(al) ==
  [slots |-> [x \in Local |-> IF x \in ParamsOf(al)
                              THEN ValueOf(Top, ArgFor(al, x).from) ELSE Zero],
   shared |-> Top.shared,
   input_pos |-> Top.input_pos, error_code |-> Top.error_code,
   data_len |-> 0, data_pos |-> 0,
   gui_close_sent |-> Top.gui_close_sent]

\* On one store an `@` argument is the variable itself.
CalleeEnv(al) ==
  [x \in Local |-> IF x \in ParamsOf(al) /\ ArgFor(al, x).byref
                   THEN CellOf(ArgFor(al, x).from) ELSE <<Depth + 1, x>>]

CalleeMem(al) ==
  [c \in Cell |-> IF c[1] # Depth + 1 THEN mem[c]
                  ELSE IF c[2] \in ParamsOf(al)
                  THEN mem[CellOf(ArgFor(al, c[2]).from)] ELSE Zero]

NoAlias(al) ==
  /\ \A i, j \in DOMAIN al :
       (i # j /\ al[i].byref /\ al[j].byref) =>
         CellOf(al[i].from) # CellOf(al[j].from)
  /\ \A i \in DOMAIN al : al[i].from[1] = "shared" => al[i].from[2] \notin Bound

CallFunction(al) ==
  /\ Depth < MaxDepth
  /\ MayAlias \/ NoAlias(al)
  /\ states' = Append(states, Callee(al))
  /\ args' = Append(args, al)
  /\ env' = Append(env, CalleeEnv(al))
  /\ mem' = CalleeMem(al)
  /\ UNCHANGED <<fault, taken, err>>

\* Mutant: `state.input_pos = sub.input_pos` forgotten.
CopyOutNoInput(st, sub) == [st EXCEPT !.shared = sub.shared,
                                      !.error_code = sub.error_code]

\* Mutant: `state.error_code = sub.error_code` forgotten.
CopyOutNoError(st, sub) == [st EXCEPT !.shared = sub.shared,
                                      !.input_pos = sub.input_pos]

\* The fields copied back, after the body has run.
CopyOut(st, sub) == [st EXCEPT !.shared = sub.shared,
                               !.input_pos = sub.input_pos,
                               !.error_code = sub.error_code]

\* The last `@` argument, if any, that names variable v.
LastRef(al, v) ==
  LET is == {i \in DOMAIN al : al[i].byref /\ al[i].from = v}
  IN  CHOOSE i \in is : \A j \in is : j <= i

HasRef(al, v) == \E i \in DOMAIN al : al[i].byref /\ al[i].from = v

\* Mutant: shared targets are written to the caller's locals instead.
WritebackLocals(st, sub, al) ==
  [st EXCEPT
     !.slots = [x \in Local |-> IF HasRef(al, <<"local", x>>)
                  THEN sub.slots[al[LastRef(al, <<"local", x>>)].param] ELSE @[x]]]

\* Writebacks go in the order of the arguments: the last one wins.
Writeback(st, sub, al) ==
  [st EXCEPT
     !.slots = [x \in Local |-> IF HasRef(al, <<"local", x>>)
                  THEN sub.slots[al[LastRef(al, <<"local", x>>)].param] ELSE @[x]],
     !.shared = [s \in Shared |-> IF HasRef(al, <<"shared", s>>)
                  THEN sub.slots[al[LastRef(al, <<"shared", s>>)].param] ELSE @[s]]]

ReturnFromFunction ==
  LET caller == states[Depth - 1] IN
  /\ Depth > 1
  /\ states' = [j \in 1..(Depth - 1) |->
                  IF j = Depth - 1
                  THEN Writeback(CopyOut(caller, Top), Top, args[Depth])
                  ELSE states[j]]
  /\ args' = [j \in 1..(Depth - 1) |-> args[j]]
  /\ env' = [j \in 1..(Depth - 1) |-> env[j]]
  /\ mem' = [c \in Cell |-> IF c[1] = Depth THEN Zero ELSE mem[c]]
  /\ UNCHANGED <<fault, taken, err>>

Next == /\ ~fault
        /\ \/ \E x \in Local, v \in Value : Assign(x, v)
           \/ \E s \in Shared, v \in Value : ExecShared(s, v)
           \/ ReadLine
           \/ ReadFile
           \/ \E n \in Code : Error(n)
           \/ GuiNextCallback
           \/ \E x \in Local, v \in Value : ExecRead(x, v)
           \/ ExecRestore
           \/ \E al \in ArgLists : CallFunction(al)
           \/ ReturnFromFunction

Spec == Init /\ [][Next]_vars

-----------------------------------------------------------------------------
\* Types of the variables.
TypeOK == /\ states \in Seq(State) /\ Depth \in 1..MaxDepth
          /\ args \in Seq(ArgLists \cup {<<>>}) /\ Len(args) = Depth
          /\ env \in Seq([Local -> Cell]) /\ Len(env) = Depth
          /\ mem \in [Cell -> Value]
          /\ taken \in Seq(1..Lines)
          /\ err \in Code
          /\ fault \in BOOLEAN

(***************************************************************************)
(* Copying in and out is as good as a reference: in a program that reaches *)
(* no variable under two names at once, every name the running function    *)
(* may use has the value it would have if `@` parameters were the caller's *)
(* variables and SHARED ones existed once, whatever calls returned before. *)
(***************************************************************************)
ByRefTransparent ==
  /\ \A x \in Local : Top.slots[x] = mem[env[Depth][x]]
  /\ \A s \in Shared : Touchable(s) => Top.shared[s] = mem[<<0, s>>]

(***************************************************************************)
(* Standard input is one stream: whichever functions read it, its lines    *)
(* are taken once each and in order.                                       *)
(***************************************************************************)
InputInOrder == taken = [i \in 1..Top.input_pos |-> i]

\* ERROR reports the code set last, in whichever function it was set.
ErrorCodeIsLast == Top.error_code = err

=============================================================================
