----------------------------- MODULE FlowProofs -----------------------------
(***************************************************************************)
(* Proofs about ExecItems, for every set of programs and every bound: the  *)
(* Rust stack follows the nesting of the program (StackNested) and no Flow *)
(* crosses a function call (CallsEndAlone).                                *)
(*                                                                         *)
(* And about FlowRefinement: every step of the interpreter on a program of *)
(* the class ForC is a step of the emitted C, and on a program of the      *)
(* class ForLlvm a step of the LLVM code.                                  *)
(*                                                                         *)
(* The argument for those has four parts.                                  *)
(*   1. The mapping: what a stack of activations stands for, and what      *)
(*      pushing a frame, and returning to one, does to that.               *)
(*   2. The stack and the program: the activations since the last GOSUB or *)
(*      call follow the path of the block that runs (BaseFacts), so that   *)
(*      "the innermost frame whose arm consumes the Flow" and "the nearest *)
(*      enclosing item" are the same place.                                *)
(*   3. Tidy, an invariant of the interpreter on orderly programs.         *)
(*   4. One lemma per action of CFlow and of LFlow.                        *)
(***************************************************************************)
EXTENDS FlowRefinement, WellFoundedInduction, TLAPS

-----------------------------------------------------------------------------
(* Facts about programs *)

(***************************************************************************)
(* A non-empty set of depths has an innermost member, so the CHOOSE in     *)
(* Innermost is never empty-handed.                                        *)
(***************************************************************************)
LEMMA InnermostExists ==
  ASSUME NEW N \in Nat, NEW T, T \subseteq 0..N, T # {}
  PROVE  /\ Innermost(T) \in T
         /\ \A j \in T : j <= Innermost(T)
<1> DEFINE D == {N - j : j \in T}
           R == OpToRel(<, Nat)
<1>1. D \subseteq Nat /\ D # {}
  OBVIOUS
<1>2. PICK d \in D : \A e \in D : ~(<<e, d>> \in R)
  BY <1>1, NatLessThanWellFounded, WFMin
<1>3. \A e \in D : ~(e < d)
  BY <1>1, <1>2 DEF OpToRel
<1>4. PICK k \in T : d = N - k
  OBVIOUS
<1>5. ASSUME NEW j \in T PROVE j <= k
  <2>1. N - j \in D
    OBVIOUS
  <2>2. ~(N - j < N - k)
    BY <1>3, <1>4, <2>1
  <2>3. j \in 0..N /\ k \in 0..N
    OBVIOUS
  <2> HIDE DEF D
  <2> QED
    BY <2>2, <2>3
<1>6. \E m \in T : \A j \in T : j <= m
  BY <1>5
<1> QED
  BY <1>6 DEF Innermost

\* The parts of a program that the proofs use.
LEMMA ProgramFacts ==
  ASSUME NEW p \in Corpus
  PROVE  /\ \A b \in Block : /\ p.code[b] \in Seq(Item)
                             /\ Len(p.code[b]) \in Nat
                             /\ DOMAIN p.code[b] = 1..Len(p.code[b])
                             /\ Root(p, b) \in Block
                             /\ \A i \in DOMAIN p.code[b] :
                                  /\ p.code[b][i] \in Item
                                  /\ p.code[b][i].body \subseteq Block
         /\ p.path[Main] = <<>>
<1>1. p \in Program /\ WellFormed(p)
  BY ProgramsAssumption
<1>2. p.code \in [Block -> Seq(Item)] /\ p.path \in [Block -> Seq(Pos)]
  BY <1>1 DEF Program
<1>3. p.path[Main] = <<>>
  BY <1>1 DEF WellFormed
<1>4. ASSUME NEW b \in Block
      PROVE  /\ p.code[b] \in Seq(Item)
             /\ Len(p.code[b]) \in Nat
             /\ DOMAIN p.code[b] = 1..Len(p.code[b])
             /\ \A i \in DOMAIN p.code[b] :
                  /\ p.code[b][i] \in Item
                  /\ p.code[b][i].body \subseteq Block
  <2>1. p.code[b] \in Seq(Item)
    BY <1>2
  <2>2. \A i \in DOMAIN p.code[b] : p.code[b][i] \in Item
    BY <2>1
  <2>3. \A it \in Item : it.body \subseteq Block
    BY DEF Item
  <2> QED
    BY <2>1, <2>2, <2>3
<1>5. ASSUME NEW b \in Block
      PROVE  Root(p, b) \in Block
  <2>1. CASE p.path[b] = <<>>
    BY <2>1 DEF Root
  <2>2. CASE p.path[b] # <<>>
    <3>1. p.path[b] \in Seq(Pos) /\ Len(p.path[b]) > 0
      BY <1>2, <2>2
    <3>2. p.path[b][1] \in Pos
      BY <3>1
    <3> QED
      BY <2>2, <3>2 DEF Root, Pos
  <2> QED
    BY <2>1, <2>2
<1> QED
  BY <1>3, <1>4, <1>5

\* A label of a block sits at one of its indices.
LEMMA LabelIdxType ==
  ASSUME NEW p \in Corpus, NEW b \in Block, NEW l \in LabelsIn(p, b)
  PROVE  LabelIdx(p, b, l) \in 1..Len(p.code[b])
<1>1. \E i \in DOMAIN p.code[b] : IsLabel(p, b, i, l)
  BY DEF LabelsIn
<1> QED
  BY <1>1, ProgramFacts DEF LabelIdx

-----------------------------------------------------------------------------

\* The inductive invariant: StackNested needs the types.
Inv == TypeOK /\ StackNested

-----------------------------------------------------------------------------
(***************************************************************************)
(* The three things an arm does to the stack keep the invariant.           *)
(***************************************************************************)
\* Only idx and cur of a frame ever change.
LEMMA FrameFacts ==
  ASSUME NEW f \in Frame, NEW i \in Nat \ {0}
  PROVE  /\ Moved(f, i) \in Frame
         /\ Moved(f, i).block = f.block /\ Moved(f, i).via = f.via
         /\ Moved(f, i).idx = i /\ Moved(f, i).cur = i
         /\ [f EXCEPT !.idx = i] \in Frame
         /\ [f EXCEPT !.idx = i].block = f.block
         /\ [f EXCEPT !.idx = i].via = f.via
         /\ [f EXCEPT !.idx = i].idx = i
         /\ [f EXCEPT !.idx = i].cur = f.cur
  BY DEF Frame, Moved

\* Frames above k return, frame k goes on: what is below k is untouched.
LEMMA ResumeInv ==
  ASSUME Inv, stack # <<>>, prog' = prog,
         NEW k \in 0..Len(stack), NEW i \in Nat \ {0}, Resume(k, i)
  PROVE  Inv'
<1> USE DEF Inv
<1>1. stack \in Seq(Frame) /\ Len(stack) \in Nat /\ DOMAIN stack = 1..Len(stack)
  BY DEF TypeOK
<1>2. \A j \in 1..Len(stack) : stack[j] \in Frame
  BY <1>1
<1> DEFINE new(j) == IF j = k THEN Moved(stack[j], i) ELSE stack[j]
<1>3. stack' = [j \in 1..k |-> new(j)]
  BY DEF Resume
<1>4. ASSUME NEW j \in 1..k
      PROVE  /\ new(j) \in Frame
             /\ new(j).block = stack[j].block /\ new(j).via = stack[j].via
             /\ j = k => new(j).idx = i /\ new(j).cur = i
  <2>1. stack[j] \in Frame
    BY <1>1, <1>2
  <2>2. CASE j = k
    BY <2>1, <2>2, FrameFacts
  <2>3. CASE j # k
    BY <2>1, <2>3
  <2> QED
    BY <2>2, <2>3
<1>5. stack' \in Seq(Frame) /\ Len(stack') = k /\ k \in Nat
  <2>1. k \in Nat
    BY <1>1
  <2> HIDE DEF new
  <2>2. [j \in 1..k |-> new(j)] \in Seq(Frame)
    BY <1>4, <2>1
  <2>3. Len([j \in 1..k |-> new(j)]) = k
    BY <1>4, <2>1, <2>2
  <2> QED
    BY <1>3, <2>1, <2>2, <2>3
<1>6. \A j \in 1..k : /\ stack'[j].block = stack[j].block
                      /\ stack'[j].via = stack[j].via
  BY <1>3, <1>4
<1>7. \A j \in 1..k : j # k => stack'[j] = stack[j]
  BY <1>3
<1>8. k > 0 => stack'[k].cur = i /\ stack'[k].idx = i
  BY <1>3, <1>4, <1>5
<1>9. TypeOK'
  <2>1. addrs' \in [1..MaxDepth -> [Label -> Nat]]
    BY DEF Resume, TypeOK, NoAddrs
  <2>2. halted' \in {"no", "end", "error"}
    BY DEF Resume
  <2>3. Len(stack') <= MaxDepth
    BY <1>1, <1>5, MaxDepthAssumption DEF TypeOK
  <2> QED
    BY <1>5, <2>1, <2>2, <2>3 DEF TypeOK
<1>10. StackNested'
  <2>1. (stack = <<>> <=> halted # "no")'
    <3>1. stack' = <<>> <=> k = 0
      BY <1>5
    <3> QED
      BY <3>1 DEF Resume
  <2>2. (stack # <<>> => /\ stack[1].block = Main
                         /\ stack[1].via = "call"
                         /\ Top.cur = Top.idx)'
    BY <1>1, <1>5, <1>6, <1>8 DEF StackNested, Top
  <2>3. ASSUME NEW j \in 1..(Len(stack') - 1) PROVE StartedBy(j)'
    <3>1. /\ j \in 1..(Len(stack) - 1)
          /\ j \in 1..k /\ j + 1 \in 1..k /\ j # k
      BY <1>1, <1>5
    <3>2. StartedBy(j)
      BY <3>1 DEF StackNested
    <3>3. /\ stack'[j] = stack[j]
          /\ stack'[j+1].block = stack[j+1].block
          /\ stack'[j+1].via = stack[j+1].via
      BY <1>6, <1>7, <3>1
    <3> QED
      BY <3>2, <3>3 DEF StartedBy, Items, Arm
  <2> QED
    BY <2>1, <2>2, <2>3 DEF StackNested
<1> QED
  BY <1>9, <1>10

\* The arm of the top frame calls exec_items.
LEMMA EnterInv ==
  ASSUME Inv, stack # <<>>, prog' = prog,
         NEW b \in Block, NEW i \in Nat \ {0},
         NEW v \in {"block", "gosub", "call"}, NEW n,
         Enter(b, i, v, n),
         Top.idx \in DOMAIN prog.code[Top.block],
         v = "block" => b \in Here.body,
         v = "gosub" => /\ Here.op \in {"gosub", "gosubexpr"}
                        /\ b = Root(prog, Top.block),
         v = "call"  => Here.op = "call" /\ b = Here.arg
  PROVE  Inv'
<1> USE DEF Inv
<1> DEFINE f == NewFrame(b, i, v)
           len == Len(stack)
<1>1. stack \in Seq(Frame) /\ len \in Nat \ {0} /\ DOMAIN stack = 1..len
  BY DEF TypeOK
<1>2. f \in Frame
  BY DEF Frame, NewFrame
<1>3. stack' = Append(stack, f)
  BY DEF Enter
<1>4. /\ stack' \in Seq(Frame) /\ Len(stack') = len + 1
      /\ stack'[len + 1] = f
      /\ \A j \in 1..len : stack'[j] = stack[j]
  BY <1>1, <1>2, <1>3
<1>5. f.block = b /\ f.idx = i /\ f.cur = i /\ f.via = v
  BY DEF NewFrame
<1>6. TypeOK'
  <2>1. addrs' \in [1..MaxDepth -> [Label -> Nat]]
    <3>1. ASSUME NEW map \in [Label -> Nat] PROVE Register(map, b) \in [Label -> Nat]
      <4>1. ASSUME NEW l \in LabelsIn(prog, b)
            PROVE  LabelIdx(prog, b, l) - 1 \in Nat
        <5>1. LabelIdx(prog, b, l) \in 1..Len(prog.code[b])
          BY LabelIdxType DEF TypeOK
        <5>2. Len(prog.code[b]) \in Nat
          BY ProgramFacts DEF TypeOK
        <5> QED
          BY <5>1, <5>2
      <4> QED
        BY <4>1 DEF Register
    <3>2. addrs \in [1..MaxDepth -> [Label -> Nat]]
      BY DEF TypeOK
    <3>3. addrs' = [addrs EXCEPT ![n] = Register(addrs[n], b)]
      BY DEF Enter
    <3> QED
      BY <3>1, <3>2, <3>3
  <2>2. halted' \in {"no", "end", "error"}
    BY DEF Enter, TypeOK
  <2>3. Len(stack') <= MaxDepth
    BY <1>1, <1>4, MaxDepthAssumption DEF Enter
  <2> QED
    BY <1>4, <2>1, <2>2, <2>3 DEF TypeOK
<1>7. StackNested'
  <2> HIDE DEF f
  <2>1. (stack = <<>> <=> halted # "no")'
    BY <1>1, <1>4 DEF Enter, StackNested
  <2>2. (stack # <<>> => /\ stack[1].block = Main
                         /\ stack[1].via = "call"
                         /\ Top.cur = Top.idx)'
    BY <1>1, <1>4, <1>5 DEF StackNested, Top
  <2>3. ASSUME NEW j \in 1..(Len(stack') - 1) PROVE StartedBy(j)'
    <3>1. CASE j = len
      <4>1. stack'[j] = Top /\ stack'[j+1] = f
        BY <1>1, <1>4, <3>1 DEF Top
      <4>2. Top.cur = Top.idx
        BY DEF StackNested
      <4> QED
        BY <1>5, <4>1, <4>2 DEF StartedBy, Items, Arm, Here
    <3>2. CASE j # len
      <4>1. j \in 1..(len - 1) /\ j \in 1..len /\ j + 1 \in 1..len
        <5>1. j \in 1..len
          BY <1>1, <1>4
        <5> HIDE DEF len
        <5> QED
          BY <1>1, <3>2, <5>1
      <4>2. StartedBy(j)
        BY <4>1 DEF StackNested
      <4>3. stack'[j] = stack[j] /\ stack'[j+1] = stack[j+1]
        BY <1>4, <4>1
      <4> QED
        BY <4>2, <4>3 DEF StartedBy, Items, Arm
    <3> QED
      BY <3>1, <3>2
  <2> QED
    BY <2>1, <2>2, <2>3 DEF StackNested
<1> QED
  BY <1>6, <1>7

\* A loop arm runs its body once more.
LEMMA IterateInv ==
  ASSUME Inv, stack # <<>>, prog' = prog,
         NEW k \in 1..(Len(stack) - 1), NEW i \in Nat \ {0}, NEW b,
         Iterate(k, i, b), b \in Arm(k).body,
         i = stack[k].idx \/ Arm(k).op \in RetestLoops
  PROVE  Inv'
<1> USE DEF Inv
<1>1. stack \in Seq(Frame) /\ Len(stack) \in Nat /\ DOMAIN stack = 1..Len(stack)
  BY DEF TypeOK
<1>2. k \in Nat \ {0} /\ k \in 1..Len(stack)
  BY <1>1
<1>3. \A j \in 1..Len(stack) : stack[j] \in Frame
  BY <1>1
<1> DEFINE new(j) == IF j = k THEN [stack[j] EXCEPT !.idx = i] ELSE stack[j]
           low == [j \in 1..k |-> new(j)]
           f == NewFrame(b, 1, "block")
<1>4. ASSUME NEW j \in 1..k
      PROVE  /\ new(j) \in Frame
             /\ new(j).block = stack[j].block /\ new(j).via = stack[j].via
             /\ new(j).cur = stack[j].cur
             /\ j = k => new(j).idx = i
             /\ j # k => new(j) = stack[j]
  <2>1. stack[j] \in Frame
    BY <1>1, <1>2, <1>3
  <2>2. CASE j = k
    BY <2>1, <2>2, FrameFacts
  <2>3. CASE j # k
    BY <2>1, <2>3
  <2> QED
    BY <2>2, <2>3
<1>5. stack' = Append(low, f)
  BY DEF Iterate
<1>6. StartedBy(k)
  BY <1>1 DEF StackNested
<1>7. b \in Block
  <2>1. stack[k].block \in Block /\ stack[k].cur \in DOMAIN prog.code[stack[k].block]
    BY <1>2, <1>3, <1>6 DEF Frame, StartedBy, Items
  <2>2. prog \in Corpus
    BY DEF TypeOK
  <2> QED
    BY <2>1, <2>2, ProgramFacts DEF Arm, Items
<1>8. f \in Frame /\ f.block = b /\ f.idx = 1 /\ f.cur = 1 /\ f.via = "block"
  BY <1>7 DEF Frame, NewFrame
<1> HIDE DEF new, f
<1>9. low \in Seq(Frame) /\ Len(low) = k
  <2>1. low \in Seq(Frame)
    BY <1>2, <1>4
  <2> QED
    BY <1>2, <2>1
<1>10. /\ stack' \in Seq(Frame) /\ Len(stack') = k + 1
       /\ stack'[k + 1] = f
       /\ \A j \in 1..k : stack'[j] = new(j)
  BY <1>2, <1>5, <1>8, <1>9
<1> HIDE DEF low
<1>11. TypeOK'
  <2>1. addrs' \in [1..MaxDepth -> [Label -> Nat]]
    BY DEF Iterate, TypeOK, NoAddrs
  <2>2. halted' \in {"no", "end", "error"}
    BY DEF Iterate
  <2>3. Len(stack') <= MaxDepth
    BY <1>1, <1>10, MaxDepthAssumption DEF TypeOK
  <2> QED
    BY <1>10, <2>1, <2>2, <2>3 DEF TypeOK
<1>12. StackNested'
  <2>1. (stack = <<>> <=> halted # "no")'
    <3>1. halted' = "no"
      BY DEF Iterate
    <3>2. Len(stack') # 0
      BY <1>2, <1>10
    <3>3. stack' # <<>>
      BY <3>2
    <3> QED
      BY <3>1, <3>3
  <2>2. (stack # <<>> => /\ stack[1].block = Main
                         /\ stack[1].via = "call"
                         /\ Top.cur = Top.idx)'
    <3>1. stack'[1].block = Main /\ stack'[1].via = "call"
      BY <1>2, <1>4, <1>10 DEF StackNested
    <3>2. Top' = f
      BY <1>10 DEF Top
    <3> QED
      BY <1>8, <3>1, <3>2
  <2>3. ASSUME NEW j \in 1..(Len(stack') - 1) PROVE StartedBy(j)'
    <3>1. j \in 1..k
      BY <1>2, <1>10
    <3>2. StartedBy(j)
      BY <1>1, <1>2, <3>1 DEF StackNested
    <3>3. CASE j = k
      <4>1. stack'[j] = new(j) /\ stack'[j+1] = f
        BY <1>10, <3>1, <3>3
      <4>2. /\ stack'[j].block = stack[j].block
            /\ stack'[j].cur = stack[j].cur
            /\ stack'[j].idx = i
        BY <1>4, <3>1, <3>3, <4>1
      <4> QED
        BY <1>8, <3>2, <3>3, <4>1, <4>2 DEF StartedBy, Items, Arm
    <3>4. CASE j # k
      <4>1. j + 1 \in 1..k
        BY <1>2, <3>1, <3>4
      <4>2. /\ stack'[j] = stack[j]
            /\ stack'[j+1].block = stack[j+1].block
            /\ stack'[j+1].via = stack[j+1].via
        BY <1>4, <1>10, <3>1, <3>4, <4>1
      <4> QED
        BY <3>2, <4>2 DEF StartedBy, Items, Arm
    <3> QED
      BY <3>3, <3>4
  <2> QED
    BY <2>1, <2>2, <2>3 DEF StackNested
<1> QED
  BY <1>11, <1>12

\* Some frame consumes every Flow: at the latest the call at the bottom.
LEMMA FlowLands ==
  ASSUME Inv, stack # <<>>, NEW T, T \subseteq Below, 0 \in T
  PROVE  /\ Innermost(T) \in T
         /\ Innermost(T) \in 0..(Len(stack) - 1)
         /\ \A j \in T : j <= Innermost(T)
<1>1. Len(stack) \in Nat \ {0}
  BY DEF Inv, TypeOK
<1>2. Len(stack) - 1 \in Nat
  BY <1>1
<1>3. T \subseteq 0..(Len(stack) - 1) /\ T # {}
  BY DEF Below
<1>4. Innermost(T) \in T /\ \A j \in T : j <= Innermost(T)
  BY <1>2, <1>3, InnermostExists
<1> QED
  BY <1>3, <1>4

LEMMA BottomConsumes ==
  ASSUME Inv, stack # <<>>
  PROVE  /\ 0 \in Below
         /\ ConsumesReturn(0) /\ ConsumesGosubReturn(0) /\ ConsumesBreak(0)
         /\ \A l : ConsumesGoto(0, l)
<1>1. Len(stack) \in Nat \ {0}
  BY DEF Inv, TypeOK
<1>2. stack[0 + 1].via = "call"
  BY DEF Inv, StackNested
<1> QED
  BY <1>1, <1>2 DEF Below, ConsumesReturn, ConsumesGosubReturn, ConsumesBreak,
                    ConsumesGoto

LEMMA ArmDoneInv ==
  ASSUME Inv, stack # <<>>, prog' = prog,
         NEW k \in 0..Len(stack), ArmDone(k)
  PROVE  Inv'
<1>1. stack \in Seq(Frame) /\ Len(stack) \in Nat
  BY DEF Inv, TypeOK
<1> DEFINE i == IF k = 0 THEN 1 ELSE stack[k].idx + 1
<1>2. i \in Nat \ {0}
  <2>1. k # 0 => stack[k] \in Frame
    BY <1>1
  <2> QED
    BY <2>1 DEF Frame
<1>3. Resume(k, i)
  BY DEF ArmDone
<1> HIDE DEF i
<1> QED
  BY <1>2, <1>3, ResumeInv

LEMMA FlowGotoInv ==
  ASSUME Inv, stack # <<>>, prog' = prog, NEW l, FlowGoto(l)
  PROVE  Inv'
<1> DEFINE T == {n \in Below : ConsumesGoto(n, l)}
           k == Innermost(T)
           pos == LabelIdx(prog, stack[k].block, l)
<1>1. stack \in Seq(Frame) /\ Len(stack) \in Nat \ {0} /\ prog \in Corpus
  BY DEF Inv, TypeOK
<1>2. k \in T /\ k \in 0..(Len(stack) - 1)
  BY BottomConsumes, FlowLands
<1>3. k \in 0..Len(stack) /\ ConsumesGoto(k, l)
  BY <1>1, <1>2
<1>4. CASE stack[k+1].via = "call"
  <2>1. ArmDone(k)
    BY <1>4 DEF FlowGoto
  <2> HIDE DEF k
  <2> QED
    BY <1>3, <2>1, ArmDoneInv
<1>5. CASE stack[k+1].via # "call"
  <2>1. l \in LabelsIn(prog, stack[k].block) /\ k # 0
    BY <1>3, <1>5, BottomConsumes DEF ConsumesGoto, Inv, StackNested
  <2>2. k \in 1..(Len(stack) - 1) /\ stack[k] \in Frame
    BY <1>1, <1>2, <2>1
  <2>3. pos \in Nat \ {0}
    <3>1. stack[k].block \in Block
      BY <2>2 DEF Frame
    <3>2. pos \in 1..Len(prog.code[stack[k].block])
      BY <1>1, <2>1, <3>1, LabelIdxType
    <3>3. Len(prog.code[stack[k].block]) \in Nat
      BY <1>1, <3>1, ProgramFacts
    <3> QED
      BY <3>2, <3>3
  <2>4. pos + 1 \in Nat \ {0}
    BY <2>3
  <2>5. \/ \E b \in Arm(k).body : Arm(k).op \in RetestLoops /\ Iterate(k, pos, b)
        \/ Resume(k, pos + 1)
        \/ Resume(k, pos)
    BY <1>5 DEF FlowGoto
  <2> HIDE DEF k, pos
  <2>6. CASE \E b \in Arm(k).body : Arm(k).op \in RetestLoops /\ Iterate(k, pos, b)
    BY <2>2, <2>3, <2>6, IterateInv
  <2>7. CASE Resume(k, pos + 1)
    BY <1>3, <2>4, <2>7, ResumeInv
  <2>8. CASE Resume(k, pos)
    BY <1>3, <2>3, <2>8, ResumeInv
  <2> QED
    BY <2>5, <2>6, <2>7, <2>8
<1> QED
  BY <1>4, <1>5

\* The item that the top frame is at.
LEMMA HereFacts ==
  ASSUME Inv, NEW ops, AtItem(ops)
  PROVE  /\ stack # <<>> /\ Len(stack) \in Nat \ {0}
         /\ Len(stack) \in 0..Len(stack)
         /\ Top \in Frame /\ Top.block \in Block /\ Top.idx \in Nat \ {0}
         /\ prog \in Corpus
         /\ Top.idx \in DOMAIN prog.code[Top.block]
         /\ Here \in Item /\ Here.op \in ops /\ Here.body \subseteq Block
         /\ ItemOK(prog, Here)
         /\ Root(prog, Top.block) \in Block
<1>1. stack \in Seq(Frame) /\ stack # <<>> /\ prog \in Corpus
  BY DEF Inv, TypeOK, AtItem
<1>2. Len(stack) \in Nat \ {0}
  BY <1>1
<1>3. Top \in Frame
  BY <1>1, <1>2 DEF Top
<1>4. Top.block \in Block /\ Top.idx \in Nat \ {0}
  BY <1>3 DEF Frame
<1>5. Top.idx \in DOMAIN prog.code[Top.block]
  BY <1>1, <1>4, ProgramFacts DEF AtItem
<1>6. Here \in Item /\ Here.body \subseteq Block /\ Root(prog, Top.block) \in Block
  BY <1>1, <1>4, <1>5, ProgramFacts DEF Here
<1>7. ItemOK(prog, Here)
  <2>1. WellFormed(prog)
    BY <1>1, ProgramsAssumption
  <2> QED
    BY <1>4, <1>5, <2>1 DEF WellFormed, Here
<1> QED
  BY <1>1, <1>2, <1>3, <1>4, <1>5, <1>6, <1>7 DEF AtItem, Here

LEMMA GotoLabelInv ==
  ASSUME Inv, prog' = prog, NEW ops, AtItem(ops), NEW l, GotoLabel(l)
  PROVE  Inv'
<1>1. CASE l \in LabelsIn(prog, Top.block)
  <2> DEFINE i == LabelIdx(prog, Top.block, l)
  <2>1. i \in 1..Len(prog.code[Top.block])
    BY <1>1, HereFacts, LabelIdxType
  <2>2. Len(prog.code[Top.block]) \in Nat
    BY HereFacts, ProgramFacts
  <2>3. i \in Nat \ {0}
    BY <2>1, <2>2
  <2>4. Resume(Len(stack), i)
    BY <1>1 DEF GotoLabel
  <2> HIDE DEF i
  <2> QED
    BY <2>3, <2>4, HereFacts, ResumeInv
<1>2. CASE l \notin LabelsIn(prog, Top.block)
  BY <1>2, HereFacts, FlowGotoInv DEF GotoLabel
<1> QED
  BY <1>1, <1>2

\* A computed target is an index, counted from 0.
LEMMA LabelAddressType ==
  ASSUME Inv, stack # <<>>, NEW l \in Label \cup {None}
  PROVE  LabelAddress(l) \in Nat
<1> DEFINE T == {n \in 1..Len(stack) : stack[n].via = "call"}
<1>1. Len(stack) \in Nat \ {0} /\ Len(stack) <= MaxDepth
  BY DEF Inv, TypeOK
<1>2. 1 \in T /\ T \subseteq 0..Len(stack)
  BY <1>1 DEF Inv, StackNested
<1>3. Innermost(T) \in T
  BY <1>1, <1>2, InnermostExists
<1>4. ThisCall \in 1..MaxDepth
  BY <1>1, <1>3, MaxDepthAssumption DEF ThisCall
<1> QED
  BY <1>4 DEF LabelAddress, Inv, TypeOK

\* A fault unwinds every activation.
LEMMA RuntimeErrorInv ==
  ASSUME Inv, prog' = prog, RuntimeError
  PROVE  Inv'
<1>1. TypeOK'
  BY MaxDepthAssumption DEF RuntimeError, Inv, TypeOK, NoAddrs
<1>2. StackNested'
  BY DEF RuntimeError, StackNested
<1> QED
  BY <1>1, <1>2 DEF Inv

-----------------------------------------------------------------------------
(***************************************************************************)
(* One step per arm of exec_items.                                         *)
(***************************************************************************)
LEMMA ArmsInv ==
  ASSUME Inv, Next
  PROVE  Inv'
<1>0. prog' = prog
  BY DEF Next, ExecPlain, EnterBody, SkipBody, EndOfItems, ExecGoto, ExecExit,
         ExecReturn, ExecGosubReturn, ExecGosub, ExecGosubExpr, ExecGotoExpr,
         ExecCall, ExecFault
<1>1. CASE ExecPlain
  BY <1>0, <1>1, HereFacts, ArmDoneInv DEF ExecPlain
<1>2. CASE SkipBody
  BY <1>0, <1>2, HereFacts, ArmDoneInv DEF SkipBody
<1>3. CASE EnterBody
  <2>1. AtItem(Containers)
    BY <1>3 DEF EnterBody
  <2>2. PICK b \in Here.body : Enter(b, 1, "block", ThisCall)
    BY <1>3 DEF EnterBody
  <2>3. b \in Block
    BY <2>1, HereFacts
  <2> QED
    BY <1>0, <2>1, <2>2, <2>3, HereFacts, EnterInv
<1>4. CASE EndOfItems
  <2> DEFINE k == Len(stack) - 1
  <2>1. stack # <<>> /\ stack \in Seq(Frame) /\ Len(stack) \in Nat \ {0}
    BY <1>4 DEF EndOfItems, Inv, TypeOK
  <2>2. k \in 0..Len(stack)
    BY <2>1
  <2>3. \/ ArmDone(k)
        \/ /\ Top.via = "block"
           /\ \E b \in Arm(k).body : Iterate(k, stack[k].idx, b)
    BY <1>4 DEF EndOfItems
  <2>4. CASE ArmDone(k)
    <3> HIDE DEF k
    <3> QED
      BY <1>0, <2>1, <2>2, <2>4, ArmDoneInv
  <2>5. CASE /\ Top.via = "block"
             /\ \E b \in Arm(k).body : Iterate(k, stack[k].idx, b)
    <3>1. Len(stack) # 1
      BY <2>1, <2>5 DEF Top, Inv, StackNested
    <3>2. k \in 1..(Len(stack) - 1)
      <4>1. \A n \in Nat \ {0} : n # 1 => n - 1 \in 1..(n - 1)
        OBVIOUS
      <4> QED
        BY <2>1, <3>1, <4>1
    <3>3. stack[k] \in Frame
      BY <2>1, <3>2
    <3>4. stack[k].idx \in Nat \ {0}
      BY <3>3 DEF Frame
    <3>5. PICK b \in Arm(k).body : Iterate(k, stack[k].idx, b)
      BY <2>5
    <3> HIDE DEF k
    <3> QED
      BY <1>0, <2>1, <3>2, <3>4, <3>5, IterateInv
  <2> QED
    BY <2>3, <2>4, <2>5
<1>5. CASE ExecGoto
  BY <1>0, <1>5, GotoLabelInv DEF ExecGoto
<1>6. CASE ExecExit
  <2> DEFINE T == {k \in Below : ConsumesBreak(k)}
  <2>1. stack # <<>> /\ Len(stack) \in Nat \ {0}
    BY <1>6, HereFacts DEF ExecExit
  <2>2. Innermost(T) \in 0..(Len(stack) - 1)
    BY <2>1, BottomConsumes, FlowLands
  <2>3. Innermost(T) \in 0..Len(stack)
    BY <2>1, <2>2
  <2> QED
    BY <1>0, <1>6, <2>1, <2>3, ArmDoneInv DEF ExecExit, FlowBreak
<1>7. CASE ExecReturn
  <2> DEFINE T == {k \in Below : ConsumesReturn(k)}
  <2>1. stack # <<>> /\ Len(stack) \in Nat \ {0}
    BY <1>7, HereFacts DEF ExecReturn
  <2>2. Innermost(T) \in 0..(Len(stack) - 1)
    BY <2>1, BottomConsumes, FlowLands
  <2>3. Innermost(T) \in 0..Len(stack)
    BY <2>1, <2>2
  <2> QED
    BY <1>0, <1>7, <2>1, <2>3, ArmDoneInv DEF ExecReturn, FlowReturn
<1>8. CASE ExecGosubReturn
  <2> DEFINE T == {k \in Below : ConsumesGosubReturn(k)}
  <2>1. stack # <<>> /\ Len(stack) \in Nat \ {0}
    BY <1>8, HereFacts DEF ExecGosubReturn
  <2>2. Innermost(T) \in 0..(Len(stack) - 1)
    BY <2>1, BottomConsumes, FlowLands
  <2>3. Innermost(T) \in 0..Len(stack)
    BY <2>1, <2>2
  <2> QED
    BY <1>0, <1>8, <2>1, <2>3, ArmDoneInv DEF ExecGosubReturn, FlowGosubReturn
<1>9. CASE ExecGosub
  <2> DEFINE body == Root(prog, Top.block)
             i == LabelIdx(prog, body, Here.arg)
  <2>1. AtItem({"gosub"})
    BY <1>9 DEF ExecGosub
  <2>2. CASE Here.arg \in LabelsIn(prog, body)
    <3>1. i \in 1..Len(prog.code[body])
      BY <2>1, <2>2, HereFacts, LabelIdxType
    <3>2. Len(prog.code[body]) \in Nat
      BY <2>1, HereFacts, ProgramFacts
    <3>3. i \in Nat \ {0}
      BY <3>1, <3>2
    <3>4. Enter(body, i, "gosub", ThisCall)
      BY <1>9, <2>2 DEF ExecGosub
    <3> HIDE DEF i
    <3> QED
      BY <1>0, <2>1, <3>3, <3>4, HereFacts, EnterInv
  <2>3. CASE Here.arg \notin LabelsIn(prog, body)
    BY <1>0, <1>9, <2>1, <2>3, HereFacts, ArmDoneInv DEF ExecGosub
  <2> QED
    BY <2>2, <2>3
<1>10. CASE ExecGosubExpr
  <2> DEFINE body == Root(prog, Top.block)
             addr == LabelAddress(Here.arg)
  <2>1. AtItem({"gosubexpr"})
    BY <1>10 DEF ExecGosubExpr
  <2>2. Here.arg \in Label \cup {None} /\ stack # <<>>
    BY <2>1, HereFacts DEF ItemOK
  <2>3. addr \in Nat
    BY <2>2, LabelAddressType
  <2>4. addr + 1 \in Nat \ {0}
    BY <2>3
  <2>5. CASE addr = 0
    BY <1>0, <1>10, <2>1, <2>5, HereFacts, ArmDoneInv DEF ExecGosubExpr
  <2>6. CASE addr # 0
    <3>1. Enter(body, addr + 1, "gosub", ThisCall)
      BY <1>10, <2>6 DEF ExecGosubExpr
    <3> HIDE DEF addr
    <3> QED
      BY <1>0, <2>1, <2>4, <3>1, HereFacts, EnterInv
  <2> QED
    BY <2>5, <2>6
<1>11. CASE ExecGotoExpr
  <2> DEFINE body == Root(prog, Top.block)
             target == LabelAddress(Here.arg) + 1
  <2>1. AtItem({"gotoexpr"})
    BY <1>11 DEF ExecGotoExpr
  <2>2. Here.arg \in Label \cup {None} /\ stack # <<>>
    BY <2>1, HereFacts DEF ItemOK
  <2>3. LabelAddress(Here.arg) \in Nat
    BY <2>2, LabelAddressType
  <2>4. target \in Nat \ {0}
    BY <2>3
  <2>5. \/ Resume(Len(stack), target)
        \/ GotoLabel(prog.code[body][target].arg)
        \/ RuntimeError
    BY <1>11 DEF ExecGotoExpr
  <2> HIDE DEF target
  <2>6. CASE Resume(Len(stack), target)
    BY <1>0, <2>1, <2>4, <2>6, HereFacts, ResumeInv
  <2>7. CASE GotoLabel(prog.code[body][target].arg)
    BY <1>0, <2>1, <2>7, GotoLabelInv
  <2>8. CASE RuntimeError
    BY <1>0, <2>8, RuntimeErrorInv
  <2> QED
    BY <2>5, <2>6, <2>7, <2>8
<1>12. CASE ExecCall
  <2>1. AtItem({"call"})
    BY <1>12 DEF ExecCall
  <2>2. Here.op = "call" /\ Here.arg \in Block
    BY <2>1, HereFacts DEF ItemOK
  <2>3. Enter(Here.arg, 1, "call", Len(stack) + 1)
    BY <1>12 DEF ExecCall
  <2> QED
    BY <1>0, <2>1, <2>2, <2>3, HereFacts, EnterInv
<1>13. CASE ExecFault
  BY <1>0, <1>13, RuntimeErrorInv DEF ExecFault
<1> QED
  BY <1>1, <1>2, <1>3, <1>4, <1>5, <1>6, <1>7, <1>8, <1>9, <1>10, <1>11, <1>12,
     <1>13 DEF Next

LEMMA InitInv == Init => Inv
<1> SUFFICES ASSUME Init PROVE Inv
  OBVIOUS
<1> DEFINE f == NewFrame(Main, 1, "call")
<1>1. f \in Frame /\ f.block = Main /\ f.via = "call" /\ f.cur = f.idx
  BY NamesAssumption DEF Frame, NewFrame
<1>2. stack = <<f>>
  BY DEF Init
<1> HIDE DEF f
<1>3. stack \in Seq(Frame) /\ Len(stack) = 1 /\ stack[1] = f /\ stack # <<>>
  BY <1>1, <1>2
<1>4. prog \in Corpus
  BY DEF Init
<1>5. Register(NoAddrs, Main) \in [Label -> Nat]
  <2>1. ASSUME NEW l \in LabelsIn(prog, Main)
        PROVE  LabelIdx(prog, Main, l) - 1 \in Nat
    <3>1. LabelIdx(prog, Main, l) \in 1..Len(prog.code[Main])
      BY <1>4, NamesAssumption, LabelIdxType
    <3>2. Len(prog.code[Main]) \in Nat
      BY <1>4, NamesAssumption, ProgramFacts
    <3> QED
      BY <3>1, <3>2
  <2> QED
    BY <2>1 DEF Register, NoAddrs
<1>6. addrs \in [1..MaxDepth -> [Label -> Nat]]
  BY <1>5 DEF Init, NoAddrs
<1>7. TypeOK
  BY <1>3, <1>4, <1>6, MaxDepthAssumption DEF Init, TypeOK
<1>8. StackNested
  BY <1>1, <1>3 DEF Init, StackNested, Top
<1> QED
  BY <1>7, <1>8 DEF Inv

(***************************************************************************)
(* The interpreter's stack is well typed and follows the nesting of the    *)
(* program in every run of every program, whatever GOTOs, EXITs, RETURNs   *)
(* and GOSUBs it executes.                                                 *)
(***************************************************************************)
THEOREM StackFollowsProgram == Spec => [](TypeOK /\ StackNested)
<1>1. Init => Inv
  BY InitInv
<1>2. Inv /\ [Next]_vars => Inv'
  <2> SUFFICES ASSUME Inv, [Next]_vars PROVE Inv'
    OBVIOUS
  <2>1. CASE Next
    BY <2>1, ArmsInv
  <2>2. CASE UNCHANGED vars
    BY <2>2 DEF vars, Inv, TypeOK, StackNested, StartedBy, Top, Items, Arm
  <2> QED
    BY <2>1, <2>2
<1> QED
  BY <1>1, <1>2, PTL DEF Spec, Inv

(***************************************************************************)
(* The activations of exec_items stay well formed and never more than      *)
(* MaxDepth, and the label addresses of a function are what GOADDRESS may  *)
(* have noted there.                                                       *)
(***************************************************************************)
THEOREM StackTyped == Spec => []TypeOK
BY StackFollowsProgram, PTL

-----------------------------------------------------------------------------
(***************************************************************************)
(* Calls end alone.                                                        *)
(***************************************************************************)
\* A Flow that the frame below a call consumes goes no further down; there it
\* ends the call.
LEMMA ArmDoneEndsOneCall ==
  ASSUME Inv, stack # <<>>, NEW k \in 0..(Len(stack) - 1), ArmDone(k),
         \A n \in 2..Len(stack) : stack[n].via = "call" => n - 1 <= k
  PROVE  CallEndsAlone
<1> SUFFICES ASSUME NEW n \in 2..Len(stack), stack[n].via = "call",
                    Len(stack') < n
             PROVE  /\ Len(stack') = n - 1
                    /\ stack'[n-1] = Moved(stack[n-1], stack[n-1].idx + 1)
  BY DEF CallEndsAlone
<1>1. Len(stack) \in Nat \ {0} /\ k \in Nat /\ n \in Nat
  BY DEF Inv, TypeOK
<1> DEFINE i == IF k = 0 THEN 1 ELSE stack[k].idx + 1
           new(j) == IF j = k THEN Moved(stack[j], i) ELSE stack[j]
<1>2. stack' = [j \in 1..k |-> new(j)]
  BY DEF ArmDone, Resume
<1>3. Len(stack') = k
  <2> HIDE DEF new
  <2> QED
    BY <1>1, <1>2
<1>4. k = n - 1
  BY <1>1, <1>3
<1>5. k # 0 /\ k \in 1..k
  BY <1>1, <1>4
<1>6. stack'[k] = Moved(stack[k], stack[k].idx + 1)
  BY <1>2, <1>5
<1> QED
  BY <1>3, <1>4, <1>6

\* Calls are consumers of every Flow.
LEMMA CallsConsume ==
  ASSUME Inv, NEW n \in 2..Len(stack), stack[n].via = "call"
  PROVE  /\ n - 1 \in Below
         /\ ConsumesReturn(n - 1) /\ ConsumesGosubReturn(n - 1)
         /\ ConsumesBreak(n - 1) /\ \A l : ConsumesGoto(n - 1, l)
<1>1. Len(stack) \in Nat /\ (n - 1) + 1 = n
  BY DEF Inv, TypeOK
<1>2. stack[(n - 1) + 1].via = "call"
  BY <1>1
<1>3. n - 1 \in Below
  BY <1>1 DEF Below
<1> QED
  BY <1>2, <1>3 DEF ConsumesReturn, ConsumesGosubReturn, ConsumesBreak,
                    ConsumesGoto

\* Steps that do not shrink the stack end no call.
LEMMA LongerStackEndsNoCall ==
  ASSUME Inv, Len(stack') \in Nat, Len(stack') >= Len(stack)
  PROVE  CallEndsAlone
<1>1. Len(stack) \in Nat
  BY DEF Inv, TypeOK
<1> QED
  BY <1>1 DEF CallEndsAlone

\* The length of the stack after a step.
LEMMA StackLengths ==
  ASSUME Inv, stack # <<>>
  PROVE  /\ \A k \in 0..Len(stack), i \in Nat : Resume(k, i) => Len(stack') = k
         /\ \A k \in 1..Len(stack), i \in Nat \ {0}, b \in Block :
              Iterate(k, i, b) => Len(stack') = k + 1
         /\ \A b, i, v, n : Enter(b, i, v, n) => Len(stack') = Len(stack) + 1
<1>1. stack \in Seq(Frame) /\ Len(stack) \in Nat
  BY DEF Inv, TypeOK
<1>2. ASSUME NEW k \in 0..Len(stack), NEW i \in Nat, Resume(k, i)
      PROVE  Len(stack') = k
  <2> DEFINE new(j) == IF j = k THEN Moved(stack[j], i) ELSE stack[j]
  <2>1. stack' = [j \in 1..k |-> new(j)] /\ k \in Nat
    BY <1>1, <1>2 DEF Resume
  <2> HIDE DEF new
  <2> QED
    BY <2>1
<1>3. ASSUME NEW k \in 1..Len(stack), NEW i \in Nat \ {0}, NEW b \in Block,
             Iterate(k, i, b)
      PROVE  Len(stack') = k + 1
  <2> DEFINE new(j) == IF j = k THEN [stack[j] EXCEPT !.idx = i] ELSE stack[j]
             low == [j \in 1..k |-> new(j)]
             f == NewFrame(b, 1, "block")
  <2>1. stack' = Append(low, f) /\ k \in Nat
    BY <1>1, <1>3 DEF Iterate
  <2>2. ASSUME NEW j \in 1..k PROVE new(j) \in Frame
    <3>1. stack[j] \in Frame
      BY <1>1
    <3> QED
      BY <3>1, FrameFacts
  <2>3. f \in Frame
    BY DEF NewFrame, Frame
  <2> HIDE DEF new, f
  <2>4. low \in Seq(Frame) /\ Len(low) = k
    <3>1. low \in Seq(Frame)
      BY <2>1, <2>2
    <3> QED
      BY <2>1, <3>1
  <2> QED
    BY <2>1, <2>3, <2>4
<1>4. ASSUME NEW b, NEW i, NEW v, NEW n, Enter(b, i, v, n)
      PROVE  Len(stack') = Len(stack) + 1
  BY <1>1, <1>4 DEF Enter
<1> QED
  BY <1>2, <1>3, <1>4

LEMMA GotoEndsOneCall ==
  ASSUME Inv, stack # <<>>, NEW l, FlowGoto(l)
  PROVE  CallEndsAlone
<1> DEFINE T == {n \in Below : ConsumesGoto(n, l)}
           k == Innermost(T)
           pos == LabelIdx(prog, stack[k].block, l)
<1>1. Len(stack) \in Nat \ {0} /\ prog \in Corpus /\ stack \in Seq(Frame)
  BY DEF Inv, TypeOK
<1>2. /\ k \in T /\ k \in 0..(Len(stack) - 1)
      /\ \A j \in T : j <= k
  BY BottomConsumes, FlowLands
<1>3. \A n \in 2..Len(stack) : stack[n].via = "call" => n - 1 <= k
  BY <1>2, CallsConsume
<1>4. CASE stack[k+1].via = "call"
  <2>1. ArmDone(k)
    BY <1>4 DEF FlowGoto
  <2> HIDE DEF k
  <2> QED
    BY <1>2, <1>3, <2>1, ArmDoneEndsOneCall
<1>5. CASE stack[k+1].via # "call"
  <2>1. l \in LabelsIn(prog, stack[k].block) /\ k # 0
    BY <1>2, <1>5, BottomConsumes DEF ConsumesGoto, Inv, StackNested
  <2>2. k \in 1..Len(stack) /\ k \in 0..Len(stack) /\ stack[k] \in Frame
    BY <1>1, <1>2, <2>1
  <2>3. pos \in Nat \ {0} /\ pos + 1 \in Nat
    <3>1. stack[k].block \in Block
      BY <2>2 DEF Frame
    <3>2. pos \in 1..Len(prog.code[stack[k].block])
      BY <1>1, <2>1, <3>1, LabelIdxType
    <3>3. Len(prog.code[stack[k].block]) \in Nat
      BY <1>1, <3>1, ProgramFacts
    <3> QED
      BY <3>2, <3>3
  <2>4. \/ \E b \in Arm(k).body : Iterate(k, pos, b)
        \/ Resume(k, pos + 1)
        \/ Resume(k, pos)
    BY <1>5 DEF FlowGoto
  <2>5. Arm(k).body \subseteq Block
    <3>1. StartedBy(k)
      BY <1>1, <1>2, <2>1 DEF Inv, StackNested
    <3>2. /\ stack[k].block \in Block
          /\ stack[k].cur \in DOMAIN prog.code[stack[k].block]
      BY <2>2, <3>1 DEF Frame, StartedBy, Items
    <3> QED
      BY <1>1, <3>2, ProgramFacts DEF Arm, Items
  <2> HIDE DEF k, pos
  <2>6. Len(stack') = k \/ Len(stack') = k + 1
    BY <2>2, <2>3, <2>4, <2>5, StackLengths
  <2>7. ASSUME NEW n \in 2..Len(stack), stack[n].via = "call", Len(stack') < n
        PROVE  FALSE
    <3>1. n - 1 <= k /\ n \in Nat /\ k \in Nat
      BY <1>1, <1>2, <1>3, <2>7
    <3>2. n = k + 1
      BY <2>6, <2>7, <3>1
    <3> QED
      BY <1>5, <2>7, <3>2
  <2> QED
    BY <2>7 DEF CallEndsAlone
<1> QED
  BY <1>4, <1>5

LEMMA ArmsEndOneCall ==
  ASSUME Inv, Next
  PROVE  CallEndsAlone
<1>0. stack # <<>> /\ stack \in Seq(Frame) /\ Len(stack) \in Nat \ {0}
  BY DEF Inv, TypeOK, Next, ExecPlain, EnterBody, SkipBody, EndOfItems, ExecGoto,
         ExecExit, ExecReturn, ExecGosubReturn, ExecGosub, ExecGosubExpr,
         ExecGotoExpr, ExecCall, ExecFault, AtItem
<1> DEFINE len == Len(stack)
<1>1. ASSUME ArmDone(len) PROVE CallEndsAlone
  <2>1. stack[len] \in Frame
    BY <1>0
  <2>2. stack[len].idx + 1 \in Nat /\ len # 0
    BY <1>0, <2>1 DEF Frame
  <2>3. Resume(len, stack[len].idx + 1)
    BY <1>1, <2>2 DEF ArmDone
  <2>4. len \in 0..len
    BY <1>0
  <2>5. Len(stack') = len
    BY <1>0, <2>2, <2>3, <2>4, StackLengths
  <2> QED
    BY <1>0, <2>5, LongerStackEndsNoCall
<1>2. ASSUME NEW b, NEW i, NEW v, NEW n, Enter(b, i, v, n) PROVE CallEndsAlone
  <2>1. Len(stack') = len + 1
    BY <1>0, <1>2, StackLengths
  <2> QED
    BY <1>0, <2>1, LongerStackEndsNoCall
<1>3. ASSUME NEW ops, AtItem(ops), NEW l, GotoLabel(l) PROVE CallEndsAlone
  <2>1. CASE l \in LabelsIn(prog, Top.block)
    <3> DEFINE i == LabelIdx(prog, Top.block, l)
    <3>1. i \in 1..Len(prog.code[Top.block]) /\ Len(prog.code[Top.block]) \in Nat
      BY <1>3, <2>1, HereFacts, LabelIdxType, ProgramFacts
    <3>2. i \in Nat /\ len \in 0..len
      BY <1>0, <3>1
    <3>3. Resume(len, i)
      BY <1>3, <2>1 DEF GotoLabel
    <3>4. Len(stack') = len
      BY <1>0, <3>2, <3>3, StackLengths
    <3> QED
      BY <1>0, <3>4, LongerStackEndsNoCall
  <2>2. CASE l \notin LabelsIn(prog, Top.block)
    BY <1>0, <1>3, <2>2, GotoEndsOneCall DEF GotoLabel
  <2> QED
    BY <2>1, <2>2
<1>4. CASE ExecPlain
  BY <1>1, <1>4 DEF ExecPlain
<1>5. CASE SkipBody
  BY <1>1, <1>5 DEF SkipBody
<1>6. CASE EnterBody
  BY <1>2, <1>6 DEF EnterBody
<1>7. CASE EndOfItems
  <2> DEFINE k == len - 1
  <2>1. k \in 0..(len - 1) /\ k \in 0..len
    BY <1>0
  <2>2. \A n \in 2..len : stack[n].via = "call" => n - 1 <= k
    BY <1>0
  <2>3. CASE ArmDone(k)
    <3> HIDE DEF k
    <3> QED
      BY <1>0, <2>1, <2>2, <2>3, ArmDoneEndsOneCall
  <2>4. CASE /\ Top.via = "block"
             /\ \E b \in Arm(k).body : Iterate(k, stack[k].idx, b)
    <3>1. k \in 1..len
      BY <1>0, <2>4 DEF Top, Inv, StackNested
    <3>2. stack[k] \in Frame /\ prog \in Corpus
      BY <1>0, <3>1 DEF Inv, TypeOK
    <3>3. stack[k].idx \in Nat \ {0} /\ stack[k].block \in Block
      BY <3>2 DEF Frame
    <3>4. StartedBy(k)
      BY <1>0, <3>1 DEF Inv, StackNested
    <3>5. Arm(k).body \subseteq Block
      BY <3>2, <3>3, <3>4, ProgramFacts DEF Arm, Items, StartedBy
    <3>6. Len(stack') = k + 1
      <4> HIDE DEF k
      <4> QED
        BY <1>0, <2>4, <3>1, <3>3, <3>5, StackLengths
    <3> QED
      BY <1>0, <3>6, LongerStackEndsNoCall
  <2> QED
    BY <1>7, <2>3, <2>4 DEF EndOfItems
<1>8. CASE ExecGoto
  BY <1>3, <1>8 DEF ExecGoto
<1>9. CASE ExecExit
  <2> DEFINE T == {k \in Below : ConsumesBreak(k)}
  <2>1. Innermost(T) \in 0..(len - 1) /\ \A j \in T : j <= Innermost(T)
    BY <1>0, BottomConsumes, FlowLands
  <2>2. \A n \in 2..len : stack[n].via = "call" => n - 1 \in T
    BY CallsConsume
  <2> QED
    BY <1>0, <1>9, <2>1, <2>2, ArmDoneEndsOneCall DEF ExecExit, FlowBreak
<1>10. CASE ExecReturn
  <2> DEFINE T == {k \in Below : ConsumesReturn(k)}
  <2>1. Innermost(T) \in 0..(len - 1) /\ \A j \in T : j <= Innermost(T)
    BY <1>0, BottomConsumes, FlowLands
  <2>2. \A n \in 2..len : stack[n].via = "call" => n - 1 \in T
    BY CallsConsume
  <2> QED
    BY <1>0, <1>10, <2>1, <2>2, ArmDoneEndsOneCall DEF ExecReturn, FlowReturn
<1>11. CASE ExecGosubReturn
  <2> DEFINE T == {k \in Below : ConsumesGosubReturn(k)}
  <2>1. Innermost(T) \in 0..(len - 1) /\ \A j \in T : j <= Innermost(T)
    BY <1>0, BottomConsumes, FlowLands
  <2>2. \A n \in 2..len : stack[n].via = "call" => n - 1 \in T
    BY CallsConsume
  <2> QED
    BY <1>0, <1>11, <2>1, <2>2, ArmDoneEndsOneCall
       DEF ExecGosubReturn, FlowGosubReturn
<1>12. CASE ExecGosub
  BY <1>1, <1>2, <1>12 DEF ExecGosub
<1>13. CASE ExecGosubExpr
  BY <1>1, <1>2, <1>13 DEF ExecGosubExpr
<1>14. CASE ExecGotoExpr
  <2> DEFINE target == LabelAddress(Here.arg) + 1
             body == Root(prog, Top.block)
  <2>1. AtItem({"gotoexpr"})
    BY <1>14 DEF ExecGotoExpr
  <2>2. Here.arg \in Label \cup {None}
    BY <2>1, HereFacts DEF ItemOK
  <2>3. target \in Nat /\ len \in 0..len
    BY <1>0, <2>2, LabelAddressType
  <2>4. \/ Resume(len, target)
        \/ GotoLabel(prog.code[body][target].arg)
        \/ RuntimeError
    BY <1>14 DEF ExecGotoExpr
  <2> HIDE DEF target
  <2>5. CASE Resume(len, target)
    <3>1. Len(stack') = len
      BY <1>0, <2>3, <2>5, StackLengths
    <3> QED
      BY <1>0, <3>1, LongerStackEndsNoCall
  <2>6. CASE GotoLabel(prog.code[body][target].arg)
    BY <1>3, <2>1, <2>6
  <2>7. CASE RuntimeError
    BY <2>7 DEF RuntimeError, CallEndsAlone
  <2> QED
    BY <2>4, <2>5, <2>6, <2>7
<1>15. CASE ExecCall
  BY <1>2, <1>15 DEF ExecCall
<1>16. CASE ExecFault
  BY <1>16 DEF ExecFault, RuntimeError, CallEndsAlone
<1> QED
  BY <1>4, <1>5, <1>6, <1>7, <1>8, <1>9, <1>10, <1>11, <1>12, <1>13, <1>14,
     <1>15, <1>16 DEF Next

(***************************************************************************)
(* No Flow crosses a function call: whatever EXIT, GOTO, RETURN or STOP a  *)
(* function executes, at most its own call ends and its caller goes on     *)
(* right after the CALL.                                                   *)
(***************************************************************************)
THEOREM FlowStaysInFunction == Spec => CallsEndAlone
<1>1. TypeOK /\ StackNested /\ [Next]_vars => [CallEndsAlone]_vars
  BY ArmsEndOneCall DEF Inv
<1> QED
  BY <1>1, StackFollowsProgram, PTL DEF Spec, CallsEndAlone

-----------------------------------------------------------------------------
(***************************************************************************)
(* GOSUB and RETURN match.                                                 *)
(***************************************************************************)
LEMMA ReturnMatchesGosub ==
  ASSUME Inv, Next
  PROVE  GosubResumes
<1> SUFFICES ASSUME AtItem({"gosubreturn"}), NEW n \in 2..Len(stack),
                    stack[n].via = "gosub",
                    \A m \in (n+1)..Len(stack) : stack[m].via = "block"
             PROVE  stack' = [j \in 1..(n-1) |->
                                IF j = n - 1
                                THEN Moved(stack[j], stack[j].idx + 1)
                                ELSE stack[j]]
  BY DEF GosubResumes
<1>1. /\ stack # <<>> /\ Len(stack) \in Nat \ {0} /\ Here.op = "gosubreturn"
      /\ Top.idx \in 1..Len(prog.code[Top.block])
      /\ Len(prog.code[Top.block]) \in Nat
  BY HereFacts, ProgramFacts
<1>2. FlowGosubReturn
  <2>1. ExecGosubReturn
    <3>1. ~EndOfItems
      BY <1>1 DEF EndOfItems
    <3>2. \A ops : AtItem(ops) => "gosubreturn" \in ops
      BY <1>1 DEF AtItem, Here
    <3>3. ~ExecFault
      BY <1>1, <3>2 DEF ExecFault, Evaluating
    <3> QED
      BY <3>1, <3>2, <3>3 DEF Next, ExecPlain, EnterBody, SkipBody, ExecGoto,
           ExecExit, ExecReturn, ExecGosub, ExecGosubExpr, ExecGotoExpr, ExecCall,
           Plain, Containers, Skippable, Loops, RetestLoops, DoLoops, Selects
  <2> QED
    BY <2>1 DEF ExecGosubReturn
<1> DEFINE T == {k \in Below : ConsumesGosubReturn(k)}
           k == Innermost(T)
<1>3. /\ k \in T /\ k \in 0..(Len(stack) - 1)
      /\ \A j \in T : j <= k
  BY <1>1, BottomConsumes, FlowLands
<1>4. n - 1 \in T
  <2>1. n - 1 \in Below /\ (n - 1) + 1 = n
    BY <1>1 DEF Below
  <2> QED
    BY <2>1 DEF ConsumesGosubReturn
<1>5. k = n - 1
  <2>1. n - 1 <= k /\ n \in Nat /\ k \in Nat /\ k <= Len(stack) - 1
    BY <1>1, <1>3, <1>4
  <2>2. stack[k+1].via \in {"call", "gosub"}
    BY <1>3 DEF ConsumesGosubReturn
  <2>3. k + 1 \notin (n+1)..Len(stack)
    BY <2>2
  <2> HIDE DEF k
  <2> QED
    BY <1>1, <2>1, <2>3
<1>6. k # 0 /\ ArmDone(k)
  BY <1>1, <1>2, <1>5 DEF FlowGosubReturn
<1> HIDE DEF k
<1> QED
  BY <1>5, <1>6 DEF ArmDone, Resume

(***************************************************************************)
(* RETURN comes back to the item after the innermost GOSUB and abandons    *)
(* nothing but the activations of that subroutine.                         *)
(***************************************************************************)
THEOREM ReturnEndsInnermostGosub == Spec => GosubsResume
<1>1. TypeOK /\ StackNested /\ [Next]_vars => [GosubResumes]_vars
  BY ReturnMatchesGosub DEF Inv
<1> QED
  BY <1>1, StackFollowsProgram, PTL DEF Spec, GosubsResume

-----------------------------------------------------------------------------
(***************************************************************************)
(* EXIT leaves one loop.                                                   *)
(***************************************************************************)
\* At an EXIT, only the arm for EXIT runs.
LEMMA ExitArm ==
  ASSUME Inv, Next, AtItem({"exitloop", "exitselect"})
  PROVE  FlowBreak
<1>1. /\ stack # <<>> /\ Here.op \in {"exitloop", "exitselect"}
      /\ Top.idx \in 1..Len(prog.code[Top.block])
      /\ Len(prog.code[Top.block]) \in Nat
  BY HereFacts, ProgramFacts
<1>2. ~EndOfItems
  BY <1>1 DEF EndOfItems
<1>3. \A ops : AtItem(ops) => Here.op \in ops
  BY <1>1 DEF AtItem, Here
<1>4. ~ExecFault
  BY <1>1, <1>3 DEF ExecFault, Evaluating
<1>5. ExecExit
  BY <1>1, <1>2, <1>3, <1>4
     DEF Next, ExecPlain, EnterBody, SkipBody, ExecGoto, ExecReturn,
         ExecGosubReturn, ExecGosub, ExecGosubExpr, ExecGotoExpr, ExecCall,
         Plain, Containers, Skippable, Loops, RetestLoops, DoLoops, Selects
<1> QED
  BY <1>5 DEF ExecExit

\* The arm that consumes Flow::Break is the one of the innermost loop, so the
\* body of any other loop is below it.
LEMMA ExitStopsAtLoop ==
  ASSUME Inv, Next
  PROVE  ExitLeavesOneLoop
<1> DEFINE T == {n \in Below : ConsumesBreak(n)}
           k == Innermost(T)
           InLoop(n) == n > 1 /\ stack[n].via = "block" /\ Arm(n-1).op \in Loops
<1> SUFFICES ASSUME AtItem({"exitloop", "exitselect"}),
                    NEW i \in (Len(stack') + 1)..Len(stack),
                    NEW j \in (Len(stack') + 1)..Len(stack),
                    InLoop(i), InLoop(j)
             PROVE  i = j
  BY DEF ExitLeavesOneLoop
<1>1. stack # <<>> /\ Len(stack) \in Nat \ {0}
  BY HereFacts
<1>2. ArmDone(k)
  BY ExitArm DEF FlowBreak
<1>3. k \in 0..(Len(stack) - 1) /\ \A n \in T : n <= k
  BY <1>1, BottomConsumes, FlowLands
<1> HIDE DEF k
<1>4. Len(stack') = k
  BY <1>2, <1>3 DEF ArmDone, Resume
<1>5. ASSUME NEW n \in (k + 1)..Len(stack), InLoop(n)
      PROVE  n = k + 1
  <2>1. n - 1 \in Below /\ (n - 1) + 1 = n
    BY <1>1, <1>3, <1>5 DEF Below
  <2>2. ConsumesBreak(n - 1)
    BY <1>5, <2>1 DEF ConsumesBreak
  <2>3. n - 1 <= k
    BY <1>3, <2>1, <2>2
  <2> QED
    BY <1>1, <1>3, <2>3
<1> QED
  BY <1>4, <1>5

(***************************************************************************)
(* EXIT abandons the body of one loop at most, in every program and from   *)
(* any depth of nesting: no Flow::Break passes the arm of a loop.          *)
(***************************************************************************)
THEOREM ExitEndsOneLoop == Spec => ExitsLeaveOneLoop
<1>1. TypeOK /\ StackNested /\ [Next]_vars => [ExitLeavesOneLoop]_vars
  BY ExitStopsAtLoop DEF Inv
<1> QED
  BY <1>1, StackFollowsProgram, PTL DEF Spec, ExitsLeaveOneLoop

-----------------------------------------------------------------------------
(* The interpreter beside the compiled programs                            *)

LEMMA Induction ==
  ASSUME NEW S, 0 \in S, \A n \in Nat : n \in S => n + 1 \in S
  PROVE  Nat \subseteq S
<1> DEFINE bad == {n \in Nat : n \notin S}
           R == OpToRel(<, Nat)
<1>1. SUFFICES ASSUME bad # {} PROVE FALSE
  OBVIOUS
<1>2. PICK n \in bad : \A j \in bad : ~(<<j, n>> \in R)
  <2>1. bad \in SUBSET Nat
    OBVIOUS
  <2> HIDE DEF bad
  <2> QED BY <1>1, <2>1, NatLessThanWellFounded, WFMin, Zenon
<1>3. \A j \in bad : ~(j < n)
  BY <1>2 DEF OpToRel
<1>4. n \in Nat /\ n \notin S /\ n # 0
  BY <1>2
<1>5. n - 1 \in Nat /\ n - 1 < n /\ (n - 1) + 1 = n
  BY <1>4
<1>6. n - 1 \in S
  BY <1>3, <1>5
<1> QED BY <1>4, <1>5, <1>6

-----------------------------------------------------------------------------
(***************************************************************************)
(* The mapping of stacks.                                                  *)
(***************************************************************************)
Nothing == [calls |-> <<>>, gosubs |-> <<>>, lcalls |-> <<>>]

\* StandsFor is the function its definition says.
LEMMA StandsForSteps ==
  ASSUME NEW s \in Seq(Frame)
  PROVE  /\ StandsFor(s)[0] = Nothing
         /\ \A n \in 1..Len(s) :
              StandsFor(s)[n] = Pushed(StandsFor(s)[n-1], s[n], Caller(s, n))
<1> DEFINE Body(f, N) == [n \in 0..N |-> IF n = 0 THEN Nothing
                                         ELSE Pushed(f[n-1], s[n], Caller(s, n))]
           S == {N \in Nat : \E f : f = Body(f, N)}
<1>1. 0 \in S
  <2>1. [n \in 0..0 |-> Nothing] = Body([n \in 0..0 |-> Nothing], 0)
    OBVIOUS
  <2> QED BY <2>1
<1>2. ASSUME NEW N \in Nat, N \in S PROVE N + 1 \in S
  <2>1. PICK f : f = Body(f, N)
    BY <1>2
  <2> DEFINE g == [n \in 0..(N+1) |-> IF n = N + 1
                                      THEN Pushed(f[N], s[N+1], Caller(s, N+1))
                                      ELSE f[n]]
  <2>2. ASSUME NEW n \in 0..(N+1)
        PROVE  g[n] = IF n = 0 THEN Nothing ELSE Pushed(g[n-1], s[n], Caller(s, n))
    <3>1. CASE n = 0
      BY <2>1, <3>1
    <3>2. CASE n = N + 1
      <4>1. g[n-1] = f[N] /\ n # 0
        BY <3>2
      <4>2. g[n] = Pushed(f[N], s[N+1], Caller(s, N+1))
        BY <3>2
      <4> HIDE DEF g
      <4> QED BY <3>2, <4>1, <4>2
    <3>3. CASE n \in 1..N
      <4>1. g[n] = f[n] /\ g[n-1] = f[n-1] /\ n # 0 /\ n \in 0..N
        BY <3>3
      <4>2. f[n] = Pushed(f[n-1], s[n], Caller(s, n))
        BY <2>1, <4>1, Zenon
      <4> HIDE DEF g
      <4> QED BY <4>1, <4>2
    <3> QED BY <3>1, <3>2, <3>3
  <2>3. g = Body(g, N + 1)
    <3> DEFINE e(n) == IF n = 0 THEN Nothing ELSE Pushed(g[n-1], s[n], Caller(s, n))
    <3>1. g = [n \in 0..(N+1) |-> g[n]]
      OBVIOUS
    <3> HIDE DEF g
    <3> QED BY <2>2, <3>1, Zenon
  <2> HIDE DEF g
  <2> QED BY <2>3, SMTT(60)
<1>3. Len(s) \in S
  <2> HIDE DEF S
  <2>1. Nat \subseteq S
    BY <1>1, <1>2, Induction
  <2> QED BY <2>1
<1> DEFINE m == CHOOSE f : f = Body(f, Len(s))
<1>4. m = Body(m, Len(s))
  BY <1>3, Zenon
<1>5. StandsFor(s) = m
  BY DEF StandsFor, m, Nothing
<1> HIDE DEF m
<1>6. \A n \in 0..Len(s) :
        m[n] = IF n = 0 THEN Nothing ELSE Pushed(m[n-1], s[n], Caller(s, n))
  BY <1>4, Zenon
<1> QED BY <1>5, <1>6

\* What the lowest n activations stand for depends on how they were entered
\* and on where the callers go on, no more.
LEMMA SamePrefix ==
  ASSUME NEW s \in Seq(Frame), NEW t \in Seq(Frame), NEW k \in Nat,
         k <= Len(s), k <= Len(t),
         \A j \in 1..k : s[j].via = t[j].via,
         \A j \in 1..k : Caller(s, j) = Caller(t, j)
  PROVE  \A j \in 0..k : StandsFor(s)[j] = StandsFor(t)[j]
<1> DEFINE S == {n \in Nat : n <= k => StandsFor(s)[n] = StandsFor(t)[n]}
<1>1. 0 \in S
  BY StandsForSteps
<1>2. ASSUME NEW n \in Nat, n \in S PROVE n + 1 \in S
  <2>1. SUFFICES ASSUME n + 1 <= k
                 PROVE  StandsFor(s)[n+1] = StandsFor(t)[n+1]
    OBVIOUS
  <2>2. n + 1 \in 1..k /\ n + 1 \in 1..Len(s) /\ n + 1 \in 1..Len(t)
        /\ (n + 1) - 1 = n /\ n <= k
    BY <2>1
  <2>3. /\ StandsFor(s)[n+1] = Pushed(StandsFor(s)[n], s[n+1], Caller(s, n+1))
        /\ StandsFor(t)[n+1] = Pushed(StandsFor(t)[n], t[n+1], Caller(t, n+1))
    BY <2>2, StandsForSteps
  <2>4. StandsFor(s)[n] = StandsFor(t)[n]
    BY <1>2, <2>2
  <2> QED BY <2>2, <2>3, <2>4 DEF Pushed
<1>3. Nat \subseteq S
  <2> HIDE DEF S
  <2> QED BY <1>1, <1>2, Induction
<1> QED BY <1>3

\* The bodies of items add nothing.
LEMMA BlocksAddNothing ==
  ASSUME NEW s \in Seq(Frame), NEW m \in 0..Len(s), NEW n \in m..Len(s),
         \A j \in (m+1)..n : s[j].via = "block"
  PROVE  StandsFor(s)[n] = StandsFor(s)[m]
<1> DEFINE S == {i \in Nat : m + i <= n => StandsFor(s)[m+i] = StandsFor(s)[m]}
<1>1. 0 \in S
  OBVIOUS
<1>2. ASSUME NEW i \in Nat, i \in S PROVE i + 1 \in S
  <2>1. SUFFICES ASSUME m + (i + 1) <= n
                 PROVE  StandsFor(s)[m+(i+1)] = StandsFor(s)[m]
    OBVIOUS
  <2> DEFINE j == m + (i + 1)
  <2>2. j \in 1..Len(s) /\ j \in (m+1)..n /\ j - 1 = m + i /\ m + i <= n
    BY <2>1
  <2>3. StandsFor(s)[j] = Pushed(StandsFor(s)[j-1], s[j], Caller(s, j))
    BY <2>2, StandsForSteps
  <2>4. StandsFor(s)[j] = StandsFor(s)[j-1]
    BY <2>2, <2>3 DEF Pushed
  <2> QED BY <1>2, <2>2, <2>4
<1>3. Nat \subseteq S
  <2> HIDE DEF S
  <2> QED BY <1>1, <1>2, Induction
<1>4. n - m \in Nat /\ m + (n - m) = n
  OBVIOUS
<1> QED BY <1>3, <1>4

CallC == [ret : Pos, base : Nat]
CallL == [ret : Pos, rets : Seq(Pos)]

\* The states of the compiled programs that n activations can stand for.
Shape(m, n) ==
  /\ m \in [calls : Seq(CallC), gosubs : Seq(Pos), lcalls : Seq(CallL)]
  /\ Len(m.lcalls) = Len(m.calls)
  /\ Len(m.calls) <= n
  /\ n > 0 => /\ Len(m.calls) > 0
              /\ Len(m.gosubs) < n
              /\ m.calls[Len(m.calls)].base <= Len(m.gosubs)
              /\ Len(m.lcalls[Len(m.lcalls)].rets) < n
  /\ n = 0 => m = Nothing

LEMMA LastOf ==
  ASSUME NEW T, NEW q \in Seq(T), NEW v \in T
  PROVE  /\ Append(q, v) \in Seq(T) /\ Len(Append(q, v)) = Len(q) + 1
         /\ Append(q, v)[Len(q) + 1] = v
         /\ Len(q) > 0 => q[Len(q)] \in T
         /\ [n \in 1..Len(q) |-> Append(q, v)[n]] = q
OBVIOUS

LEMMA Replaced ==
  ASSUME NEW T, NEW q \in Seq(T), NEW i \in DOMAIN q, NEW v \in T
  PROVE  /\ [q EXCEPT ![i] = v] \in Seq(T) /\ Len([q EXCEPT ![i] = v]) = Len(q)
         /\ [q EXCEPT ![i] = v][i] = v
OBVIOUS

LEMMA WithRets ==
  ASSUME NEW e \in CallL, NEW r \in Seq(Pos)
  PROVE  /\ [e EXCEPT !.rets = r] \in CallL
         /\ [e EXCEPT !.rets = r].rets = r
         /\ [[e EXCEPT !.rets = r] EXCEPT !.rets = e.rets] = e
BY DEF CallL

LEMMA FrameKinds ==
  \A f \in Frame : f.via \in {"block", "gosub", "call"} /\ PosOf(f) \in Pos
                   /\ After(f) \in Pos
BY DEF Frame, PosOf, After, Pos

LEMMA PushedShape ==
  ASSUME NEW n \in Nat, NEW m, Shape(m, n), NEW f \in Frame, NEW c \in Pos,
         n = 0 => f.via = "call"
  PROVE  Shape(Pushed(m, f, c), n + 1)
<1>1. CASE f.via = "block"
  BY <1>1 DEF Pushed, Shape
<1>2. CASE f.via = "call"
  <2> DEFINE e == [ret |-> c, base |-> Len(m.gosubs)]
             le == [ret |-> c, rets |-> <<>>]
  <2>1. e \in CallC /\ le \in CallL /\ Len(le.rets) = 0
    BY DEF Shape, CallC, CallL
  <2>2. Pushed(m, f, c) = [calls |-> Append(m.calls, e), gosubs |-> m.gosubs,
                           lcalls |-> Append(m.lcalls, le)]
    BY <1>2 DEF Pushed
  <2>3. m.calls \in Seq(CallC) /\ m.lcalls \in Seq(CallL) /\ m.gosubs \in Seq(Pos)
    BY DEF Shape
  <2>4. e.base = Len(m.gosubs) /\ Len(m.gosubs) \in Nat /\ Len(m.calls) \in Nat
    BY <2>3
  <2>5. n = 0 => Len(m.calls) = 0
    BY <2>4 DEF Shape
  <2> DEFINE cs == Append(m.calls, e)
             ls == Append(m.lcalls, le)
  <2>6. /\ cs \in Seq(CallC) /\ Len(cs) = Len(m.calls) + 1 /\ cs[Len(cs)] = e
        /\ ls \in Seq(CallL) /\ Len(ls) = Len(m.lcalls) + 1 /\ ls[Len(ls)] = le
    <3> HIDE DEF e, le
    <3> QED BY <2>1, <2>3, LastOf
  <2>7. Len(m.lcalls) = Len(m.calls) /\ Len(m.calls) <= n
        /\ (n > 0 => Len(m.gosubs) < n)
    BY DEF Shape
  <2>8. n = 0 => Len(m.gosubs) = 0
    BY DEF Shape, Nothing
  <2> HIDE DEF e, le, cs, ls
  <2> QED
    BY <2>1, <2>2, <2>3, <2>4, <2>5, <2>6, <2>7, <2>8 DEF Shape, cs, ls
<1>3. CASE f.via = "gosub"
  <2>1. m.calls \in Seq(CallC) /\ m.lcalls \in Seq(CallL) /\ m.gosubs \in Seq(Pos)
        /\ n > 0 /\ Len(m.lcalls) > 0
    BY <1>3 DEF Shape
  <2> DEFINE H == Len(m.lcalls)
             le == [m.lcalls[H] EXCEPT !.rets = Append(@, c)]
             lc == [m.lcalls EXCEPT ![H].rets = Append(@, c)]
  <2>2. m.lcalls[H] \in CallL /\ H \in DOMAIN m.lcalls /\ H \in Nat
    BY <2>1
  <2>3. m.lcalls[H].rets \in Seq(Pos)
    BY <2>2 DEF CallL
  <2>4. le \in CallL /\ le.rets = Append(m.lcalls[H].rets, c)
    <3> DEFINE old == m.lcalls[H]
               r == Append(old.rets, c)
    <3>1. r \in Seq(Pos)
      BY <2>3
    <3>2. le = [old EXCEPT !.rets = r]
      OBVIOUS
    <3> HIDE DEF r, old
    <3>3. [old EXCEPT !.rets = r] \in CallL /\ [old EXCEPT !.rets = r].rets = r
      BY <2>2, <3>1, WithRets DEF old
    <3> QED BY <3>2, <3>3 DEF r, old
  <2>5. lc = [m.lcalls EXCEPT ![H] = le]
    OBVIOUS
  <2>6. lc \in Seq(CallL) /\ Len(lc) = H /\ lc[H] = le
    <3> HIDE DEF le, lc
    <3> QED BY <2>1, <2>2, <2>4, <2>5, Replaced
  <2>7. Pushed(m, f, c) = [calls |-> m.calls, gosubs |-> Append(m.gosubs, c),
                           lcalls |-> lc]
    BY <1>3 DEF Pushed
  <2>8. Len(le.rets) = Len(m.lcalls[H].rets) + 1 /\ Len(le.rets) \in Nat
    BY <2>3, <2>4
  <2>9. Append(m.gosubs, c) \in Seq(Pos) /\ Len(Append(m.gosubs, c)) = Len(m.gosubs) + 1
    BY <2>1
  <2>10. m.calls[Len(m.calls)] \in CallC /\ m.calls[Len(m.calls)].base \in Nat
    <3>1. Len(m.calls) > 0 /\ Len(m.calls) \in Nat
      BY <2>1 DEF Shape
    <3>2. \A e \in CallC : e.base \in Nat
      BY DEF CallC
    <3> QED BY <2>1, <3>1, <3>2
  <2> HIDE DEF le, lc
  <2> QED BY <2>1, <2>6, <2>7, <2>8, <2>9, <2>10 DEF Shape
<1> QED BY <1>1, <1>2, <1>3, FrameKinds

LEMMA StandsForShape ==
  ASSUME NEW s \in Seq(Frame), s # <<>> => s[1].via = "call"
  PROVE  \A n \in 0..Len(s) : Shape(StandsFor(s)[n], n)
<1> DEFINE S == {n \in Nat : n <= Len(s) => Shape(StandsFor(s)[n], n)}
<1>1. 0 \in S
  <2>1. Shape(Nothing, 0)
    BY DEF Shape, Nothing
  <2> QED BY <2>1, StandsForSteps
<1>2. ASSUME NEW n \in Nat, n \in S PROVE n + 1 \in S
  <2>1. SUFFICES ASSUME n + 1 <= Len(s) PROVE Shape(StandsFor(s)[n+1], n + 1)
    OBVIOUS
  <2>2. n + 1 \in 1..Len(s) /\ (n + 1) - 1 = n /\ n <= Len(s) /\ s # <<>>
    BY <2>1
  <2>3. s[n+1] \in Frame /\ (n # 0 => n \in 1..Len(s) /\ s[n] \in Frame)
    BY <2>2
  <2>4. Caller(s, n+1) \in Pos
    BY <2>2, <2>3, FrameKinds, NamesAssumption DEF Caller, Nowhere, Pos
  <2>5. StandsFor(s)[n+1] = Pushed(StandsFor(s)[n], s[n+1], Caller(s, n+1))
    BY <2>2, StandsForSteps
  <2>6. Shape(StandsFor(s)[n], n)
    BY <1>2, <2>2
  <2> QED BY <2>2, <2>3, <2>4, <2>5, <2>6, PushedShape
<1>3. Nat \subseteq S
  <2> HIDE DEF S
  <2> QED BY <1>1, <1>2, Induction
<1> QED BY <1>3

-----------------------------------------------------------------------------
(***************************************************************************)
(* Paths and labels of a program.                                          *)
(***************************************************************************)
At(b, i) == [block |-> b, idx |-> i]

LEMMA PathFacts ==
  ASSUME NEW p \in Corpus, NEW b \in Block
  PROVE  /\ p.path[b] \in Seq(Pos)
         /\ Root(p, b) \in Block /\ p.path[Root(p, b)] = <<>>
         /\ Root(p, Root(p, b)) = Root(p, b)
         /\ p.path[b] = <<>> => Root(p, b) = b
<1>1. p \in Program /\ PathOK(p, b)
  BY ProgramsAssumption DEF WellFormed
<1>2. p.path[b] \in Seq(Pos)
  BY <1>1 DEF Program
<1>3. p.path[Root(p, b)] = <<>>
  <2>1. CASE p.path[b] = <<>>
    BY <2>1 DEF Root
  <2>2. CASE p.path[b] # <<>>
    <3>1. 1 \in DOMAIN p.path[b]
      BY <1>2, <2>2
    <3>2. p.path[p.path[b][1].block] = SubSeq(p.path[b], 1, 1 - 1)
      BY <1>1, <3>1 DEF PathOK
    <3>3. \A q \in Seq(Pos) : SubSeq(q, 1, 1 - 1) = <<>>
      OBVIOUS
    <3>4. SubSeq(p.path[b], 1, 1 - 1) = <<>>
      BY <1>2, <3>3
    <3>5. Root(p, b) = p.path[b][1].block
      BY <2>2 DEF Root
    <3> QED BY <3>2, <3>4, <3>5
  <2> QED BY <2>1, <2>2
<1> QED BY <1>2, <1>3, ProgramFacts DEF Root

\* A body hangs below its item.
LEMMA BodyFacts ==
  ASSUME NEW p \in Corpus, NEW b \in Block, NEW i \in DOMAIN p.code[b],
         NEW c \in p.code[b][i].body
  PROVE  /\ c \in Block
         /\ p.path[c] = Append(p.path[b], At(b, i)) /\ p.path[c] # <<>>
         /\ Root(p, c) = Root(p, b)
         /\ p.code[b][i].op \in Containers
<1>1. NestingOK(p, b) /\ ItemOK(p, p.code[b][i])
  BY ProgramsAssumption DEF WellFormed
<1>2. c \in Block
  BY ProgramFacts
<1>3. p.path[c] = Append(p.path[b], At(b, i))
  BY <1>1 DEF NestingOK, At
<1>4. p.path[b] \in Seq(Pos)
  BY PathFacts
<1>5. p.path[c] # <<>> /\ p.path[c][1] = IF p.path[b] = <<>> THEN At(b, i) ELSE p.path[b][1]
  <2>1. At(b, i) \in Pos
    <3>1. i \in Nat
      BY ProgramFacts
    <3> QED BY <3>1 DEF At, Pos
  <2> QED BY <1>3, <1>4, <2>1
<1>6. Root(p, c) = Root(p, b)
  BY <1>5 DEF Root, At
<1> QED BY <1>1, <1>2, <1>3, <1>5, <1>6 DEF ItemOK

\* A label names one place of a function.
LEMMA LabelFacts ==
  ASSUME NEW p \in Corpus, NEW b \in Block, NEW l \in LabelsIn(p, b)
  PROVE  /\ l \in Label
         /\ LabelIdx(p, b, l) \in DOMAIN p.code[b] /\ LabelIdx(p, b, l) \in Nat \ {0}
         /\ IsLabel(p, b, LabelIdx(p, b, l), l)
         /\ \A c \in Block : Root(p, c) = Root(p, b) /\ l \in LabelsIn(p, c) => c = b
         /\ \A c \in Block : Root(p, c) = Root(p, b) =>
              /\ l \in FnLabels(p, c)
              /\ LabelPos(p, c, l) = At(b, LabelIdx(p, b, l))
<1>1. /\ LabelsOnce(p)
      /\ \A c \in Block : \A i \in DOMAIN p.code[c] : ItemOK(p, p.code[c][i])
  BY ProgramsAssumption DEF WellFormed
<1>2. /\ l \in Label /\ LabelIdx(p, b, l) \in DOMAIN p.code[b]
      /\ IsLabel(p, b, LabelIdx(p, b, l), l)
  BY DEF LabelsIn, LabelIdx
<1>3. LabelIdx(p, b, l) \in Nat \ {0}
  BY <1>2, ProgramFacts
<1>4. ASSUME NEW c \in Block, Root(p, c) = Root(p, b), l \in LabelsIn(p, c)
      PROVE  c = b
  <2>1. PICK j \in DOMAIN p.code[c] : IsLabel(p, c, j, l)
    BY <1>4 DEF LabelsIn
  <2> DEFINE i == LabelIdx(p, b, l)
             it == p.code[b][i]
             jt == p.code[c][j]
  <2>2. it \in Item /\ jt \in Item
    BY <1>2, <2>1, ProgramFacts
  <2>3. it.body = {} /\ jt.body = {}
    BY <1>1, <1>2, <2>1 DEF ItemOK, IsLabel, Containers, Loops, RetestLoops, DoLoops,
                            Selects
  <2>4. it.op = "label" /\ it.arg = l /\ jt.op = "label" /\ jt.arg = l
    BY <1>2, <2>1 DEF IsLabel
  <2>5. it = jt
    <3> HIDE DEF it, jt
    <3> QED BY <2>2, <2>3, <2>4 DEF Item
  <2> QED BY <1>1, <1>2, <1>4, <2>1, <2>4, <2>5 DEF LabelsOnce
<1>5. ASSUME NEW c \in Block, Root(p, c) = Root(p, b)
      PROVE  /\ l \in FnLabels(p, c)
             /\ LabelPos(p, c, l) = At(b, LabelIdx(p, b, l))
  <2> DEFINE home == CHOOSE d \in Block : Root(p, d) = Root(p, c) /\ l \in LabelsIn(p, d)
  <2>1. home \in Block /\ Root(p, home) = Root(p, c) /\ l \in LabelsIn(p, home)
    BY <1>5
  <2>2. home = b
    BY <1>4, <1>5, <2>1
  <2>3. LabelPos(p, c, l) = At(home, LabelIdx(p, home, l))
    BY DEF LabelPos, At
  <2>4. l \in FnLabels(p, c)
    BY <1>5 DEF FnLabels
  <2> QED BY <2>2, <2>3, <2>4
<1> QED BY <1>2, <1>3, <1>4, <1>5

-----------------------------------------------------------------------------
(***************************************************************************)
(* What the frames of a stack run.                                         *)
(***************************************************************************)
LEMMA StackFacts ==
  ASSUME Inv, stack # <<>>
  PROVE  /\ stack \in Seq(Frame) /\ Len(stack) \in Nat \ {0}
         /\ DOMAIN stack = 1..Len(stack) /\ prog \in Corpus
         /\ Top = stack[Len(stack)] /\ Top \in Frame
         /\ \A j \in 1..Len(stack) :
              /\ stack[j] \in Frame /\ stack[j].block \in Block
              /\ stack[j].idx \in Nat \ {0} /\ stack[j].cur \in Nat \ {0}
              /\ stack[j].via \in {"block", "gosub", "call"}
         /\ stack[1].via = "call" /\ stack[1].block = Main
<1>1. stack \in Seq(Frame) /\ Len(stack) \in Nat \ {0} /\ prog \in Corpus
  BY DEF Inv, TypeOK
<1>2. \A j \in 1..Len(stack) : stack[j] \in Frame
  BY <1>1
<1>3. stack[1].via = "call" /\ stack[1].block = Main
  BY DEF Inv, StackNested
<1> QED BY <1>1, <1>2, <1>3 DEF Frame, Top

\* Each frame runs a body of the item below, or the body of a function.
LEMMA FrameAbove ==
  ASSUME Inv, NEW j \in 1..(Len(stack) - 1)
  PROVE  /\ stack[j].cur \in DOMAIN Items(j)
         /\ stack[j+1].via = "block" =>
              /\ stack[j+1].block \in Arm(j).body /\ Arm(j).op \in Containers
              /\ prog.path[stack[j+1].block]
                   = Append(prog.path[stack[j].block], At(stack[j].block, stack[j].cur))
         /\ stack[j+1].via # "block" => prog.path[stack[j+1].block] = <<>>
         /\ stack[j+1].via = "gosub" =>
              /\ Arm(j).op \in {"gosub", "gosubexpr"}
              /\ stack[j+1].block = Root(prog, stack[j].block)
         /\ stack[j+1].via = "call" =>
              /\ Arm(j).op = "call"
              /\ stack[j+1].block = Arm(j).arg
         /\ stack[j+1].via # "call" =>
              Root(prog, stack[j+1].block) = Root(prog, stack[j].block)
<1>1. stack # <<>>
  BY DEF Inv, TypeOK
<1>2. /\ j \in 1..Len(stack) /\ j + 1 \in 1..Len(stack)
      /\ stack[j].block \in Block /\ prog \in Corpus
      /\ stack[j+1].via \in {"block", "gosub", "call"}
  BY <1>1, StackFacts
<1>3. StartedBy(j)
  BY DEF Inv, StackNested
<1>4. stack[j].cur \in DOMAIN Items(j) /\ Items(j) = prog.code[stack[j].block]
      /\ Arm(j) = prog.code[stack[j].block][stack[j].cur]
  BY <1>3 DEF StartedBy, Items, Arm
<1>5. CASE stack[j+1].via = "block"
  <2>1. stack[j+1].block \in Arm(j).body
    BY <1>3, <1>5 DEF StartedBy
  <2> DEFINE b == stack[j].block
             i == stack[j].cur
             c == stack[j+1].block
  <2>2. b \in Block /\ i \in DOMAIN prog.code[b] /\ c \in prog.code[b][i].body
    BY <1>2, <1>4, <2>1
  <2> HIDE DEF b, i, c
  <2>3. /\ prog.path[c] = Append(prog.path[b], At(b, i))
        /\ Root(prog, c) = Root(prog, b) /\ prog.code[b][i].op \in Containers
    BY <1>2, <2>2, BodyFacts
  <2>4. Arm(j) = prog.code[b][i] /\ c \in Arm(j).body
    BY <1>4, <2>1 DEF b, i, c
  <2> QED BY <1>4, <1>5, <2>3, <2>4 DEF b, i, c
<1>6. CASE stack[j+1].via = "gosub"
  <2>1. stack[j+1].block = Root(prog, stack[j].block) /\ Arm(j).op \in {"gosub", "gosubexpr"}
    BY <1>3, <1>6 DEF StartedBy
  <2> QED BY <1>2, <1>4, <1>6, <2>1, PathFacts
<1>7. CASE stack[j+1].via = "call"
  <2>1. stack[j+1].block = Arm(j).arg /\ Arm(j).op = "call"
    BY <1>3, <1>7 DEF StartedBy
  <2>2. ItemOK(prog, Arm(j))
    BY <1>2, <1>4, ProgramsAssumption DEF WellFormed
  <2> QED BY <1>4, <1>7, <2>1, <2>2 DEF ItemOK
<1> QED BY <1>2, <1>5, <1>6, <1>7

\* The innermost activation that a GOSUB or a call made.
Base == Innermost({n \in 1..Len(stack) : stack[n].via # "block"})

\* From there on the frames follow the path of the top block.
LEMMA BaseFacts ==
  ASSUME Inv, stack # <<>>
  PROVE  /\ Base \in 1..Len(stack) /\ stack[Base].via # "block"
         /\ \A j \in (Base+1)..Len(stack) : stack[j].via = "block"
         /\ prog.path[stack[Base].block] = <<>>
         /\ \A j \in Base..Len(stack) :
              /\ Len(prog.path[stack[j].block]) = j - Base
              /\ \A i \in 1..(j - Base) :
                   prog.path[stack[j].block][i]
                     = At(stack[Base+i-1].block, stack[Base+i-1].cur)
<1> DEFINE T == {n \in 1..Len(stack) : stack[n].via # "block"}
           path(j) == prog.path[stack[j].block]
           at(j) == At(stack[j].block, stack[j].cur)
<1>1. Len(stack) \in Nat \ {0} /\ T \subseteq 0..Len(stack) /\ 1 \in T
  BY StackFacts
<1>2. Base \in T /\ \A j \in T : j <= Base
  BY <1>1, InnermostExists DEF Base
<1>3. Base \in 1..Len(stack) /\ stack[Base].via # "block"
  BY <1>2
<1>4. \A j \in (Base+1)..Len(stack) : stack[j].via = "block"
  <2> SUFFICES ASSUME NEW j \in (Base+1)..Len(stack), stack[j].via # "block" PROVE FALSE
    OBVIOUS
  <2>1. j \in T /\ ~(j <= Base)
    BY <1>1, <1>3
  <2> QED BY <1>2, <2>1
<1>5. path(Base) = <<>>
  <2>1. CASE Base = 1
    BY <2>1, StackFacts, NamesAssumption, ProgramFacts
  <2>2. CASE Base # 1
    <3>1. Base - 1 \in 1..(Len(stack) - 1) /\ (Base - 1) + 1 = Base
      BY <1>1, <1>3, <2>2
    <3> QED BY <1>3, <3>1, FrameAbove
  <2> QED BY <2>1, <2>2
<1> HIDE DEF T
<1> DEFINE Along(j) == /\ Len(path(j)) = j - Base
                       /\ \A i \in 1..(j - Base) : path(j)[i] = at(Base+i-1)
           S == {n \in Nat : Base + n <= Len(stack) => Along(Base + n)}
<1>6. 0 \in S
  BY <1>3, <1>5
<1>7. ASSUME NEW n \in Nat, n \in S PROVE n + 1 \in S
  <2> DEFINE k == Base + n
  <2>1. SUFFICES ASSUME k + 1 <= Len(stack) PROVE Along(k + 1)
    BY <1>3
  <2>2. k \in 1..(Len(stack) - 1) /\ k + 1 \in (Base+1)..Len(stack) /\ k \in 1..Len(stack)
        /\ k - Base = n /\ (k + 1) - Base = n + 1
    BY <1>1, <1>3, <2>1
  <2>3. Along(k)
    BY <1>7, <2>2
  <2>4. path(k+1) = Append(path(k), at(k))
    BY <1>4, <2>2, FrameAbove
  <2>5. path(k) \in Seq(Pos)
    BY <2>2, StackFacts, PathFacts
  <2>6. Len(path(k)) = n
    BY <2>2, <2>3
  <2>7. \A i \in 1..n : path(k)[i] = at(Base+i-1)
    BY <2>2, <2>3
  <2>8. Base + (n + 1) - 1 = k
    BY <1>3
  <2>9. Len(path(k+1)) = n + 1 /\ path(k+1)[n+1] = at(k)
        /\ \A i \in 1..n : path(k+1)[i] = path(k)[i]
    <3> DEFINE q == path(k)
               v == at(k)
    <3>1. q \in Seq(Pos) /\ Len(q) = n /\ path(k+1) = Append(q, v)
      BY <2>4, <2>5, <2>6
    <3> HIDE DEF path, at, k, q, v
    <3>2. Len(Append(q, v)) = n + 1 /\ Append(q, v)[n+1] = v
          /\ \A i \in 1..n : Append(q, v)[i] = q[i]
      BY <3>1
    <3> QED BY <3>1, <3>2 DEF q, v
  <2>10. \A i \in 1..(n+1) : i \in 1..n \/ i = n + 1
    OBVIOUS
  <2> HIDE DEF path, at
  <2>11. \A i \in 1..(n+1) : path(k+1)[i] = at(Base+i-1)
    BY <2>7, <2>8, <2>9, <2>10
  <2> QED BY <2>2, <2>9, <2>11
<1>8. Nat \subseteq S
  <2> HIDE DEF S
  <2> QED BY <1>6, <1>7, Induction
<1>9. ASSUME NEW j \in Base..Len(stack) PROVE Along(j)
  <2>1. j - Base \in Nat /\ Base + (j - Base) = j
    BY <1>1, <1>3
  <2> QED BY <1>1, <1>8, <2>1
<1> QED BY <1>3, <1>4, <1>5, <1>9

\* The call that the top frame works for, and its function.
LEMMA CallFacts ==
  ASSUME Inv, stack # <<>>
  PROVE  /\ ThisCall \in 1..Base /\ stack[ThisCall].via = "call"
         /\ \A j \in (ThisCall+1)..Len(stack) : stack[j].via # "call"
         /\ stack[ThisCall].block = Root(prog, stack[ThisCall].block)
         /\ \A j \in ThisCall..Len(stack) :
              Root(prog, stack[j].block) = stack[ThisCall].block
<1> DEFINE T == {n \in 1..Len(stack) : stack[n].via = "call"}
           c == ThisCall
<1>1. Len(stack) \in Nat \ {0} /\ T \subseteq 0..Len(stack) /\ 1 \in T
  BY StackFacts
<1>2. c \in T /\ \A j \in T : j <= c
  BY <1>1, InnermostExists DEF ThisCall
<1>3. c \in 1..Len(stack) /\ stack[c].via = "call"
  BY <1>2
<1>4. \A j \in (c+1)..Len(stack) : stack[j].via # "call"
  <2> SUFFICES ASSUME NEW j \in (c+1)..Len(stack), stack[j].via = "call" PROVE FALSE
    OBVIOUS
  <2>1. j \in T /\ ~(j <= c)
    BY <1>1, <1>3
  <2> QED BY <1>2, <2>1
<1>5. c <= Base
  <2> SUFFICES ASSUME ~(c <= Base) PROVE FALSE
    OBVIOUS
  <2>1. c \in (Base+1)..Len(stack)
    BY <1>1, <1>3, BaseFacts
  <2> QED BY <1>3, <2>1, BaseFacts
<1>6. prog.path[stack[c].block] = <<>>
  <2>1. CASE c = 1
    BY <2>1, StackFacts, NamesAssumption, ProgramFacts
  <2>2. CASE c # 1
    <3>1. c - 1 \in 1..(Len(stack) - 1) /\ (c - 1) + 1 = c
      BY <1>1, <1>3, <2>2
    <3> QED BY <1>3, <3>1, FrameAbove
  <2> QED BY <2>1, <2>2
<1>7. Root(prog, stack[c].block) = stack[c].block
  BY <1>6 DEF Root
<1> HIDE DEF T, c
<1> DEFINE S == {n \in Nat : c + n <= Len(stack) =>
                               Root(prog, stack[c+n].block) = stack[c].block}
<1>8. 0 \in S
  BY <1>3, <1>7
<1>9. ASSUME NEW n \in Nat, n \in S PROVE n + 1 \in S
  <2> DEFINE k == c + n
  <2>1. SUFFICES ASSUME k + 1 <= Len(stack)
                 PROVE  Root(prog, stack[k+1].block) = stack[c].block
    BY <1>3
  <2>2. k \in 1..(Len(stack) - 1) /\ k + 1 \in (c+1)..Len(stack) /\ k <= Len(stack)
    BY <1>1, <1>3, <2>1
  <2>3. Root(prog, stack[k].block) = stack[c].block
    BY <1>9, <2>2
  <2> QED BY <1>4, <2>2, <2>3, FrameAbove
<1>10. Nat \subseteq S
  <2> HIDE DEF S
  <2> QED BY <1>8, <1>9, Induction
<1>11. ASSUME NEW j \in c..Len(stack)
       PROVE  Root(prog, stack[j].block) = stack[c].block
  <2>1. j - c \in Nat /\ c + (j - c) = j
    BY <1>1, <1>3
  <2> QED BY <1>1, <1>10, <2>1
<1>12. c \in 1..Base
  BY <1>3, <1>5, BaseFacts
<1> QED BY <1>3, <1>4, <1>7, <1>11, <1>12 DEF c

-----------------------------------------------------------------------------
(***************************************************************************)
(* What a step of the interpreter does to the state it stands for.         *)
(***************************************************************************)
LEMMA MachineShape ==
  ASSUME Inv
  PROVE  /\ \A n \in 0..Len(stack) : Shape(StandsFor(stack)[n], n)
         /\ stack # <<>> => Shape(Machine, Len(stack)) /\ Machine.calls # <<>>
                            /\ Machine.lcalls # <<>> /\ pcBar = PosOf(Top)
<1>1. stack \in Seq(Frame) /\ (stack # <<>> => stack[1].via = "call")
  BY DEF Inv, TypeOK, StackNested
<1>2. \A n \in 0..Len(stack) : Shape(StandsFor(stack)[n], n)
  BY <1>1, StandsForShape
<1>3. ASSUME stack # <<>> PROVE Shape(Machine, Len(stack))
  <2>1. Len(stack) \in 0..Len(stack)
    BY <1>1
  <2> QED BY <1>2, <2>1 DEF Machine
<1>4. ASSUME stack # <<>> PROVE Machine.calls # <<>> /\ Machine.lcalls # <<>>
  <2>1. Len(stack) > 0
    BY <1>1, <1>4
  <2>2. Len(Machine.calls) > 0 /\ Len(Machine.lcalls) > 0
    BY <1>3, <1>4, <2>1 DEF Shape
  <2> QED BY <2>2
<1> QED BY <1>2, <1>3, <1>4 DEF pcBar

LEMMA EmptyEffect ==
  ASSUME stack' = <<>> PROVE pcBar' = Nowhere /\ Machine' = Nothing
<1>1. <<>> \in Seq(Frame) /\ Len(<<>>) = 0
  OBVIOUS
<1>2. StandsFor(<<>>)[0] = Nothing
  BY <1>1, StandsForSteps
<1> QED BY <1>1, <1>2 DEF pcBar, Machine

\* Frames above k return.
LEMMA ResumeEffect ==
  ASSUME Inv, Inv', stack # <<>>,
         NEW k \in 1..Len(stack), NEW i \in Nat \ {0}, Resume(k, i)
  PROVE  pcBar' = At(stack[k].block, i) /\ Machine' = StandsFor(stack)[k]
<1> DEFINE new(j) == IF j = k THEN Moved(stack[j], i) ELSE stack[j]
<1>1. stack' = [j \in 1..k |-> new(j)]
  BY DEF Resume
<1>2. stack \in Seq(Frame) /\ stack' \in Seq(Frame) /\ Len(stack) \in Nat
  BY DEF Inv, TypeOK
<1>3. k \in Nat \ {0} /\ k <= Len(stack)
  BY <1>2
<1>4. Len(stack') = k /\ stack' # <<>> /\ \A j \in 1..k : stack'[j] = new(j)
  <2> HIDE DEF new
  <2> QED BY <1>1, <1>2, <1>3
<1>5. \A j \in 1..k : j \in 1..Len(stack) /\ stack[j] \in Frame
  BY <1>2, <1>3
<1>6. \A j \in 1..k : stack'[j].via = stack[j].via /\ (j # k => stack'[j] = stack[j])
  <2> TAKE j \in 1..k
  <2>1. Moved(stack[j], i).via = stack[j].via
    BY <1>5, FrameFacts
  <2> QED BY <1>4, <2>1
<1>7. \A j \in 1..k : Caller(stack', j) = Caller(stack, j)
  <2> TAKE j \in 1..k
  <2>1. j # 1 => j - 1 \in 1..k /\ j - 1 # k
    BY <1>3
  <2> QED BY <1>6, <2>1 DEF Caller
<1>8. StandsFor(stack')[k] = StandsFor(stack)[k]
  <2>1. k \in 0..k
    BY <1>3
  <2> QED BY <1>2, <1>3, <1>4, <1>6, <1>7, <2>1, SamePrefix
<1>9. Machine' = StandsFor(stack')[Len(stack')] /\ pcBar' = PosOf(stack'[Len(stack')])
  BY <1>4 DEF Machine, pcBar, Top
<1>10. stack'[k] = Moved(stack[k], i) /\ k \in 1..k
  BY <1>3, <1>4
<1>11. PosOf(Moved(stack[k], i)) = At(stack[k].block, i)
  BY <1>5, <1>10, FrameFacts DEF PosOf, At
<1> QED BY <1>4, <1>8, <1>9, <1>10, <1>11

\* A loop runs a body once more.
LEMMA IterateEffect ==
  ASSUME Inv, Inv', stack # <<>>, NEW k \in 1..(Len(stack) - 1), NEW b \in Block,
         Iterate(k, stack[k].idx, b)
  PROVE  pcBar' = At(b, 1) /\ Machine' = StandsFor(stack)[k]
<1> DEFINE new(j) == IF j = k THEN [stack[j] EXCEPT !.idx = stack[k].idx] ELSE stack[j]
           low == [j \in 1..k |-> new(j)]
           f == NewFrame(b, 1, "block")
<1>1. stack' = Append(low, f)
  BY DEF Iterate
<1>2. stack \in Seq(Frame) /\ stack' \in Seq(Frame) /\ Len(stack) \in Nat
  BY DEF Inv, TypeOK
<1>3. k \in Nat \ {0} /\ k <= Len(stack)
  BY <1>2
<1>4. \A j \in 1..k : j \in 1..Len(stack) /\ stack[j] \in Frame
  BY <1>2, <1>3
<1>5. \A j \in 1..k : new(j) = stack[j]
  BY <1>4 DEF Frame
<1>6. low \in Seq(Frame) /\ Len(low) = k /\ \A j \in 1..k : low[j] = stack[j]
  <2>1. \A j \in 1..k : new(j) \in Frame
    BY <1>4, <1>5
  <2> HIDE DEF new
  <2> QED BY <1>3, <1>5, <2>1
<1>7. f \in Frame /\ f.via = "block" /\ PosOf(f) = At(b, 1)
  BY DEF Frame, NewFrame, PosOf, At
<1> HIDE DEF low, f
<1>8. /\ Len(stack') = k + 1 /\ stack' # <<>> /\ stack'[k+1] = f
      /\ \A j \in 1..k : stack'[j] = stack[j]
  BY <1>1, <1>3, <1>6, <1>7
<1>9. \A j \in 1..k : Caller(stack', j) = Caller(stack, j)
  <2> TAKE j \in 1..k
  <2>1. j # 1 => j - 1 \in 1..k
    BY <1>3
  <2> QED BY <1>8, <2>1 DEF Caller
<1>10. StandsFor(stack')[k] = StandsFor(stack)[k]
  <2>1. k \in 0..k /\ k <= Len(stack')
    BY <1>3, <1>8
  <2> QED BY <1>2, <1>3, <1>8, <1>9, <2>1, SamePrefix
<1>11. StandsFor(stack')[k+1] = StandsFor(stack')[k]
  <2>1. k \in 0..Len(stack') /\ k + 1 \in k..Len(stack')
    BY <1>3, <1>8
  <2>2. \A j \in (k+1)..(k+1) : stack'[j].via = "block"
    BY <1>3, <1>7, <1>8
  <2> QED BY <1>2, <2>1, <2>2, BlocksAddNothing
<1>12. Machine' = StandsFor(stack')[Len(stack')] /\ pcBar' = PosOf(stack'[Len(stack')])
  BY <1>8 DEF Machine, pcBar, Top
<1> QED BY <1>7, <1>8, <1>10, <1>11, <1>12

\* exec_items is called.
LEMMA EnterEffect ==
  ASSUME Inv, Inv', stack # <<>>, NEW b, NEW i, NEW v, NEW n, Enter(b, i, v, n)
  PROVE  /\ pcBar' = At(b, i)
         /\ Machine' = Pushed(Machine, NewFrame(b, i, v), After(pcBar))
<1> DEFINE f == NewFrame(b, i, v)
           k == Len(stack)
<1>1. stack' = Append(stack, f)
  BY DEF Enter
<1>2. stack \in Seq(Frame) /\ stack' \in Seq(Frame) /\ k \in Nat \ {0}
  BY DEF Inv, TypeOK
<1>3. PosOf(f) = At(b, i)
  BY DEF NewFrame, PosOf, At
<1> HIDE DEF f
<1>4. /\ Len(stack') = k + 1 /\ stack' # <<>> /\ stack'[k+1] = f
      /\ \A j \in 1..k : stack'[j] = stack[j]
  BY <1>1, <1>2
<1>5. \A j \in 1..k : Caller(stack', j) = Caller(stack, j)
  <2> TAKE j \in 1..k
  <2>1. j # 1 => j - 1 \in 1..k
    BY <1>2
  <2> QED BY <1>4, <2>1 DEF Caller
<1>6. StandsFor(stack')[k] = StandsFor(stack)[k]
  <2>1. k \in 0..k /\ k <= Len(stack') /\ k <= Len(stack) /\ k \in Nat
    BY <1>2, <1>4
  <2> QED BY <1>2, <1>4, <1>5, <2>1, SamePrefix
<1>7. StandsFor(stack')[k+1] = Pushed(StandsFor(stack')[k], f, Caller(stack', k+1))
  <2>1. k + 1 \in 1..Len(stack') /\ (k + 1) - 1 = k
    BY <1>2, <1>4
  <2>2. StandsFor(stack')[k+1]
          = Pushed(StandsFor(stack')[(k+1)-1], stack'[k+1], Caller(stack', k+1))
    BY <1>2, <2>1, StandsForSteps
  <2> QED BY <1>4, <2>1, <2>2
<1>8. Caller(stack', k+1) = After(pcBar)
  <2>1. k + 1 # 1 /\ (k + 1) - 1 = k /\ k \in 1..k
    BY <1>2
  <2>2. stack'[k] = stack[k]
    BY <1>4, <2>1
  <2>3. Caller(stack', k+1) = After(stack[k])
    BY <2>1, <2>2 DEF Caller
  <2> QED BY <2>3 DEF pcBar, Top, After, PosOf
<1>9. Machine' = StandsFor(stack')[Len(stack')] /\ pcBar' = PosOf(stack'[Len(stack')])
  BY <1>4 DEF Machine, pcBar, Top
<1>10. Machine = StandsFor(stack)[k]
  BY DEF Machine
<1> QED BY <1>3, <1>4, <1>6, <1>7, <1>8, <1>9, <1>10 DEF f

\* GOSUBs and bodies leave the calls alone, the return positions of the
\* innermost one excepted.
SameCalls(a, z) ==
  /\ z.calls = a.calls
  /\ Len(z.lcalls) = Len(a.lcalls)
  /\ \A i \in 1..Len(a.lcalls) : z.lcalls[i].ret = a.lcalls[i].ret
  /\ \A i \in 1..(Len(a.lcalls) - 1) : z.lcalls[i] = a.lcalls[i]

LEMMA SameCallsStep ==
  ASSUME NEW n \in Nat, n > 0, NEW m, Shape(m, n), NEW f \in Frame, NEW c \in Pos,
         f.via # "call"
  PROVE  SameCalls(m, Pushed(m, f, c))
<1>1. CASE f.via = "block"
  BY <1>1 DEF Pushed, SameCalls
<1>2. CASE f.via = "gosub"
  <2>1. m.lcalls \in Seq(CallL) /\ Len(m.lcalls) > 0
    BY DEF Shape
  <2> DEFINE H == Len(m.lcalls)
             r == Append(m.lcalls[H].rets, c)
             le == [m.lcalls[H] EXCEPT !.rets = r]
             lc == [m.lcalls EXCEPT ![H] = le]
  <2>2. m.lcalls[H] \in CallL /\ H \in DOMAIN m.lcalls /\ H \in Nat
    BY <2>1
  <2>3. le.ret = m.lcalls[H].ret
    BY <2>2 DEF CallL
  <2>4. /\ Pushed(m, f, c).calls = m.calls
        /\ Pushed(m, f, c).lcalls = lc
    BY <1>2 DEF Pushed
  <2> HIDE DEF le
  <2>5. Len(lc) = H /\ \A i \in 1..H : lc[i] = IF i = H THEN le ELSE m.lcalls[i]
    BY <2>1, <2>2
  <2> HIDE DEF lc
  <2> QED BY <2>2, <2>3, <2>4, <2>5 DEF SameCalls
<1> QED BY <1>1, <1>2, FrameKinds

LEMMA CallsKept ==
  ASSUME Inv, NEW c \in 1..Len(stack), NEW n \in c..Len(stack),
         \A j \in (c+1)..n : stack[j].via # "call"
  PROVE  SameCalls(StandsFor(stack)[c], StandsFor(stack)[n])
<1> DEFINE m(j) == StandsFor(stack)[j]
           S == {i \in Nat : c + i <= n => SameCalls(m(c), m(c+i))}
<1>1. 0 \in S
  BY DEF SameCalls
<1>2. ASSUME NEW i \in Nat, i \in S PROVE i + 1 \in S
  <2> DEFINE j == c + i
  <2>1. SUFFICES ASSUME j + 1 <= n PROVE SameCalls(m(c), m(j+1))
    OBVIOUS
  <2>2. stack \in Seq(Frame) /\ Len(stack) \in Nat /\ stack # <<>>
    BY DEF Inv, TypeOK
  <2>3. j + 1 \in 1..Len(stack) /\ j + 1 \in (c+1)..n /\ (j + 1) - 1 = j /\ j <= n
        /\ j \in Nat /\ j > 0 /\ j + 1 # 1 /\ j \in 1..Len(stack) /\ j \in 0..Len(stack)
    BY <2>1, <2>2
  <2>4. SameCalls(m(c), m(j))
    BY <1>2, <2>3
  <2>5. m(j+1) = Pushed(m(j), stack[j+1], Caller(stack, j+1))
    BY <2>2, <2>3, StandsForSteps
  <2>6. stack[j] \in Frame /\ stack[j+1] \in Frame /\ stack[j+1].via # "call"
    BY <2>2, <2>3
  <2>7. Caller(stack, j+1) \in Pos
    BY <2>3, <2>6, FrameKinds DEF Caller
  <2>8. Shape(m(j), j)
    BY <2>3, MachineShape
  <2>9. SameCalls(m(j), m(j+1))
    <3> HIDE DEF m, j
    <3> QED BY <2>3, <2>5, <2>6, <2>7, <2>8, SameCallsStep
  <2> HIDE DEF m
  <2> QED BY <2>4, <2>9 DEF SameCalls
<1>3. Nat \subseteq S
  <2> HIDE DEF S
  <2> QED BY <1>1, <1>2, Induction
<1>4. n - c \in Nat /\ c + (n - c) = n
  OBVIOUS
<1>5. n - c \in S
  BY <1>3, <1>4
<1> QED BY <1>4, <1>5

Front(q) == [n \in 1..(Len(q) - 1) |-> q[n]]

\* The innermost call ends.
LEMMA ReturnEffect ==
  ASSUME Inv, Inv', stack # <<>>, ArmDone(ThisCall - 1)
  PROVE  /\ Len(Machine.calls) \in Nat /\ Len(Machine.lcalls) = Len(Machine.calls)
         /\ IF ThisCall = 1
            THEN Len(Machine.calls) = 1 /\ pcBar' = Nowhere /\ Machine' = Nothing
            ELSE /\ Len(Machine.calls) # 1
                 /\ pcBar' = Machine.calls[Len(Machine.calls)].ret
                 /\ pcBar' = Machine.lcalls[Len(Machine.lcalls)].ret
                 /\ Machine'.calls = Front(Machine.calls)
                 /\ Machine'.lcalls = Front(Machine.lcalls)
                 /\ Base = ThisCall => Machine'.gosubs = Machine.gosubs
<1> DEFINE c == ThisCall
           m(j) == StandsFor(stack)[j]
           i == IF c - 1 = 0 THEN 1 ELSE stack[c-1].idx + 1
<1>1. /\ stack \in Seq(Frame) /\ Len(stack) \in Nat \ {0}
      /\ Base \in 1..Len(stack) /\ c \in 1..Base /\ stack[c].via = "call"
      /\ \A j \in (c+1)..Len(stack) : stack[j].via # "call"
  BY StackFacts, BaseFacts, CallFacts
<1>2. c \in 1..Len(stack) /\ c - 1 \in 0..Len(stack) /\ (c - 1) + 1 = c /\ c - 1 \in Nat
  BY <1>1
<1>3. Machine = m(Len(stack))
  BY DEF Machine
<1> HIDE DEF c, m
<1>4. SameCalls(m(c), Machine)
  BY <1>1, <1>2, <1>3, CallsKept DEF m
<1>5. m(c) = Pushed(m(c-1), stack[c], Caller(stack, c))
  BY <1>1, <1>2, StandsForSteps DEF m
<1> DEFINE e == [ret |-> Caller(stack, c), base |-> Len(m(c-1).gosubs)]
           le == [ret |-> Caller(stack, c), rets |-> <<>>]
<1>6. /\ m(c).calls = Append(m(c-1).calls, e) /\ m(c).gosubs = m(c-1).gosubs
      /\ m(c).lcalls = Append(m(c-1).lcalls, le)
  BY <1>1, <1>5 DEF Pushed
<1>7. Shape(m(c-1), c-1) /\ Shape(Machine, Len(stack))
  BY <1>2, MachineShape DEF m
<1>8. /\ m(c-1).calls \in Seq(CallC) /\ m(c-1).lcalls \in Seq(CallL)
      /\ Len(m(c-1).calls) \in Nat /\ Len(m(c-1).lcalls) = Len(m(c-1).calls)
      /\ c - 1 > 0 => Len(m(c-1).calls) > 0
      /\ c - 1 = 0 => m(c-1) = Nothing
  BY <1>7 DEF Shape
<1> DEFINE H == Len(m(c-1).calls)
           q == m(c-1).calls
           lq == m(c-1).lcalls
<1>9. q \in Seq(CallC) /\ Len(q) = H /\ lq \in Seq(CallL) /\ Len(lq) = H /\ H \in Nat
  BY <1>8
<1> HIDE DEF e, le, q, lq, H
<1>10. /\ Len(m(c).calls) = H + 1 /\ m(c).calls[H+1] = e
       /\ [n \in 1..H |-> m(c).calls[n]] = m(c-1).calls
  <2>1. Len(Append(q, e)) = H + 1 /\ Append(q, e)[H+1] = e
        /\ [n \in 1..H |-> Append(q, e)[n]] = q
    BY <1>9
  <2> QED BY <1>6, <2>1 DEF q
<1>11. /\ Len(m(c).lcalls) = H + 1 /\ m(c).lcalls[H+1] = le
       /\ [n \in 1..H |-> m(c).lcalls[n]] = m(c-1).lcalls
  <2>1. Len(Append(lq, le)) = H + 1 /\ Append(lq, le)[H+1] = le
        /\ [n \in 1..H |-> Append(lq, le)[n]] = lq
    BY <1>9
  <2> QED BY <1>6, <2>1 DEF lq
<1>12. H \in Nat /\ (H + 1) - 1 = H
  BY <1>9
<1>13. /\ Len(Machine.calls) = H + 1 /\ Machine.calls[H+1] = e
       /\ Front(Machine.calls) = m(c-1).calls
  BY <1>4, <1>10, <1>12 DEF SameCalls, Front
<1>14. /\ Len(Machine.lcalls) = H + 1 /\ Machine.lcalls[H+1].ret = le.ret
       /\ Front(Machine.lcalls) = m(c-1).lcalls
  <2>1. Len(Machine.lcalls) = H + 1 /\ \A n \in 1..H : Machine.lcalls[n] = m(c).lcalls[n]
    BY <1>4, <1>11, <1>12 DEF SameCalls
  <2>2. Front(Machine.lcalls) = m(c-1).lcalls
    BY <1>11, <1>12, <2>1 DEF Front
  <2>3. H + 1 \in 1..Len(m(c).lcalls)
    BY <1>11, <1>12
  <2> QED BY <1>4, <1>11, <2>1, <2>2, <2>3 DEF SameCalls
<1>15. e.ret = Caller(stack, c) /\ le.ret = Caller(stack, c)
  BY DEF e, le
<1>16. Resume(c - 1, i)
  BY DEF ArmDone, c
<1>17. CASE c = 1
  <2>1. stack' = <<>>
    BY <1>16, <1>17 DEF Resume
  <2>2. H = 0
    BY <1>8, <1>17 DEF H, Nothing
  <2> QED BY <1>12, <1>13, <1>14, <1>17, <2>1, <2>2, EmptyEffect DEF c
<1>18. CASE c # 1
  <2>1. c - 1 \in 1..Len(stack) /\ c - 1 # 0 /\ c - 1 > 0
    BY <1>2, <1>18
  <2>2. i = stack[c-1].idx + 1 /\ i \in Nat \ {0}
    BY <2>1, StackFacts
  <2>3. pcBar' = At(stack[c-1].block, i) /\ Machine' = m(c-1)
    BY <1>16, <2>1, <2>2, ResumeEffect DEF m
  <2>4. Caller(stack, c) = pcBar'
    BY <1>18, <2>2, <2>3 DEF Caller, After, At
  <2>5. H # 0
    BY <1>8, <2>1 DEF H
  <2>6. ASSUME Base = c PROVE Machine.gosubs = m(c-1).gosubs
    <3>1. Machine = m(c)
      <4>1. c \in 0..Len(stack) /\ Len(stack) \in c..Len(stack)
        BY <1>1, <1>2
      <4> QED BY <1>1, <1>3, <2>6, <4>1, BaseFacts, BlocksAddNothing DEF m
    <3> QED BY <1>6, <3>1
  <2> QED BY <1>12, <1>13, <1>14, <1>15, <1>18, <2>3, <2>4, <2>5, <2>6 DEF c
<1> QED BY <1>17, <1>18

LEMMA ReplacedBack ==
  ASSUME NEW T, NEW q \in Seq(T), NEW i \in DOMAIN q, NEW v \in T
  PROVE  [[q EXCEPT ![i] = v] EXCEPT ![i] = q[i]] = q
<1> DEFINE w == [q EXCEPT ![i] = v]
<1>1. q = [j \in DOMAIN q |-> q[j]]
  OBVIOUS
<1>2. DOMAIN w = DOMAIN q /\ \A j \in DOMAIN q : j # i => w[j] = q[j]
  OBVIOUS
<1> HIDE DEF w
<1>3. [w EXCEPT ![i] = q[i]] = [j \in DOMAIN q |-> q[j]]
  BY <1>2
<1> QED BY <1>1, <1>3 DEF w

\* A GOSUB ends.
LEMMA PopEffect ==
  ASSUME Inv, Inv', stack # <<>>, stack[Base].via = "gosub", ArmDone(Base - 1)
  PROVE  /\ Len(Machine.gosubs) > Machine.calls[Len(Machine.calls)].base
         /\ pcBar' = Machine.gosubs[Len(Machine.gosubs)]
         /\ Machine'.calls = Machine.calls
         /\ Machine'.gosubs = Front(Machine.gosubs)
         /\ LET H == Len(Machine.lcalls)
                rets == Machine.lcalls[H].rets
            IN  /\ rets # <<>> /\ pcBar' = rets[Len(rets)]
                /\ Machine'.lcalls = [Machine.lcalls EXCEPT ![H].rets = Front(rets)]
<1> DEFINE k == Base - 1
           m(j) == StandsFor(stack)[j]
           c == After(stack[k])
           H == Len(m(k).lcalls)
           q == m(k).lcalls
           r == q[H].rets
           r2 == Append(r, c)
           le == [q[H] EXCEPT !.rets = r2]
           lc == [q EXCEPT ![H] = le]
<1>1. /\ stack \in Seq(Frame) /\ Len(stack) \in Nat \ {0} /\ stack[1].via = "call"
      /\ Base \in 1..Len(stack) /\ \A j \in (Base+1)..Len(stack) : stack[j].via = "block"
  BY StackFacts, BaseFacts
<1>2. Base # 1
  BY <1>1
<1>3. /\ k \in 1..Len(stack) /\ k > 0 /\ k + 1 = Base /\ k \in 0..Len(stack)
      /\ Base \in 0..Len(stack) /\ Len(stack) \in Base..Len(stack) /\ k # 0
  BY <1>1, <1>2
<1>4. m(Base) = Pushed(m(k), stack[Base], c)
  <2>1. m(Base) = Pushed(m(Base-1), stack[Base], Caller(stack, Base))
    BY <1>1, StandsForSteps
  <2>2. Caller(stack, Base) = c
    BY <1>2 DEF Caller
  <2> QED BY <2>1, <2>2
<1>5. Machine = m(Base)
  BY <1>1, <1>3, BlocksAddNothing DEF Machine
<1> HIDE DEF m
<1>6. Shape(m(k), k)
  BY <1>3, MachineShape DEF m
<1>7. /\ Machine.calls = m(k).calls /\ Machine.gosubs = Append(m(k).gosubs, c)
      /\ Machine.lcalls = lc
  <2> DEFINE lc0 == [m(k).lcalls EXCEPT ![Len(m(k).lcalls)].rets = Append(@, c)]
  <2>1. Pushed(m(k), stack[Base], c)
          = [calls |-> m(k).calls, gosubs |-> Append(m(k).gosubs, c), lcalls |-> lc0]
    BY DEF Pushed
  <2>2. lc0 = lc
    OBVIOUS
  <2> HIDE DEF lc0, lc, k, c
  <2> QED BY <1>4, <1>5, <2>1, <2>2
<1>8. /\ m(k).gosubs \in Seq(Pos) /\ q \in Seq(CallL) /\ H \in Nat /\ H > 0 /\ H = Len(q)
      /\ m(k).calls[Len(m(k).calls)].base <= Len(m(k).gosubs)
      /\ m(k).calls \in Seq(CallC) /\ Len(m(k).calls) = H
  BY <1>3, <1>6 DEF Shape
<1>9. q[H] \in CallL /\ H \in DOMAIN q /\ r \in Seq(Pos)
  <2>1. q[H] \in CallL /\ H \in DOMAIN q
    <3> HIDE DEF q, H
    <3> QED BY <1>8
  <2>2. \A u \in CallL : u.rets \in Seq(Pos)
    BY DEF CallL
  <2> QED BY <2>1, <2>2
<1>10. pcBar' = c /\ Machine' = m(k)
  <2>1. stack[k].idx + 1 \in Nat \ {0}
    BY <1>3, StackFacts
  <2>2. Resume(k, stack[k].idx + 1)
    BY <1>3 DEF ArmDone
  <2>3. pcBar' = At(stack[k].block, stack[k].idx + 1) /\ Machine' = m(k)
    BY <1>3, <2>1, <2>2, ResumeEffect DEF m
  <2> QED BY <2>3 DEF After, At
<1>11. c \in Pos
  BY <1>1, <1>3, FrameKinds
<1>12. \A s \in Seq(Pos) : /\ Len(Append(s, c)) = Len(s) + 1 /\ Append(s, c) # <<>>
                           /\ Append(s, c)[Len(s) + 1] = c /\ Front(Append(s, c)) = s
                           /\ Len(s) \in Nat
  <2> HIDE DEF c
  <2> SUFFICES ASSUME NEW s \in Seq(Pos)
               PROVE  /\ Len(Append(s, c)) = Len(s) + 1 /\ Append(s, c) # <<>>
                      /\ Append(s, c)[Len(s) + 1] = c
                      /\ [n \in 1..(Len(Append(s, c)) - 1) |-> Append(s, c)[n]] = s
                      /\ Len(s) \in Nat
    BY DEF Front
  <2>1. Len(Append(s, c)) = Len(s) + 1 /\ Append(s, c) # <<>>
        /\ Append(s, c)[Len(s) + 1] = c /\ Len(s) \in Nat
    OBVIOUS
  <2>2. (Len(s) + 1) - 1 = Len(s)
    BY <2>1
  <2>3. [n \in 1..Len(s) |-> Append(s, c)[n]] = s
    OBVIOUS
  <2> QED BY <2>1, <2>2, <2>3
<1>13. Len(Machine.gosubs) > Machine.calls[Len(Machine.calls)].base
  <2>1. m(k).calls[Len(m(k).calls)].base \in Nat
    <3>1. m(k).calls[H] \in CallC
      BY <1>8
    <3> QED BY <1>8, <3>1 DEF CallC
  <2> HIDE DEF c, H
  <2> QED BY <1>7, <1>8, <1>12, <2>1
<1>14. /\ pcBar' = Machine.gosubs[Len(Machine.gosubs)]
       /\ Machine'.gosubs = Front(Machine.gosubs) /\ Machine'.calls = Machine.calls
  <2> HIDE DEF c, lc
  <2> QED BY <1>7, <1>8, <1>10, <1>12
<1>15. /\ r2 \in Seq(Pos) /\ r2 # <<>> /\ r2[Len(r2)] = c /\ Front(r2) = r
  <2>1. r2 \in Seq(Pos)
    BY <1>9, <1>11
  <2> HIDE DEF c, r
  <2> QED BY <1>9, <1>12, <2>1
<1> HIDE DEF r2, c
<1>16. le.rets = r2 /\ [le EXCEPT !.rets = r] = q[H]
  <2>1. le \in CallL /\ le.rets = r2 /\ [le EXCEPT !.rets = q[H].rets] = q[H]
    BY <1>9, <1>15, WithRets
  <2> QED BY <2>1
<1> HIDE DEF le
<1>17. lc[H] = le /\ Len(lc) = H
  BY <1>8, <1>9
<1>18. [lc EXCEPT ![H] = q[H]] = q
  <2> HIDE DEF q, H
  <2> QED BY <1>8, <1>9, ReplacedBack
<1>19. [lc EXCEPT ![H].rets = r] = [lc EXCEPT ![H] = [lc[H] EXCEPT !.rets = r]]
  OBVIOUS
<1>20. [lc EXCEPT ![H].rets = r] = q
  <2> HIDE DEF lc, q, r, H
  <2>1. [lc[H] EXCEPT !.rets = r] = q[H]
    BY <1>16, <1>17
  <2> QED BY <1>18, <1>19, <2>1
<1> HIDE DEF lc, r
<1>21. /\ Len(Machine.lcalls) = H /\ Machine.lcalls[H].rets = r2
       /\ Machine'.lcalls = q
  BY <1>7, <1>10, <1>16, <1>17
<1>22. [Machine.lcalls EXCEPT ![H].rets = Front(r2)] = q
  BY <1>7, <1>15, <1>20
<1> QED BY <1>10, <1>13, <1>14, <1>15, <1>21, <1>22

\* Outside of GOSUBs the running function has nothing on the GOSUB stack.
LEMMA NoPop ==
  ASSUME Inv, stack # <<>>, stack[Base].via = "call"
  PROVE  /\ Base = ThisCall
         /\ Machine.calls[Len(Machine.calls)].base = Len(Machine.gosubs)
         /\ Machine.lcalls[Len(Machine.lcalls)].rets = <<>>
<1> DEFINE m(j) == StandsFor(stack)[j]
           c == Caller(stack, Base)
           e == [ret |-> c, base |-> Len(m(Base-1).gosubs)]
           le == [ret |-> c, rets |-> <<>>]
<1>1. /\ stack \in Seq(Frame) /\ Len(stack) \in Nat \ {0}
      /\ Base \in 1..Len(stack) /\ \A j \in (Base+1)..Len(stack) : stack[j].via = "block"
  BY StackFacts, BaseFacts
<1>2. Base = ThisCall
  BY <1>1, CallFacts
<1>3. Base \in 0..Len(stack) /\ Len(stack) \in Base..Len(stack) /\ Base - 1 \in 0..Len(stack)
  BY <1>1
<1>4. Machine = m(Base)
  BY <1>1, <1>3, BlocksAddNothing DEF Machine
<1>5. m(Base) = Pushed(m(Base-1), stack[Base], c)
  BY <1>1, StandsForSteps
<1> HIDE DEF m
<1>6. Shape(m(Base-1), Base - 1)
  BY <1>3, MachineShape DEF m
<1>7. /\ Machine.calls = Append(m(Base-1).calls, e)
      /\ Machine.lcalls = Append(m(Base-1).lcalls, le)
      /\ Machine.gosubs = m(Base-1).gosubs
  BY <1>4, <1>5 DEF Pushed
<1>8. m(Base-1).calls \in Seq(CallC) /\ m(Base-1).lcalls \in Seq(CallL)
  BY <1>6 DEF Shape
<1>9. e.base = Len(m(Base-1).gosubs) /\ le.rets = <<>>
  OBVIOUS
<1> HIDE DEF e, le
<1>10. Machine.calls[Len(Machine.calls)] = e
  BY <1>7, <1>8
<1>11. Machine.lcalls[Len(Machine.lcalls)] = le
  BY <1>7, <1>8
<1> QED BY <1>2, <1>7, <1>9, <1>10, <1>11

-----------------------------------------------------------------------------
(***************************************************************************)
(* What the portable programs of both classes have in common.              *)
(***************************************************************************)
Orderly(p) ==
  /\ \A pos \in Positions(p) :
       LET op == OpAt(p, pos)
           l  == ArgAt(p, pos)
           b  == pos.block
       IN  /\ op = "exitloop"   => ExitsTheNearest(p, pos, Loops)
           /\ op = "exitselect" => ExitsTheNearest(p, pos, Selects)
           /\ op = "goto"       => GotoArrives(p, pos, l)
           /\ op = "gotoexpr"   => TopLevelLabel(p, b, l)
                                   /\ GotoArrives(p, pos, l)
           /\ op = "gosub"      => TopLevelLabel(p, b, l)
           /\ op = "gosubexpr"  => /\ TopLevelLabel(p, b, l)
                                   /\ LabelPos(p, b, l).idx > 1
  /\ SubsEnd(p)

LEMMA PortableOrderly == \A p \in ForC \cup ForLlvm : Orderly(p)
<1> TAKE p \in ForC \cup ForLlvm
<1>1. CASE p \in ForC
  BY <1>1 DEF ForC, Portable, Orderly
<1>2. CASE p \in ForLlvm
  BY <1>2 DEF ForLlvm, PortableLlvm, Orderly
<1> QED BY <1>1, <1>2

(***************************************************************************)
(* On orderly programs an arm never moves idx away from its item, no       *)
(* function with subroutines runs off its end, and the address of a        *)
(* top-level label of the running function is known.                       *)
(***************************************************************************)
AtTheirItems == \A j \in 1..Len(stack) : stack[j].cur = stack[j].idx

InsideTheirBody ==
  \A j \in 1..Len(stack) :
    prog.path[stack[j].block] = <<>> /\ UsesGosub(prog, stack[j].block)
      => stack[j].idx <= Len(Items(j))

AddressesKnown ==
  \A j \in 1..Len(stack) : stack[j].via = "call" =>
    \A l \in LabelsIn(prog, stack[j].block) :
      addrs[j][l] = LabelIdx(prog, stack[j].block, l) - 1

Tidy == AtTheirItems /\ InsideTheirBody /\ AddressesKnown

LEMMA HereAt ==
  ASSUME Inv, NEW ops, AtItem(ops)
  PROVE  /\ PosOf(Top) \in Positions(prog) /\ PosOf(Top).block = Top.block
         /\ OpAt(prog, PosOf(Top)) = Here.op /\ ArgAt(prog, PosOf(Top)) = Here.arg
BY HereFacts DEF PosOf, Positions, OpAt, ArgAt, Here

LEMMA TidyResume ==
  ASSUME Inv, Inv', Tidy, stack # <<>>, prog' = prog,
         NEW k \in 0..Len(stack), NEW i \in Nat \ {0}, Resume(k, i),
         (/\ k > 0 /\ prog.path[stack[k].block] = <<>>
          /\ UsesGosub(prog, stack[k].block)) => i <= Len(Items(k))
  PROVE  Tidy'
<1> DEFINE new(j) == IF j = k THEN Moved(stack[j], i) ELSE stack[j]
<1>1. stack' = [j \in 1..k |-> new(j)]
  BY DEF Resume
<1>2. stack \in Seq(Frame) /\ stack' \in Seq(Frame) /\ Len(stack) \in Nat
      /\ Len(stack) <= MaxDepth /\ DOMAIN addrs = 1..MaxDepth
  BY DEF Inv, TypeOK
<1>3. k \in Nat /\ k <= Len(stack) /\ \A j \in 1..k : j \in 1..Len(stack)
  BY <1>2
<1>4. Len(stack') = k /\ \A j \in 1..k : stack'[j] = new(j)
  <2> HIDE DEF new
  <2> QED BY <1>1, <1>2, <1>3
<1>5. \A j \in 1..k : /\ stack'[j].block = stack[j].block
                      /\ stack'[j].via = stack[j].via
                      /\ j # k => stack'[j] = stack[j]
                      /\ j = k => stack'[j].idx = i /\ stack'[j].cur = i
  <2> TAKE j \in 1..k
  <2>1. stack[j] \in Frame
    BY <1>2, <1>3
  <2>2. Moved(stack[j], i).via = stack[j].via /\ Moved(stack[j], i).block = stack[j].block
        /\ Moved(stack[j], i).idx = i /\ Moved(stack[j], i).cur = i
    BY <2>1, FrameFacts
  <2> QED BY <1>4, <2>2
<1>6. AtTheirItems'
  BY <1>3, <1>4, <1>5 DEF AtTheirItems, Tidy
<1>7. InsideTheirBody'
  <2> SUFFICES ASSUME NEW j \in 1..k, prog.path[stack[j].block] = <<>>,
                      UsesGosub(prog, stack[j].block)
               PROVE  stack'[j].idx <= Len(prog.code[stack[j].block])
    BY <1>4, <1>5 DEF InsideTheirBody, Items
  <2>1. k > 0
    BY <1>3
  <2> QED BY <1>3, <1>5, <2>1 DEF InsideTheirBody, Tidy, Items
<1>8. AddressesKnown'
  <2> SUFFICES ASSUME NEW j \in 1..k, stack[j].via = "call",
                      NEW l \in LabelsIn(prog, stack[j].block)
               PROVE  addrs'[j][l] = LabelIdx(prog, stack[j].block, l) - 1
    BY <1>4, <1>5 DEF AddressesKnown
  <2>1. j \in DOMAIN addrs /\ j <= k
    BY <1>2, <1>3, MaxDepthAssumption
  <2>2. addrs'[j] = addrs[j]
    BY <2>1 DEF Resume
  <2> QED BY <1>3, <2>2 DEF AddressesKnown, Tidy
<1> QED BY <1>6, <1>7, <1>8 DEF Tidy

LEMMA TidyIterate ==
  ASSUME Inv, Inv', Tidy, stack # <<>>, prog' = prog,
         NEW k \in 1..(Len(stack) - 1), NEW b \in Block, prog.path[b] # <<>>,
         Iterate(k, stack[k].idx, b)
  PROVE  Tidy'
<1> DEFINE new(j) == IF j = k THEN [stack[j] EXCEPT !.idx = stack[k].idx] ELSE stack[j]
           low == [j \in 1..k |-> new(j)]
           f == NewFrame(b, 1, "block")
<1>1. stack' = Append(low, f)
  BY DEF Iterate
<1>2. stack \in Seq(Frame) /\ stack' \in Seq(Frame) /\ Len(stack) \in Nat
      /\ Len(stack) <= MaxDepth /\ DOMAIN addrs = 1..MaxDepth
  BY DEF Inv, TypeOK
<1>3. k \in Nat \ {0} /\ k <= Len(stack) /\ \A j \in 1..k : j \in 1..Len(stack)
  BY <1>2
<1>4. \A j \in 1..k : stack[j] \in Frame
  BY <1>2, <1>3
<1>5. \A j \in 1..k : new(j) = stack[j]
  BY <1>4 DEF Frame
<1>6. low \in Seq(Frame) /\ Len(low) = k /\ \A j \in 1..k : low[j] = stack[j]
  <2>1. \A j \in 1..k : new(j) \in Frame
    BY <1>4, <1>5
  <2> HIDE DEF new
  <2> QED BY <1>3, <1>5, <2>1
<1>7. f \in Frame /\ f.via = "block" /\ f.cur = f.idx /\ f.block = b
  BY DEF Frame, NewFrame
<1> HIDE DEF low, f
<1>8. /\ Len(stack') = k + 1 /\ stack'[k+1] = f
      /\ \A j \in 1..k : stack'[j] = stack[j]
      /\ \A j \in 1..(k+1) : j \in 1..k \/ j = k + 1
  BY <1>1, <1>3, <1>6, <1>7
<1>9. AtTheirItems'
  BY <1>3, <1>7, <1>8 DEF AtTheirItems, Tidy
<1>10. InsideTheirBody'
  BY <1>3, <1>7, <1>8 DEF InsideTheirBody, Items, Tidy
<1>11. AddressesKnown'
  <2> SUFFICES ASSUME NEW j \in 1..k, stack[j].via = "call",
                      NEW l \in LabelsIn(prog, stack[j].block)
               PROVE  addrs'[j][l] = LabelIdx(prog, stack[j].block, l) - 1
    BY <1>7, <1>8 DEF AddressesKnown
  <2>1. j \in DOMAIN addrs /\ j <= k
    BY <1>2, <1>3, MaxDepthAssumption
  <2>2. addrs'[j] = addrs[j]
    BY <2>1 DEF Iterate
  <2> QED BY <1>3, <2>2 DEF AddressesKnown, Tidy
<1> QED BY <1>9, <1>10, <1>11 DEF Tidy

LEMMA TidyEnter ==
  ASSUME Inv, Inv', Tidy, stack # <<>>, prog' = prog,
         NEW b \in Block, NEW i \in Nat \ {0},
         NEW v \in {"block", "gosub", "call"}, NEW n,
         Enter(b, i, v, n),
         prog.path[b] = <<>> /\ UsesGosub(prog, b) => i <= Len(prog.code[b]),
         v # "call" => n = ThisCall /\ Root(prog, b) = Root(prog, Top.block),
         v = "call" => n = Len(stack) + 1
  PROVE  Tidy'
<1> DEFINE f == NewFrame(b, i, v)
           len == Len(stack)
<1>1. stack' = Append(stack, f) /\ len < MaxDepth
      /\ addrs' = [addrs EXCEPT ![n] = Register(@, b)]
  BY DEF Enter
<1>2. stack \in Seq(Frame) /\ stack' \in Seq(Frame) /\ len \in Nat \ {0}
      /\ addrs \in [1..MaxDepth -> [Label -> Nat]] /\ prog \in Corpus
  BY DEF Inv, TypeOK
<1>3. f \in Frame /\ f.via = v /\ f.cur = f.idx /\ f.idx = i /\ f.block = b
  BY DEF Frame, NewFrame
<1> HIDE DEF f
<1>4. /\ Len(stack') = len + 1 /\ stack'[len+1] = f
      /\ \A j \in 1..len : stack'[j] = stack[j]
      /\ \A j \in 1..(len+1) : j \in 1..len \/ j = len + 1
  BY <1>1, <1>2
<1>5. AtTheirItems'
  BY <1>3, <1>4 DEF AtTheirItems, Tidy
<1>6. InsideTheirBody'
  BY <1>3, <1>4 DEF InsideTheirBody, Items, Tidy
<1>7. AddressesKnown'
  <2>1. \A j \in 1..(len+1) : j \in 1..MaxDepth
    BY <1>1, <1>2, MaxDepthAssumption
  <2>2. n \in 1..MaxDepth
    <3>1. CASE v = "call"
      BY <1>2, <2>1, <3>1
    <3>2. CASE v # "call"
      <4>1. ThisCall \in 1..len
        BY <1>2, CallFacts, BaseFacts
      <4> QED BY <1>2, <2>1, <3>2, <4>1
    <3> QED BY <3>1, <3>2
  <2>3. addrs'[n] = Register(addrs[n], b) /\ \A j \in 1..MaxDepth : j # n => addrs'[j] = addrs[j]
    BY <1>1, <1>2, <2>2
  <2>4. ASSUME NEW l \in LabelsIn(prog, b)
        PROVE  addrs'[n][l] = LabelIdx(prog, b, l) - 1
    <3>1. l \in Label
      BY <2>4 DEF LabelsIn
    <3> QED BY <2>3, <2>4, <3>1 DEF Register
  <2>5. ASSUME NEW j \in 1..len, stack[j].via = "call",
               NEW l \in LabelsIn(prog, stack[j].block)
        PROVE  addrs'[j][l] = LabelIdx(prog, stack[j].block, l) - 1
    <3>1. addrs[j][l] = LabelIdx(prog, stack[j].block, l) - 1
      BY <2>5 DEF AddressesKnown, Tidy
    <3>2. CASE j # n
      <4>1. j \in 1..MaxDepth
        BY <1>2, <2>1
      <4> QED BY <2>3, <3>1, <3>2, <4>1
    <3>3. CASE j = n
      <4>1. v # "call" /\ n = ThisCall
        BY <1>2, <3>3
      <4>2. Root(prog, b) = Root(prog, stack[n].block)
        <5>1. len \in ThisCall..Len(stack)
          BY <1>2, CallFacts, BaseFacts
        <5>2. Root(prog, Top.block) = stack[ThisCall].block
          BY <5>1, CallFacts DEF Top
        <5> QED BY <4>1, <5>2, CallFacts
      <4>3. CASE l \in LabelsIn(prog, b)
        <5>1. stack[n].block \in Block
          BY <3>3, StackFacts
        <5>2. b = stack[n].block
          BY <1>2, <2>5, <3>3, <4>2, <4>3, <5>1, LabelFacts
        <5> QED BY <2>4, <3>3, <4>3, <5>2
      <4>4. CASE l \notin LabelsIn(prog, b)
        <5>1. l \in Label
          BY DEF LabelsIn
        <5> QED BY <2>3, <3>1, <3>3, <4>4, <5>1 DEF Register
      <4> QED BY <4>3, <4>4
    <3> QED BY <3>2, <3>3
  <2>6. ASSUME v = "call", NEW l \in LabelsIn(prog, b)
        PROVE  addrs'[len+1][l] = LabelIdx(prog, b, l) - 1
    BY <2>4, <2>6
  <2> QED BY <1>3, <1>4, <2>5, <2>6 DEF AddressesKnown
<1> QED BY <1>5, <1>6, <1>7 DEF Tidy

-----------------------------------------------------------------------------
(***************************************************************************)
(* Where the Flow values of orderly programs come to rest.                 *)
(***************************************************************************)
LEMMA ReturnLands ==
  ASSUME Inv, stack # <<>>, FlowReturn
  PROVE  ArmDone(ThisCall - 1) /\ ThisCall - 1 \in 0..(Len(stack) - 1)
<1> DEFINE T == {k \in Below : ConsumesReturn(k)}
<1>1. Len(stack) \in Nat \ {0} /\ ThisCall \in 1..Len(stack) /\ stack[ThisCall].via = "call"
      /\ \A j \in (ThisCall+1)..Len(stack) : stack[j].via # "call"
  BY StackFacts, CallFacts, BaseFacts
<1>2. /\ Innermost(T) \in T /\ Innermost(T) \in 0..(Len(stack) - 1)
      /\ \A j \in T : j <= Innermost(T)
  BY BottomConsumes, FlowLands
<1>3. ThisCall - 1 \in T
  BY <1>1 DEF Below, ConsumesReturn
<1>4. \A k \in T : k <= ThisCall - 1
  <2> SUFFICES ASSUME NEW k \in T, ~(k <= ThisCall - 1) PROVE FALSE
    OBVIOUS
  <2>1. k + 1 \in (ThisCall+1)..Len(stack) /\ stack[k+1].via = "call"
    BY <1>1 DEF Below, ConsumesReturn
  <2> QED BY <1>1, <2>1
<1> HIDE DEF T
<1>5. Innermost(T) = ThisCall - 1
  BY <1>1, <1>2, <1>3, <1>4
<1> QED BY <1>2, <1>5 DEF FlowReturn, T

LEMMA GosubReturnLands ==
  ASSUME Inv, stack # <<>>, FlowGosubReturn
  PROVE  ArmDone(Base - 1) /\ Base - 1 \in 0..(Len(stack) - 1)
<1> DEFINE T == {k \in Below : ConsumesGosubReturn(k)}
<1>1. /\ Len(stack) \in Nat \ {0} /\ Base \in 1..Len(stack) /\ stack[Base].via # "block"
      /\ \A j \in (Base+1)..Len(stack) : stack[j].via = "block"
      /\ \A j \in 1..Len(stack) : stack[j].via \in {"block", "gosub", "call"}
  BY StackFacts, BaseFacts
<1>2. /\ Innermost(T) \in T /\ Innermost(T) \in 0..(Len(stack) - 1)
      /\ \A j \in T : j <= Innermost(T)
  BY BottomConsumes, FlowLands
<1>3. Base - 1 \in T
  <2>1. (Base - 1) + 1 = Base /\ Base - 1 \in Below
    BY <1>1 DEF Below
  <2>2. stack[(Base - 1) + 1].via \in {"call", "gosub"}
    <3>1. stack[Base].via \in {"call", "gosub"}
      BY <1>1
    <3> QED BY <2>1, <3>1
  <2>3. ConsumesGosubReturn(Base - 1)
    BY <2>2 DEF ConsumesGosubReturn
  <2> QED BY <2>1, <2>3
<1>4. \A k \in T : k <= Base - 1
  <2> SUFFICES ASSUME NEW k \in T, ~(k <= Base - 1) PROVE FALSE
    OBVIOUS
  <2>1. k + 1 \in (Base+1)..Len(stack) /\ stack[k+1].via # "block"
    BY <1>1 DEF Below, ConsumesGosubReturn
  <2> QED BY <1>1, <2>1
<1> HIDE DEF T
<1>5. Innermost(T) = Base - 1
  BY <1>1, <1>2, <1>3, <1>4
<1> QED BY <1>2, <1>5 DEF FlowGosubReturn, T

\* EXIT ends the item that it names, and only bodies are left.
LEMMA ExitLands ==
  ASSUME Inv, stack # <<>>, NEW kind \in {Loops, Selects},
         ExitsTheNearest(prog, PosOf(Top), kind), FlowBreak
  PROVE  \E k \in Base..(Len(stack) - 1) :
           LET path == prog.path[Top.block]
               d    == k - Base + 1
           IN  /\ ArmDone(k) /\ k \in 1..Len(stack)
               /\ d \in DOMAIN path /\ path[d] = At(stack[k].block, stack[k].cur)
               /\ OpAt(prog, path[d]) \in kind
               /\ \A m \in (d+1)..Len(path) : OpAt(prog, path[m]) \notin Loops \cup Selects
<1> DEFINE T == {k \in Below : ConsumesBreak(k)}
           path == prog.path[Top.block]
           N == Len(stack)
<1>1. N \in Nat \ {0} /\ Base \in 1..N /\ Top = stack[N] /\ N \in Base..N
      /\ \A j \in (Base+1)..N : stack[j].via = "block"
  BY StackFacts, BaseFacts
<1>2. Len(path) = N - Base /\ \A i \in 1..(N - Base) :
                                path[i] = At(stack[Base+i-1].block, stack[Base+i-1].cur)
  BY <1>1, BaseFacts
<1>3. path \in Seq(Pos)
  BY <1>1, StackFacts, PathFacts
<1>4. DOMAIN path = 1..(N - Base)
  BY <1>2, <1>3
<1>5. PICK d \in DOMAIN path : /\ OpAt(prog, path[d]) \in kind
                               /\ \A m \in (d+1)..Len(path) :
                                    OpAt(prog, path[m]) \notin Loops \cup Selects
  BY DEF ExitsTheNearest, PosOf
<1> HIDE DEF path
<1> DEFINE k == Base + d - 1
<1>6. k \in Base..(N - 1) /\ k - Base + 1 = d /\ k \in 1..N /\ k + 1 \in (Base+1)..N
      /\ k \in 0..(N - 1)
  BY <1>1, <1>4
<1>7. path[d] = At(stack[k].block, stack[k].cur)
  BY <1>2, <1>4
<1>8. \A j \in 1..N : OpAt(prog, At(stack[j].block, stack[j].cur)) = Arm(j).op
  BY DEF OpAt, At, Arm, Items
<1>9. k \in T
  <2>1. Arm(k).op \in Loops \cup Selects
    BY <1>5, <1>6, <1>7, <1>8
  <2> QED BY <1>6, <2>1 DEF Below, ConsumesBreak
<1>10. \A j \in T : j <= k
  <2> SUFFICES ASSUME NEW j \in T, ~(j <= k) PROVE FALSE
    OBVIOUS
  <2>1. j \in 1..N /\ j + 1 \in (Base+1)..N /\ ConsumesBreak(j)
    BY <1>1, <1>6 DEF Below
  <2>2. Arm(j).op \in Loops \cup Selects
    BY <1>1, <2>1 DEF ConsumesBreak
  <2> DEFINE m == j - Base + 1
  <2>3. m \in (d+1)..Len(path) /\ m \in 1..(N - Base) /\ Base + m - 1 = j
    BY <1>1, <1>2, <1>4, <1>6, <2>1
  <2>4. path[m] = At(stack[j].block, stack[j].cur)
    BY <1>2, <2>3
  <2> QED BY <1>5, <1>8, <2>1, <2>2, <2>3, <2>4
<1>11. /\ Innermost(T) \in T /\ Innermost(T) \in 0..(N - 1)
       /\ \A j \in T : j <= Innermost(T)
  BY BottomConsumes, FlowLands
<1> HIDE DEF T, k
<1>12. Innermost(T) = k
  BY <1>6, <1>9, <1>10, <1>11
<1>13. ArmDone(k)
  BY <1>12 DEF FlowBreak, T
<1> QED BY <1>5, <1>6, <1>7, <1>13 DEF path

\* GOTO goes on at its label, and only bodies are left.
LEMMA GotoLands ==
  ASSUME Inv, stack # <<>>, NEW l, GotoArrives(prog, PosOf(Top), l), GotoLabel(l)
  PROVE  \E k \in Base..Len(stack) :
           /\ k \in 1..Len(stack) /\ l \in LabelsIn(prog, stack[k].block)
           /\ Resume(k, LabelIdx(prog, stack[k].block, l))
<1> DEFINE N == Len(stack)
           b == Top.block
           path == prog.path[b]
<1>1. /\ N \in Nat \ {0} /\ Base \in 1..N /\ Top = stack[N] /\ N \in Base..N
      /\ \A j \in (Base+1)..N : stack[j].via = "block"
      /\ b \in Block /\ prog \in Corpus /\ \A j \in 1..N : stack[j].block \in Block
  BY StackFacts, BaseFacts
<1>2. CASE l \in LabelsIn(prog, b)
  <2>1. Resume(N, LabelIdx(prog, b, l))
    BY <1>2 DEF GotoLabel
  <2> QED BY <1>1, <1>2, <2>1
<1>3. CASE l \notin LabelsIn(prog, b)
  <2>1. FlowGoto(l)
    BY <1>3 DEF GotoLabel
  <2>2. PICK c \in Block : Root(prog, c) = Root(prog, b) /\ l \in LabelsIn(prog, c)
    BY DEF GotoArrives, FnLabels, PosOf
  <2>3. LabelPos(prog, b, l) = At(c, LabelIdx(prog, c, l))
        /\ \A d \in Block : Root(prog, d) = Root(prog, c) /\ l \in LabelsIn(prog, d) => d = c
    <3>1. b \in Block /\ prog \in Corpus
      BY <1>1
    <3> HIDE DEF b
    <3>2. \A d \in Block : Root(prog, d) = Root(prog, c) =>
             (l \in LabelsIn(prog, d) => d = c)
             /\ LabelPos(prog, d, l) = At(c, LabelIdx(prog, c, l))
      BY <2>2, <3>1, LabelFacts
    <3> QED BY <2>2, <3>1, <3>2
  <2>4. PICK m \in DOMAIN path : path[m].block = c
                                 /\ OpAt(prog, path[m]) \notin RetestLoops \cup {"compound"}
    <3>1. LabelPos(prog, b, l).block = c
      BY <2>3 DEF At
    <3>2. c # b
      BY <1>3, <2>2
    <3> QED BY <3>1, <3>2 DEF GotoArrives, PosOf
  <2>5. Len(path) = N - Base /\ \A i \in 1..(N - Base) :
                                  path[i] = At(stack[Base+i-1].block, stack[Base+i-1].cur)
    BY <1>1, BaseFacts
  <2>6. DOMAIN path = 1..(N - Base)
    <3>1. path \in Seq(Pos)
      <4>1. b \in Block /\ prog \in Corpus
        BY <1>1
      <4> HIDE DEF b
      <4> QED BY <4>1, PathFacts, Zenon
    <3> QED BY <2>5, <3>1
  <2> HIDE DEF path
  <2> DEFINE k == Base + m - 1
             T == {n \in Below : ConsumesGoto(n, l)}
  <2>7. k \in Base..(N - 1) /\ k \in 1..N /\ k + 1 \in (Base+1)..N /\ k \in 0..(N - 1)
        /\ k \in Base..N
    BY <1>1, <2>6
  <2>8. path[m] = At(stack[k].block, stack[k].cur)
    BY <2>5, <2>6
  <2>9. stack[k].block = c /\ Arm(k).op \notin RetestLoops \cup {"compound"}
    <3> DEFINE pos == path[m]
    <3>1. pos.block = c /\ OpAt(prog, pos) \notin RetestLoops \cup {"compound"}
      BY <2>4
    <3>2. pos = At(stack[k].block, stack[k].cur)
      BY <2>8
    <3> HIDE DEF pos, k
    <3>3. pos.block = stack[k].block /\ pos.idx = stack[k].cur
      BY <3>2 DEF At
    <3>4. OpAt(prog, pos) = Arm(k).op
      BY <3>3 DEF OpAt, Arm, Items
    <3> QED BY <3>1, <3>3, <3>4
  <2>10. k \in T
    BY <2>2, <2>7, <2>9 DEF Below, ConsumesGoto
  <2>11. \A j \in T : j <= k
    <3> SUFFICES ASSUME NEW j \in T, ~(j <= k) PROVE FALSE
      OBVIOUS
    <3>1. j \in 1..N /\ j + 1 \in (Base+1)..N /\ j \in Base..N /\ ConsumesGoto(j, l)
          /\ j \in 0..(N - 1)
      BY <1>1, <2>7 DEF Below
    <3>2. l \in LabelsIn(prog, stack[j].block)
      BY <1>1, <3>1 DEF ConsumesGoto
    <3>3. Root(prog, stack[j].block) = Root(prog, b)
      <4>1. j \in ThisCall..N /\ N \in ThisCall..N
        BY <1>1, <3>1, CallFacts
      <4> QED BY <1>1, <4>1, CallFacts
    <3>4. stack[j].block = c
      BY <1>1, <2>2, <2>3, <3>1, <3>2, <3>3
    <3>5. Len(prog.path[stack[j].block]) = j - Base /\ Len(prog.path[stack[k].block]) = k - Base
      BY <2>7, <3>1, BaseFacts
    <3> QED BY <1>1, <2>7, <2>9, <3>1, <3>4, <3>5
  <2>12. /\ Innermost(T) \in T /\ Innermost(T) \in 0..(N - 1)
         /\ \A j \in T : j <= Innermost(T)
    BY BottomConsumes, FlowLands
  <2> HIDE DEF T, k
  <2>13. Innermost(T) = k
    BY <2>7, <2>10, <2>11, <2>12
  <2>14. stack[k+1].via = "block"
    BY <1>1, <2>7
  <2>15. Resume(k, LabelIdx(prog, stack[k].block, l))
    BY <2>1, <2>9, <2>13, <2>14 DEF FlowGoto, T
  <2> QED BY <2>2, <2>7, <2>9, <2>15
<1> QED BY <1>2, <1>3

\* A label of the function's own body is where LabelPos says.
LEMMA TopLabelFacts ==
  ASSUME NEW p \in Corpus, NEW b \in Block, NEW l, TopLevelLabel(p, b, l)
  PROVE  /\ Root(p, b) \in Block /\ l \in Label
         /\ l \in LabelsIn(p, Root(p, b)) /\ l \in FnLabels(p, b)
         /\ LabelPos(p, b, l) = At(Root(p, b), LabelIdx(p, Root(p, b), l))
         /\ LabelIdx(p, Root(p, b), l) \in Nat \ {0}
         /\ LabelIdx(p, Root(p, b), l) \in DOMAIN p.code[Root(p, b)]
BY PathFacts, LabelFacts DEF TopLevelLabel

\* The value of &label is the place of the label.
LEMMA AddressFacts ==
  ASSUME Inv, Tidy, stack # <<>>, NEW l, TopLevelLabel(prog, Top.block, l)
  PROVE  LabelAddress(l) + 1 = LabelIdx(prog, Root(prog, Top.block), l)
<1> DEFINE b == Root(prog, Top.block)
<1>1. l \in LabelsIn(prog, b) /\ l \in Label /\ LabelIdx(prog, b, l) \in Nat \ {0}
  <2>1. Top.block \in Block /\ prog \in Corpus
    BY StackFacts
  <2> QED BY <2>1, TopLabelFacts
<1>2. ThisCall \in 1..Len(stack) /\ stack[ThisCall].via = "call" /\ b = stack[ThisCall].block
  <2>1. Len(stack) \in ThisCall..Len(stack) /\ Top = stack[Len(stack)]
        /\ ThisCall \in 1..Len(stack)
    BY StackFacts, CallFacts, BaseFacts
  <2> QED BY <2>1, CallFacts
<1>3. addrs[ThisCall][l] = LabelIdx(prog, b, l) - 1
  BY <1>1, <1>2 DEF Tidy, AddressesKnown
<1>4. l # None
  BY <1>1, NamesAssumption
<1> QED BY <1>1, <1>3, <1>4 DEF LabelAddress

\* A computed GOTO lands like any other.
LEMMA GotoExprLands ==
  ASSUME Inv, Tidy, ExecGotoExpr, TopLevelLabel(prog, Top.block, Here.arg),
         GotoArrives(prog, PosOf(Top), Here.arg)
  PROVE  \E k \in Base..Len(stack) :
           /\ k \in 1..Len(stack) /\ Here.arg \in LabelsIn(prog, stack[k].block)
           /\ Resume(k, LabelIdx(prog, stack[k].block, Here.arg))
<1> DEFINE l == Here.arg
           body == Root(prog, Top.block)
           target == LabelAddress(l) + 1
<1>1. stack # <<>> /\ prog \in Corpus /\ Top.block \in Block /\ Top = stack[Len(stack)]
      /\ AtItem({"gotoexpr"})
  BY StackFacts DEF ExecGotoExpr, AtItem
<1>2. target = LabelIdx(prog, body, l)
  BY <1>1, AddressFacts
<1>3. target \in DOMAIN prog.code[body] /\ l \in LabelsIn(prog, body)
      /\ IsLabel(prog, body, target, l)
  BY <1>1, <1>2, TopLabelFacts, LabelFacts
<1>4. CASE Top.block = body
  <2>1. Resume(Len(stack), target)
    BY <1>4 DEF ExecGotoExpr
  <2>2. Len(stack) \in Base..Len(stack) /\ Len(stack) \in 1..Len(stack)
    BY <1>1, StackFacts, BaseFacts
  <2> QED BY <1>1, <1>2, <1>3, <1>4, <2>1, <2>2
<1>5. CASE Top.block # body
  <2>1. prog.code[body][target].op = "label" /\ prog.code[body][target].arg = l
    BY <1>3 DEF IsLabel
  <2>2. GotoLabel(l)
    <3> HIDE DEF body, l
    <3>1. IF /\ target \in DOMAIN prog.code[body]
             /\ prog.code[body][target].op = "label"
          THEN GotoLabel(prog.code[body][target].arg)
          ELSE RuntimeError
      BY <1>5 DEF ExecGotoExpr, body, l
    <3> QED BY <1>3, <2>1, <3>1
  <2> QED BY <1>1, <2>2, GotoLands
<1> QED BY <1>4, <1>5

-----------------------------------------------------------------------------
(***************************************************************************)
(* Orderly programs stay tidy.                                             *)
(***************************************************************************)
Ends == {"gosubreturn", "return", "goto", "stop"}

LEMMA ArmDoneTidy ==
  ASSUME Inv, Inv', Orderly(prog), Tidy, stack # <<>>, prog' = prog,
         NEW k \in 0..Len(stack), ArmDone(k),
         k > 0 => /\ stack[k].idx \in DOMAIN Items(k)
                  /\ Items(k)[stack[k].idx].op \notin Ends
  PROVE  Tidy'
<1> DEFINE i == IF k = 0 THEN 1 ELSE stack[k].idx + 1
           code == prog.code[stack[k].block]
<1>1. k > 0 => k \in 1..Len(stack) /\ k # 0
  BY StackFacts
<1>2. i \in Nat \ {0}
  BY <1>1, StackFacts
<1>3. ASSUME k > 0, prog.path[stack[k].block] = <<>>, UsesGosub(prog, stack[k].block)
      PROVE  i <= Len(Items(k))
  <2>1. stack[k].block \in Block /\ stack[k].idx \in Nat /\ prog \in Corpus
    BY <1>1, <1>3, StackFacts
  <2>2. code # <<>> /\ code[Len(code)].op \in Ends
    BY <1>3, <2>1 DEF Orderly, SubsEnd, Ends
  <2>3. DOMAIN code = 1..Len(code) /\ Len(code) \in Nat
    BY <2>1, ProgramFacts
  <2>4. stack[k].idx \in DOMAIN code /\ code[stack[k].idx].op \notin Ends
    BY <1>3 DEF Items
  <2> HIDE DEF code
  <2>5. stack[k].idx # Len(code)
    BY <2>2, <2>4
  <2>6. stack[k].idx + 1 <= Len(code)
    BY <2>1, <2>3, <2>4, <2>5
  <2> QED BY <1>1, <1>3, <2>6 DEF code, Items
<1>4. Resume(k, i)
  BY DEF ArmDone
<1> HIDE DEF i, code
<1> QED BY <1>2, <1>3, <1>4, TidyResume

\* An arm that called exec_items is done, or that of a plain item.
LEMMA ArmBelowTidy ==
  ASSUME Inv, Inv', Orderly(prog), Tidy, stack # <<>>, prog' = prog,
         NEW k \in 0..(Len(stack) - 1), ArmDone(k)
  PROVE  Tidy'
<1>1. Len(stack) \in Nat \ {0} /\ k \in 0..Len(stack)
  BY StackFacts
<1>2. ASSUME k > 0
      PROVE  stack[k].idx \in DOMAIN Items(k) /\ Items(k)[stack[k].idx].op \notin Ends
  <2>1. k \in 1..(Len(stack) - 1) /\ k + 1 \in 1..Len(stack) /\ k \in 1..Len(stack)
    BY <1>1, <1>2
  <2>2. stack[k].cur = stack[k].idx
    BY <2>1 DEF Tidy, AtTheirItems
  <2>3. stack[k].cur \in DOMAIN Items(k)
    BY <2>1, FrameAbove
  <2>4. Arm(k).op \in Containers \cup {"gosub", "gosubexpr", "call"}
    <3>1. stack[k+1].via \in {"block", "gosub", "call"}
      BY <2>1, StackFacts
    <3>2. /\ stack[k+1].via = "block" => Arm(k).op \in Containers
          /\ stack[k+1].via = "gosub" => Arm(k).op \in {"gosub", "gosubexpr"}
          /\ stack[k+1].via = "call" => Arm(k).op = "call"
      BY <2>1, FrameAbove
    <3> QED BY <3>1, <3>2
  <2>5. Arm(k).op \notin Ends
    BY <2>4 DEF Ends, Containers, Loops, RetestLoops, DoLoops, Selects
  <2> QED BY <2>2, <2>3, <2>5 DEF Arm
<1> QED BY <1>1, <1>2, ArmDoneTidy

LEMMA ArmHereTidy ==
  ASSUME Inv, Inv', Orderly(prog), Tidy, stack # <<>>, prog' = prog,
         AtItem(Plain \cup Skippable \cup {"gosub", "gosubexpr"}),
         ArmDone(Len(stack))
  PROVE  Tidy'
<1> DEFINE ops == Plain \cup Skippable \cup {"gosub", "gosubexpr"}
<1>1. ops \cap Ends = {}
  BY DEF Plain, Skippable, Ends
<1> HIDE DEF ops
<1>2. Top.idx \in DOMAIN prog.code[Top.block] /\ Here.op \in ops
      /\ Len(stack) \in 0..Len(stack)
  BY HereFacts DEF ops
<1>3. stack[Len(stack)].idx \in DOMAIN Items(Len(stack))
      /\ Items(Len(stack))[stack[Len(stack)].idx].op \notin Ends
  BY <1>1, <1>2 DEF Top, Here, Items
<1> QED BY <1>2, <1>3, ArmDoneTidy

LEMMA LandsTidy ==
  ASSUME Inv, Inv', Tidy, stack # <<>>, prog' = prog, NEW l,
         \E k \in Base..Len(stack) :
           /\ k \in 1..Len(stack) /\ l \in LabelsIn(prog, stack[k].block)
           /\ Resume(k, LabelIdx(prog, stack[k].block, l))
  PROVE  Tidy'
<1>1. PICK k \in 1..Len(stack) : /\ l \in LabelsIn(prog, stack[k].block)
                                 /\ Resume(k, LabelIdx(prog, stack[k].block, l))
  OBVIOUS
<1> DEFINE i == LabelIdx(prog, stack[k].block, l)
<1>2. stack[k].block \in Block /\ prog \in Corpus /\ k \in 0..Len(stack)
  BY StackFacts
<1>3. i \in DOMAIN prog.code[stack[k].block] /\ i \in Nat \ {0}
  BY <1>1, <1>2, LabelFacts
<1>4. i <= Len(Items(k))
  <2>1. DOMAIN prog.code[stack[k].block] = 1..Len(prog.code[stack[k].block])
        /\ Len(prog.code[stack[k].block]) \in Nat
    BY <1>2, ProgramFacts
  <2> QED BY <1>3, <2>1 DEF Items
<1> HIDE DEF i
<1> QED BY <1>1, <1>2, <1>3, <1>4, TidyResume DEF i

\* What an orderly program says of the item at hand.
LEMMA HereOrderly ==
  ASSUME Inv, Orderly(prog), NEW ops, AtItem(ops)
  PROVE  LET l == Here.arg
             pos == PosOf(Top)
             b == Top.block
         IN  /\ Here.op = "exitloop"   => ExitsTheNearest(prog, pos, Loops)
             /\ Here.op = "exitselect" => ExitsTheNearest(prog, pos, Selects)
             /\ Here.op = "goto"       => GotoArrives(prog, pos, l)
             /\ Here.op = "gotoexpr"   => TopLevelLabel(prog, b, l)
                                          /\ GotoArrives(prog, pos, l)
             /\ Here.op = "gosub"      => TopLevelLabel(prog, b, l)
             /\ Here.op = "gosubexpr"  => /\ TopLevelLabel(prog, b, l)
                                          /\ LabelPos(prog, b, l).idx > 1
BY HereAt DEF Orderly

\* A subroutine that starts at its label.
LEMMA SubTidy ==
  ASSUME Inv, Inv', Tidy, stack # <<>>, prog' = prog, NEW l,
         TopLevelLabel(prog, Top.block, l),
         Enter(Root(prog, Top.block), LabelIdx(prog, Root(prog, Top.block), l),
               "gosub", ThisCall)
  PROVE  Tidy'
<1> DEFINE b == Root(prog, Top.block)
           i == LabelIdx(prog, b, l)
           v == "gosub"
<1>1. Top.block \in Block /\ prog \in Corpus
  BY StackFacts
<1>2. /\ b \in Block /\ i \in Nat \ {0} /\ i \in DOMAIN prog.code[b]
      /\ Root(prog, b) = Root(prog, Top.block)
  BY <1>1, TopLabelFacts, PathFacts
<1>3. i <= Len(prog.code[b])
  BY <1>2, ProgramFacts, <1>1
<1>4. v \in {"block", "gosub", "call"} /\ v # "call"
  OBVIOUS
<1> HIDE DEF b, i, v
<1>5. Enter(b, i, v, ThisCall)
  BY DEF b, i, v
<1> QED BY <1>2, <1>3, <1>4, <1>5, TidyEnter

LEMMA TidyStep ==
  ASSUME Inv, Inv', Orderly(prog), Tidy, Next
  PROVE  Tidy'
<1>0. prog' = prog
  BY DEF Next, ExecPlain, EnterBody, SkipBody, EndOfItems, ExecGoto, ExecExit,
         ExecReturn, ExecGosubReturn, ExecGosub, ExecGosubExpr, ExecGotoExpr,
         ExecCall, ExecFault
<1>1. stack # <<>>
  BY DEF Next, ExecPlain, EnterBody, SkipBody, EndOfItems, ExecGoto, ExecExit,
         ExecReturn, ExecGosubReturn, ExecGosub, ExecGosubExpr, ExecGotoExpr,
         ExecCall, ExecFault, AtItem
<1> DEFINE N == Len(stack)
<1>2. /\ N \in Nat \ {0} /\ Top = stack[N] /\ Top \in Frame /\ prog \in Corpus
      /\ Top.block \in Block /\ N \in 1..N /\ N - 1 \in 0..(N - 1)
  BY <1>1, StackFacts
<1>3. CASE ExecPlain
  <2>1. AtItem(Plain \cup Skippable \cup {"gosub", "gosubexpr"}) /\ ArmDone(N)
    BY <1>3 DEF ExecPlain, AtItem
  <2> QED BY <1>0, <1>1, <2>1, ArmHereTidy
<1>4. CASE SkipBody
  <2>1. AtItem(Plain \cup Skippable \cup {"gosub", "gosubexpr"}) /\ ArmDone(N)
    BY <1>4 DEF SkipBody, AtItem
  <2> QED BY <1>0, <1>1, <2>1, ArmHereTidy
<1>5. CASE EnterBody
  <2>1. PICK b \in Here.body : Enter(b, 1, "block", ThisCall)
    BY <1>5 DEF EnterBody
  <2>2. Top.idx \in DOMAIN prog.code[Top.block]
    BY <1>5, HereFacts DEF EnterBody
  <2>3. b \in Block /\ prog.path[b] # <<>> /\ Root(prog, b) = Root(prog, Top.block)
    BY <1>2, <2>1, <2>2, BodyFacts DEF Here
  <2> DEFINE v == "block"
  <2>4. v \in {"block", "gosub", "call"} /\ v # "call" /\ 1 \in Nat \ {0}
    OBVIOUS
  <2> HIDE DEF v
  <2>5. Enter(b, 1, v, ThisCall)
    BY <2>1 DEF v
  <2> QED BY <1>0, <1>1, <2>3, <2>4, <2>5, TidyEnter
<1>6. CASE EndOfItems
  <2>1. CASE ArmDone(N - 1)
    BY <1>0, <1>1, <1>2, <2>1, ArmBelowTidy
  <2>2. CASE Top.via = "block" /\ \E b \in Arm(N-1).body : Iterate(N - 1, stack[N-1].idx, b)
    <3>1. PICK b \in Arm(N-1).body : Iterate(N - 1, stack[N-1].idx, b)
      BY <2>2
    <3>2. N # 1
      BY <1>1, <1>2, <2>2, StackFacts
    <3>3. N - 1 \in 1..(N - 1) /\ N - 1 \in 1..N
      <4>1. N \in Nat \ {0}
        BY <1>2
      <4> HIDE DEF N
      <4> QED BY <3>2, <4>1
    <3>4. stack[N-1].block \in Block /\ stack[N-1].cur \in DOMAIN Items(N-1)
      BY <1>1, <3>3, StackFacts, FrameAbove
    <3>5. b \in Block /\ prog.path[b] # <<>>
      BY <1>2, <3>1, <3>4, BodyFacts DEF Arm, Items
    <3> QED BY <1>0, <1>1, <3>1, <3>3, <3>5, TidyIterate
  <2> QED BY <1>6, <2>1, <2>2 DEF EndOfItems
<1>7. CASE ExecGoto
  <2>1. AtItem({"goto"}) /\ GotoLabel(Here.arg)
    BY <1>7 DEF ExecGoto
  <2>2. GotoArrives(prog, PosOf(Top), Here.arg)
    BY <2>1, HereFacts, HereOrderly
  <2> QED BY <1>0, <1>1, <2>1, <2>2, GotoLands, LandsTidy
<1>8. CASE ExecExit
  <2> DEFINE T == {k \in Below : ConsumesBreak(k)}
  <2>1. Innermost(T) \in 0..(N - 1)
    BY <1>1, BottomConsumes, FlowLands
  <2>2. ArmDone(Innermost(T))
    BY <1>8 DEF ExecExit, FlowBreak
  <2> HIDE DEF T
  <2> QED BY <1>0, <1>1, <2>1, <2>2, ArmBelowTidy
<1>9. CASE ExecReturn
  BY <1>0, <1>1, <1>9, ReturnLands, ArmBelowTidy DEF ExecReturn
<1>10. CASE ExecGosubReturn
  BY <1>0, <1>1, <1>10, GosubReturnLands, ArmBelowTidy DEF ExecGosubReturn
<1>11. CASE ExecGosub
  <2>1. AtItem({"gosub"})
    BY <1>11 DEF ExecGosub
  <2>2. TopLevelLabel(prog, Top.block, Here.arg)
    BY <2>1, HereFacts, HereOrderly
  <2>3. Enter(Root(prog, Top.block), LabelIdx(prog, Root(prog, Top.block), Here.arg),
              "gosub", ThisCall)
    BY <1>11, <2>2 DEF ExecGosub, TopLevelLabel
  <2> QED BY <1>0, <1>1, <2>2, <2>3, SubTidy
<1>12. CASE ExecGosubExpr
  <2>1. AtItem({"gosubexpr"})
    BY <1>12 DEF ExecGosubExpr
  <2>2. TopLevelLabel(prog, Top.block, Here.arg)
    BY <2>1, HereFacts, HereOrderly
  <2>3. LabelAddress(Here.arg) + 1 = LabelIdx(prog, Root(prog, Top.block), Here.arg)
    BY <1>1, <2>2, AddressFacts
  <2>4. CASE ArmDone(N)
    <3>1. AtItem(Plain \cup Skippable \cup {"gosub", "gosubexpr"})
      BY <2>1 DEF AtItem
    <3> QED BY <1>0, <1>1, <2>4, <3>1, ArmHereTidy
  <2>5. CASE Enter(Root(prog, Top.block), LabelAddress(Here.arg) + 1, "gosub", ThisCall)
    BY <1>0, <1>1, <2>2, <2>3, <2>5, SubTidy
  <2> QED BY <1>12, <2>4, <2>5 DEF ExecGosubExpr
<1>13. CASE ExecGotoExpr
  <2>1. AtItem({"gotoexpr"})
    BY <1>13 DEF ExecGotoExpr
  <2>2. TopLevelLabel(prog, Top.block, Here.arg) /\ GotoArrives(prog, PosOf(Top), Here.arg)
    BY <2>1, HereFacts, HereOrderly
  <2> QED BY <1>0, <1>1, <1>13, <2>2, GotoExprLands, LandsTidy
<1>14. CASE ExecCall
  <2>1. AtItem({"call"}) /\ Enter(Here.arg, 1, "call", N + 1)
    BY <1>14 DEF ExecCall
  <2>2. Here.arg \in Block
    BY <2>1, HereFacts DEF ItemOK
  <2>3. ASSUME prog.path[Here.arg] = <<>>, UsesGosub(prog, Here.arg)
        PROVE  1 <= Len(prog.code[Here.arg])
    <3>1. prog.code[Here.arg] # <<>>
      BY <2>2, <2>3 DEF Orderly, SubsEnd
    <3>2. prog.code[Here.arg] \in Seq(Item)
      BY <1>2, <2>2, ProgramFacts
    <3> QED BY <3>1, <3>2
  <2> DEFINE v == "call"
  <2>4. v \in {"block", "gosub", "call"} /\ v = "call" /\ 1 \in Nat \ {0}
    OBVIOUS
  <2> HIDE DEF v
  <2>5. Enter(Here.arg, 1, v, N + 1)
    BY <2>1 DEF v
  <2> QED BY <1>0, <1>1, <2>2, <2>3, <2>4, <2>5, TidyEnter
<1>15. CASE ExecFault
  <2>1. stack' = <<>>
    BY <1>15 DEF ExecFault, RuntimeError
  <2> QED BY <2>1 DEF Tidy, AtTheirItems, InsideTheirBody, AddressesKnown
<1> QED BY <1>3, <1>4, <1>5, <1>6, <1>7, <1>8, <1>9, <1>10, <1>11, <1>12, <1>13,
           <1>14, <1>15 DEF Next

-----------------------------------------------------------------------------
(***************************************************************************)
(* The steps of an orderly program, in the words of the compiled ones.     *)
(***************************************************************************)
\* Frames that run bodies return to frame k.
LEMMA LandEffect ==
  ASSUME Inv, Inv', stack # <<>>, NEW k \in Base..Len(stack), NEW i \in Nat \ {0},
         Resume(k, i)
  PROVE  pcBar' = At(stack[k].block, i) /\ Machine' = Machine
<1>1. /\ stack \in Seq(Frame) /\ Len(stack) \in Nat \ {0}
      /\ Base \in 1..Len(stack) /\ \A j \in (Base+1)..Len(stack) : stack[j].via = "block"
  BY StackFacts, BaseFacts
<1>2. /\ k \in 1..Len(stack) /\ k \in 0..Len(stack) /\ Len(stack) \in k..Len(stack)
      /\ \A j \in (k+1)..Len(stack) : j \in (Base+1)..Len(stack)
  BY <1>1
<1>3. StandsFor(stack)[Len(stack)] = StandsFor(stack)[k]
  BY <1>1, <1>2, BlocksAddNothing
<1> QED BY <1>2, <1>3, ResumeEffect DEF Machine

LEMMA DoneEffect ==
  ASSUME Inv, Inv', stack # <<>>, NEW k \in Base..Len(stack), ArmDone(k)
  PROVE  pcBar' = At(stack[k].block, stack[k].idx + 1) /\ Machine' = Machine
<1>1. k \in 1..Len(stack) /\ k # 0
  BY StackFacts, BaseFacts
<1>2. Resume(k, stack[k].idx + 1)
  BY <1>1 DEF ArmDone
<1>3. stack[k].idx + 1 \in Nat \ {0}
  BY <1>1, StackFacts
<1> QED BY <1>2, <1>3, LandEffect

LEMMA HereDoneEffect ==
  ASSUME Inv, Inv', stack # <<>>, ArmDone(Len(stack))
  PROVE  pcBar' = After(pcBar) /\ Machine' = Machine
<1>1. Len(stack) \in Base..Len(stack)
  BY StackFacts, BaseFacts
<1> QED BY <1>1, DoneEffect DEF pcBar, Top, After, PosOf, At

LEMMA GotoEffect ==
  ASSUME Inv, Inv', stack # <<>>, NEW l,
         \E k \in Base..Len(stack) :
           /\ k \in 1..Len(stack) /\ l \in LabelsIn(prog, stack[k].block)
           /\ Resume(k, LabelIdx(prog, stack[k].block, l))
  PROVE  /\ l \in FnLabels(prog, pcBar.block)
         /\ pcBar' = LabelPos(prog, pcBar.block, l)
         /\ Machine' = Machine
<1>1. PICK k \in Base..Len(stack) :
             /\ k \in 1..Len(stack) /\ l \in LabelsIn(prog, stack[k].block)
             /\ Resume(k, LabelIdx(prog, stack[k].block, l))
  OBVIOUS
<1> DEFINE b == stack[k].block
           t == Top.block
<1>2. b \in Block /\ t \in Block /\ prog \in Corpus /\ pcBar.block = t
  BY <1>1, StackFacts DEF pcBar, PosOf
<1>3. Root(prog, t) = Root(prog, b)
  <2>1. k \in ThisCall..Len(stack) /\ Len(stack) \in ThisCall..Len(stack)
    BY StackFacts, BaseFacts, CallFacts
  <2> QED BY <2>1, CallFacts DEF Top
<1> HIDE DEF b, t
<1>4. /\ LabelIdx(prog, b, l) \in Nat \ {0} /\ l \in FnLabels(prog, t)
      /\ LabelPos(prog, t, l) = At(b, LabelIdx(prog, b, l))
  BY <1>1, <1>2, <1>3, LabelFacts DEF b
<1>5. pcBar' = At(b, LabelIdx(prog, b, l)) /\ Machine' = Machine
  BY <1>1, <1>4, LandEffect DEF b
<1> QED BY <1>2, <1>4, <1>5

\* EXIT goes on after the nearest item of its kind.
LEMMA ExitEffect ==
  ASSUME Inv, Inv', Tidy, stack # <<>>, NEW kind \in {Loops, Selects},
         ExitsTheNearest(prog, PosOf(Top), kind), FlowBreak
  PROVE  LET path == prog.path[pcBar.block]
             near == {d \in DOMAIN path : OpAt(prog, path[d]) \in kind}
         IN  pcBar' = After(path[Innermost(near)]) /\ Machine' = Machine
<1> DEFINE path == prog.path[Top.block]
           near == {d \in DOMAIN path : OpAt(prog, path[d]) \in kind}
<1>1. PICK k \in Base..(Len(stack) - 1) :
           LET d == k - Base + 1
           IN  /\ ArmDone(k) /\ k \in 1..Len(stack)
               /\ d \in DOMAIN path /\ path[d] = At(stack[k].block, stack[k].cur)
               /\ OpAt(prog, path[d]) \in kind
               /\ \A m \in (d+1)..Len(path) : OpAt(prog, path[m]) \notin Loops \cup Selects
  BY ExitLands
<1> DEFINE d == k - Base + 1
<1>2. path \in Seq(Pos) /\ pcBar.block = Top.block
  <2>1. Top.block \in Block /\ prog \in Corpus
    BY StackFacts
  <2> QED BY <2>1, PathFacts DEF pcBar, PosOf
<1>3. k \in Base..Len(stack) /\ Base \in Nat /\ k \in Nat
  BY StackFacts, BaseFacts
<1> HIDE DEF path
<1>4. d \in near /\ d \in Nat /\ DOMAIN path = 1..Len(path) /\ Len(path) \in Nat
  BY <1>1, <1>2, <1>3
<1>5. \A m \in near : m <= d
  <2> SUFFICES ASSUME NEW m \in near, ~(m <= d) PROVE FALSE
    OBVIOUS
  <2>1. m \in (d+1)..Len(path)
    BY <1>4
  <2> QED BY <1>1, <2>1
<1> HIDE DEF d, near
<1>6. Innermost(near) = d
  <2>1. near \subseteq 0..Len(path) /\ near # {}
    BY <1>4 DEF near
  <2>2. Innermost(near) \in near /\ \A m \in near : m <= Innermost(near)
    BY <1>4, <2>1, InnermostExists
  <2>3. Innermost(near) \in Nat
    <3> DEFINE x == Innermost(near)
    <3>1. x \in 0..Len(path)
      BY <2>1, <2>2
    <3> HIDE DEF x
    <3>2. x \in Nat
      BY <1>4, <3>1
    <3> QED BY <3>2 DEF x
  <2> QED BY <1>4, <1>5, <2>2, <2>3
<1>7. pcBar' = At(stack[k].block, stack[k].idx + 1) /\ Machine' = Machine
  BY <1>1, <1>3, DoneEffect
<1>8. stack[k].idx = stack[k].cur
  BY <1>1 DEF Tidy, AtTheirItems
<1>9. path[d] = At(stack[k].block, stack[k].cur)
  BY <1>1 DEF d
<1>10. pcBar' = After(path[d])
  BY <1>7, <1>8, <1>9 DEF After, At
<1> QED BY <1>2, <1>6, <1>7, <1>10 DEF near, path

LEMMA GosubUsed ==
  ASSUME Inv, stack # <<>>
  PROVE  /\ stack[Base].via \in {"gosub", "call"}
         /\ stack[Base].via = "gosub" =>
              \E pos \in InFn(prog, Top.block) : OpAt(prog, pos) \in {"gosub", "gosubexpr"}
<1>1. /\ Len(stack) \in Nat \ {0} /\ Base \in 1..Len(stack) /\ stack[Base].via # "block"
      /\ stack[1].via = "call" /\ stack[Base].via \in {"block", "gosub", "call"}
      /\ ThisCall \in 1..Base /\ stack[ThisCall].via = "call" /\ prog \in Corpus
  BY StackFacts, BaseFacts, CallFacts
<1>2. ASSUME stack[Base].via = "gosub"
      PROVE  \E pos \in InFn(prog, Top.block) : OpAt(prog, pos) \in {"gosub", "gosubexpr"}
  <2> DEFINE k == Base - 1
             b == stack[k].block
             i == stack[k].cur
  <2>1. Base # 1 /\ ThisCall # Base
    BY <1>1, <1>2
  <2>2. /\ k \in 1..(Len(stack) - 1) /\ k \in 1..Len(stack) /\ k + 1 = Base
        /\ k \in ThisCall..Len(stack) /\ Len(stack) \in ThisCall..Len(stack)
    BY <1>1, <2>1
  <2> HIDE DEF k
  <2>3. b \in Block
    BY <2>2, StackFacts
  <2>4. i \in DOMAIN prog.code[b] /\ Arm(k).op \in {"gosub", "gosubexpr"}
    BY <1>2, <2>2, FrameAbove DEF Items
  <2>5. Root(prog, b) = Root(prog, Top.block)
    BY <2>2, CallFacts DEF Top
  <2>6. At(b, i) \in Positions(prog) /\ At(b, i).block = b
    BY <2>3, <2>4 DEF Positions, At
  <2>7. At(b, i) \in InFn(prog, Top.block)
    BY <2>5, <2>6 DEF InFn
  <2>8. OpAt(prog, At(b, i)) = Arm(k).op
    BY DEF OpAt, At, Arm, Items
  <2> QED BY <2>4, <2>7, <2>8
<1> QED BY <1>1, <1>2

\* The item whose body the top frame runs.
LEMMA UpFacts ==
  ASSUME Inv, stack # <<>>
  PROVE  LET path == prog.path[pcBar.block]
             up == path[Len(path)]
             k == Len(stack) - 1
         IN  /\ Top.via = "block" <=> path # <<>>
             /\ Top.via = "block" =>
                  /\ k \in 1..(Len(stack) - 1) /\ k \in Base..Len(stack)
                  /\ up = At(stack[k].block, stack[k].cur)
                  /\ OpAt(prog, up) = Arm(k).op
                  /\ prog.code[up.block][up.idx] = Arm(k)
                  /\ \A b \in Arm(k).body : b \in Block
             /\ Top.via # "block" => Base = Len(stack)
<1> DEFINE N == Len(stack)
           k == N - 1
           path == prog.path[Top.block]
<1>1. /\ N \in Nat \ {0} /\ Base \in 1..N /\ stack[Base].via # "block"
      /\ \A j \in (Base+1)..N : stack[j].via = "block"
      /\ stack[1].via = "call" /\ stack[1].block = Main /\ Top = stack[N]
      /\ prog \in Corpus /\ Top.block \in Block
  BY StackFacts, BaseFacts
<1>2. pcBar.block = Top.block
  BY DEF pcBar, PosOf
<1>3. ASSUME Top.via # "block" PROVE Base = N /\ path = <<>>
  <2>1. Base = N
    BY <1>1, <1>3
  <2> QED BY <1>1, <2>1, BaseFacts
<1>4. ASSUME Top.via = "block"
      PROVE  /\ k \in 1..(N - 1) /\ k \in Base..N /\ path # <<>>
             /\ path[Len(path)] = At(stack[k].block, stack[k].cur)
             /\ \A b \in Arm(k).body : b \in Block
  <2>1. Base # N
    BY <1>1, <1>4
  <2>2. k \in 1..(N - 1) /\ k + 1 = N /\ k \in Base..N /\ k \in 1..N
    <3>1. N \in Nat \ {0} /\ Base \in 1..N
      BY <1>1
    <3> HIDE DEF N
    <3> QED BY <2>1, <3>1
  <2> HIDE DEF k
  <2>3. path = Append(prog.path[stack[k].block], At(stack[k].block, stack[k].cur))
        /\ stack[k].cur \in DOMAIN Items(k)
    BY <1>1, <1>4, <2>2, FrameAbove
  <2>4. stack[k].block \in Block /\ prog.path[stack[k].block] \in Seq(Pos)
    BY <1>1, <2>2, StackFacts, PathFacts
  <2> DEFINE e == At(stack[k].block, stack[k].cur)
             q == prog.path[stack[k].block]
  <2>5. Append(q, e) # <<>> /\ Append(q, e)[Len(Append(q, e))] = e
    <3>1. q \in Seq(Pos)
      BY <2>4
    <3> HIDE DEF e, q
    <3> QED BY <3>1
  <2>6. \A b \in Arm(k).body : b \in Block
    BY <1>1, <2>3, <2>4, BodyFacts DEF Arm, Items
  <2> QED BY <2>2, <2>3, <2>5, <2>6
<1>5. /\ OpAt(prog, At(stack[k].block, stack[k].cur)) = Arm(k).op
      /\ prog.code[At(stack[k].block, stack[k].cur).block][At(stack[k].block, stack[k].cur).idx]
           = Arm(k)
  BY DEF OpAt, At, Arm, Items
<1> HIDE DEF k, path
<1> QED BY <1>2, <1>3, <1>4, <1>5 DEF k, path

\* The items ran out.
LEMMA EndEffect ==
  ASSUME Inv, Inv', Tidy, EndOfItems
  PROVE  LET path == prog.path[pcBar.block]
             up == path[Len(path)]
         IN  /\ stack # <<>> /\ pcBar.idx \notin DOMAIN prog.code[pcBar.block]
             /\ path = <<>> => stack[Base].via = "call" /\ ArmDone(ThisCall - 1)
             /\ path # <<>> =>
                  /\ Machine' = Machine
                  /\ IF OpAt(prog, up) \in Loops
                     THEN \/ \E b \in prog.code[up.block][up.idx].body : pcBar' = At(b, 1)
                          \/ OpAt(prog, up) # "do" /\ pcBar' = After(up)
                     ELSE pcBar' = After(up)
<1> DEFINE N == Len(stack)
           k == N - 1
           path == prog.path[pcBar.block]
           up == path[Len(path)]
<1>1. stack # <<>> /\ Top.idx > Len(prog.code[Top.block])
  BY DEF EndOfItems
<1>2. /\ N \in Nat \ {0} /\ Top = stack[N] /\ Top.block \in Block /\ prog \in Corpus
      /\ Top.idx \in Nat /\ N \in 1..N
  BY <1>1, StackFacts
<1>3. pcBar.block = Top.block /\ pcBar.idx = Top.idx
  BY <1>1 DEF pcBar, PosOf
<1>4. pcBar.idx \notin DOMAIN prog.code[pcBar.block]
  BY <1>1, <1>2, <1>3, ProgramFacts
<1>5. CASE Top.via # "block"
  <2>1. Base = N /\ path = <<>> /\ ArmDone(k)
    BY <1>1, <1>5, UpFacts DEF EndOfItems
  <2>2. stack[Base].via = "call"
    <3> SUFFICES ASSUME stack[Base].via # "call" PROVE FALSE
      OBVIOUS
    <3>1. UsesGosub(prog, Top.block)
      BY <1>1, GosubUsed DEF UsesGosub
    <3>2. Top.idx <= Len(prog.code[Top.block])
      BY <1>2, <1>3, <2>1, <3>1 DEF Tidy, InsideTheirBody, Items
    <3>3. Len(prog.code[Top.block]) \in Nat
      BY <1>2, ProgramFacts
    <3> QED BY <1>1, <1>2, <3>2, <3>3
  <2>3. ThisCall = N
    BY <1>1, <2>1, <2>2, NoPop
  <2> QED BY <1>1, <1>4, <2>1, <2>2, <2>3
<1>6. CASE Top.via = "block"
  <2>1. /\ k \in 1..(N - 1) /\ k \in Base..N /\ path # <<>>
        /\ up = At(stack[k].block, stack[k].cur) /\ OpAt(prog, up) = Arm(k).op
        /\ prog.code[up.block][up.idx] = Arm(k) /\ \A b \in Arm(k).body : b \in Block
    BY <1>1, <1>6, UpFacts
  <2>2. stack[k].cur = stack[k].idx
    <3>1. k \in 1..N
      BY <1>2, <2>1
    <3> QED BY <3>1 DEF Tidy, AtTheirItems
  <2> HIDE DEF k, path
  <2>3. ASSUME ArmDone(k) PROVE pcBar' = After(up) /\ Machine' = Machine
    <3>1. pcBar' = At(stack[k].block, stack[k].idx + 1) /\ Machine' = Machine
      BY <1>1, <2>1, <2>3, DoneEffect
    <3>2. After(At(stack[k].block, stack[k].cur)) = At(stack[k].block, stack[k].cur + 1)
      BY DEF After, At
    <3> QED BY <2>1, <2>2, <3>1, <3>2
  <2>4. ASSUME NEW b \in Arm(k).body, Iterate(k, stack[k].idx, b)
        PROVE  pcBar' = At(b, 1) /\ Machine' = Machine
    <3>1. b \in Block /\ pcBar' = At(b, 1) /\ Machine' = StandsFor(stack)[k]
      BY <1>1, <2>1, <2>4, IterateEffect
    <3>2. StandsFor(stack)[N] = StandsFor(stack)[k]
      <4>1. /\ stack \in Seq(Frame) /\ k \in 0..N /\ N \in k..N
            /\ \A j \in (k+1)..N : j \in (Base+1)..N /\ stack[j].via = "block"
        BY <1>1, <1>2, <2>1, StackFacts, BaseFacts
      <4> QED BY <4>1, BlocksAddNothing
    <3> QED BY <3>1, <3>2 DEF Machine
  <2>5. IF Arm(k).op \in Loops
        THEN \/ \E b \in Arm(k).body : Iterate(k, stack[k].idx, b)
             \/ Arm(k).op # "do" /\ ArmDone(k)
        ELSE ArmDone(k)
    BY <1>6 DEF EndOfItems, k
  <2> QED BY <1>1, <1>4, <2>1, <2>3, <2>4, <2>5 DEF path
<1> QED BY <1>5, <1>6

\* A GOSUB to a top-level label.
LEMMA SubEffect ==
  ASSUME Inv, Inv', stack # <<>>, NEW l, TopLevelLabel(prog, Top.block, l),
         Enter(Root(prog, Top.block), LabelIdx(prog, Root(prog, Top.block), l),
               "gosub", ThisCall)
  PROVE  /\ l \in FnLabels(prog, pcBar.block)
         /\ pcBar' = LabelPos(prog, pcBar.block, l)
         /\ LabelPos(prog, pcBar.block, l)
              = At(Root(prog, pcBar.block), LabelIdx(prog, Root(prog, pcBar.block), l))
         /\ l \in LabelsIn(prog, Root(prog, pcBar.block))
         /\ Machine'.calls = Machine.calls
         /\ Machine'.gosubs = Append(Machine.gosubs, After(pcBar))
         /\ Machine'.lcalls = [Machine.lcalls EXCEPT
                                 ![Len(Machine.lcalls)].rets = Append(@, After(pcBar))]
         /\ Len(stack) < MaxDepth
<1> DEFINE b == Root(prog, Top.block)
           i == LabelIdx(prog, b, l)
           f == NewFrame(b, i, "gosub")
<1>1. Top.block \in Block /\ prog \in Corpus /\ pcBar.block = Top.block
  BY StackFacts DEF pcBar, PosOf
<1>2. l \in FnLabels(prog, Top.block) /\ LabelPos(prog, Top.block, l) = At(b, i)
      /\ l \in LabelsIn(prog, b)
  BY <1>1, TopLabelFacts
<1>3. pcBar' = At(b, i) /\ Machine' = Pushed(Machine, f, After(pcBar))
  BY EnterEffect
<1>4. f.via = "gosub"
  BY DEF NewFrame
<1> HIDE DEF f
<1>5. Pushed(Machine, f, After(pcBar))
        = [calls  |-> Machine.calls,
           gosubs |-> Append(Machine.gosubs, After(pcBar)),
           lcalls |-> [Machine.lcalls EXCEPT
                         ![Len(Machine.lcalls)].rets = Append(@, After(pcBar))]]
  BY <1>4 DEF Pushed
<1>6. Len(stack) < MaxDepth
  BY DEF Enter
<1> QED BY <1>1, <1>2, <1>3, <1>5, <1>6

-----------------------------------------------------------------------------
(***************************************************************************)
(* The emitted C.                                                          *)
(***************************************************************************)
\* CFlow speaks of programs in the words of IrProgram.
LEMMA CWords ==
  /\ C!Plain = Plain /\ C!Skippable = Skippable /\ C!Containers = Containers
  /\ C!Loops = Loops /\ C!Selects = Selects /\ C!Evaluating = Evaluating
  /\ C!TestedLoops = TestedLoops
  /\ \A p, pos : C!OpAt(p, pos) = OpAt(p, pos)
  /\ \A p, b : C!Root(p, b) = Root(p, b) /\ C!FnLabels(p, b) = FnLabels(p, b)
  /\ \A p, b, l : C!LabelPos(p, b, l) = LabelPos(p, b, l)
  /\ \A T : C!Innermost(T) = Innermost(T)
  /\ \A b, i : C!At(b, i) = At(b, i)
  /\ C!Nowhere = Nowhere
  /\ \A pos : C!After(pos) = After(pos)
<1>1. /\ C!Plain = Plain /\ C!Skippable = Skippable /\ C!Containers = Containers
      /\ C!Loops = Loops /\ C!Selects = Selects /\ C!Evaluating = Evaluating
      /\ C!TestedLoops = TestedLoops
  BY DEF C!Plain, Plain, C!Skippable, Skippable, C!Containers, Containers, C!Loops,
         Loops, C!Selects, Selects, C!Evaluating, Evaluating, C!TestedLoops, TestedLoops,
         C!RetestLoops, RetestLoops, C!DoLoops, DoLoops
<1>2. \A p, pos : C!OpAt(p, pos) = OpAt(p, pos)
  BY DEF C!OpAt, OpAt
<1>3. \A p, b : C!Root(p, b) = Root(p, b)
  BY DEF C!Root, Root
<1>4. \A p, b, i, l : C!IsLabel(p, b, i, l) = IsLabel(p, b, i, l)
  BY DEF C!IsLabel, IsLabel
<1>5. \A p, b : C!LabelsIn(p, b) = LabelsIn(p, b)
  BY <1>4, Zenon DEF C!LabelsIn, LabelsIn, C!IsLabel, IsLabel
<1>6. \A p, b, l : C!LabelIdx(p, b, l) = LabelIdx(p, b, l)
  BY Zenon DEF C!LabelIdx, LabelIdx, C!IsLabel, IsLabel
<1>7. \A p, b : C!FnLabels(p, b) = FnLabels(p, b)
  BY Zenon DEF C!FnLabels, FnLabels, C!LabelsIn, LabelsIn, C!IsLabel, IsLabel,
               C!Root, Root
<1>8. \A p, b, l : C!LabelPos(p, b, l) = LabelPos(p, b, l)
  BY ZenonT(60) DEF C!LabelPos, LabelPos, C!LabelIdx, LabelIdx, C!LabelsIn, LabelsIn,
               C!IsLabel, IsLabel, C!Root, Root
<1>9. \A T : C!Innermost(T) = Innermost(T)
  BY Zenon DEF C!Innermost, Innermost
<1>10. /\ \A b, i : C!At(b, i) = At(b, i)
       /\ C!Nowhere = Nowhere
       /\ \A pos : C!After(pos) = After(pos)
  BY DEF C!At, At, C!Nowhere, Nowhere, C!After, After
<1> QED BY <1>1, <1>2, <1>3, <1>7, <1>8, <1>9, <1>10

LEMMA CRunning ==
  ASSUME Inv, NEW ops, AtItem(ops)
  PROVE  /\ \A T : Here.op \in T => C!Running(T)
         /\ C!Running(ops) /\ C!This = Here
<1>1. stack # <<>> /\ Top.idx \in DOMAIN prog.code[Top.block] /\ Here.op \in ops
  BY HereFacts
<1>2. pcBar.block = Top.block /\ pcBar.idx = Top.idx /\ Machine.calls # <<>>
  BY <1>1, MachineShape DEF PosOf
<1>3. C!OpAt(prog, pcBar) = Here.op
  BY <1>2, CWords DEF OpAt, Here
<1>4. C!This = Here
  BY <1>2 DEF C!This, Here
<1> QED BY <1>1, <1>2, <1>3, <1>4 DEF C!Running

LEMMA CJumps ==
  ASSUME NEW q, pcBar' = q, Machine' = Machine
  PROVE  C!Jump(q)
BY DEF C!Jump

LEMMA CReturns ==
  ASSUME Inv, Inv', stack # <<>>, stack[Base].via = "call", ArmDone(ThisCall - 1)
  PROVE  C!ReturnFromFunction
<1>1. Base = ThisCall
  BY NoPop
<1>2. CASE ThisCall = 1
  <2>1. Len(Machine.calls) = 1 /\ pcBar' = Nowhere /\ Machine' = Nothing
    BY <1>2, ReturnEffect
  <2>2. C!Exit
    BY <2>1, CWords DEF C!Exit, Nothing
  <2> QED BY <2>1, <2>2 DEF C!ReturnFromFunction
<1>3. CASE ThisCall # 1
  <2>1. /\ Len(Machine.calls) # 1
        /\ pcBar' = Machine.calls[Len(Machine.calls)].ret
        /\ Machine'.calls = Front(Machine.calls)
        /\ Machine'.gosubs = Machine.gosubs
    BY <1>1, <1>3, ReturnEffect
  <2> QED BY <2>1 DEF C!ReturnFromFunction, C!ThisCall, Front
<1> QED BY <1>2, <1>3

\* The GOSUB stack of C is never full.
Roomy == GosubLimit \in Nat /\ MaxDepth <= GosubLimit + 1

LEMMA CGosubs ==
  ASSUME Inv, Inv', stack # <<>>, Roomy, NEW l, TopLevelLabel(prog, Top.block, l),
         Enter(Root(prog, Top.block), LabelIdx(prog, Root(prog, Top.block), l),
               "gosub", ThisCall)
  PROVE  /\ l \in C!FnLabels(prog, pcBar.block) /\ Len(Machine.gosubs) < GosubLimit
         /\ C!PushReturn(C!After(pcBar))
         /\ pcBar' = C!LabelPos(prog, pcBar.block, l)
         /\ Machine'.calls = Machine.calls
<1>1. Len(stack) < MaxDepth /\ Len(stack) \in Nat /\ Len(stack) > 0
  BY StackFacts, SubEffect
<1>2. Len(Machine.gosubs) < Len(stack) /\ Machine.gosubs \in Seq(Pos)
  BY <1>1, MachineShape DEF Shape
<1>3. Len(Machine.gosubs) \in Nat
  BY <1>2
<1>4. Len(Machine.gosubs) < GosubLimit
  BY <1>1, <1>2, <1>3, MaxDepthAssumption DEF Roomy
<1>5. C!PushReturn(C!After(pcBar))
  BY <1>4, SubEffect, CWords DEF C!PushReturn
<1> QED BY <1>4, <1>5, SubEffect, CWords

LEMMA CFaults ==
  ASSUME Inv, ExecFault
  PROVE  C!CFault
<1>1. stack' = <<>> /\ prog' = prog
  BY DEF ExecFault, RuntimeError
<1>2. C!Exit
  BY <1>1, EmptyEffect, CWords DEF C!Exit, Nothing
<1>3. CASE AtItem(Evaluating)
  <2>1. C!Running(C!Evaluating)
    BY <1>3, CRunning, CWords
  <2> QED BY <1>1, <1>2, <2>1 DEF C!CFault
<1>4. CASE /\ stack # <<>> /\ Top.via = "block"
           /\ Top.idx > Len(prog.code[Top.block])
           /\ Arm(Len(stack) - 1).op \in TestedLoops
  <2>1. /\ prog.path[pcBar.block] # <<>>
        /\ OpAt(prog, prog.path[pcBar.block][Len(prog.path[pcBar.block])]) \in TestedLoops
    BY <1>4, UpFacts
  <2>2. Machine.calls # <<>>
    BY <1>4, MachineShape
  <2>3. pcBar.idx \notin DOMAIN prog.code[pcBar.block]
    <3>1. prog \in Corpus /\ Top.block \in Block /\ Top.idx \in Nat
      BY <1>4, StackFacts
    <3>2. Top.idx \notin DOMAIN prog.code[Top.block]
      BY <1>4, <3>1, ProgramFacts
    <3> QED BY <1>4, <3>2 DEF pcBar, PosOf
  <2>4. C!OpAt(prog, prog.path[pcBar.block][Len(prog.path[pcBar.block])]) \in C!TestedLoops
    BY <2>1, CWords
  <2> QED BY <1>1, <1>2, <2>1, <2>2, <2>3, <2>4 DEF C!CFault
<1> QED BY <1>3, <1>4 DEF ExecFault

LEMMA CEnds ==
  ASSUME Inv, Inv', Tidy, EndOfItems
  PROVE  C!CEndOfItems
<1> DEFINE path == prog.path[pcBar.block]
           up == path[Len(path)]
<1>1. /\ stack # <<>> /\ pcBar.idx \notin DOMAIN prog.code[pcBar.block]
      /\ path = <<>> => stack[Base].via = "call" /\ ArmDone(ThisCall - 1)
      /\ path # <<>> =>
           /\ Machine' = Machine
           /\ IF OpAt(prog, up) \in Loops
              THEN \/ \E b \in prog.code[up.block][up.idx].body : pcBar' = At(b, 1)
                   \/ OpAt(prog, up) # "do" /\ pcBar' = After(up)
              ELSE pcBar' = After(up)
  BY EndEffect
<1>2. Machine.calls # <<>> /\ prog' = prog
  BY <1>1, MachineShape DEF EndOfItems
<1> HIDE DEF path
<1>3. /\ path = <<>> => C!ReturnFromFunction
      /\ path # <<>> =>
           IF C!OpAt(prog, up) \in C!Loops
           THEN \/ \E b \in prog.code[up.block][up.idx].body : C!Jump(C!At(b, 1))
                \/ C!OpAt(prog, up) # "do" /\ C!Jump(C!After(up))
           ELSE C!Jump(C!After(up))
  <2>1. CASE path = <<>>
    BY <1>1, <2>1, CReturns
  <2>2. CASE path # <<>>
    <3>1. Machine' = Machine
      BY <1>1, <2>2
    <3>2. ASSUME pcBar' = After(up) PROVE C!Jump(C!After(up))
      BY <3>1, <3>2, CJumps, CWords
    <3>3. ASSUME NEW b, pcBar' = At(b, 1) PROVE C!Jump(C!At(b, 1))
      BY <3>1, <3>3, CJumps, CWords
    <3>4. C!OpAt(prog, up) = OpAt(prog, up) /\ C!Loops = Loops
      BY CWords
    <3> QED BY <1>1, <2>2, <3>2, <3>3, <3>4
  <2> QED BY <2>1, <2>2
<1> QED BY <1>1, <1>2, <1>3 DEF C!CEndOfItems, path

LEMMA CGotos ==
  ASSUME Inv, Inv', stack # <<>>, NEW l,
         \E k \in Base..Len(stack) :
           /\ k \in 1..Len(stack) /\ l \in LabelsIn(prog, stack[k].block)
           /\ Resume(k, LabelIdx(prog, stack[k].block, l))
  PROVE  l \in C!FnLabels(prog, pcBar.block) /\ C!Jump(C!LabelPos(prog, pcBar.block, l))
BY GotoEffect, CJumps, CWords

LEMMA CExits ==
  ASSUME Inv, Inv', Tidy, stack # <<>>, NEW kind \in {Loops, Selects},
         ExitsTheNearest(prog, PosOf(Top), kind), FlowBreak
  PROVE  C!Jump(C!After(C!Nearest(kind)))
<1> DEFINE path == prog.path[pcBar.block]
           near == {d \in DOMAIN path : OpAt(prog, path[d]) \in kind}
<1>1. pcBar' = After(path[Innermost(near)]) /\ Machine' = Machine
  BY ExitEffect
<1>2. C!Enclosing(prog, pcBar.block, kind) = near
  BY CWords DEF C!Enclosing
<1>3. C!Nearest(kind) = path[Innermost(near)]
  BY <1>2, CWords DEF C!Nearest
<1> HIDE DEF path, near
<1> QED BY <1>1, <1>3, CJumps, CWords

\* RETURN and STOP.
LEMMA CReturnStep ==
  ASSUME Inv, Inv', Portable(prog), ExecReturn
  PROVE  C!CReturn \/ C!CStop
<1>1. /\ AtItem({"return", "stop"}) /\ stack # <<>> /\ prog' = prog
      /\ ArmDone(ThisCall - 1) /\ ThisCall - 1 \in 0..(Len(stack) - 1)
  BY ReturnLands DEF ExecReturn, AtItem
<1>2. Here.op \in {"return", "stop"} /\ PosOf(Top) \in Positions(prog)
      /\ OpAt(prog, PosOf(Top)) = Here.op /\ PosOf(Top).block = Top.block
  BY <1>1, HereFacts, HereAt
<1>3. CASE Here.op = "return"
  <2>1. ~UsesGosub(prog, Top.block)
    BY <1>2, <1>3 DEF Portable
  <2>2. stack[Base].via = "call"
    BY <1>1, <2>1, GosubUsed DEF UsesGosub
  <2>3. C!Running({"return"})
    <3>1. Here.op \in {"return"}
      BY <1>3
    <3> QED BY <1>1, <3>1, CRunning
  <2>4. C!ReturnFromFunction
    BY <1>1, <2>2, CReturns
  <2> QED BY <1>1, <2>3, <2>4 DEF C!CReturn
<1>4. CASE Here.op = "stop"
  <2>1. Root(prog, Top.block) = Main /\ ~MainIsCalled(prog)
    BY <1>2, <1>4 DEF Portable
  <2>2. ThisCall \in 1..Len(stack) /\ stack[ThisCall].via = "call"
        /\ stack[ThisCall].block = Main
    <3>1. Len(stack) \in ThisCall..Len(stack) /\ ThisCall \in 1..Len(stack)
      BY <1>1, StackFacts, BaseFacts, CallFacts
    <3> QED BY <1>1, <2>1, <3>1, CallFacts DEF Top
  <2>3. ThisCall = 1
    <3> SUFFICES ASSUME ThisCall # 1 PROVE FALSE
      OBVIOUS
    <3> DEFINE k == ThisCall - 1
    <3>1. k \in 1..(Len(stack) - 1) /\ k + 1 = ThisCall /\ k \in 1..Len(stack)
      BY <1>1, <2>2, StackFacts
    <3> HIDE DEF k
    <3>2. /\ stack[k].cur \in DOMAIN Items(k) /\ stack[k].block \in Block
          /\ Arm(k).op = "call" /\ Arm(k).arg = Main
      BY <1>1, <2>2, <3>1, FrameAbove, StackFacts
    <3> DEFINE pos == At(stack[k].block, stack[k].cur)
    <3>3. pos \in Positions(prog)
      BY <3>2 DEF Positions, At, Items
    <3>4. OpAt(prog, pos) = "call" /\ ArgAt(prog, pos) = Main
      BY <3>2 DEF OpAt, ArgAt, At, Arm, Items
    <3> HIDE DEF pos
    <3> QED BY <2>1, <3>3, <3>4 DEF MainIsCalled
  <2>4. pcBar' = Nowhere /\ Machine' = Nothing
    BY <1>1, <2>3, ReturnEffect
  <2>5. C!Exit
    BY <2>4, CWords DEF C!Exit, Nothing
  <2>6. C!Running({"stop"})
    <3>1. Here.op \in {"stop"}
      BY <1>4
    <3> QED BY <1>1, <3>1, CRunning
  <2> QED BY <1>1, <2>5, <2>6 DEF C!CStop
<1> QED BY <1>2, <1>3, <1>4

LEMMA CGosubReturns ==
  ASSUME Inv, Inv', ExecGosubReturn
  PROVE  C!CGosubReturn
<1>1. /\ AtItem({"gosubreturn"}) /\ stack # <<>> /\ prog' = prog
      /\ ArmDone(Base - 1)
  BY GosubReturnLands DEF ExecGosubReturn, AtItem
<1>2. C!Running({"gosubreturn"})
  BY <1>1, CRunning
<1>3. CASE stack[Base].via = "gosub"
  <2>1. /\ Len(Machine.gosubs) > Machine.calls[Len(Machine.calls)].base
        /\ pcBar' = Machine.gosubs[Len(Machine.gosubs)]
        /\ Machine'.calls = Machine.calls
        /\ Machine'.gosubs = Front(Machine.gosubs)
    BY <1>1, <1>3, PopEffect
  <2> QED BY <1>1, <1>2, <2>1 DEF C!CGosubReturn, C!ThisCall, Front
<1>4. CASE stack[Base].via = "call"
  <2>1. /\ Base = ThisCall
        /\ Machine.calls[Len(Machine.calls)].base = Len(Machine.gosubs)
    BY <1>1, <1>4, NoPop
  <2>2. C!ReturnFromFunction
    BY <1>1, <1>4, <2>1, CReturns
  <2>3. ~(Len(Machine.gosubs) > C!ThisCall.base)
    <3>1. Machine.gosubs \in Seq(Pos)
      BY <1>1, MachineShape DEF Shape
    <3>2. Len(Machine.gosubs) \in Nat
      BY <3>1
    <3> QED BY <2>1, <3>2 DEF C!ThisCall
  <2> QED BY <1>1, <1>2, <2>2, <2>3 DEF C!CGosubReturn
<1> QED BY <1>1, <1>3, <1>4, GosubUsed

LEMMA CStep ==
  ASSUME Inv, Inv', prog \in ForC, Tidy, Roomy, Next
  PROVE  C!CNext
<1>0. prog' = prog /\ stack # <<>>
  BY DEF Next, ExecPlain, EnterBody, SkipBody, EndOfItems, ExecGoto, ExecExit,
         ExecReturn, ExecGosubReturn, ExecGosub, ExecGosubExpr, ExecGotoExpr,
         ExecCall, ExecFault, AtItem
<1>1. Portable(prog) /\ Orderly(prog)
  BY PortableOrderly DEF ForC
<1>2. /\ Top.block \in Block /\ prog \in Corpus /\ pcBar.block = Top.block
      /\ Machine.calls # <<>>
  BY <1>0, StackFacts, MachineShape DEF PosOf
<1>3. CASE ExecPlain
  <2>1. C!Running(C!Plain)
    BY <1>3, CRunning, CWords DEF ExecPlain
  <2>2. C!Jump(C!After(pcBar))
    BY <1>0, <1>3, HereDoneEffect, CJumps, CWords DEF ExecPlain
  <2>3. C!CPlain
    BY <1>0, <2>1, <2>2 DEF C!CPlain
  <2> QED BY <2>3 DEF C!CNext
<1>4. CASE SkipBody
  <2>1. C!Running(C!Skippable)
    BY <1>4, CRunning, CWords DEF SkipBody
  <2>2. C!Jump(C!After(pcBar))
    BY <1>0, <1>4, HereDoneEffect, CJumps, CWords DEF SkipBody
  <2>3. C!CSkipBody
    BY <1>0, <2>1, <2>2 DEF C!CSkipBody
  <2> QED BY <2>3 DEF C!CNext
<1>5. CASE EnterBody
  <2>1. AtItem(Containers)
    BY <1>5 DEF EnterBody
  <2>2. PICK b \in Here.body : Enter(b, 1, "block", ThisCall)
    BY <1>5 DEF EnterBody
  <2>3. C!Running(C!Containers) /\ C!This = Here
    BY <2>1, CRunning, CWords
  <2> DEFINE f == NewFrame(b, 1, "block")
  <2>4. pcBar' = At(b, 1) /\ Machine' = Pushed(Machine, f, After(pcBar))
    BY <1>0, <2>2, EnterEffect
  <2>5. f.via = "block"
    BY DEF NewFrame
  <2> HIDE DEF f
  <2>6. Machine' = Machine
    BY <2>4, <2>5 DEF Pushed
  <2>7. C!Jump(C!At(b, 1))
    BY <2>4, <2>6, CJumps, CWords
  <2>8. C!CEnterBody
    BY <1>0, <2>3, <2>7 DEF C!CEnterBody
  <2> QED BY <2>8 DEF C!CNext
<1>6. CASE EndOfItems
  BY <1>6, CEnds DEF C!CNext
<1>7. CASE ExecGoto
  <2>1. AtItem({"goto"}) /\ GotoLabel(Here.arg)
    BY <1>7 DEF ExecGoto
  <2>2. GotoArrives(prog, PosOf(Top), Here.arg)
    BY <1>1, <2>1, HereFacts, HereOrderly
  <2>3. /\ Here.arg \in C!FnLabels(prog, pcBar.block)
        /\ C!Jump(C!LabelPos(prog, pcBar.block, Here.arg))
    BY <1>0, <2>1, <2>2, GotoLands, CGotos
  <2>4. C!Running({"goto"}) /\ C!This = Here
    BY <2>1, CRunning
  <2>5. C!CGoto
    BY <1>0, <2>3, <2>4 DEF C!CGoto
  <2> QED BY <2>5 DEF C!CNext
<1>8. CASE ExecExit
  <2>1. AtItem({"exitloop", "exitselect"}) /\ FlowBreak
    BY <1>8 DEF ExecExit
  <2>2. Here.op \in {"exitloop", "exitselect"}
    BY <2>1, HereFacts
  <2>3. CASE Here.op = "exitloop"
    <3>1. C!Running({"exitloop"})
      <4>1. Here.op \in {"exitloop"}
        BY <2>3
      <4> QED BY <2>1, <4>1, CRunning
    <3>2. ExitsTheNearest(prog, PosOf(Top), Loops)
      BY <1>1, <2>1, <2>3, HereOrderly
    <3>3. C!Jump(C!After(C!Nearest(Loops)))
      BY <1>0, <2>1, <3>2, CExits
    <3>4. C!CExitLoop
      BY <1>0, <3>1, <3>3, CWords DEF C!CExitLoop
    <3> QED BY <3>4 DEF C!CNext
  <2>4. CASE Here.op = "exitselect"
    <3>1. C!Running({"exitselect"})
      <4>1. Here.op \in {"exitselect"}
        BY <2>4
      <4> QED BY <2>1, <4>1, CRunning
    <3>2. ExitsTheNearest(prog, PosOf(Top), Selects)
      BY <1>1, <2>1, <2>4, HereOrderly
    <3>3. C!Jump(C!After(C!Nearest(Selects)))
      BY <1>0, <2>1, <3>2, CExits
    <3>4. C!CExitSelect
      BY <1>0, <3>1, <3>3, CWords DEF C!CExitSelect
    <3> QED BY <3>4 DEF C!CNext
  <2> QED BY <2>2, <2>3, <2>4
<1>9. CASE ExecReturn
  BY <1>1, <1>9, CReturnStep DEF C!CNext
<1>10. CASE ExecGosubReturn
  BY <1>10, CGosubReturns DEF C!CNext
<1>11. CASE ExecGosub
  <2>1. AtItem({"gosub"})
    BY <1>11 DEF ExecGosub
  <2>2. TopLevelLabel(prog, Top.block, Here.arg)
    BY <1>1, <2>1, HereFacts, HereOrderly
  <2>3. Enter(Root(prog, Top.block), LabelIdx(prog, Root(prog, Top.block), Here.arg),
              "gosub", ThisCall)
    BY <1>11, <2>2 DEF ExecGosub, TopLevelLabel
  <2>4. C!Running({"gosub"}) /\ C!This = Here
    BY <2>1, CRunning
  <2>5. /\ Here.arg \in C!FnLabels(prog, pcBar.block)
        /\ C!PushReturn(C!After(pcBar))
        /\ pcBar' = C!LabelPos(prog, pcBar.block, Here.arg)
        /\ Machine'.calls = Machine.calls
    BY <1>0, <2>2, <2>3, CGosubs
  <2>6. C!CGosub
    BY <1>0, <2>4, <2>5 DEF C!CGosub
  <2> QED BY <2>6 DEF C!CNext
<1>12. CASE ExecGosubExpr
  <2>1. AtItem({"gosubexpr"})
    BY <1>12 DEF ExecGosubExpr
  <2> DEFINE b == Root(prog, Top.block)
             l == Here.arg
  <2>2. TopLevelLabel(prog, Top.block, l) /\ LabelPos(prog, Top.block, l).idx > 1
    BY <1>1, <2>1, HereFacts, HereOrderly
  <2>3. LabelAddress(l) + 1 = LabelIdx(prog, b, l)
    BY <1>0, <2>2, AddressFacts
  <2>4. LabelAddress(l) # 0
    <3>1. LabelPos(prog, Top.block, l) = At(b, LabelIdx(prog, b, l))
      BY <1>2, <2>2, TopLabelFacts
    <3>2. LabelIdx(prog, b, l) > 1
      BY <2>2, <3>1 DEF At
    <3> QED BY <2>3, <3>2
  <2>5. Enter(b, LabelIdx(prog, b, l), "gosub", ThisCall)
    BY <1>12, <2>3, <2>4 DEF ExecGosubExpr
  <2>6. C!Running({"gosubexpr"}) /\ C!This = Here
    BY <2>1, CRunning
  <2>7. /\ l \in C!FnLabels(prog, pcBar.block) /\ Len(Machine.gosubs) < GosubLimit
        /\ C!PushReturn(C!After(pcBar))
        /\ pcBar' = C!LabelPos(prog, pcBar.block, l)
        /\ Machine'.calls = Machine.calls
    BY <1>0, <2>2, <2>5, CGosubs
  <2>8. C!CGosubExpr
    BY <1>0, <2>6, <2>7 DEF C!CGosubExpr
  <2> QED BY <2>8 DEF C!CNext
<1>13. CASE ExecGotoExpr
  <2>1. AtItem({"gotoexpr"})
    BY <1>13 DEF ExecGotoExpr
  <2>2. TopLevelLabel(prog, Top.block, Here.arg) /\ GotoArrives(prog, PosOf(Top), Here.arg)
    BY <1>1, <2>1, HereFacts, HereOrderly
  <2>3. /\ Here.arg \in C!FnLabels(prog, pcBar.block)
        /\ C!Jump(C!LabelPos(prog, pcBar.block, Here.arg))
    BY <1>0, <1>13, <2>2, GotoExprLands, CGotos
  <2>4. C!Running({"gotoexpr"}) /\ C!This = Here
    BY <2>1, CRunning
  <2>5. C!CGotoExpr
    BY <1>0, <2>3, <2>4 DEF C!CGotoExpr
  <2> QED BY <2>5 DEF C!CNext
<1>14. CASE ExecCall
  <2>1. AtItem({"call"}) /\ Enter(Here.arg, 1, "call", Len(stack) + 1)
    BY <1>14 DEF ExecCall
  <2> DEFINE f == NewFrame(Here.arg, 1, "call")
  <2>2. pcBar' = At(Here.arg, 1) /\ Machine' = Pushed(Machine, f, After(pcBar))
    BY <1>0, <2>1, EnterEffect
  <2>3. f.via = "call"
    BY DEF NewFrame
  <2> HIDE DEF f
  <2>4. /\ Machine'.calls = Append(Machine.calls, [ret |-> After(pcBar),
                                                   base |-> Len(Machine.gosubs)])
        /\ Machine'.gosubs = Machine.gosubs
    BY <2>2, <2>3 DEF Pushed
  <2>5. Len(Machine.calls) < MaxDepth
    <3>1. Len(stack) < MaxDepth /\ Len(stack) \in Nat
      BY <1>0, <2>1, StackFacts DEF Enter
    <3>2. Len(Machine.calls) <= Len(stack) /\ Machine.calls \in Seq(CallC)
      BY <1>0, MachineShape DEF Shape
    <3>3. Len(Machine.calls) \in Nat
      BY <3>2
    <3> QED BY <3>1, <3>2, <3>3, MaxDepthAssumption
  <2>6. C!Running({"call"}) /\ C!This = Here
    BY <2>1, CRunning
  <2>7. C!CCall
    BY <1>0, <2>2, <2>4, <2>5, <2>6, CWords DEF C!CCall
  <2> QED BY <2>7 DEF C!CNext
<1>15. CASE ExecFault
  BY <1>15, CFaults DEF C!CNext
<1> QED BY <1>3, <1>4, <1>5, <1>6, <1>7, <1>8, <1>9, <1>10, <1>11, <1>12, <1>13,
           <1>14, <1>15 DEF Next

-----------------------------------------------------------------------------
(***************************************************************************)
(* The code of the LLVM back end.                                          *)
(***************************************************************************)
LEMMA LWords ==
  /\ L!Plain = Plain /\ L!Skippable = Skippable /\ L!Containers = Containers
  /\ L!Loops = Loops /\ L!Evaluating = Evaluating /\ L!TestedLoops = TestedLoops
  /\ \A p, pos : L!OpAt(p, pos) = OpAt(p, pos)
  /\ \A p, b : L!Root(p, b) = Root(p, b) /\ L!LabelsIn(p, b) = LabelsIn(p, b)
  /\ \A p, b, l : L!LabelIdx(p, b, l) = LabelIdx(p, b, l)
  /\ \A b, i : L!At(b, i) = At(b, i)
  /\ L!Nowhere = Nowhere
  /\ \A pos : L!After(pos) = After(pos)
<1>1. /\ L!Plain = Plain /\ L!Skippable = Skippable /\ L!Containers = Containers
      /\ L!Loops = Loops /\ L!Evaluating = Evaluating /\ L!TestedLoops = TestedLoops
  BY DEF L!Plain, Plain, L!Skippable, Skippable, L!Containers, Containers, L!Loops,
         Loops, L!Selects, Selects, L!Evaluating, Evaluating, L!TestedLoops, TestedLoops,
         L!RetestLoops, RetestLoops, L!DoLoops, DoLoops
<1>2. \A p, pos : L!OpAt(p, pos) = OpAt(p, pos)
  BY DEF L!OpAt, OpAt
<1>3. \A p, b : L!Root(p, b) = Root(p, b)
  BY DEF L!Root, Root
<1>4. \A p, b : L!LabelsIn(p, b) = LabelsIn(p, b)
  BY Zenon DEF L!LabelsIn, LabelsIn, L!IsLabel, IsLabel
<1>5. \A p, b, l : L!LabelIdx(p, b, l) = LabelIdx(p, b, l)
  BY Zenon DEF L!LabelIdx, LabelIdx, L!IsLabel, IsLabel
<1>6. /\ \A b, i : L!At(b, i) = At(b, i)
      /\ L!Nowhere = Nowhere
      /\ \A pos : L!After(pos) = After(pos)
  BY DEF L!At, At, L!Nowhere, Nowhere, L!After, After
<1> QED BY <1>1, <1>2, <1>3, <1>4, <1>5, <1>6

LEMMA LRunning ==
  ASSUME Inv, NEW ops, AtItem(ops)
  PROVE  /\ \A T : Here.op \in T => L!Running(T)
         /\ L!Running(ops) /\ L!This = Here
<1>1. stack # <<>> /\ Top.idx \in DOMAIN prog.code[Top.block] /\ Here.op \in ops
  BY HereFacts
<1>2. pcBar.block = Top.block /\ pcBar.idx = Top.idx /\ Machine.lcalls # <<>>
  BY <1>1, MachineShape DEF PosOf
<1>3. L!OpAt(prog, pcBar) = Here.op
  BY <1>2, LWords DEF OpAt, Here
<1>4. L!This = Here
  BY <1>2 DEF L!This, Here
<1> QED BY <1>1, <1>2, <1>3, <1>4 DEF L!Running

LEMMA LGoes ==
  ASSUME NEW q, pcBar' = q, Machine' = Machine, prog' = prog
  PROVE  L!Go(q)
BY DEF L!Go

LEMMA LReturns ==
  ASSUME Inv, Inv', stack # <<>>, prog' = prog, ArmDone(ThisCall - 1)
  PROVE  L!ReturnFromFunction
<1>1. CASE ThisCall = 1
  <2>1. Len(Machine.lcalls) = 1 /\ pcBar' = Nowhere /\ Machine' = Nothing
    BY <1>1, ReturnEffect
  <2>2. L!Exit
    BY <2>1, LWords DEF L!Exit, Nothing
  <2> QED BY <2>1, <2>2 DEF L!ReturnFromFunction
<1>2. CASE ThisCall # 1
  <2>1. /\ Len(Machine.lcalls) # 1
        /\ pcBar' = Machine.lcalls[Len(Machine.lcalls)].ret
        /\ Machine'.lcalls = Front(Machine.lcalls)
    BY <1>2, ReturnEffect
  <2> QED BY <2>1 DEF L!ReturnFromFunction, L!ThisCall, Front
<1> QED BY <1>1, <1>2

\* A function with a label at its top level is a state machine.
LEMMA LStateMachine ==
  ASSUME NEW l, l \in LabelsIn(prog, Root(prog, pcBar.block))
  PROVE  L!StateMachine
<1> DEFINE body == prog.code[Root(prog, pcBar.block)]
<1>1. PICK i \in DOMAIN body : body[i].op = "label"
  BY DEF LabelsIn, IsLabel
<1>2. body[i].op \in L!Jumps \cup {"label", "gosubreturn"}
  BY <1>1
<1> QED BY <1>2, LWords DEF L!StateMachine

LEMMA LFaults ==
  ASSUME Inv, ExecFault
  PROVE  L!LFault
<1>1. stack' = <<>> /\ prog' = prog
  BY DEF ExecFault, RuntimeError
<1>2. L!Exit
  BY <1>1, EmptyEffect, LWords DEF L!Exit, Nothing
<1>3. CASE AtItem(Evaluating)
  <2>1. L!Running(L!Evaluating)
    BY <1>3, LRunning, LWords
  <2> QED BY <1>2, <2>1 DEF L!LFault
<1>4. CASE /\ stack # <<>> /\ Top.via = "block"
           /\ Top.idx > Len(prog.code[Top.block])
           /\ Arm(Len(stack) - 1).op \in TestedLoops
  <2>1. /\ prog.path[pcBar.block] # <<>>
        /\ OpAt(prog, prog.path[pcBar.block][Len(prog.path[pcBar.block])]) \in TestedLoops
    BY <1>4, UpFacts
  <2>2. Machine.lcalls # <<>>
    BY <1>4, MachineShape
  <2>3. pcBar.idx \notin DOMAIN prog.code[pcBar.block]
    <3>1. prog \in Corpus /\ Top.block \in Block /\ Top.idx \in Nat
      BY <1>4, StackFacts
    <3>2. Top.idx \notin DOMAIN prog.code[Top.block]
      BY <1>4, <3>1, ProgramFacts
    <3> QED BY <1>4, <3>2 DEF pcBar, PosOf
  <2>4. L!OpAt(prog, prog.path[pcBar.block][Len(prog.path[pcBar.block])]) \in L!TestedLoops
    BY <2>1, LWords
  <2> QED BY <1>2, <2>1, <2>2, <2>3, <2>4 DEF L!LFault
<1> QED BY <1>3, <1>4 DEF ExecFault

LEMMA LEnds ==
  ASSUME Inv, Inv', Tidy, EndOfItems
  PROVE  L!LEndOfItems
<1> DEFINE path == prog.path[pcBar.block]
           up == path[Len(path)]
<1>1. /\ stack # <<>> /\ pcBar.idx \notin DOMAIN prog.code[pcBar.block]
      /\ path = <<>> => stack[Base].via = "call" /\ ArmDone(ThisCall - 1)
      /\ path # <<>> =>
           /\ Machine' = Machine
           /\ IF OpAt(prog, up) \in Loops
              THEN \/ \E b \in prog.code[up.block][up.idx].body : pcBar' = At(b, 1)
                   \/ OpAt(prog, up) # "do" /\ pcBar' = After(up)
              ELSE pcBar' = After(up)
  BY EndEffect
<1>2. Machine.lcalls # <<>> /\ prog' = prog
  BY <1>1, MachineShape DEF EndOfItems
<1> HIDE DEF path
<1>3. /\ path = <<>> => L!ReturnFromFunction
      /\ path # <<>> =>
           IF L!OpAt(prog, up) \in L!Loops
           THEN \/ \E b \in prog.code[up.block][up.idx].body : L!Go(L!At(b, 1))
                \/ L!OpAt(prog, up) # "do" /\ L!Go(L!After(up))
           ELSE L!Go(L!After(up))
  <2>1. CASE path = <<>>
    BY <1>1, <1>2, <2>1, LReturns
  <2>2. CASE path # <<>>
    <3>1. Machine' = Machine
      BY <1>1, <2>2
    <3>2. ASSUME pcBar' = After(up) PROVE L!Go(L!After(up))
      BY <1>2, <3>1, <3>2, LGoes, LWords
    <3>3. ASSUME NEW b, pcBar' = At(b, 1) PROVE L!Go(L!At(b, 1))
      BY <1>2, <3>1, <3>3, LGoes, LWords
    <3>4. L!OpAt(prog, up) = OpAt(prog, up) /\ L!Loops = Loops
      BY LWords
    <3> QED BY <1>1, <2>2, <3>2, <3>3, <3>4
  <2> QED BY <2>1, <2>2
<1> QED BY <1>1, <1>2, <1>3 DEF L!LEndOfItems, path

\* The running function is a state machine while one of its GOSUBs is active.
LEMMA LGosubMachine ==
  ASSUME Inv, stack # <<>>, PortableLlvm(prog), stack[Base].via = "gosub"
  PROVE  L!StateMachine
<1>1. PICK pos \in InFn(prog, Top.block) : OpAt(prog, pos) \in {"gosub", "gosubexpr"}
  BY GosubUsed
<1>2. pos \in Positions(prog) /\ Root(prog, pos.block) = Root(prog, Top.block)
  BY <1>1 DEF InFn
<1>3. TopLevelLabel(prog, pos.block, ArgAt(prog, pos))
  BY <1>1, <1>2 DEF PortableLlvm
<1>4. ArgAt(prog, pos) \in LabelsIn(prog, Root(prog, pcBar.block))
  BY <1>2, <1>3 DEF TopLevelLabel, pcBar, PosOf
<1> QED BY <1>4, LStateMachine

LEMMA LGosubReturns ==
  ASSUME Inv, Inv', PortableLlvm(prog), ExecGosubReturn
  PROVE  L!LGosubReturn
<1>1. /\ AtItem({"gosubreturn"}) /\ stack # <<>> /\ prog' = prog
      /\ ArmDone(Base - 1)
  BY GosubReturnLands DEF ExecGosubReturn, AtItem
<1>2. L!Running({"gosubreturn"})
  BY <1>1, LRunning
<1> DEFINE N == Len(Machine.lcalls)
           rets == Machine.lcalls[N].rets
<1>3. CASE stack[Base].via = "gosub"
  <2>1. /\ rets # <<>> /\ pcBar' = rets[Len(rets)]
        /\ Machine'.lcalls = [Machine.lcalls EXCEPT ![N].rets = Front(rets)]
    BY <1>1, <1>3, PopEffect
  <2>2. L!StateMachine
    BY <1>1, <1>3, LGosubMachine
  <2>3. L!ThisCall.rets = rets
    BY DEF L!ThisCall
  <2> QED BY <1>1, <1>2, <2>1, <2>2, <2>3 DEF L!LGosubReturn, L!Rets, Front
<1>4. CASE stack[Base].via = "call"
  <2>1. Base = ThisCall /\ rets = <<>>
    BY <1>1, <1>4, NoPop
  <2>2. L!ReturnFromFunction
    BY <1>1, <2>1, LReturns
  <2>3. L!ThisCall.rets = <<>>
    BY <2>1 DEF L!ThisCall
  <2> QED BY <1>2, <2>2, <2>3 DEF L!LGosubReturn
<1> QED BY <1>1, <1>3, <1>4, GosubUsed

\* GOTO to a top-level label.
LEMMA LGotos ==
  ASSUME Inv, Inv', stack # <<>>, prog' = prog, NEW l,
         TopLevelLabel(prog, Top.block, l),
         \E k \in Base..Len(stack) :
           /\ k \in 1..Len(stack) /\ l \in LabelsIn(prog, stack[k].block)
           /\ Resume(k, LabelIdx(prog, stack[k].block, l))
  PROVE  L!StateMachine /\ L!Dispatch(l, L!ThisCall.rets)
<1> DEFINE b == Root(prog, pcBar.block)
           N == Len(Machine.lcalls)
           q == Machine.lcalls
<1>1. Top.block \in Block /\ prog \in Corpus /\ pcBar.block = Top.block
  BY StackFacts DEF pcBar, PosOf
<1>2. /\ l \in LabelsIn(prog, b)
      /\ LabelPos(prog, pcBar.block, l) = At(b, LabelIdx(prog, b, l))
  BY <1>1, TopLabelFacts
<1>3. pcBar' = At(b, LabelIdx(prog, b, l)) /\ Machine' = Machine
  BY <1>2, GotoEffect
<1>4. [q EXCEPT ![N].rets = q[N].rets] = q
  <2>1. q \in Seq(CallL) /\ N \in DOMAIN q
    <3>1. q \in Seq(CallL) /\ q # <<>>
      BY MachineShape DEF Shape
    <3> QED BY <3>1
  <2>2. q[N] \in CallL
    BY <2>1
  <2>3. [q[N] EXCEPT !.rets = q[N].rets] = q[N]
    BY <2>2 DEF CallL
  <2>4. [q EXCEPT ![N].rets = q[N].rets] = [q EXCEPT ![N] = [q[N] EXCEPT !.rets = q[N].rets]]
    OBVIOUS
  <2>5. [q EXCEPT ![N] = q[N]] = q
    <3> HIDE DEF q, N
    <3> QED BY <2>1
  <2> QED BY <2>3, <2>4, <2>5
<1>5. Machine'.lcalls = L!Rets(L!ThisCall.rets)
  BY <1>3, <1>4 DEF L!Rets, L!ThisCall
<1>6. L!Dispatch(l, L!ThisCall.rets)
  <2>1. l \in L!LabelsIn(prog, L!Root(prog, pcBar.block))
    BY <1>2, LWords
  <2>2. pcBar' = L!At(L!Root(prog, pcBar.block),
                      L!LabelIdx(prog, L!Root(prog, pcBar.block), l))
    BY <1>3, LWords
  <2> QED BY <1>5, <2>1, <2>2 DEF L!Dispatch
<1>7. L!StateMachine
  BY <1>2, LStateMachine
<1> QED BY <1>6, <1>7

LEMMA LGosubs ==
  ASSUME Inv, Inv', stack # <<>>, prog' = prog, Roomy, NEW l,
         TopLevelLabel(prog, Top.block, l),
         Enter(Root(prog, Top.block), LabelIdx(prog, Root(prog, Top.block), l),
               "gosub", ThisCall)
  PROVE  /\ L!StateMachine /\ Len(L!ThisCall.rets) < GosubLimit
         /\ L!Dispatch(l, Append(L!ThisCall.rets, L!After(pcBar)))
<1> DEFINE b == Root(prog, pcBar.block)
           N == Len(Machine.lcalls)
           rets == Machine.lcalls[N].rets
<1>1. /\ pcBar' = At(b, LabelIdx(prog, b, l)) /\ l \in LabelsIn(prog, b)
      /\ Machine'.lcalls = [Machine.lcalls EXCEPT ![N].rets = Append(@, After(pcBar))]
      /\ Len(stack) < MaxDepth
  BY SubEffect
<1>2. Len(rets) < Len(stack) /\ Len(rets) \in Nat /\ Len(stack) \in Nat
  <2>1. Len(stack) \in Nat \ {0}
    BY StackFacts
  <2>2. Len(rets) < Len(stack) /\ Machine.lcalls \in Seq(CallL) /\ Machine.lcalls # <<>>
    BY <2>1, MachineShape DEF Shape
  <2>3. Machine.lcalls[N] \in CallL
    BY <2>2
  <2>4. rets \in Seq(Pos)
    BY <2>3 DEF CallL
  <2>5. Len(rets) \in Nat
    BY <2>4
  <2> QED BY <2>1, <2>2, <2>5
<1>3. L!ThisCall.rets = rets
  BY DEF L!ThisCall
<1>4. Len(rets) < GosubLimit
  <2> HIDE DEF rets
  <2> QED BY <1>1, <1>2, MaxDepthAssumption DEF Roomy
<1>5. Machine'.lcalls = L!Rets(Append(L!ThisCall.rets, L!After(pcBar)))
  BY <1>1, LWords DEF L!Rets, L!ThisCall
<1>6. L!Dispatch(l, Append(L!ThisCall.rets, L!After(pcBar)))
  <2>1. l \in L!LabelsIn(prog, L!Root(prog, pcBar.block))
    BY <1>1, LWords
  <2>2. pcBar' = L!At(L!Root(prog, pcBar.block),
                      L!LabelIdx(prog, L!Root(prog, pcBar.block), l))
    BY <1>1, LWords
  <2> QED BY <1>5, <2>1, <2>2 DEF L!Dispatch
<1>7. L!StateMachine
  BY <1>1, LStateMachine
<1> QED BY <1>3, <1>4, <1>6, <1>7

LEMMA LStep ==
  ASSUME Inv, Inv', prog \in ForLlvm, Tidy, Roomy, Next
  PROVE  L!LNext
<1>0. prog' = prog /\ stack # <<>>
  BY DEF Next, ExecPlain, EnterBody, SkipBody, EndOfItems, ExecGoto, ExecExit,
         ExecReturn, ExecGosubReturn, ExecGosub, ExecGosubExpr, ExecGotoExpr,
         ExecCall, ExecFault, AtItem
<1>1. PortableLlvm(prog) /\ Orderly(prog)
  BY PortableOrderly DEF ForLlvm
<1>2. /\ Top.block \in Block /\ prog \in Corpus /\ pcBar.block = Top.block
      /\ Machine.lcalls # <<>>
  BY <1>0, StackFacts, MachineShape DEF PosOf
<1>3. ASSUME NEW ops, AtItem(ops)
      PROVE  /\ Here.op \notin {"exitloop", "exitselect", "stop", "gotoexpr", "gosubexpr"}
             /\ Here.op \in ops
             /\ Here.op = "goto" => TopLevelLabel(prog, Top.block, Here.arg)
                                    /\ GotoArrives(prog, PosOf(Top), Here.arg)
             /\ Here.op = "gosub" => TopLevelLabel(prog, Top.block, Here.arg)
  BY <1>1, <1>3, HereAt, HereFacts DEF PortableLlvm
<1>4. CASE ExecPlain
  <2>1. L!Running(L!Plain \cup {"exitloop", "exitselect", "stop"})
    <3>1. AtItem(Plain) /\ Here.op \in Plain
      BY <1>3, <1>4 DEF ExecPlain
    <3>2. Here.op \in L!Plain \cup {"exitloop", "exitselect", "stop"}
      BY <3>1, LWords
    <3> QED BY <3>1, <3>2, LRunning
  <2>2. L!Go(L!After(pcBar))
    BY <1>0, <1>4, HereDoneEffect, LGoes, LWords DEF ExecPlain
  <2>3. L!LPlain
    BY <2>1, <2>2 DEF L!LPlain
  <2> QED BY <2>3 DEF L!LNext
<1>5. CASE SkipBody
  <2>1. L!Running(L!Skippable)
    BY <1>5, LRunning, LWords DEF SkipBody
  <2>2. L!Go(L!After(pcBar))
    BY <1>0, <1>5, HereDoneEffect, LGoes, LWords DEF SkipBody
  <2>3. L!LSkipBody
    BY <2>1, <2>2 DEF L!LSkipBody
  <2> QED BY <2>3 DEF L!LNext
<1>6. CASE EnterBody
  <2>1. AtItem(Containers)
    BY <1>6 DEF EnterBody
  <2>2. PICK b \in Here.body : Enter(b, 1, "block", ThisCall)
    BY <1>6 DEF EnterBody
  <2>3. L!Running(L!Containers) /\ L!This = Here
    BY <2>1, LRunning, LWords
  <2> DEFINE f == NewFrame(b, 1, "block")
  <2>4. pcBar' = At(b, 1) /\ Machine' = Pushed(Machine, f, After(pcBar))
    BY <1>0, <2>2, EnterEffect
  <2>5. f.via = "block"
    BY DEF NewFrame
  <2> HIDE DEF f
  <2>6. Machine' = Machine
    BY <2>4, <2>5 DEF Pushed
  <2>7. L!Go(L!At(b, 1))
    BY <1>0, <2>4, <2>6, LGoes, LWords
  <2>8. L!LEnterBody
    BY <2>3, <2>7 DEF L!LEnterBody
  <2> QED BY <2>8 DEF L!LNext
<1>7. CASE EndOfItems
  BY <1>7, LEnds DEF L!LNext
<1>8. CASE ExecGoto
  <2>1. AtItem({"goto"}) /\ GotoLabel(Here.arg)
    BY <1>8 DEF ExecGoto
  <2>2. TopLevelLabel(prog, Top.block, Here.arg) /\ GotoArrives(prog, PosOf(Top), Here.arg)
    BY <1>3, <2>1
  <2>3. L!StateMachine /\ L!Dispatch(Here.arg, L!ThisCall.rets)
    BY <1>0, <2>1, <2>2, GotoLands, LGotos
  <2>4. L!Running({"goto"}) /\ L!This = Here
    BY <2>1, LRunning
  <2>5. L!LGoto
    BY <2>3, <2>4 DEF L!LGoto
  <2> QED BY <2>5 DEF L!LNext
<1>9. CASE ExecExit
  BY <1>3, <1>9 DEF ExecExit
<1>10. CASE ExecReturn
  <2>1. AtItem({"return", "stop"}) /\ ArmDone(ThisCall - 1)
    BY <1>0, <1>10, ReturnLands DEF ExecReturn
  <2>2. L!Running({"return"})
    <3>1. Here.op \in {"return"}
      BY <1>3, <2>1
    <3> QED BY <2>1, <3>1, LRunning
  <2>3. L!ReturnFromFunction
    BY <1>0, <2>1, LReturns
  <2>4. L!LReturn
    BY <2>2, <2>3 DEF L!LReturn
  <2> QED BY <2>4 DEF L!LNext
<1>11. CASE ExecGosubReturn
  BY <1>1, <1>11, LGosubReturns DEF L!LNext
<1>12. CASE ExecGosub
  <2>1. AtItem({"gosub"})
    BY <1>12 DEF ExecGosub
  <2>2. TopLevelLabel(prog, Top.block, Here.arg)
    BY <1>3, <2>1
  <2>3. Enter(Root(prog, Top.block), LabelIdx(prog, Root(prog, Top.block), Here.arg),
              "gosub", ThisCall)
    BY <1>12, <2>2 DEF ExecGosub, TopLevelLabel
  <2>4. L!Running({"gosub"}) /\ L!This = Here
    BY <2>1, LRunning
  <2>5. /\ L!StateMachine /\ Len(L!ThisCall.rets) < GosubLimit
        /\ L!Dispatch(Here.arg, Append(L!ThisCall.rets, L!After(pcBar)))
    BY <1>0, <2>2, <2>3, LGosubs
  <2>6. L!LGosub
    BY <2>4, <2>5 DEF L!LGosub
  <2> QED BY <2>6 DEF L!LNext
<1>13. CASE ExecGosubExpr
  BY <1>3, <1>13 DEF ExecGosubExpr
<1>14. CASE ExecGotoExpr
  BY <1>3, <1>14 DEF ExecGotoExpr
<1>15. CASE ExecCall
  <2>1. AtItem({"call"}) /\ Enter(Here.arg, 1, "call", Len(stack) + 1)
    BY <1>15 DEF ExecCall
  <2> DEFINE f == NewFrame(Here.arg, 1, "call")
  <2>2. pcBar' = At(Here.arg, 1) /\ Machine' = Pushed(Machine, f, After(pcBar))
    BY <1>0, <2>1, EnterEffect
  <2>3. f.via = "call"
    BY DEF NewFrame
  <2> HIDE DEF f
  <2>4. Machine'.lcalls = Append(Machine.lcalls, [ret |-> After(pcBar), rets |-> <<>>])
    BY <2>2, <2>3 DEF Pushed
  <2>5. Len(Machine.lcalls) < MaxDepth
    <3>1. Len(stack) < MaxDepth /\ Len(stack) \in Nat
      BY <1>0, <2>1, StackFacts DEF Enter
    <3>2. /\ Len(Machine.calls) <= Len(stack) /\ Machine.calls \in Seq(CallC)
          /\ Len(Machine.lcalls) = Len(Machine.calls)
      BY <1>0, MachineShape DEF Shape
    <3>3. Len(Machine.calls) \in Nat
      BY <3>2
    <3> QED BY <3>1, <3>2, <3>3, MaxDepthAssumption
  <2>6. L!Running({"call"}) /\ L!This = Here
    BY <2>1, LRunning
  <2>7. L!LCall
    BY <1>0, <2>2, <2>4, <2>5, <2>6, LWords DEF L!LCall
  <2> QED BY <2>7 DEF L!LNext
<1>16. CASE ExecFault
  BY <1>16, LFaults DEF L!LNext
<1> QED BY <1>4, <1>5, <1>6, <1>7, <1>8, <1>9, <1>10, <1>11, <1>12, <1>13,
           <1>14, <1>15, <1>16 DEF Next

-----------------------------------------------------------------------------
(***************************************************************************)
(* The refinements.                                                        *)
(***************************************************************************)
LEMMA InitTidy ==
  ASSUME Init, Orderly(prog)
  PROVE  Tidy
<1> DEFINE f == NewFrame(Main, 1, "call")
<1>1. /\ f.idx = 1 /\ f.cur = 1 /\ f.block = Main /\ f.via = "call"
      /\ stack = <<f>> /\ prog \in Corpus
  BY DEF Init, NewFrame
<1> HIDE DEF f
<1>2. Len(stack) = 1 /\ stack[1] = f
  BY <1>1
<1>3. ASSUME UsesGosub(prog, Main)
      PROVE  1 <= Len(prog.code[Main])
  <2>1. prog.path[Main] = <<>> /\ prog.code[Main] \in Seq(Item)
    BY <1>1, ProgramFacts, NamesAssumption
  <2>2. prog.code[Main] # <<>>
    BY <1>3, <2>1, NamesAssumption DEF Orderly, SubsEnd
  <2> QED BY <2>1, <2>2
<1>4. ASSUME NEW l \in LabelsIn(prog, Main)
      PROVE  addrs[1][l] = LabelIdx(prog, Main, l) - 1
  <2>1. l \in Label /\ 1 \in 1..MaxDepth
    BY <1>4, MaxDepthAssumption DEF LabelsIn
  <2>2. addrs[1] = Register(NoAddrs, Main)
    BY <2>1 DEF Init
  <2> QED BY <1>4, <2>1, <2>2 DEF Register
<1>5. \A j \in 1..Len(stack) : j = 1
  BY <1>2
<1> QED BY <1>1, <1>2, <1>3, <1>4, <1>5 DEF Tidy, AtTheirItems, InsideTheirBody,
                                        AddressesKnown, Items

RInv == Inv /\ (Orderly(prog) => Tidy)

LEMMA RInvariant == Spec => []RInv
<1>1. Init => RInv
  BY InitInv, InitTidy DEF RInv
<1>2. RInv /\ [Next]_vars => RInv'
  <2> SUFFICES ASSUME RInv, [Next]_vars PROVE RInv'
    OBVIOUS
  <2>1. CASE Next
    <3>1. Inv' /\ prog' = prog
      BY <2>1, ArmsInv DEF RInv, Next, ExecPlain, EnterBody, SkipBody, EndOfItems,
         ExecGoto, ExecExit, ExecReturn, ExecGosubReturn, ExecGosub, ExecGosubExpr,
         ExecGotoExpr, ExecCall, ExecFault
    <3>2. ASSUME Orderly(prog) PROVE Tidy'
      BY <2>1, <3>1, <3>2, TidyStep DEF RInv
    <3> QED BY <3>1, <3>2 DEF RInv
  <2>2. CASE UNCHANGED vars
    <3>1. Inv'
      BY <2>2 DEF RInv, vars, Inv, TypeOK, StackNested, StartedBy, Items, Arm, Top
    <3>2. Tidy => Tidy'
      BY <2>2 DEF vars, Tidy, AtTheirItems, InsideTheirBody, AddressesKnown, Items
    <3> QED BY <2>2, <3>1, <3>2 DEF RInv, vars
  <2> QED BY <2>1, <2>2
<1> QED BY <1>1, <1>2, PTL DEF Spec

LEMMA StandsStill ==
  ASSUME UNCHANGED vars
  PROVE  prog' = prog /\ pcBar' = pcBar /\ Machine' = Machine
BY DEF vars, pcBar, Top, Machine

LEMMA InitStands ==
  ASSUME Init
  PROVE  /\ prog \in Corpus /\ pcBar = At(Main, 1)
         /\ Machine.calls = <<[ret |-> Nowhere, base |-> 0]>>
         /\ Machine.gosubs = <<>>
         /\ Machine.lcalls = <<[ret |-> Nowhere, rets |-> <<>>]>>
<1> DEFINE f == NewFrame(Main, 1, "call")
<1>1. f \in Frame /\ f.via = "call" /\ PosOf(f) = At(Main, 1)
  BY NamesAssumption DEF Frame, NewFrame, PosOf, At
<1>2. stack = <<f>> /\ prog \in Corpus
  BY DEF Init
<1> HIDE DEF f
<1>3. stack \in Seq(Frame) /\ Len(stack) = 1 /\ stack[1] = f /\ stack # <<>>
  BY <1>1, <1>2
<1>4. pcBar = At(Main, 1)
  BY <1>1, <1>3 DEF pcBar, Top
<1>5. StandsFor(stack)[1] = Pushed(Nothing, f, Nowhere)
  <2>1. StandsFor(stack)[1] = Pushed(StandsFor(stack)[1-1], stack[1], Caller(stack, 1))
        /\ StandsFor(stack)[0] = Nothing
    BY <1>3, StandsForSteps
  <2> QED BY <1>3, <2>1 DEF Caller
<1>6. Machine = [calls |-> Append(<<>>, [ret |-> Nowhere, base |-> Len(<<>>)]),
                 gosubs |-> <<>>,
                 lcalls |-> Append(<<>>, [ret |-> Nowhere, rets |-> <<>>])]
  BY <1>1, <1>3, <1>5 DEF Machine, Pushed, Nothing
<1>7. Len(<<>>) = 0 /\ \A v : Append(<<>>, v) = <<v>>
  OBVIOUS
<1> QED BY <1>2, <1>4, <1>6, <1>7

(***************************************************************************)
(* On every program of the class ForC each step of exec_items is a step of *)
(* the C that c_emit_stmt.rs writes for it, whatever the programs and      *)
(* however deep the stack, as long as the 256 entries of xb_gosub_stack    *)
(* suffice for the depth considered.                                       *)
(***************************************************************************)
THEOREM InterpreterRefinesC ==
  ASSUME GosubLimit \in Nat, MaxDepth <= GosubLimit + 1
  PROVE  Spec => RefinesC
<1>1. Init => (prog \in ForC => C!CInit)
  <2> SUFFICES ASSUME Init PROVE C!CInit
    OBVIOUS
  <2> QED BY InitStands, CWords DEF C!CInit, C!Corpus, Corpus
<1>2. RInv /\ RInv' /\ [Next]_vars => [(prog \in ForC) => C!CNext]_(C!cvars)
  <2> SUFFICES ASSUME RInv, RInv', [Next]_vars
               PROVE  ((prog \in ForC) => C!CNext) \/ UNCHANGED C!cvars
    OBVIOUS
  <2>1. CASE Next
    <3>1. ASSUME prog \in ForC PROVE C!CNext
      BY <2>1, <3>1, CStep, PortableOrderly DEF RInv, Roomy
    <3> QED BY <3>1
  <2>2. CASE UNCHANGED vars
    BY <2>2, StandsStill DEF C!cvars
  <2> QED BY <2>1, <2>2
<1> QED BY <1>1, <1>2, RInvariant, PTL DEF Spec, RefinesC

(***************************************************************************)
(* The same for the LLVM back end: on the programs of ForLlvm its state    *)
(* machine "mirrors the interpreter's index-based exec_items"              *)
(* (emit_body_sm), one step for each, as long as the 256 entries of        *)
(* retstack suffice for the depth considered.                              *)
(***************************************************************************)
THEOREM InterpreterRefinesLlvm ==
  ASSUME GosubLimit \in Nat, MaxDepth <= GosubLimit + 1
  PROVE  Spec => RefinesLlvm
<1>1. Init => (prog \in ForLlvm => L!LInit)
  <2> SUFFICES ASSUME Init PROVE L!LInit
    OBVIOUS
  <2> QED BY InitStands, LWords DEF L!LInit, L!Corpus, Corpus
<1>2. RInv /\ RInv' /\ [Next]_vars => [(prog \in ForLlvm) => L!LNext]_(L!lvars)
  <2> SUFFICES ASSUME RInv, RInv', [Next]_vars
               PROVE  ((prog \in ForLlvm) => L!LNext) \/ UNCHANGED L!lvars
    OBVIOUS
  <2>1. CASE Next
    <3>1. ASSUME prog \in ForLlvm PROVE L!LNext
      BY <2>1, <3>1, LStep, PortableOrderly DEF RInv, Roomy
    <3> QED BY <3>1
  <2>2. CASE UNCHANGED vars
    BY <2>2, StandsStill DEF L!lvars
  <2> QED BY <2>1, <2>2
<1> QED BY <1>1, <1>2, RInvariant, PTL DEF Spec, RefinesLlvm
=============================================================================
