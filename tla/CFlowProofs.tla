----------------------------- MODULE CFlowProofs -----------------------------
(***************************************************************************)
(* Proofs about CFlow, for every set of programs that compile and every    *)
(* size of the GOSUB stack: the stack stays within its array and above the *)
(* heights noted by the active functions, and no function disturbs the     *)
(* return labels of its callers.                                           *)
(***************************************************************************)
EXTENDS CFlow, WellFoundedInduction, TLAPS

-----------------------------------------------------------------------------
(* Facts about programs *)

(***************************************************************************)
(* A non-empty set of depths has an innermost member, so the CHOOSE in     *)
(* Innermost is never empty-handed.                                        *)
(***************************************************************************)
LEMMA InnermostExists ==
  ASSUME NEW N \in Nat, NEW T, T \subseteq 0..N, T # {}
  PROVE  /\ Innermost(T) \in T
         /\ \A j \in T : j <= Innermost(T)
<1> DEFINE D == {N - j : j \in T}
           R == OpToRel(<, Nat)
<1>1. D \subseteq Nat /\ D # {}
  OBVIOUS
<1>2. PICK d \in D : \A e \in D : ~(<<e, d>> \in R)
  BY <1>1, NatLessThanWellFounded, WFMin
<1>3. \A e \in D : ~(e < d)
  BY <1>1, <1>2 DEF OpToRel
<1>4. PICK k \in T : d = N - k
  OBVIOUS
<1>5. ASSUME NEW j \in T PROVE j <= k
  <2>1. N - j \in D
    OBVIOUS
  <2>2. ~(N - j < N - k)
    BY <1>3, <1>4, <2>1
  <2>3. j \in 0..N /\ k \in 0..N
    OBVIOUS
  <2> HIDE DEF D
  <2> QED
    BY <2>2, <2>3
<1>6. \E m \in T : \A j \in T : j <= m
  BY <1>5
<1> QED
  BY <1>6 DEF Innermost

\* The parts of a program that the proofs use.
LEMMA ProgramFacts ==
  ASSUME NEW p \in Corpus
  PROVE  /\ \A b \in Block : /\ p.code[b] \in Seq(Item)
                             /\ Len(p.code[b]) \in Nat
                             /\ DOMAIN p.code[b] = 1..Len(p.code[b])
                             /\ Root(p, b) \in Block
                             /\ \A i \in DOMAIN p.code[b] :
                                  /\ p.code[b][i] \in Item
                                  /\ p.code[b][i].body \subseteq Block
         /\ p.path[Main] = <<>>
<1>1. p \in Program /\ WellFormed(p)
  BY ProgramsAssumption
<1>2. p.code \in [Block -> Seq(Item)] /\ p.path \in [Block -> Seq(Pos)]
  BY <1>1 DEF Program
<1>3. p.path[Main] = <<>>
  BY <1>1 DEF WellFormed
<1>4. ASSUME NEW b \in Block
      PROVE  /\ p.code[b] \in Seq(Item)
             /\ Len(p.code[b]) \in Nat
             /\ DOMAIN p.code[b] = 1..Len(p.code[b])
             /\ \A i \in DOMAIN p.code[b] :
                  /\ p.code[b][i] \in Item
                  /\ p.code[b][i].body \subseteq Block
  <2>1. p.code[b] \in Seq(Item)
    BY <1>2
  <2>2. \A i \in DOMAIN p.code[b] : p.code[b][i] \in Item
    BY <2>1
  <2>3. \A it \in Item : it.body \subseteq Block
    BY DEF Item
  <2> QED
    BY <2>1, <2>2, <2>3
<1>5. ASSUME NEW b \in Block
      PROVE  Root(p, b) \in Block
  <2>1. CASE p.path[b] = <<>>
    BY <2>1 DEF Root
  <2>2. CASE p.path[b] # <<>>
    <3>1. p.path[b] \in Seq(Pos) /\ Len(p.path[b]) > 0
      BY <1>2, <2>2
    <3>2. p.path[b][1] \in Pos
      BY <3>1
    <3> QED
      BY <2>2, <3>2 DEF Root, Pos
  <2> QED
    BY <2>1, <2>2
<1> QED
  BY <1>3, <1>4, <1>5

\* A label of a block sits at one of its indices.
LEMMA LabelIdxType ==
  ASSUME NEW p \in Corpus, NEW b \in Block, NEW l \in LabelsIn(p, b)
  PROVE  LabelIdx(p, b, l) \in 1..Len(p.code[b])
<1>1. \E i \in DOMAIN p.code[b] : IsLabel(p, b, i, l)
  BY DEF LabelsIn
<1> QED
  BY <1>1, ProgramFacts DEF LabelIdx

\* A label of a function has a position in it.
LEMMA LabelPosType ==
  ASSUME NEW p \in Corpus, NEW b \in Block, NEW l \in FnLabels(p, b)
  PROVE  LabelPos(p, b, l) \in Pos
<1> DEFINE Home(c) == Root(p, c) = Root(p, b) /\ l \in LabelsIn(p, c)
           home == CHOOSE c \in Block : Home(c)
<1>1. \E c \in Block : Home(c)
  BY DEF FnLabels
<1>2. home \in Block /\ Home(home)
  BY <1>1
<1>3. LabelIdx(p, home, l) \in 1..Len(p.code[home])
  BY <1>2, LabelIdxType
<1>4. Len(p.code[home]) \in Nat
  BY <1>2, ProgramFacts
<1>5. LabelIdx(p, home, l) \in Nat
  BY <1>3, <1>4
<1>6. LabelPos(p, b, l) = [block |-> home, idx |-> LabelIdx(p, home, l)]
  BY DEF LabelPos
<1> QED
  BY <1>2, <1>5, <1>6 DEF Pos

-----------------------------------------------------------------------------

\* The inductive invariant: soundness of the stack needs the types.
CInv == CTypeOK /\ GosubStackSound

\* The item at pc, and the position after it.
LEMMA ThisFacts ==
  ASSUME CInv, NEW ops, Running(ops)
  PROVE  /\ prog \in Corpus /\ pc \in Pos /\ pc.block \in Block
         /\ calls # <<>> /\ Len(calls) \in Nat \ {0}
         /\ This \in Item /\ This.op \in ops /\ This.body \subseteq Block
         /\ ItemOK(prog, This)
         /\ After(pc) \in Pos
<1>1. prog \in Corpus /\ pc \in Pos /\ calls # <<>> /\ calls \in Seq(Call)
  BY DEF CInv, CTypeOK, Running
<1>2. pc.block \in Block /\ pc.idx \in Nat /\ pc.idx \in DOMAIN prog.code[pc.block]
  BY <1>1 DEF Pos, Running
<1>3. This \in Item /\ This.body \subseteq Block
  BY <1>1, <1>2, ProgramFacts DEF This
<1>4. ItemOK(prog, This)
  BY <1>1, <1>2, ProgramsAssumption DEF WellFormed, This
<1>5. After(pc) \in Pos
  BY <1>2 DEF After, At, Pos
<1> QED
  BY <1>1, <1>2, <1>3, <1>4, <1>5 DEF Running, OpAt, This

\* `break` and EXIT SELECT have somewhere to go.
LEMMA NearestType ==
  ASSUME CInv, NEW ops, calls # <<>>, Enclosing(prog, pc.block, ops) # {}
  PROVE  After(Nearest(ops)) \in Pos
<1> DEFINE path == prog.path[pc.block]
           D == Enclosing(prog, pc.block, ops)
<1>1. prog \in Program /\ pc.block \in Block
  BY ProgramsAssumption DEF CInv, CTypeOK, Pos
<1>2. path \in Seq(Pos)
  BY <1>1 DEF Program
<1>3. D \subseteq 0..Len(path) /\ Len(path) \in Nat /\ D \subseteq DOMAIN path
  BY <1>2 DEF Enclosing
<1>4. Innermost(D) \in D
  BY <1>3, InnermostExists
<1>5. path[Innermost(D)] \in Pos
  BY <1>2, <1>3, <1>4
<1>6. Nearest(ops) \in Pos
  BY <1>5 DEF Nearest
<1> QED
  BY <1>6 DEF After, At, Pos

-----------------------------------------------------------------------------
(***************************************************************************)
(* What the statements do to the C state.                                  *)
(***************************************************************************)
LEMMA JumpInv ==
  ASSUME CInv, prog' = prog, NEW pos \in Pos, Jump(pos)
  PROVE  CInv' /\ CallerLabelsKept
<1>1. calls' = calls /\ gosubs' = gosubs /\ pc' = pos
  BY DEF Jump
<1>2. CInv'
  BY <1>1 DEF CInv, CTypeOK, GosubStackSound
<1>3. CallerLabelsKept
  <2>1. ASSUME calls # <<>>, NEW n \in 1..ThisCall.base PROVE n <= Len(gosubs)
    <3>1. calls \in Seq(Call) /\ gosubs \in Seq(Pos) /\ Len(calls) \in DOMAIN calls
      BY <2>1 DEF CInv, CTypeOK
    <3>2. ThisCall \in Call
      BY <3>1 DEF ThisCall
    <3>3. ThisCall.base \in Nat /\ Len(gosubs) \in Nat /\ ThisCall.base <= Len(gosubs)
      BY <3>1, <3>2 DEF Call, CInv, GosubStackSound, ThisCall
    <3> QED
      BY <3>3
  <2> QED
    BY <1>1, <2>1 DEF CallerLabelsKept
<1> QED
  BY <1>2, <1>3

LEMMA NowhereType == Nowhere \in Pos
  BY NamesAssumption DEF Nowhere, At, Pos

\* Facts about the running function and the height it noted.
LEMMA CallFacts ==
  ASSUME CInv, calls # <<>>
  PROVE  /\ calls \in Seq(Call) /\ gosubs \in Seq(Pos)
         /\ Len(calls) \in Nat \ {0} /\ Len(gosubs) \in Nat
         /\ DOMAIN calls = 1..Len(calls) /\ Len(calls) \in DOMAIN calls
         /\ ThisCall \in Call /\ ThisCall.ret \in Pos /\ ThisCall.base \in Nat
         /\ ThisCall.base <= Len(gosubs)
         /\ \A n \in DOMAIN calls : /\ calls[n] \in Call
                                    /\ calls[n].base \in Nat
                                    /\ calls[n].base <= ThisCall.base
<1>1. /\ calls \in Seq(Call) /\ gosubs \in Seq(Pos) /\ Len(calls) \in Nat \ {0}
      /\ DOMAIN calls = 1..Len(calls) /\ Len(calls) \in DOMAIN calls
      /\ Len(gosubs) \in Nat
  BY DEF CInv, CTypeOK
<1>2. \A n \in DOMAIN calls : calls[n] \in Call
  BY <1>1
<1>3. \A c \in Call : c.ret \in Pos /\ c.base \in Nat
  BY DEF Call
<1>4. ThisCall.base <= Len(gosubs)
  BY <1>1 DEF CInv, GosubStackSound, ThisCall
<1>5. \A n \in DOMAIN calls : calls[n].base <= ThisCall.base
  BY <1>1 DEF CInv, GosubStackSound, ThisCall
<1> QED
  BY <1>1, <1>2, <1>3, <1>4, <1>5 DEF ThisCall

LEMMA ExitInv ==
  ASSUME CInv, prog' = prog, Exit
  PROVE  CInv' /\ CallerLabelsKept
  BY NowhereType, GosubLimitAssumption
     DEF Exit, CInv, CTypeOK, GosubStackSound, CallerLabelsKept

LEMMA ReturnInv ==
  ASSUME CInv, calls # <<>>, prog' = prog, ReturnFromFunction
  PROVE  CInv' /\ CallerLabelsKept
<1>1. CASE Len(calls) = 1
  BY <1>1, ExitInv DEF ReturnFromFunction
<1>2. CASE Len(calls) # 1
  <2> DEFINE k == Len(calls) - 1
  <2>1. pc' = ThisCall.ret /\ gosubs' = gosubs /\ calls' = [n \in 1..k |-> calls[n]]
    BY <1>2 DEF ReturnFromFunction
  <2>2. k \in Nat /\ \A n \in 1..k : calls[n] \in Call /\ n \in DOMAIN calls
    BY CallFacts
  <2>3. calls' \in Seq(Call) /\ Len(calls') = k /\ DOMAIN calls' = 1..k
    <3> HIDE DEF k
    <3>1. calls' \in Seq(Call)
      BY <2>1, <2>2
    <3> QED
      BY <2>1, <2>2, <3>1
  <2>4. CTypeOK'
    BY <2>1, <2>3, CallFacts DEF CInv, CTypeOK
  <2>5. GosubStackSound'
    BY <2>1, <2>2, <2>3 DEF CInv, GosubStackSound
  <2>6. CallerLabelsKept
    BY <2>1, CallFacts DEF CallerLabelsKept
  <2> QED
    BY <2>4, <2>5, <2>6 DEF CInv
<1> QED
  BY <1>1, <1>2

\* A GOSUB that jumps to pos after noting its return label, if there is room.
LEMMA PushInv ==
  ASSUME CInv, calls # <<>>, prog' = prog, NEW pos \in Pos, NEW ret \in Pos,
         PushReturn(ret), pc' = pos, calls' = calls
  PROVE  CInv' /\ CallerLabelsKept
<1>1. /\ gosubs' \in Seq(Pos) /\ Len(gosubs) <= Len(gosubs')
      /\ Len(gosubs') \in Nat /\ Len(gosubs') <= GosubLimit
      /\ \A n \in 1..Len(gosubs) : gosubs'[n] = gosubs[n]
  <2>1. CASE Len(gosubs) < GosubLimit
    BY <2>1, CallFacts, GosubLimitAssumption DEF PushReturn
  <2>2. CASE ~(Len(gosubs) < GosubLimit)
    BY <2>2, CallFacts DEF PushReturn, CInv, GosubStackSound
  <2> QED
    BY <2>1, <2>2
<1>2. CTypeOK'
  BY <1>1 DEF CInv, CTypeOK
<1>3. GosubStackSound'
  <2>1. ASSUME NEW m \in DOMAIN calls, NEW n \in DOMAIN calls, m <= n
        PROVE  calls[m].base <= calls[n].base /\ calls[n].base <= Len(gosubs')
    <3>1. calls[m].base <= calls[n].base /\ calls[n].base <= Len(gosubs)
      BY <2>1 DEF CInv, GosubStackSound
    <3>2. calls[n].base \in Nat /\ Len(gosubs) \in Nat
      BY CallFacts
    <3> QED
      BY <1>1, <3>1, <3>2
  <2> QED
    BY <1>1, <2>1 DEF GosubStackSound
<1>4. CallerLabelsKept
  BY <1>1, CallFacts DEF CallerLabelsKept
<1> QED
  BY <1>2, <1>3, <1>4 DEF CInv

\* A RETURN that pops stays above the height its function noted.
LEMMA PopInv ==
  ASSUME CInv, calls # <<>>, prog' = prog, Len(gosubs) > ThisCall.base,
         pc' = gosubs[Len(gosubs)], calls' = calls,
         gosubs' = [n \in 1..(Len(gosubs) - 1) |-> gosubs[n]]
  PROVE  CInv' /\ CallerLabelsKept
<1> DEFINE k == Len(gosubs) - 1
<1>1. /\ k \in Nat /\ ThisCall.base <= k /\ Len(gosubs) \in 1..Len(gosubs)
      /\ k <= GosubLimit
  BY CallFacts, GosubLimitAssumption DEF CInv, GosubStackSound
<1>2. gosubs' \in Seq(Pos) /\ Len(gosubs') = k
  <2>1. \A n \in 1..k : gosubs[n] \in Pos
    BY CallFacts
  <2> HIDE DEF k
  <2>2. gosubs' = [n \in 1..k |-> gosubs[n]]
    BY DEF k
  <2>3. gosubs' \in Seq(Pos)
    BY <1>1, <2>1, <2>2
  <2> QED
    BY <1>1, <2>2, <2>3
<1>3. CTypeOK'
  <2>1. pc' \in Pos
    BY <1>1, CallFacts
  <2> QED
    BY <1>2, <2>1 DEF CInv, CTypeOK
<1> HIDE DEF k
<1>4. GosubStackSound'
  <2>1. ASSUME NEW m \in DOMAIN calls, NEW n \in DOMAIN calls, m <= n
        PROVE  calls[m].base <= calls[n].base /\ calls[n].base <= Len(gosubs')
    <3>1. calls[m].base <= calls[n].base
      BY <2>1 DEF CInv, GosubStackSound
    <3>2. calls[n].base <= ThisCall.base /\ calls[n].base \in Nat /\ ThisCall.base \in Nat
      BY CallFacts
    <3> QED
      BY <1>1, <1>2, <3>1, <3>2
  <2> QED
    BY <1>1, <1>2, <2>1 DEF GosubStackSound
<1>5. CallerLabelsKept
  <2>1. ASSUME NEW n \in 1..ThisCall.base
        PROVE  n <= Len(gosubs') /\ gosubs'[n] = gosubs[n]
    <3>1. n \in 1..k
      BY <1>1, CallFacts
    <3> QED
      BY <1>1, <1>2, <3>1 DEF k
  <2> QED
    BY <2>1 DEF CallerLabelsKept
<1> QED
  BY <1>3, <1>4, <1>5 DEF CInv

\* A CALL notes the present height above every height noted before.
LEMMA CallInv ==
  ASSUME CInv, CCall
  PROVE  CInv' /\ CallerLabelsKept
<1>1. Running({"call"})
  BY DEF CCall
<1> DEFINE c == [ret |-> After(pc), base |-> Len(gosubs)]
           len == Len(calls)
<1>2. /\ calls' = Append(calls, c) /\ gosubs' = gosubs /\ prog' = prog
      /\ pc' = At(This.arg, 1)
  BY DEF CCall
<1>3. calls # <<>>
  BY <1>1, ThisFacts
<1>4. c \in Call /\ c.base = Len(gosubs)
  BY <1>1, <1>3, ThisFacts, CallFacts DEF Call
<1>5. At(This.arg, 1) \in Pos
  BY <1>1, ThisFacts DEF ItemOK, At, Pos
<1> HIDE DEF c
<1>6. /\ calls' \in Seq(Call) /\ Len(calls') = len + 1
      /\ DOMAIN calls' = 1..(len + 1)
      /\ calls'[len + 1] = c
      /\ \A n \in 1..len : calls'[n] = calls[n]
  BY <1>2, <1>3, <1>4, CallFacts
<1>7. CTypeOK'
  BY <1>2, <1>5, <1>6 DEF CInv, CTypeOK
<1>8. GosubStackSound'
  <2>1. ASSUME NEW m \in 1..(len + 1), NEW n \in 1..(len + 1), m <= n
        PROVE  /\ calls'[m].base <= calls'[n].base
               /\ calls'[n].base <= Len(gosubs)
    <3>1. \A j \in 1..(len + 1) : j = len + 1 \/ j \in 1..len
      BY <1>3, CallFacts
    <3>2. \A j \in 1..len : /\ calls'[j].base = calls[j].base
                            /\ calls[j].base \in Nat
                            /\ calls[j].base <= Len(gosubs)
      BY <1>3, <1>6, CallFacts DEF CInv, GosubStackSound
    <3>3. Len(gosubs) \in Nat /\ calls'[len + 1].base = Len(gosubs)
      BY <1>3, <1>4, <1>6, CallFacts
    <3>4. CASE n = len + 1
      BY <3>1, <3>2, <3>3, <3>4
    <3>5. CASE n # len + 1
      <4>1. n \in 1..len /\ m \in 1..len
        BY <1>3, <2>1, <3>5, CallFacts
      <4>2. calls[m].base <= calls[n].base
        BY <1>3, <2>1, <4>1, CallFacts DEF CInv, GosubStackSound
      <4> QED
        BY <3>2, <4>1, <4>2
    <3> QED
      BY <3>4, <3>5
  <2> QED
    BY <1>2, <1>6, <2>1 DEF CInv, GosubStackSound
<1>9. CallerLabelsKept
  BY <1>2, <1>3, CallFacts DEF CallerLabelsKept
<1> QED
  BY <1>7, <1>8, <1>9 DEF CInv

(***************************************************************************)
(* One step per emitted statement.                                         *)
(***************************************************************************)
LEMMA StatementsInv ==
  ASSUME CInv, CNext
  PROVE  CInv' /\ CallerLabelsKept
<1>0. prog' = prog
  BY DEF CNext, CPlain, CEnterBody, CSkipBody, CEndOfItems, CExitLoop,
         CExitSelect, CGoto, CGosub, CGosubReturn, CGosubExpr, CGotoExpr,
         CReturn, CStop, CCall, CFault
<1>1. \A b \in Block : At(b, 1) \in Pos
  BY DEF At, Pos
<1>2. CASE CPlain
  BY <1>0, <1>2, ThisFacts, JumpInv DEF CPlain
<1>3. CASE CEnterBody
  <2>1. Running(Containers)
    BY <1>3 DEF CEnterBody
  <2>2. PICK b \in This.body : Jump(At(b, 1))
    BY <1>3 DEF CEnterBody
  <2>3. b \in Block
    BY <2>1, ThisFacts
  <2> QED
    BY <1>0, <1>1, <2>2, <2>3, JumpInv
<1>4. CASE CSkipBody
  BY <1>0, <1>4, ThisFacts, JumpInv DEF CSkipBody
<1>5. CASE CEndOfItems
  <2> DEFINE path == prog.path[pc.block]
             up == path[Len(path)]
  <2>1. calls # <<>> /\ prog \in Corpus /\ pc.block \in Block
    BY <1>5 DEF CEndOfItems, CInv, CTypeOK, Pos
  <2>2. CASE path = <<>>
    BY <1>0, <1>5, <2>1, <2>2, ReturnInv DEF CEndOfItems
  <2>3. CASE path # <<>>
    <3>1. path \in Seq(Pos)
      BY <2>1, ProgramsAssumption DEF Program
    <3>2. up \in Pos /\ Len(path) \in DOMAIN path
      BY <2>3, <3>1
    <3>3. up.block \in Block /\ up.idx \in DOMAIN prog.code[up.block]
      <4>1. PathOK(prog, pc.block)
        BY <2>1, ProgramsAssumption DEF WellFormed
      <4> QED
        BY <3>2, <4>1 DEF PathOK, Pos
    <3>4. prog.code[up.block][up.idx].body \subseteq Block
      BY <2>1, <3>3, ProgramFacts
    <3>5. After(up) \in Pos
      BY <3>2 DEF After, At, Pos
    <3>6. \/ \E b \in prog.code[up.block][up.idx].body : Jump(At(b, 1))
          \/ Jump(After(up))
      BY <1>5, <2>3 DEF CEndOfItems
    <3> HIDE DEF up
    <3>7. CASE Jump(After(up))
      BY <1>0, <3>5, <3>7, JumpInv
    <3>8. CASE \E b \in prog.code[up.block][up.idx].body : Jump(At(b, 1))
      BY <1>0, <1>1, <3>4, <3>8, JumpInv
    <3> QED
      BY <3>6, <3>7, <3>8
  <2> QED
    BY <2>2, <2>3
<1>6. CASE CExitLoop
  <2>1. Running({"exitloop"}) /\ Jump(After(Nearest(Loops)))
    BY <1>6 DEF CExitLoop
  <2>2. Enclosing(prog, pc.block, Loops) # {}
    <3>1. prog \in Corpus /\ pc.block \in Block
      BY <1>0, <2>1, ThisFacts DEF CInv, CTypeOK
    <3>2. /\ pc.idx \in DOMAIN prog.code[pc.block]
          /\ prog.code[pc.block][pc.idx].op = "exitloop"
      BY <2>1 DEF Running, OpAt
    <3>3. Compiles(prog)
      BY <3>1, CompilesAssumption
    <3> QED
      BY <3>1, <3>2, <3>3 DEF Compiles
  <2> QED
    BY <1>0, <2>1, <2>2, ThisFacts, NearestType, JumpInv
<1>7. CASE CExitSelect
  <2>1. Running({"exitselect"}) /\ Jump(After(Nearest(Selects)))
    BY <1>7 DEF CExitSelect
  <2>2. Enclosing(prog, pc.block, Selects) # {}
    <3>1. prog \in Corpus /\ pc.block \in Block
      BY <1>0, <2>1, ThisFacts DEF CInv, CTypeOK
    <3>2. /\ pc.idx \in DOMAIN prog.code[pc.block]
          /\ prog.code[pc.block][pc.idx].op = "exitselect"
      BY <2>1 DEF Running, OpAt
    <3>3. Compiles(prog)
      BY <3>1, CompilesAssumption
    <3> QED
      BY <3>1, <3>2, <3>3 DEF Compiles
  <2> QED
    BY <1>0, <2>1, <2>2, ThisFacts, NearestType, JumpInv
<1>8. CASE CGoto
  <2>1. Running({"goto"})
    BY <1>8 DEF CGoto
  <2>2. CASE This.arg \in FnLabels(prog, pc.block)
    BY <1>0, <1>8, <2>1, <2>2, ThisFacts, LabelPosType, JumpInv DEF CGoto
  <2>3. CASE This.arg \notin FnLabels(prog, pc.block)
    BY <1>0, <1>8, <2>1, <2>3, ThisFacts, JumpInv DEF CGoto
  <2> QED
    BY <2>2, <2>3
<1>9. CASE CGosub
  <2>1. Running({"gosub"})
    BY <1>9 DEF CGosub
  <2>2. CASE This.arg \in FnLabels(prog, pc.block)
    <3>1. LabelPos(prog, pc.block, This.arg) \in Pos
      BY <2>1, <2>2, ThisFacts, LabelPosType
    <3> QED
      BY <1>0, <1>9, <2>1, <2>2, <3>1, ThisFacts, PushInv DEF CGosub
  <2>3. CASE This.arg \notin FnLabels(prog, pc.block)
    BY <1>0, <1>9, <2>1, <2>3, ThisFacts, JumpInv DEF CGosub
  <2> QED
    BY <2>2, <2>3
<1>10. CASE CGosubReturn
  <2>1. Running({"gosubreturn"})
    BY <1>10 DEF CGosubReturn
  <2>2. CASE Len(gosubs) > ThisCall.base
    BY <1>0, <1>10, <2>1, <2>2, ThisFacts, PopInv DEF CGosubReturn
  <2>3. CASE ~(Len(gosubs) > ThisCall.base)
    BY <1>0, <1>10, <2>1, <2>3, ThisFacts, ReturnInv DEF CGosubReturn
  <2> QED
    BY <2>2, <2>3
<1>11. CASE CGosubExpr
  <2>1. Running({"gosubexpr"})
    BY <1>11 DEF CGosubExpr
  <2>2. CASE This.arg \in FnLabels(prog, pc.block) /\ Len(gosubs) < GosubLimit
    <3>1. LabelPos(prog, pc.block, This.arg) \in Pos
      BY <2>1, <2>2, ThisFacts, LabelPosType
    <3> QED
      BY <1>0, <1>11, <2>1, <2>2, <3>1, ThisFacts, PushInv DEF CGosubExpr
  <2>3. CASE ~(This.arg \in FnLabels(prog, pc.block) /\ Len(gosubs) < GosubLimit)
    BY <1>0, <1>11, <2>1, <2>3, ThisFacts, JumpInv DEF CGosubExpr
  <2> QED
    BY <2>2, <2>3
<1>12. CASE CGotoExpr
  <2>1. Running({"gotoexpr"})
    BY <1>12 DEF CGotoExpr
  <2>2. CASE This.arg \in FnLabels(prog, pc.block)
    BY <1>0, <1>12, <2>1, <2>2, ThisFacts, LabelPosType, JumpInv DEF CGotoExpr
  <2>3. CASE This.arg \notin FnLabels(prog, pc.block)
    BY <1>0, <1>12, <2>3, ExitInv DEF CGotoExpr
  <2> QED
    BY <2>2, <2>3
<1>13. CASE CReturn
  BY <1>0, <1>13, ThisFacts, ReturnInv DEF CReturn
<1>14. CASE CStop
  BY <1>0, <1>14, ExitInv DEF CStop
<1>15. CASE CCall
  BY <1>15, CallInv
<1>16. CASE CFault
  BY <1>0, <1>16, ExitInv DEF CFault
<1> QED
  BY <1>2, <1>3, <1>4, <1>5, <1>6, <1>7, <1>8, <1>9, <1>10, <1>11, <1>12, <1>13,
     <1>14, <1>15, <1>16 DEF CNext

LEMMA CInitInv == CInit => CInv
<1> SUFFICES ASSUME CInit PROVE CInv
  OBVIOUS
<1> DEFINE c == [ret |-> Nowhere, base |-> 0]
<1>1. c \in Call /\ c.base = 0
  BY NowhereType DEF Call
<1> HIDE DEF c
<1>2. calls = <<c>> /\ gosubs = <<>> /\ pc = At(Main, 1) /\ prog \in Corpus
  BY DEF CInit, c
<1>3. pc \in Pos
  BY <1>2, NamesAssumption DEF At, Pos
<1>4. calls \in Seq(Call) /\ DOMAIN calls = {1} /\ calls[1] = c /\ gosubs \in Seq(Pos)
  BY <1>1, <1>2
<1>5. Len(gosubs) = 0
  BY <1>2
<1> QED
  BY <1>1, <1>2, <1>3, <1>4, <1>5, GosubLimitAssumption
     DEF CInv, CTypeOK, GosubStackSound

(***************************************************************************)
(* xb_gosub_sp never leaves the array xb_gosub_stack and never falls below *)
(* the height an active function noted, whatever the program does, the     *)
(* returns that leave entries behind included.                             *)
(***************************************************************************)
THEOREM GosubStackStaysSound == CSpec => [](CTypeOK /\ GosubStackSound)
<1>1. CInit => CInv
  BY CInitInv
<1>2. CInv /\ [CNext]_cvars => CInv'
  <2> SUFFICES ASSUME CInv, [CNext]_cvars PROVE CInv'
    OBVIOUS
  <2>1. CASE CNext
    BY <2>1, StatementsInv
  <2>2. CASE UNCHANGED cvars
    BY <2>2 DEF cvars, CInv, CTypeOK, GosubStackSound
  <2> QED
    BY <2>1, <2>2
<1> QED
  BY <1>1, <1>2, PTL DEF CSpec, CInv

(***************************************************************************)
(* The C program's own state stays well formed: it is always at one of its *)
(* positions, in a call of one of its functions, with return positions on  *)
(* xb_gosub_stack.                                                         *)
(***************************************************************************)
THEOREM CStateTyped == CSpec => []CTypeOK
BY GosubStackStaysSound, PTL

(***************************************************************************)
(* A function leaves the return labels of its callers alone                *)
(* (CGEN-GOSUB-SCOPE).                                                     *)
(***************************************************************************)
THEOREM CallersLabelsSafe == CSpec => CallersLabelsKept
<1>1. CTypeOK /\ GosubStackSound /\ [CNext]_cvars => [CallerLabelsKept]_cvars
  BY StatementsInv DEF CInv
<1> QED
  BY <1>1, GosubStackStaysSound, PTL DEF CSpec, CallersLabelsKept
=============================================================================
