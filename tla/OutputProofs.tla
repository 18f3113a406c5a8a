----------------------------- MODULE OutputProofs -----------------------------
(***************************************************************************)
(* Standard output keeps every byte, for texts of any length and calls of  *)
(* any depth.                                                              *)
(*                                                                         *)
(*   1. Recursion and induction over sequences: a definition by recursion  *)
(*      over the last element is a function, once and for all of them.     *)
(*   2. Joined, WithoutLF, Split and WholeLines, one step at a time.       *)
(*   3. What they compute: the parts of the data hold the data less its    *)
(*      LFs; entries grow by exactly the part.                             *)
(*   4. The inductive invariant OutputInv and one lemma per operation.     *)
(***************************************************************************)
EXTENDS Output, SequenceTheorems, WellFoundedInduction, TLAPS

-----------------------------------------------------------------------------
(***************************************************************************)
(* Recursion and induction over sequences.                                 *)
(***************************************************************************)
\* Induction over the numbers.

LEMMA Induction ==
  ASSUME NEW S, 0 \in S, \A n \in Nat : n \in S => n + 1 \in S
  PROVE  Nat \subseteq S
<1> DEFINE bad == {n \in Nat : n \notin S}
           R == OpToRel(<, Nat)
<1>1. SUFFICES ASSUME bad # {} PROVE FALSE
  OBVIOUS
<1>2. PICK n \in bad : \A j \in bad : ~(<<j, n>> \in R)
  <2>1. bad \in SUBSET Nat
    OBVIOUS
  <2> HIDE DEF bad
  <2> QED BY <1>1, <2>1, NatLessThanWellFounded, WFMin, Zenon
<1>3. \A j \in bad : ~(j < n)
  BY <1>2 DEF OpToRel
<1>4. n \in Nat /\ n \notin S /\ n # 0
  BY <1>2
<1>5. n - 1 \in Nat /\ n - 1 < n /\ (n - 1) + 1 = n
  BY <1>4
<1>6. n - 1 \in S
  BY <1>3, <1>5
<1> QED BY <1>4, <1>5, <1>6

\* A sequence that is not empty is its front and its last element.
LEMMA FrontLast ==
  ASSUME NEW E, NEW s \in Seq(E), s # <<>>
  PROVE  /\ Front(s) \in Seq(E) /\ Last(s) \in E
         /\ Len(Front(s)) = Len(s) - 1 /\ Len(s) \in Nat \ {0}
         /\ \A j \in 1..(Len(s) - 1) : Front(s)[j] = s[j]
         /\ s = Append(Front(s), Last(s))
<1>1. Len(s) \in Nat \ {0} /\ \A j \in 1..Len(s) : s[j] \in E
  OBVIOUS
<1>2. /\ Front(s) \in Seq(E) /\ Last(s) \in E /\ Len(Front(s)) = Len(s) - 1
      /\ \A j \in 1..(Len(s) - 1) : Front(s)[j] = s[j]
  <2> DEFINE n == Len(s) - 1
  <2>1. n \in Nat /\ n \in Int /\ \A j \in 1..n : s[j] \in E
    BY <1>1
  <2>2. /\ SubSeq(s, 1, n) \in Seq(E)
        /\ Len(SubSeq(s, 1, n)) = IF 1 <= n THEN n - 1 + 1 ELSE 0
        /\ \A j \in 1..(n - 1 + 1) : SubSeq(s, 1, n)[j] = s[1 + j - 1]
    <3> HIDE DEF n
    <3> QED BY <2>1, SubSeqProperties
  <2>3. Front(s) = SubSeq(s, 1, n) /\ Last(s) = s[Len(s)]
    BY DEF Front, Last
  <2>4. Len(SubSeq(s, 1, n)) = n /\ \A j \in 1..n : SubSeq(s, 1, n)[j] = s[j]
    <3>1. n - 1 + 1 = n /\ \A j \in 1..n : 1 + j - 1 = j
      BY <2>1
    <3> HIDE DEF n
    <3> QED BY <2>1, <2>2, <3>1
  <2> QED BY <1>1, <2>2, <2>3, <2>4
<1>3. s = Append(Front(s), Last(s))
  <2> DEFINE t == Append(Front(s), Last(s))
  <2>1. t \in Seq(E) /\ Len(t) = Len(s)
    BY <1>1, <1>2
  <2>2. \A j \in 1..Len(s) : s[j] = t[j]
    BY <1>1, <1>2 DEF Last
  <2> HIDE DEF t
  <2>3. s = t
    BY <2>1, <2>2, SeqEqual
  <2> QED BY <2>3 DEF t
<1> QED BY <1>1, <1>2, <1>3

LEMMA FrontOfAppend ==
  ASSUME NEW E, NEW s \in Seq(E), NEW e \in E
  PROVE  /\ Append(s, e) \in Seq(E) /\ Append(s, e) # <<>>
         /\ Front(Append(s, e)) = s /\ Last(Append(s, e)) = e
<1> DEFINE t == Append(s, e)
<1>1. t \in Seq(E) /\ t # <<>> /\ Len(t) = Len(s) + 1 /\ Len(s) \in Nat
  OBVIOUS
<1>2. t[Len(s) + 1] = e /\ \A j \in 1..Len(s) : t[j] = s[j]
  OBVIOUS
<1> HIDE DEF t
<1>3. Last(t) = e
  BY <1>1, <1>2 DEF Last
<1>4. Front(t) \in Seq(E) /\ Len(Front(t)) = Len(s)
      /\ \A j \in 1..Len(s) : Front(t)[j] = s[j]
  BY <1>1, <1>2, FrontLast
<1>5. Front(t) = s
  BY <1>4, SeqEqual
<1> QED BY <1>1, <1>3, <1>5 DEF t

\* Induction over the last element.
LEMMA SeqInduction ==
  ASSUME NEW E, NEW S, <<>> \in S,
         \A s \in Seq(E) : s \in S => \A e \in E : Append(s, e) \in S
  PROVE  Seq(E) \subseteq S
<1> DEFINE L == {n \in Nat : \A s \in Seq(E) : Len(s) = n => s \in S}
<1>1. 0 \in L
  OBVIOUS
<1>2. ASSUME NEW n \in Nat, n \in L PROVE n + 1 \in L
  <2>1. SUFFICES ASSUME NEW s \in Seq(E), Len(s) = n + 1 PROVE s \in S
    OBVIOUS
  <2>2. s # <<>>
    BY <2>1
  <2>3. Front(s) \in Seq(E) /\ Last(s) \in E /\ Len(Front(s)) = n
        /\ s = Append(Front(s), Last(s))
    BY <2>1, <2>2, FrontLast
  <2>4. Front(s) \in S
    BY <1>2, <2>3
  <2> QED BY <2>3, <2>4
<1>3. Nat \subseteq L
  <2> HIDE DEF L
  <2> QED BY <1>1, <1>2, Induction
<1> QED BY <1>3

\* f is defined by recursion over the last element, from a and with the step st.
Recursion(f, E, a, st) ==
  \A s \in Seq(E) : f[s] = IF s = <<>> THEN a ELSE st[f[Front(s)]][Last(s)]

\* There is such a function.
LEMMA SeqRecursion ==
  ASSUME NEW E, NEW V, NEW a \in V, NEW st \in [V -> [E -> V]]
  PROVE  \E f \in [Seq(E) -> V] : Recursion(f, E, a, st)
<1> DEFINE Upto(n) == {s \in Seq(E) : Len(s) <= n}
           Good(f, n) == /\ f \in [Upto(n) -> V]
                         /\ \A s \in Upto(n) :
                              f[s] = IF s = <<>> THEN a ELSE st[f[Front(s)]][Last(s)]
           L == {n \in Nat : \E f : Good(f, n)}
           pick(n) == CHOOSE f : Good(f, n)
<1>1. ASSUME NEW s \in Seq(E), s # <<>>
      PROVE  /\ Front(s) \in Seq(E) /\ Last(s) \in E /\ Len(s) \in Nat \ {0}
             /\ Len(Front(s)) = Len(s) - 1
  BY <1>1, FrontLast
<1>2. 0 \in L
  <2> DEFINE f == [s \in Upto(0) |-> a]
  <2>1. \A s \in Upto(0) : s = <<>>
    BY <1>1
  <2>2. Good(f, 0)
    BY <2>1
  <2> QED BY <2>2
<1>3. ASSUME NEW n \in Nat, n \in L PROVE n + 1 \in L
  <2>1. PICK f : Good(f, n)
    BY <1>3
  <2> DEFINE g == [s \in Upto(n+1) |->
                     IF s = <<>> THEN a ELSE st[f[Front(s)]][Last(s)]]
  <2>2. \A s \in Upto(n+1) : s # <<>> =>
          /\ Front(s) \in Upto(n) /\ f[Front(s)] \in V /\ Last(s) \in E
    BY <1>1, <2>1
  <2>3. \A s \in Upto(n) : s \in Upto(n+1)
    OBVIOUS
  <2>4. \A s \in Upto(n) : g[s] = f[s]
    BY <2>1, <2>3
  <2>5. g \in [Upto(n+1) -> V]
    BY <2>2
  <2>6. ASSUME NEW s \in Upto(n+1)
        PROVE  g[s] = IF s = <<>> THEN a ELSE st[g[Front(s)]][Last(s)]
    <3>1. CASE s = <<>>
      BY <3>1
    <3>2. CASE s # <<>>
      <4>1. g[s] = st[f[Front(s)]][Last(s)] /\ Front(s) \in Upto(n)
        BY <2>2, <3>2
      <4> HIDE DEF g
      <4> QED BY <2>4, <3>2, <4>1
    <3> QED BY <3>1, <3>2
  <2>7. Good(g, n + 1)
    <3> HIDE DEF g
    <3> QED BY <2>5, <2>6
  <2> HIDE DEF g, Good
  <2> QED BY <2>7
<1>4. \A n \in Nat : Good(pick(n), n)
  <2>1. Nat \subseteq L
    <3> HIDE DEF L
    <3> QED BY <1>2, <1>3, Induction
  <2> HIDE DEF Good
  <2> QED BY <2>1, Zenon
<1>5. \A s \in Seq(E) : \A n, m \in Nat : Len(s) <= n /\ Len(s) <= m =>
                          pick(n)[s] = pick(m)[s]
  <2> DEFINE S == {s \in Seq(E) : \A n, m \in Nat : Len(s) <= n /\ Len(s) <= m =>
                          pick(n)[s] = pick(m)[s]}
  <2> HIDE DEF pick
  <2>1. <<>> \in S
    <3>1. \A n \in Nat : <<>> \in Upto(n)
      OBVIOUS
    <3>2. \A n \in Nat : pick(n)[<<>>] = a
      BY <1>4, <3>1
    <3> QED BY <3>2
  <2>2. ASSUME NEW s \in Seq(E), s \in S, NEW e \in E PROVE Append(s, e) \in S
    <3> DEFINE t == Append(s, e)
    <3>1. t \in Seq(E) /\ t # <<>> /\ Front(t) = s /\ Last(t) = e
      BY FrontOfAppend
    <3> HIDE DEF t
    <3>2. Len(t) = Len(s) + 1 /\ Len(s) \in Nat
      BY <1>1, <3>1
    <3>3. \A n \in Nat : Len(t) <= n => pick(n)[t] = st[pick(n)[s]][e]
      BY <1>4, <3>1, <3>2
    <3>4. \A n, m \in Nat : Len(t) <= n /\ Len(t) <= m => pick(n)[s] = pick(m)[s]
      <4>1. \A n, m \in Nat : Len(s) <= n /\ Len(s) <= m => pick(n)[s] = pick(m)[s]
        BY <2>2
      <4>2. \A n \in Nat : Len(t) <= n => Len(s) <= n
        BY <3>2
      <4> QED BY <4>1, <4>2
    <3>5. \A n, m \in Nat : Len(t) <= n /\ Len(t) <= m => pick(n)[t] = pick(m)[t]
      BY <3>3, <3>4
    <3> QED BY <3>1, <3>5 DEF t
  <2>3. Seq(E) \subseteq S
    <3> HIDE DEF S
    <3> QED BY <2>1, <2>2, SeqInduction
  <2> QED BY <2>3
<1> DEFINE F == [s \in Seq(E) |-> pick(Len(s))[s]]
<1> HIDE DEF pick
<1>6. \A s \in Seq(E) : Len(s) \in Nat /\ s \in Upto(Len(s))
  OBVIOUS
<1>7. F \in [Seq(E) -> V]
  BY <1>4, <1>6
<1>8. ASSUME NEW s \in Seq(E)
      PROVE  F[s] = IF s = <<>> THEN a ELSE st[F[Front(s)]][Last(s)]
  <2>1. F[s] = IF s = <<>> THEN a ELSE st[pick(Len(s))[Front(s)]][Last(s)]
    BY <1>4, <1>6
  <2>2. CASE s # <<>>
    <3>1. /\ Front(s) \in Seq(E) /\ Len(s) \in Nat /\ Len(Front(s)) \in Nat
          /\ Len(Front(s)) <= Len(s)
      BY <1>1, <2>2
    <3>2. F[Front(s)] = pick(Len(Front(s)))[Front(s)]
      BY <3>1
    <3> HIDE DEF F
    <3>3. F[Front(s)] = pick(Len(s))[Front(s)]
      BY <1>5, <3>1, <3>2
    <3> QED BY <2>1, <2>2, <3>3
  <2>3. CASE s = <<>>
    BY <2>1, <2>3
  <2> QED BY <2>2, <2>3
<1> HIDE DEF F
<1> QED BY <1>7, <1>8 DEF Recursion

\* Two functions that take the same step everywhere are the same.
StepAlike(f, m, E) ==
  /\ m[<<>>] = f[<<>>]
  /\ \A s \in Seq(E) : s # <<>> /\ m[Front(s)] = f[Front(s)] => m[s] = f[s]

LEMMA SameFunction ==
  ASSUME NEW E, NEW f, NEW m, StepAlike(f, m, E)
  PROVE  \A s \in Seq(E) : m[s] = f[s]
<1> DEFINE S == {s \in Seq(E) : m[s] = f[s]}
<1>1. <<>> \in S
  BY DEF StepAlike
<1>2. ASSUME NEW s \in Seq(E), s \in S, NEW e \in E PROVE Append(s, e) \in S
  BY <1>2, FrontOfAppend DEF StepAlike
<1>3. Seq(E) \subseteq S
  <2> HIDE DEF S
  <2> QED BY <1>1, <1>2, SeqInduction
<1> QED BY <1>3

-----------------------------------------------------------------------------
(***************************************************************************)
(* The four recursive definitions, one step at a time.                     *)
(***************************************************************************)
LEMMA JoinedSteps ==
  /\ Joined(<<>>) = <<>>
  /\ \A o \in Seq(Seq(Byte)) : Joined(o) \in Seq(Byte)
  /\ \A o \in Seq(Seq(Byte)), t \in Seq(Byte) : Joined(Append(o, t)) = Joined(o) \o t
<1> DEFINE V == Seq(Byte)
           Body(f) == [o \in Seq(Seq(Byte)) |->
                         IF o = <<>> THEN <<>> ELSE f[Front(o)] \o Last(o)]
           st == [x \in V |-> [e \in V |-> x \o e]]
<1>1. st \in [V -> [V -> V]] /\ <<>> \in V
  OBVIOUS
<1> <<>> \in Seq(V)
  OBVIOUS
<1>2. PICK f \in [Seq(V) -> V] : Recursion(f, V, <<>>, st)
  <2> HIDE DEF st, V, Body
  <2> QED BY <1>1, SeqRecursion, Zenon
<1>3. \A s \in Seq(V) : s # <<>> => Front(s) \in Seq(V) /\ Last(s) \in V
  BY FrontLast
<1>4. f = Body(f)
  <2>1. \A s \in Seq(V) : f[s] = IF s = <<>> THEN <<>> ELSE f[Front(s)] \o Last(s)
    BY <1>2, <1>3 DEF Recursion
  <2> QED BY <2>1
<1> DEFINE m == CHOOSE g : g = Body(g)
<1>5. m = Body(m)
  <2> HIDE DEF Body
  <2> QED BY <1>4, Zenon
<1>6. \A o : Joined(o) = m[o]
  BY DEF Joined
<1> HIDE DEF m
<1>7. \A s \in Seq(V) : m[s] = IF s = <<>> THEN <<>> ELSE m[Front(s)] \o Last(s)
  BY <1>5, Zenon
<1>8. StepAlike(f, m, V)
  <2>1. \A s \in Seq(V) : f[s] = IF s = <<>> THEN <<>> ELSE f[Front(s)] \o Last(s)
    BY <1>2, <1>3 DEF Recursion
  <2> QED BY <1>7, <2>1 DEF StepAlike
<1>9. \A s \in Seq(V) : m[s] \in V
  BY <1>2, <1>8, SameFunction
<1>10. ASSUME NEW s \in Seq(V), NEW t \in V PROVE m[Append(s, t)] = m[s] \o t
  <2> DEFINE u == Append(s, t)
  <2>1. u \in Seq(V) /\ u # <<>> /\ Front(u) = s /\ Last(u) = t
    BY FrontOfAppend
  <2> HIDE DEF u
  <2>2. m[u] = m[s] \o t
    BY <1>7, <2>1
  <2> QED BY <2>2 DEF u
<1>11. m[<<>>] = <<>>
  BY <1>7
<1> QED BY <1>6, <1>9, <1>10, <1>11

LEMMA WithoutSteps ==
  /\ WithoutLF(<<>>) = <<>>
  /\ \A b \in Seq(Byte) : WithoutLF(b) \in Seq(Char)
  /\ \A b \in Seq(Byte), c \in Byte :
       WithoutLF(Append(b, c)) = IF c = LF THEN WithoutLF(b) ELSE Append(WithoutLF(b), c)
<1> DEFINE V == Seq(Char)
           E == Byte
           Body(f) == [b \in Seq(E) |->
                         IF b = <<>> THEN <<>> ELSE IF Last(b) = LF THEN f[Front(b)]
                              ELSE Append(f[Front(b)], Last(b))]
           st == [x \in V |-> [e \in E |-> IF e = LF THEN x ELSE Append(x, e)]]
<1>1. st \in [V -> [E -> V]] /\ <<>> \in V
  BY DEF Byte
<1> <<>> \in Seq(E)
  OBVIOUS
<1>2. PICK f \in [Seq(E) -> V] : Recursion(f, E, <<>>, st)
  <2> HIDE DEF st, V, E, Body
  <2> QED BY <1>1, SeqRecursion, Zenon
<1>3. \A s \in Seq(E) : s # <<>> => Front(s) \in Seq(E) /\ Last(s) \in E
  BY FrontLast
<1>4. \A s \in Seq(E) : f[s] = IF s = <<>> THEN <<>> ELSE IF Last(s) = LF THEN f[Front(s)]
                              ELSE Append(f[Front(s)], Last(s))
  BY <1>2, <1>3 DEF Recursion
<1>5. f = Body(f)
  BY <1>4
<1> DEFINE m == CHOOSE g : g = Body(g)
<1>6. m = Body(m)
  <2> HIDE DEF Body
  <2> QED BY <1>5, Zenon
<1>7. \A b : WithoutLF(b) = m[b]
  BY DEF WithoutLF
<1> HIDE DEF m
<1>8. \A s \in Seq(E) : m[s] = IF s = <<>> THEN <<>> ELSE IF Last(s) = LF THEN m[Front(s)]
                              ELSE Append(m[Front(s)], Last(s))
  BY <1>6, Zenon
<1>9. StepAlike(f, m, E)
  BY <1>4, <1>8 DEF StepAlike
<1>10. \A s \in Seq(E) : m[s] \in V
  BY <1>2, <1>9, SameFunction
<1>11. m[<<>>] = <<>>
  BY <1>8
<1>12. ASSUME NEW s \in Seq(E), NEW t \in E
       PROVE  m[Append(s, t)] = IF t = LF THEN m[s] ELSE Append(m[s], t)
  <2> DEFINE u == Append(s, t)
  <2>1. u \in Seq(E) /\ u # <<>> /\ Front(u) = s /\ Last(u) = t
    BY FrontOfAppend
  <2> HIDE DEF u
  <2>2. m[u] = IF t = LF THEN m[s] ELSE Append(m[s], t)
    BY <1>8, <2>1
  <2> QED BY <2>2 DEF u
<1> QED BY <1>7, <1>10, <1>11, <1>12

LEMMA SplitSteps ==
  /\ Split(<<>>) = << <<>> >>
  /\ \A d \in Seq(Byte) : Split(d) \in Seq(Seq(Char)) /\ Split(d) # <<>>
  /\ \A d \in Seq(Byte), c \in Byte :
       Split(Append(d, c)) =
         IF c = LF THEN Append(Split(d), <<>>)
         ELSE [Split(d) EXCEPT ![Len(Split(d))] = Append(@, c)]
<1> DEFINE V == {p \in Seq(Seq(Char)) : p # <<>>}
           E == Byte
           Body(f) == [d \in Seq(E) |->
                         IF d = <<>> THEN << <<>> >> ELSE LET parts == f[Front(d)]
                              IN  IF Last(d) = LF THEN Append(parts, <<>>)
                                  ELSE [parts EXCEPT ![Len(parts)] = Append(@, Last(d))]]
           st == [x \in V |-> [e \in E |-> IF e = LF THEN Append(x, <<>>)
                                             ELSE [x EXCEPT ![Len(x)] = Append(@, e)]]]
<1>1. st \in [V -> [E -> V]] /\ << <<>> >> \in V
  <2>1. ASSUME NEW x \in V, NEW e \in E PROVE st[x][e] \in V
    <3>1. x \in Seq(Seq(Char)) /\ Len(x) \in 1..Len(x) /\ x[Len(x)] \in Seq(Char)
      OBVIOUS
    <3>2. CASE e = LF
      BY <3>1, <3>2
    <3>3. CASE e # LF
      <4> DEFINE y == Append(x[Len(x)], e)
      <4>1. y \in Seq(Char)
        BY <3>1, <3>3 DEF Byte
      <4> HIDE DEF y
      <4>2. [x EXCEPT ![Len(x)] = y] \in Seq(Seq(Char))
            /\ Len([x EXCEPT ![Len(x)] = y]) = Len(x)
        BY <3>1, <4>1
      <4>3. [x EXCEPT ![Len(x)] = y] \in V
        BY <3>1, <4>2
      <4>4. st[x][e] = [x EXCEPT ![Len(x)] = y]
        BY <3>3 DEF y
      <4> QED BY <4>3, <4>4
    <3> QED BY <3>2, <3>3
  <2>2. DOMAIN st = V /\ \A x \in V : DOMAIN st[x] = E
    OBVIOUS
  <2>3. st = [x \in V |-> [e \in E |-> st[x][e]]]
    OBVIOUS
  <2>4. << <<>> >> \in V
    OBVIOUS
  <2> HIDE DEF st, V
  <2> QED BY <2>1, <2>3, <2>4
<1> <<>> \in Seq(E)
  OBVIOUS
<1>2. PICK f \in [Seq(E) -> V] : Recursion(f, E, << <<>> >>, st)
  <2> HIDE DEF st, V, E, Body
  <2> QED BY <1>1, SeqRecursion, Zenon
<1>3. \A s \in Seq(E) : s # <<>> => Front(s) \in Seq(E) /\ Last(s) \in E
  BY FrontLast
<1>4. \A s \in Seq(E) : f[s] = IF s = <<>> THEN << <<>> >> ELSE LET parts == f[Front(s)]
                              IN  IF Last(s) = LF THEN Append(parts, <<>>)
                                  ELSE [parts EXCEPT ![Len(parts)] = Append(@, Last(s))]
  BY <1>2, <1>3 DEF Recursion
<1>5. f = Body(f)
  BY <1>4
<1> DEFINE m == CHOOSE g : g = Body(g)
<1>6. m = Body(m)
  <2> HIDE DEF Body
  <2> QED BY <1>5, Zenon
<1>7. \A d : Split(d) = m[d]
  BY DEF Split
<1> HIDE DEF m
<1>8. \A s \in Seq(E) : m[s] = IF s = <<>> THEN << <<>> >> ELSE LET parts == m[Front(s)]
                              IN  IF Last(s) = LF THEN Append(parts, <<>>)
                                  ELSE [parts EXCEPT ![Len(parts)] = Append(@, Last(s))]
  BY <1>6, Zenon
<1>9. StepAlike(f, m, E)
  BY <1>4, <1>8 DEF StepAlike
<1>10. \A s \in Seq(E) : m[s] \in V
  BY <1>2, <1>9, SameFunction
<1>11. m[<<>>] = << <<>> >>
  BY <1>8
<1>12. ASSUME NEW s \in Seq(E), NEW t \in E
       PROVE  m[Append(s, t)] = 
         IF t = LF THEN Append(m[s], <<>>)
         ELSE [m[s] EXCEPT ![Len(m[s])] = Append(@, t)]
  <2> DEFINE u == Append(s, t)
  <2>1. u \in Seq(E) /\ u # <<>> /\ Front(u) = s /\ Last(u) = t
    BY FrontOfAppend
  <2> HIDE DEF u
  <2>2. m[u] = 
                IF t = LF THEN Append(m[s], <<>>)
                ELSE [m[s] EXCEPT ![Len(m[s])] = Append(@, t)]
    BY <1>8, <2>1
  <2> QED BY <2>2 DEF u
<1> QED BY <1>7, <1>10, <1>11, <1>12

LEMMA WholeLinesSteps ==
  ASSUME NEW line \in [out : Seq(Seq(Byte)), open : BOOLEAN]
  PROVE  /\ WholeLines(line, <<>>) = line
         /\ \A p \in Seq(Seq(Byte)), t \in Seq(Byte) :
              WholeLines(line, Append(p, t)) = WholeLine(WholeLines(line, p), t)
<1> DEFINE V == [out : Seq(Seq(Byte)), open : BOOLEAN]
           E == Seq(Byte)
           Body(f) == [p \in Seq(E) |->
                         IF p = <<>> THEN line ELSE WholeLine(f[Front(p)], Last(p))]
           st == [x \in V |-> [e \in E |-> WholeLine(x, e)]]
<1>1. st \in [V -> [E -> V]] /\ line \in V
  BY DEF WholeLine, Splice
<1> <<>> \in Seq(E)
  OBVIOUS
<1>2. PICK f \in [Seq(E) -> V] : Recursion(f, E, line, st)
  <2> HIDE DEF st, V, E, Body
  <2> QED BY <1>1, SeqRecursion, Zenon
<1>3. \A s \in Seq(E) : s # <<>> => Front(s) \in Seq(E) /\ Last(s) \in E
  BY FrontLast
<1>4. \A s \in Seq(E) : f[s] = IF s = <<>> THEN line ELSE WholeLine(f[Front(s)], Last(s))
  BY <1>2, <1>3 DEF Recursion
<1>5. f = Body(f)
  BY <1>4
<1> DEFINE m == CHOOSE g : g = Body(g)
<1>6. m = Body(m)
  <2> HIDE DEF Body
  <2> QED BY <1>5, Zenon
<1>7. \A p : WholeLines(line, p) = m[p]
  BY DEF WholeLines
<1> HIDE DEF m
<1>8. \A s \in Seq(E) : m[s] = IF s = <<>> THEN line ELSE WholeLine(m[Front(s)], Last(s))
  BY <1>6, Zenon
<1>9. StepAlike(f, m, E)
  BY <1>4, <1>8 DEF StepAlike
<1>10. \A s \in Seq(E) : m[s] \in V
  BY <1>2, <1>9, SameFunction
<1>11. m[<<>>] = line
  BY <1>8
<1>12. ASSUME NEW s \in Seq(E), NEW t \in E
       PROVE  m[Append(s, t)] = WholeLine(m[s], t)
  <2> DEFINE u == Append(s, t)
  <2>1. u \in Seq(E) /\ u # <<>> /\ Front(u) = s /\ Last(u) = t
    BY FrontOfAppend
  <2> HIDE DEF u
  <2>2. m[u] = WholeLine(m[s], t)
    BY <1>8, <2>1
  <2> QED BY <2>2 DEF u
<1> QED BY <1>7, <1>10, <1>11, <1>12

-----------------------------------------------------------------------------
(***************************************************************************)
(* What they compute.                                                      *)
(***************************************************************************)
LEMMA CharsAreBytes ==
  /\ \A t \in Seq(Char) : t \in Seq(Byte)
  /\ \A o \in Seq(Seq(Char)) : o \in Seq(Seq(Byte))
<1>1. Char \subseteq Byte
  BY DEF Byte
<1>2. \A t \in Seq(Char) : t \in Seq(Byte)
  BY <1>1, SeqMonotonic
<1>3. Seq(Char) \subseteq Seq(Byte)
  BY <1>2
<1>4. \A o \in Seq(Seq(Char)) : o \in Seq(Seq(Byte))
  <2> DEFINE A == Seq(Char)
             B == Seq(Byte)
  <2>1. A \subseteq B
    BY <1>3
  <2> HIDE DEF A, B
  <2>2. \A o \in Seq(A) : o \in Seq(B)
    BY <2>1, SeqMonotonic
  <2> QED BY <2>2 DEF A, B
<1> QED BY <1>2, <1>4

\* Without the LFs, two texts written one after the other are two texts
\* written one after the other.
LEMMA WithoutConcat ==
  ASSUME NEW b \in Seq(Byte), NEW d \in Seq(Byte)
  PROVE  WithoutLF(b \o d) = WithoutLF(b) \o WithoutLF(d)
<1> DEFINE S == {t \in Seq(Byte) : WithoutLF(b \o t) = WithoutLF(b) \o WithoutLF(t)}
<1>1. <<>> \in S
  BY WithoutSteps, ConcatEmptySeq
<1>2. ASSUME NEW t \in Seq(Byte), t \in S, NEW c \in Byte PROVE Append(t, c) \in S
  <2> DEFINE w == WithoutLF(t)
             v == WithoutLF(b)
  <2>1. /\ w \in Seq(Char) /\ v \in Seq(Char)
        /\ WithoutLF(b \o t) = v \o w /\ b \o t \in Seq(Byte)
    BY <1>2, WithoutSteps
  <2>2. b \o Append(t, c) = Append(b \o t, c) /\ Append(t, c) \in Seq(Byte)
    OBVIOUS
  <2>3. WithoutLF(b \o Append(t, c)) = IF c = LF THEN v \o w ELSE Append(v \o w, c)
    BY <2>1, <2>2, WithoutSteps
  <2>4. WithoutLF(Append(t, c)) = IF c = LF THEN w ELSE Append(w, c)
    BY WithoutSteps
  <2> HIDE DEF w, v
  <2>5. c # LF => v \o Append(w, c) = Append(v \o w, c)
    BY <2>1 DEF Byte
  <2>6. WithoutLF(b \o Append(t, c)) = v \o WithoutLF(Append(t, c))
    BY <2>3, <2>4, <2>5
  <2> QED BY <2>2, <2>6 DEF v
<1>3. Seq(Byte) \subseteq S
  <2> HIDE DEF S
  <2> QED BY <1>1, <1>2, SeqInduction
<1> QED BY <1>3

\* A text without LFs loses nothing.
LEMMA WithoutText ==
  ASSUME NEW text \in Seq(Char)
  PROVE  WithoutLF(text) = text
<1> DEFINE S == {t \in Seq(Char) : WithoutLF(t) = t}
<1>1. <<>> \in S
  BY WithoutSteps
<1>2. ASSUME NEW t \in Seq(Char), t \in S, NEW c \in Char PROVE Append(t, c) \in S
  <2>1. t \in Seq(Byte) /\ c \in Byte /\ c # LF
    BY CharsAreBytes, OutputAssumption DEF Byte
  <2>2. WithoutLF(Append(t, c)) = Append(t, c)
    BY <1>2, <2>1, WithoutSteps
  <2> QED BY <2>2
<1>3. Seq(Char) \subseteq S
  <2> HIDE DEF S
  <2> QED BY <1>1, <1>2, SeqInduction
<1> QED BY <1>3

\* Splicing adds the text at the end of what the entries hold.
LEMMA SpliceJoined ==
  ASSUME NEW out \in Seq(Seq(Char)), NEW text \in Seq(Char)
  PROVE  /\ Splice(out, text) \in Seq(Seq(Char)) /\ Splice(out, text) # <<>>
         /\ Joined(Splice(out, text)) = Joined(out) \o text
         /\ Joined(Append(out, text)) = Joined(out) \o text
<1>1. out \in Seq(Seq(Byte)) /\ text \in Seq(Byte) /\ Joined(out) \in Seq(Byte)
  BY CharsAreBytes, JoinedSteps
<1>2. Joined(Append(out, text)) = Joined(out) \o text
  BY <1>1, JoinedSteps
<1>3. CASE out = <<>>
  <2>1. Splice(out, text) = Append(out, text)
    BY <1>3 DEF Splice
  <2>2. Append(out, text) \in Seq(Seq(Char)) /\ Append(out, text) # <<>>
    BY AppendProperties
  <2> QED BY <1>2, <2>1, <2>2, Zenon
<1>4. CASE out # <<>>
  <2> DEFINE f == Front(out)
             e == Last(out)
             r == e \o text
  <2>1. /\ f \in Seq(Seq(Char)) /\ e \in Seq(Char) /\ out = Append(f, e)
        /\ Len(f) = Len(out) - 1 /\ Len(out) \in Nat \ {0}
        /\ \A j \in 1..(Len(out) - 1) : f[j] = out[j]
    BY <1>4, FrontLast
  <2>2. r \in Seq(Char) /\ Splice(out, text) = [out EXCEPT ![Len(out)] = r]
    BY <1>4, <2>1 DEF Splice, Last
  <2>3. f \in Seq(Seq(Byte)) /\ e \in Seq(Byte) /\ r \in Seq(Byte)
    BY <2>1, <2>2, CharsAreBytes
  <2> HIDE DEF f, e, r
  <2>4. [out EXCEPT ![Len(out)] = r] = Append(f, r)
    <3> DEFINE x == [out EXCEPT ![Len(out)] = r]
               y == Append(f, r)
    <3>1. x \in Seq(Seq(Char)) /\ Len(x) = Len(out)
      BY <2>1, <2>2
    <3>2. y \in Seq(Seq(Char)) /\ Len(y) = Len(out)
      BY <2>1, <2>2
    <3>3. ASSUME NEW j \in 1..Len(x) PROVE x[j] = y[j]
      <4>1. Len(f) + 1 = Len(out) /\ Len(out) \in Nat /\ j \in 1..Len(out)
        BY <2>1, <3>1
      <4>2. y[Len(f) + 1] = r /\ \A n \in 1..Len(f) : y[n] = f[n]
        BY <2>1, <2>2
      <4>3. x[Len(out)] = r /\ \A n \in 1..(Len(out) - 1) : x[n] = out[n]
        <5> DEFINE N == Len(out)
        <5>1. N \in 1..Len(out) /\ \A n \in 1..(N - 1) : n \in 1..Len(out) /\ n # N
          BY <2>1
        <5> HIDE DEF N
        <5>2. \A n \in 1..Len(out) :
                [out EXCEPT ![N] = r][n] = IF n = N THEN r ELSE out[n]
          BY <2>2, <5>1
        <5>3. [out EXCEPT ![N] = r][N] = r
              /\ \A n \in 1..(N - 1) : [out EXCEPT ![N] = r][n] = out[n]
          BY <5>1, <5>2
        <5> QED BY <5>3 DEF N
      <4> HIDE DEF x, y
      <4>4. CASE j = Len(out)
        BY <4>1, <4>2, <4>3, <4>4
      <4>5. CASE j # Len(out)
        <5>1. j \in 1..(Len(out) - 1) /\ j \in 1..Len(f)
          BY <4>1, <4>5
        <5> QED BY <2>1, <4>2, <4>3, <5>1
      <4> QED BY <4>4, <4>5
    <3> HIDE DEF x, y
    <3>4. x = y
      BY <3>1, <3>2, <3>3, SeqEqual
    <3> QED BY <3>4 DEF x, y
  <2>5. Joined(Append(f, r)) = Joined(f) \o r /\ Joined(out) = Joined(f) \o e
        /\ Joined(f) \in Seq(Byte)
    BY <2>1, <2>3, JoinedSteps
  <2>6. Joined(f) \o (e \o text) = (Joined(f) \o e) \o text
    <3> DEFINE j == Joined(f)
    <3>1. j \in Seq(Byte)
      BY <2>5
    <3> HIDE DEF j
    <3>2. (j \o e) \o text = j \o (e \o text)
      BY <1>1, <2>3, <3>1, ConcatAssociative, SMTT(60)
    <3> QED BY <3>2 DEF j
  <2>7. Joined(Append(f, r)) = Joined(out) \o text
    BY <2>5, <2>6 DEF r
  <2>8. Append(f, r) \in Seq(Seq(Char)) /\ Append(f, r) # <<>>
    BY <2>1, <2>2
  <2> QED BY <1>2, <2>2, <2>4, <2>7, <2>8
<1> QED BY <1>3, <1>4

\* The parts of the data hold what the data holds, less the LFs.
LEMMA SplitJoined ==
  ASSUME NEW data \in Seq(Byte)
  PROVE  Joined(Split(data)) = WithoutLF(data)
<1> DEFINE S == {d \in Seq(Byte) : Joined(Split(d)) = WithoutLF(d)}
<1>1. <<>> \in S
  <2> DEFINE none == <<>>
  <2>1. /\ Split(none) = Append(none, none) /\ WithoutLF(none) = none
        /\ Joined(none) = none /\ none \o none = none
        /\ none \in Seq(Char) /\ none \in Seq(Seq(Char)) /\ none \in Seq(Byte)
    BY SplitSteps, WithoutSteps, JoinedSteps
  <2> HIDE DEF none
  <2>2. Joined(Append(none, none)) = Joined(none) \o none
    BY <2>1, SpliceJoined
  <2>3. none \in S
    BY <2>1, <2>2
  <2> QED BY <2>3 DEF none
<1>2. ASSUME NEW d \in Seq(Byte), d \in S, NEW c \in Byte PROVE Append(d, c) \in S
  <2> DEFINE p == Split(d)
  <2>1. /\ p \in Seq(Seq(Char)) /\ p # <<>> /\ Joined(p) = WithoutLF(d)
        /\ WithoutLF(d) \in Seq(Char)
    BY <1>2, SplitSteps, WithoutSteps
  <2>2. ASSUME c = LF PROVE Joined(Split(Append(d, c))) = WithoutLF(Append(d, c))
    <3>1. Split(Append(d, c)) = Append(p, <<>>) /\ WithoutLF(Append(d, c)) = WithoutLF(d)
      BY <2>2, SplitSteps, WithoutSteps
    <3> DEFINE none == <<>>
    <3>2. none \in Seq(Char) /\ \A t \in Seq(Char) : t \o none = t
      BY ConcatEmptySeq
    <3>3. Split(Append(d, c)) = Append(p, none)
      BY <3>1
    <3> HIDE DEF p, none
    <3>4. Joined(Append(p, none)) = Joined(p) \o none
      BY <2>1, <3>2, SpliceJoined
    <3> QED BY <2>1, <3>1, <3>2, <3>3, <3>4
  <2>3. ASSUME c # LF PROVE Joined(Split(Append(d, c))) = WithoutLF(Append(d, c))
    <3>1. /\ Split(Append(d, c)) = [p EXCEPT ![Len(p)] = Append(@, c)]
          /\ WithoutLF(Append(d, c)) = Append(WithoutLF(d), c)
      BY <2>3, SplitSteps, WithoutSteps
    <3> HIDE DEF p
    <3>2. c \in Char /\ <<c>> \in Seq(Char)
      BY <2>3 DEF Byte
    <3>3. Splice(p, <<c>>) = [p EXCEPT ![Len(p)] = @ \o <<c>>]
      BY <2>1 DEF Splice
    <3>4. p[Len(p)] \o <<c>> = Append(p[Len(p)], c)
      BY <2>1, <3>2
    <3>5. Splice(p, <<c>>) = Split(Append(d, c))
      BY <3>1, <3>3, <3>4
    <3>6. Joined(Splice(p, <<c>>)) = Joined(p) \o <<c>>
      BY <2>1, <3>2, SpliceJoined
    <3>7. WithoutLF(d) \o <<c>> = Append(WithoutLF(d), c)
      BY <2>1, <3>2
    <3> QED BY <2>1, <3>1, <3>5, <3>6, <3>7
  <2>4. Append(d, c) \in Seq(Byte)
    OBVIOUS
  <2> QED BY <2>2, <2>3, <2>4
<1>3. Seq(Byte) \subseteq S
  <2> HIDE DEF S
  <2> QED BY <1>1, <1>2, SeqInduction
<1> QED BY <1>3

-----------------------------------------------------------------------------
\* The entries and line_pending while WriteFile runs; a pending line has an
\* entry.
Line == [out : Seq(Seq(Char)), open : BOOLEAN]
Sound(line) == line \in Line /\ (line.open => line.out # <<>>)

LEMMA OneWholeLine ==
  ASSUME NEW line, Sound(line), NEW part \in Seq(Char)
  PROVE  /\ Sound(WholeLine(line, part))
         /\ Joined(WholeLine(line, part).out) = Joined(line.out) \o part
         /\ WholeLine(line, part).out # <<>>
<1>1. /\ line.out \in Seq(Seq(Char)) /\ line.open \in BOOLEAN
      /\ line.open => line.out # <<>>
  BY DEF Sound, Line
<1>2. WholeLine(line, part) = [out  |-> IF ~line.open THEN Append(line.out, part)
                                        ELSE Splice(line.out, part),
                               open |-> FALSE]
  BY <1>1 DEF WholeLine
<1> DEFINE o == line.out
<1>3. o \in Seq(Seq(Char))
  BY <1>1
<1> HIDE DEF o
<1>4. /\ Joined(Append(o, part)) = Joined(o) \o part
      /\ Splice(o, part) \in Seq(Seq(Char)) /\ Splice(o, part) # <<>>
      /\ Joined(Splice(o, part)) = Joined(o) \o part
  BY <1>3, SpliceJoined
<1>5. Append(o, part) \in Seq(Seq(Char)) /\ Append(o, part) # <<>>
  BY <1>3
<1>6. CASE line.open
  <2>1. WholeLine(line, part) = [out |-> Splice(o, part), open |-> FALSE]
    BY <1>2, <1>6 DEF o
  <2> QED BY <1>4, <2>1 DEF Sound, Line, o
<1>7. CASE ~line.open
  <2>1. WholeLine(line, part) = [out |-> Append(o, part), open |-> FALSE]
    BY <1>2, <1>7 DEF o
  <2> QED BY <1>4, <1>5, <2>1 DEF Sound, Line, o
<1> QED BY <1>6, <1>7

LEMMA AllWholeLines ==
  ASSUME NEW line, Sound(line), NEW parts \in Seq(Seq(Char))
  PROVE  /\ Sound(WholeLines(line, parts))
         /\ Joined(WholeLines(line, parts).out) = Joined(line.out) \o Joined(parts)
         /\ line.out # <<>> => WholeLines(line, parts).out # <<>>
<1> DEFINE S == {p \in Seq(Seq(Char)) :
                   /\ Sound(WholeLines(line, p))
                   /\ Joined(WholeLines(line, p).out) = Joined(line.out) \o Joined(p)
                   /\ line.out # <<>> => WholeLines(line, p).out # <<>>}
<1>1. /\ line \in [out : Seq(Seq(Byte)), open : BOOLEAN]
      /\ line.out \in Seq(Seq(Char)) /\ Joined(line.out) \in Seq(Byte)
  BY CharsAreBytes, JoinedSteps DEF Sound, Line
<1>2. <<>> \in S
  <2> DEFINE none == <<>>
  <2>1. WholeLines(line, none) = line /\ Joined(none) = none /\ none \in Seq(Seq(Char))
    BY <1>1, WholeLinesSteps, JoinedSteps
  <2>2. Joined(line.out) \o none = Joined(line.out)
    BY <1>1, ConcatEmptySeq
  <2> HIDE DEF none
  <2>3. none \in S
    BY <2>1, <2>2
  <2> QED BY <2>3 DEF none
<1>3. ASSUME NEW p \in Seq(Seq(Char)), p \in S, NEW t \in Seq(Char)
      PROVE  Append(p, t) \in S
  <2> DEFINE w == WholeLines(line, p)
  <2>1. p \in Seq(Seq(Byte)) /\ t \in Seq(Byte) /\ Joined(p) \in Seq(Byte)
    BY CharsAreBytes, JoinedSteps
  <2>2. WholeLines(line, Append(p, t)) = WholeLine(w, t)
    BY <1>1, <2>1, WholeLinesSteps
  <2>3. Sound(w) /\ Joined(w.out) = Joined(line.out) \o Joined(p)
    BY <1>3
  <2> HIDE DEF w
  <2>4. /\ Sound(WholeLine(w, t)) /\ Joined(WholeLine(w, t).out) = Joined(w.out) \o t
        /\ WholeLine(w, t).out # <<>>
    BY <2>3, OneWholeLine
  <2>5. Joined(Append(p, t)) = Joined(p) \o t
    BY <2>1, JoinedSteps
  <2>6. (Joined(line.out) \o Joined(p)) \o t = Joined(line.out) \o (Joined(p) \o t)
    BY <1>1, <2>1, ConcatAssociative, SMTT(60)
  <2>7. Append(p, t) \in Seq(Seq(Char))
    OBVIOUS
  <2> QED BY <2>2, <2>3, <2>4, <2>5, <2>6, <2>7
<1>4. Seq(Seq(Char)) \subseteq S
  <2> DEFINE E == Seq(Char)
  <2>1. \A p \in Seq(E) : p \in S => \A t \in E : Append(p, t) \in S
    BY <1>3
  <2> HIDE DEF S, E
  <2>2. Seq(E) \subseteq S
    BY <1>2, <2>1, SeqInduction
  <2> QED BY <2>2 DEF E
<1> QED BY <1>4

LEMMA TheRest ==
  ASSUME NEW line, Sound(line), NEW part \in Seq(Char)
  PROVE  /\ Sound(Rest(line, part))
         /\ Joined(Rest(line, part).out) = Joined(line.out) \o part
         /\ line.out # <<>> => Rest(line, part).out # <<>>
<1>1. line.out \in Seq(Seq(Char)) /\ Joined(line.out) \in Seq(Byte)
  BY CharsAreBytes, JoinedSteps DEF Sound, Line
<1>2. CASE part = <<>>
  <2>1. Rest(line, part) = [out |-> line.out, open |-> FALSE]
    BY <1>2 DEF Rest
  <2>2. Joined(line.out) \o part = Joined(line.out)
    BY <1>1, <1>2, ConcatEmptySeq
  <2>3. Rest(line, part).out = line.out /\ Sound(Rest(line, part))
    BY <1>1, <2>1 DEF Sound, Line
  <2> QED BY <2>2, <2>3
<1>3. CASE part # <<>>
  <2>1. Rest(line, part) = [out |-> Splice(line.out, part), open |-> TRUE]
    BY <1>3 DEF Rest
  <2>2. /\ Splice(line.out, part) \in Seq(Seq(Char)) /\ Splice(line.out, part) # <<>>
        /\ Joined(Splice(line.out, part)) = Joined(line.out) \o part
    BY <1>1, SpliceJoined
  <2> QED BY <2>1, <2>2 DEF Sound, Line
<1> QED BY <1>2, <1>3

-----------------------------------------------------------------------------
(***************************************************************************)
(* The inductive invariant: a line that any active call holds for pending  *)
(* has an entry.  Without it WholeLine would drop the part.                *)
(***************************************************************************)
PendingHasLine == \A j \in 1..Len(pending) : pending[j] => output # <<>>

OutputInv == TypeOK /\ PendingHasLine /\ NoByteLost

LEMMA PendingFacts ==
  ASSUME OutputInv
  PROVE  /\ Len(pending) \in Nat \ {0} /\ Top \in BOOLEAN
         /\ Sound([out |-> output, open |-> Top])
         /\ \A p \in BOOLEAN : /\ SetPending(p) \in Seq(BOOLEAN)
                               /\ Len(SetPending(p)) = Len(pending)
                               /\ \A j \in 1..Len(pending) :
                                    SetPending(p)[j] = IF j = Len(pending) THEN p
                                                       ELSE pending[j]
<1>1. pending \in Seq(BOOLEAN) /\ Len(pending) \in Nat \ {0} /\ output \in Seq(Seq(Char))
  BY OutputAssumption DEF OutputInv, TypeOK
<1>2. Top \in BOOLEAN /\ (Top => output # <<>>)
  BY <1>1 DEF OutputInv, PendingHasLine, Top
<1>3. ASSUME NEW p \in BOOLEAN
      PROVE  /\ SetPending(p) \in Seq(BOOLEAN)
             /\ Len(SetPending(p)) = Len(pending)
             /\ \A j \in 1..Len(pending) :
                  SetPending(p)[j] = IF j = Len(pending) THEN p ELSE pending[j]
  <2> DEFINE N == Len(pending)
  <2>1. N \in 1..Len(pending)
    BY <1>1
  <2> HIDE DEF N
  <2>2. /\ [pending EXCEPT ![N] = p] \in Seq(BOOLEAN)
        /\ Len([pending EXCEPT ![N] = p]) = Len(pending)
        /\ \A j \in 1..Len(pending) :
             [pending EXCEPT ![N] = p][j] = IF j = N THEN p ELSE pending[j]
    BY <1>1, <2>1, ExceptSeq
  <2> QED BY <2>2 DEF N, SetPending
<1> QED BY <1>1, <1>2, <1>3 DEF Sound, Line

\* What every operation that writes does: the bytes, less their LFs, join the
\* entries and the stream.
LEMMA WriteStep ==
  ASSUME OutputInv, NEW bytes \in Seq(Byte), Written(bytes),
         NEW p \in BOOLEAN, pending' = SetPending(p), p => output' # <<>>,
         output' \in Seq(Seq(Char)), output # <<>> => output' # <<>>,
         Joined(output') = Joined(output) \o WithoutLF(bytes)
  PROVE  OutputInv'
<1>1. /\ Len(pending) \in Nat \ {0} /\ SetPending(p) \in Seq(BOOLEAN)
      /\ Len(SetPending(p)) = Len(pending)
      /\ \A j \in 1..Len(pending) :
           SetPending(p)[j] = IF j = Len(pending) THEN p ELSE pending[j]
  BY PendingFacts
<1>2. stream \in Seq(Byte) /\ stream' = stream \o bytes /\ stream' \in Seq(Byte)
  BY DEF OutputInv, TypeOK, Written
<1>3. TypeOK'
  BY <1>1, <1>2 DEF OutputInv, TypeOK
<1>4. PendingHasLine'
  BY <1>1 DEF OutputInv, PendingHasLine
<1>5. NoByteLost'
  <2>1. WithoutLF(stream') = WithoutLF(stream) \o WithoutLF(bytes)
    BY <1>2, WithoutConcat
  <2> QED BY <2>1 DEF OutputInv, NoByteLost
<1> QED BY <1>3, <1>4, <1>5 DEF OutputInv

\* The bytes of a line are its text.
LEMMA LineBytes ==
  ASSUME NEW text \in Text
  PROVE  /\ text \in Seq(Char) /\ Append(text, LF) \in Seq(Byte)
         /\ WithoutLF(Append(text, LF)) = text
<1>1. text \in Seq(Char)
  BY OutputAssumption DEF Text, BoundedSeq, SeqOf
<1>2. text \in Seq(Byte) /\ LF \in Byte
  BY <1>1, CharsAreBytes DEF Byte
<1>3. WithoutLF(Append(text, LF)) = WithoutLF(text)
  BY <1>2, WithoutSteps
<1> QED BY <1>1, <1>2, <1>3, WithoutText

LEMMA PrintStep ==
  ASSUME OutputInv, NEW text \in Text, ExecPrint(text)
  PROVE  OutputInv'
<1>1. /\ text \in Seq(Char) /\ Append(text, LF) \in Seq(Byte)
      /\ WithoutLF(Append(text, LF)) = text
  BY LineBytes
<1>2. output \in Seq(Seq(Char))
  BY DEF OutputInv, TypeOK
<1>3. /\ Splice(output, text) \in Seq(Seq(Char)) /\ Splice(output, text) # <<>>
      /\ Joined(Splice(output, text)) = Joined(output) \o text
      /\ Joined(Append(output, text)) = Joined(output) \o text
  BY <1>1, <1>2, SpliceJoined
<1>4. Append(output, text) \in Seq(Seq(Char)) /\ Append(output, text) # <<>>
  BY <1>1, <1>2
<1>5. /\ output' \in Seq(Seq(Char)) /\ output' # <<>>
      /\ Joined(output') = Joined(output) \o text
  BY <1>3, <1>4 DEF ExecPrint
<1>6. Written(Append(text, LF)) /\ pending' = SetPending(FALSE)
  BY DEF ExecPrint
<1> QED BY <1>1, <1>5, <1>6, WriteStep

LEMMA InlineStep ==
  ASSUME OutputInv, NEW prompt \in Text, Inline(prompt)
  PROVE  OutputInv'
<1>1. /\ prompt \in Seq(Char) /\ Append(prompt, LF) \in Seq(Byte)
      /\ WithoutLF(Append(prompt, LF)) = prompt
  BY LineBytes
<1>2. output \in Seq(Seq(Char))
  BY DEF OutputInv, TypeOK
<1>3. /\ output' \in Seq(Seq(Char)) /\ output' # <<>>
      /\ Joined(output') = Joined(output) \o prompt
  <2>1. Joined(Append(output, prompt)) = Joined(output) \o prompt
    BY <1>1, <1>2, SpliceJoined
  <2>2. Append(output, prompt) \in Seq(Seq(Char)) /\ Append(output, prompt) # <<>>
    BY <1>1, <1>2
  <2> QED BY <2>1, <2>2 DEF Inline
<1>4. Written(Append(prompt, LF)) /\ pending' = SetPending(Top)
  <2>1. pending' = pending
    BY DEF Inline
  <2>2. pending = SetPending(Top)
    <3>1. pending \in Seq(BOOLEAN) /\ Len(pending) \in Nat \ {0} /\ Top \in BOOLEAN
      BY PendingFacts DEF OutputInv, TypeOK
    <3>2. /\ SetPending(Top) \in Seq(BOOLEAN) /\ Len(SetPending(Top)) = Len(pending)
          /\ \A j \in 1..Len(pending) : SetPending(Top)[j] = pending[j]
      BY <3>1, PendingFacts DEF Top
    <3> QED BY <3>1, <3>2, SeqEqual
  <2> QED BY <2>1, <2>2 DEF Inline
<1>5. Top \in BOOLEAN
  BY PendingFacts
<1> QED BY <1>1, <1>3, <1>4, <1>5, WriteStep

LEMMA WriteFileStep ==
  ASSUME OutputInv, NEW data \in Data, WriteFile(data)
  PROVE  OutputInv'
<1> DEFINE parts == Split(data)
           line  == [out |-> output, open |-> Top]
           whole == WholeLines(line, Front(parts))
           done  == Rest(whole, Last(parts))
<1>1. data \in Seq(Byte)
  BY OutputAssumption DEF Data, BoundedSeq, SeqOf
<1>2. output' = done.out /\ pending' = SetPending(done.open) /\ Written(data)
  BY DEF WriteFile
<1>3. Sound(line) /\ line.out = output
  BY PendingFacts
<1>4. /\ parts \in Seq(Seq(Char)) /\ parts # <<>> /\ Joined(parts) = WithoutLF(data)
  BY <1>1, SplitSteps, SplitJoined
<1> HIDE DEF parts, line
<1>5. /\ Front(parts) \in Seq(Seq(Char)) /\ Last(parts) \in Seq(Char)
      /\ parts = Append(Front(parts), Last(parts))
  BY <1>4, FrontLast
<1>6. /\ Sound(whole) /\ Joined(whole.out) = Joined(line.out) \o Joined(Front(parts))
      /\ line.out # <<>> => whole.out # <<>>
  BY <1>3, <1>5, AllWholeLines
<1> HIDE DEF whole
<1>7. /\ Sound(done) /\ Joined(done.out) = Joined(whole.out) \o Last(parts)
      /\ whole.out # <<>> => done.out # <<>>
  BY <1>5, <1>6, TheRest
<1> HIDE DEF done
<1>8. Joined(parts) = Joined(Front(parts)) \o Last(parts)
  BY <1>5, CharsAreBytes, JoinedSteps
<1>9. Joined(done.out) = Joined(output) \o WithoutLF(data)
  <2> DEFINE a == Joined(line.out)
             b == Joined(Front(parts))
             c == Last(parts)
  <2>1. a \in Seq(Byte) /\ b \in Seq(Byte) /\ c \in Seq(Byte)
    BY <1>3, <1>5, CharsAreBytes, JoinedSteps DEF Sound, Line
  <2>2. Joined(done.out) = (a \o b) \o c /\ WithoutLF(data) = b \o c
    BY <1>4, <1>6, <1>7, <1>8
  <2>3. a = Joined(output)
    BY <1>3
  <2> HIDE DEF a, b, c
  <2>4. (a \o b) \o c = a \o (b \o c)
    BY <2>1, ConcatAssociative, SMTT(60)
  <2> QED BY <2>2, <2>3, <2>4
<1>10. output # <<>> => done.out # <<>>
  BY <1>3, <1>6, <1>7
<1> QED BY <1>1, <1>2, <1>7, <1>9, <1>10, WriteStep DEF Sound, Line

LEMMA CallStep ==
  ASSUME OutputInv, CallFunction
  PROVE  OutputInv'
<1>1. /\ pending \in Seq(BOOLEAN) /\ Len(pending) \in Nat \ {0} /\ Top \in BOOLEAN
      /\ Top => output # <<>>
  BY PendingFacts DEF Sound, OutputInv, TypeOK
<1>2. /\ pending' \in Seq(BOOLEAN) /\ Len(pending') = Len(pending) + 1
      /\ pending'[Len(pending) + 1] = Top
      /\ \A j \in 1..Len(pending) : pending'[j] = pending[j]
  BY <1>1, AppendProperties DEF CallFunction
<1>3. output' = output /\ stream' = stream /\ Len(pending) < MaxDepth
  BY DEF CallFunction
<1>4. TypeOK'
  BY <1>1, <1>2, <1>3, OutputAssumption DEF OutputInv, TypeOK
<1>5. PendingHasLine'
  <2>1. ASSUME NEW j \in 1..Len(pending'), pending'[j] PROVE output # <<>>
    <3>1. j \in 1..Len(pending) \/ j = Len(pending) + 1
      BY <1>1, <1>2
    <3> QED BY <1>1, <1>2, <2>1, <3>1 DEF OutputInv, PendingHasLine
  <2> QED BY <1>3, <2>1 DEF PendingHasLine
<1>6. NoByteLost'
  BY <1>3 DEF OutputInv, NoByteLost
<1> QED BY <1>4, <1>5, <1>6 DEF OutputInv

LEMMA ReturnStep ==
  ASSUME OutputInv, ReturnFromFunction
  PROVE  OutputInv'
<1>1. pending \in Seq(BOOLEAN) /\ Len(pending) \in 1..MaxDepth /\ pending # <<>>
  BY OutputAssumption DEF OutputInv, TypeOK
<1>2. /\ pending' \in Seq(BOOLEAN) /\ Len(pending') = Len(pending) - 1
      /\ \A j \in 1..Len(pending') : pending'[j] = pending[j]
  BY <1>1, FrontLast DEF ReturnFromFunction
<1>3. output' = output /\ stream' = stream /\ Len(pending) > 1
  BY DEF ReturnFromFunction
<1>4. TypeOK'
  BY <1>1, <1>2, <1>3, OutputAssumption DEF OutputInv, TypeOK
<1>5. PendingHasLine'
  BY <1>1, <1>2, <1>3 DEF OutputInv, PendingHasLine
<1>6. NoByteLost'
  BY <1>3 DEF OutputInv, NoByteLost
<1> QED BY <1>4, <1>5, <1>6 DEF OutputInv

LEMMA OutputInvariant == Spec => []OutputInv
<1>1. Init => OutputInv
  <2> SUFFICES ASSUME Init PROVE OutputInv
    OBVIOUS
  <2>1. TypeOK
    BY OutputAssumption DEF Init, TypeOK
  <2>2. PendingHasLine
    <3>1. Len(pending) = 1 /\ pending[1] = FALSE
      BY DEF Init
    <3>2. ASSUME NEW j \in 1..Len(pending) PROVE ~pending[j]
      <4>1. j = 1
        BY <3>1
      <4> QED BY <3>1, <4>1, Zenon
    <3> QED BY <3>2 DEF PendingHasLine
  <2>3. NoByteLost
    BY JoinedSteps, WithoutSteps DEF Init, NoByteLost
  <2> QED BY <2>1, <2>2, <2>3 DEF OutputInv
<1>2. OutputInv /\ [Next]_vars => OutputInv'
  <2> SUFFICES ASSUME OutputInv, [Next]_vars PROVE OutputInv'
    OBVIOUS
  <2>1. ASSUME NEW text \in Text, ExecPrint(text) PROVE OutputInv'
    BY <2>1, PrintStep
  <2>2. ASSUME NEW text \in Text, Inline(text) PROVE OutputInv'
    BY <2>2, InlineStep
  <2>3. ASSUME NEW data \in Data, WriteFile(data) PROVE OutputInv'
    BY <2>3, WriteFileStep
  <2>4. CASE CallFunction
    BY <2>4, CallStep
  <2>5. CASE ReturnFromFunction
    BY <2>5, ReturnStep
  <2>6. CASE UNCHANGED vars
    BY <2>6 DEF vars, OutputInv, TypeOK, PendingHasLine, NoByteLost
  <2> QED BY <2>1, <2>2, <2>3, <2>4, <2>5, <2>6 DEF Next
<1> QED BY <1>1, <1>2, PTL DEF Spec

\* The entries, line_pending and the stream stay well formed, whatever is
\* printed and however deep the calls.
THEOREM OutputTyped == Spec => []TypeOK
<1>1. OutputInv => TypeOK
  BY DEF OutputInv
<1> QED BY <1>1, OutputInvariant, PTL

\* PRINT, INLINE$ and WriteFile lose, double or move no byte: texts of every
\* length, in every order, at any depth of calls.
THEOREM NoByteIsLost == Spec => []NoByteLost
<1>1. OutputInv => NoByteLost
  BY DEF OutputInv
<1> QED BY <1>1, OutputInvariant, PTL
=============================================================================
