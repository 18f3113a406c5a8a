---------------------------- MODULE ArraysProofs ----------------------------
(***************************************************************************)
(* The three stores of Arrays hold what the reference holds, for every     *)
(* program, every size of the arrays and any number of statements.         *)
(***************************************************************************)
EXTENDS Arrays, TLAPS

-----------------------------------------------------------------------------
(* What a store must look like to hold a value *)

\* One dimension, or one row: no store at all is an empty array.
Held(arr, dims, t) ==
    \/ arr = <<>> /\ t = <<>>
    \/ arr = <<t>> /\ (dims = <<Len(t)>> \/ (dims = <<>> /\ t = <<>>))

\* Two dimensions in one piece, row after row.
Place(r, j) == (r - 1) * Wide + j
Cells(n) == n * Wide
FlatHolds(a, t) ==
    /\ Len(a) = Cells(Len(t))
    /\ \A r \in DOMAIN t :
         /\ Len(t[r]) = Wide
         /\ \A j \in 1 .. Wide : a[Place(r, j)] = t[r][j]

Row == [arr : Seq(Seq(Nat)), dims : Seq(Nat)]
Slot == [val : Nat, arr : Seq(Seq(Nat)), dims : Seq(Nat), rows : Seq(Seq(Row))]

LineSlot(s, t) == s.val = 0 /\ s.rows = <<>> /\ Held(s.arr, s.dims, t)
TextSlot(s, v) == s.arr = <<>> /\ s.rows = <<>> /\ s.val = v
TableSlot(s, t) ==
    \/ /\ s.rows = <<>> /\ Len(s.arr) = 1 /\ s.dims = <<Len(t), Wide>>
       /\ FlatHolds(s.arr[1], t)
    \/ /\ Len(s.rows) = 1 /\ Len(s.rows[1]) = Len(t)
       /\ \A r \in DOMAIN t : Held(s.rows[1][r].arr, s.rows[1][r].dims, t[r])

SlotHolds(x, s, t) ==
    /\ s \in Slot
    /\ x \in Lines => LineSlot(s, t)
    /\ x \in Tables => TableSlot(s, t)
    /\ x \in Texts => TextSlot(s, t)

SlotsHold(st, rf) == DOMAIN st = Names /\ \A x \in Names : SlotHolds(x, st[x], rf[x])

CMem == {m \in Seq(Seq(Int)) : Len(m) <= 1}
CRow == [mem : CMem, ub : Int]
CVar == [mem : CMem, ub : Int, rows : Seq(CRow), inner : Int, val : Nat]

CHeld(p, t) == Block(p) = t /\ p.ub = Len(t) - 1
CTableHolds(v, k, t) ==
    IF k = "node"
    THEN /\ Len(v.rows) = Len(t)
         /\ \A r \in DOMAIN t : CHeld(v.rows[r], t[r])
    ELSE Len(v.mem) = 1 /\ FlatHolds(v.mem[1], t)

CVarHolds(x, v, t) ==
    /\ v \in CVar
    /\ x \in Lines => CHeld(v, t)
    /\ x \in Tables => CTableHolds(v, kind[x], t)
    /\ x \in Texts => v.val = t

CHolds(m, rf) == DOMAIN m = Names /\ \A x \in Names : CVarHolds(x, m[x], rf[x])

LVar == [buf : Seq(Nat), cnt : Seq(Nat), val : Nat]
HolderHolds(x, h, t) ==
    /\ h \in LVar
    /\ x \in Lines => h.buf = t /\ h.cnt = <<Len(t)>>
    /\ x \in Tables => h.cnt = <<Len(t), Wide>> /\ FlatHolds(h.buf, t)
    /\ x \in Texts => h.val = t

LHolds(m, rf) == DOMAIN m = Names /\ \A x \in Names : HolderHolds(x, m[x], rf[x])

-----------------------------------------------------------------------------
(* The inductive invariant: the reference, and each engine beside it until *)
(* its comparison ends                                                     *)

RefHolds(rf) ==
    /\ DOMAIN rf = Names
    /\ \A x \in Lines : rf[x] \in Seq(Nat)
    /\ \A x \in Tables : rf[x] \in Seq(Seq(Nat))
    /\ \A x \in Texts : rf[x] \in Nat

RefInv == /\ kind \in Kinds /\ Heap \subseteq dyn /\ steps \in Nat /\ err.ref \in BOOLEAN
          /\ RefHolds(ref)

SlotInv == why.interp = "" => /\ err.interp = err.ref
                              /\ ~err.ref => SlotsHold(slot, ref)

CInv == why.c = "" /\ ~err.ref => CHolds(c, ref)
LInv == why.llvm = "" /\ ~err.ref => LHolds(llvm, ref)

-----------------------------------------------------------------------------
(* Sequences *)

\* A sequence resized: what fits stays, the rest is the filling.
LEMMA GrownFacts ==
  ASSUME NEW S, NEW s \in Seq(S), NEW n \in Nat, NEW fill \in S
  PROVE  /\ Grown(s, n, fill) \in Seq(S)
         /\ Len(Grown(s, n, fill)) = n
         /\ DOMAIN Grown(s, n, fill) = 1 .. n
         /\ \A i \in 1 .. n : Grown(s, n, fill)[i] = IF i <= Len(s) THEN s[i] ELSE fill
<1>1. \A i \in 1 .. n : (IF i <= Len(s) THEN s[i] ELSE fill) \in S
  OBVIOUS
<1> QED
  BY <1>1 DEF Grown

\* The same where the types do not matter.
LEMMA GrownAt ==
  ASSUME NEW s, NEW n \in Nat, NEW fill
  PROVE  /\ Len(Grown(s, n, fill)) = n
         /\ DOMAIN Grown(s, n, fill) = 1 .. n
         /\ \A i \in 1 .. n : Grown(s, n, fill)[i] = IF i <= Len(s) THEN s[i] ELSE fill
BY DEF Grown

\* The same for numbers, with empty elements.
LEMMA GrownZero ==
  ASSUME NEW s \in Seq(Nat), NEW n \in Nat
  PROVE  /\ Grown(s, n, 0) \in Seq(Nat)
         /\ Len(Grown(s, n, 0)) = n
         /\ DOMAIN Grown(s, n, 0) = 1 .. n
         /\ \A i \in 1 .. n : Grown(s, n, 0)[i] = IF i <= Len(s) THEN s[i] ELSE 0
<1>1. \A i \in 1 .. n : (IF i <= Len(s) THEN s[i] ELSE 0) \in Nat
  OBVIOUS
<1> QED
  BY <1>1 DEF Grown

\* n empty elements.
LEMMA ZerosFacts ==
  ASSUME NEW n \in Nat
  PROVE  /\ Zeros(n) \in Seq(Nat) /\ Len(Zeros(n)) = n
         /\ DOMAIN Zeros(n) = 1 .. n
         /\ \A i \in 1 .. n : Zeros(n)[i] = 0
BY DEF Zeros

\* A piece of a sequence.
LEMMA SliceFacts ==
  ASSUME NEW S, NEW s \in Seq(S), NEW from \in Nat, NEW n \in Nat, from + n <= Len(s)
  PROVE  /\ Slice(s, from, n) \in Seq(S) /\ Len(Slice(s, from, n)) = n
         /\ DOMAIN Slice(s, from, n) = 1 .. n
         /\ \A i \in 1 .. n : Slice(s, from, n)[i] = s[from + i]
<1>1. \A i \in 1 .. n : from + i \in 1 .. Len(s)
  OBVIOUS
<1>2. \A i \in 1 .. n : s[from + i] \in S
  BY <1>1
<1> QED
  BY <1>2 DEF Slice

\* A sequence with one element replaced.
LEMMA ExceptFacts ==
  ASSUME NEW S, NEW s \in Seq(S), NEW i \in 1 .. Len(s), NEW v \in S
  PROVE  /\ [s EXCEPT ![i] = v] \in Seq(S) /\ Len([s EXCEPT ![i] = v]) = Len(s)
         /\ DOMAIN [s EXCEPT ![i] = v] = 1 .. Len(s)
         /\ \A k \in 1 .. Len(s) : [s EXCEPT ![i] = v][k] = IF k = i THEN v ELSE s[k]
OBVIOUS

\* Sequences are equal if they are equal element by element.
LEMMA SameSeq ==
  ASSUME NEW S, NEW T, NEW s \in Seq(S), NEW t \in Seq(T), Len(s) = Len(t),
         \A i \in 1 .. Len(s) : s[i] = t[i]
  PROVE  s = t
OBVIOUS

\* Multiplication keeps the order.
LEMMA Multiples ==
  ASSUME NEW w \in Nat, NEW i \in Nat, NEW k \in Nat, i <= k
  PROVE  i * w \in Nat /\ k * w \in Nat /\ i * w <= k * w
<1>1. i * w \in Nat /\ k * w \in Nat
  OBVIOUS
<1>2. (k - i) * w >= 0
  OBVIOUS
<1>3. (k - i) * w = k * w - i * w
  OBVIOUS
<1> QED
  BY <1>1, <1>2, <1>3

\* The elements of a table in one piece have places of their own.
LEMMA Places ==
  ASSUME NEW w \in Nat, NEW n \in Nat, NEW i \in 0 .. n - 1, NEW j \in 0 .. w - 1
  PROVE  /\ i * w \in Nat /\ n * w \in Nat
         /\ i * w + w <= n * w
         /\ i * w + j < n * w
         /\ \A k \in Nat, l \in 0 .. w - 1 : i * w + j = k * w + l => i = k /\ j = l
<1>1. i * w \in Nat /\ n * w \in Nat
  OBVIOUS
<1>2. \A a, b \in Nat : a < b => a * w + w <= b * w
  <2> TAKE a, b \in Nat
  <2> HAVE a < b
  <2>1. (b - a - 1) \in Nat
    OBVIOUS
  <2>2. (b - a - 1) * w >= 0
    BY <2>1
  <2>3. (b - a - 1) * w = b * w - a * w - w
    OBVIOUS
  <2> QED
    BY <2>2, <2>3
<1>3. i * w + w <= n * w
  BY <1>2
<1>4. ASSUME NEW k \in Nat, NEW l \in 0 .. w - 1, i * w + j = k * w + l
      PROVE  i = k /\ j = l
  <2>1. ~(i < k)
    BY <1>2, <1>4
  <2>2. ~(k < i)
    BY <1>2, <1>4
  <2>3. i = k
    BY <2>1, <2>2
  <2> QED
    BY <2>3, <1>4
<1> QED
  BY <1>1, <1>3, <1>4

-----------------------------------------------------------------------------
(* Names and bounds *)

\* A name is a line, a table or a text, and a line is on the heap or fixed.
LEMMA KindFacts ==
  ASSUME kind \in Kinds
  PROVE  /\ \A x \in Names : kind[x] \in AllKinds
         /\ Names = Lines \cup Tables \cup Texts
         /\ Heap \subseteq Lines
         /\ Lines \cap Tables = {} /\ Lines \cap Texts = {} /\ Tables \cap Texts = {}
         /\ \A x \in Lines : x \in Heap \/ kind[x] = "fixed"
BY ArraysAssumption DEF Names, Of, Heap, Lines, Tables, Texts, AllKinds

\* The types of the constants.
LEMMA ConstantFacts ==
  /\ Inner \in Nat /\ MaxIndex \in Nat /\ MaxSteps \in Nat
  /\ Wide \in Nat \ {0}
  /\ \A n \in Sizes : n \in Int /\ -1 <= n
BY ArraysAssumption DEF Wide

\* A bound, cut off at 0.
LEMMA AtLeast0Facts ==
  ASSUME NEW n \in Int
  PROVE  AtLeast0(n) \in Nat /\ (n >= 0 => AtLeast0(n) = n)
BY DEF AtLeast0

-----------------------------------------------------------------------------
(* The reference keeps its types *)

\* The first values of the lines.
LEMMA EmptyAndZeros ==
  /\ <<>> \in Seq(Nat) /\ Len(<<>>) = 0
  /\ <<0, 0>> \in Seq(Nat) /\ Len(<<0, 0>>) = 2 /\ <<0, 0>> = Zeros(2)
<1>1. <<>> \in Seq(Nat) /\ Len(<<>>) = 0
  OBVIOUS
<1>2. <<0, 0>> \in Seq(Nat) /\ Len(<<0, 0>>) = 2
  OBVIOUS
<1>3. <<0, 0>> = Zeros(2)
  BY DEF Zeros
<1> QED
  BY <1>1, <1>2, <1>3

\* The first value of a table.
LEMMA FirstTable ==
  /\ Table(1, 0) \in Seq(Seq(Nat)) /\ Len(Table(1, 0)) = 2
  /\ \A r \in 1 .. 2 : Table(1, 0)[r] = Zeros(Wide)
<1>1. Wide \in Nat
  BY ConstantFacts
<1>2. Zeros(Wide) \in Seq(Nat)
  BY <1>1, ZerosFacts
<1>3. Table(1, 0) = [r \in 1 .. 2 |-> Zeros(Wide)]
  BY DEF Table, Zeros
<1> DEFINE z == Zeros(Wide)
<1> HIDE DEF z
<1>4. /\ [r \in 1 .. 2 |-> z] \in Seq(Seq(Nat)) /\ Len([r \in 1 .. 2 |-> z]) = 2
      /\ \A r \in 1 .. 2 : [q \in 1 .. 2 |-> z][r] = z
  BY <1>2 DEF z
<1> QED
  BY <1>3, <1>4 DEF z

\* What the declarations leave has its type.
LEMMA InitRef == Init => RefInv
<1> SUFFICES ASSUME Init PROVE RefInv
  OBVIOUS
<1>1. /\ kind \in Kinds /\ dyn = Heap /\ steps = 0 /\ err.ref = FALSE
      /\ ref = [x \in Names |-> CASE kind[x] = "fixed" -> <<0, 0>>
                                 [] x \in Tables -> Table(1, 0)
                                 [] x \in Texts -> 0
                                 [] OTHER -> <<>>]
  BY DEF Init
<1>2. DOMAIN ref = Names
  BY <1>1
<1>3. ASSUME NEW x \in Lines PROVE ref[x] \in Seq(Nat)
  <2>1. x \in Names /\ x \notin Tables /\ x \notin Texts
    BY <1>1, KindFacts
  <2>2. ref[x] = <<0, 0>> \/ ref[x] = <<>>
    BY <1>1, <2>1
  <2> HIDE <1>1
  <2> QED
    BY <2>2, EmptyAndZeros
<1>4. ASSUME NEW x \in Tables PROVE ref[x] \in Seq(Seq(Nat))
  <2>1. x \in Names /\ kind[x] # "fixed" /\ x \notin Texts
    BY DEF Tables, Texts, Of
  <2>2. ref[x] = Table(1, 0)
    BY <1>1, <2>1
  <2> QED
    BY <2>2, FirstTable
<1>5. ASSUME NEW x \in Texts PROVE ref[x] \in Nat
  <2>1. x \in Names /\ x \notin Tables /\ kind[x] # "fixed"
    BY DEF Texts, Tables, Of
  <2> QED
    BY <1>1, <2>1
<1> QED
  BY <1>1, <1>2, <1>3, <1>4, <1>5 DEF RefInv, RefHolds

\* A statement after which the reference is rf.
Moved(rf) ==
    /\ kind' = kind /\ ref' = rf /\ steps' = steps + 1
    /\ err'.ref \in BOOLEAN /\ dyn \subseteq dyn'

\* A statement that gives the reference values of their types keeps RefInv.
LEMMA MovedRef ==
  ASSUME RefInv, NEW rf, Moved(rf), RefHolds(rf)
  PROVE  RefInv'
BY DEF Moved, RefInv, RefHolds, Names, Of, Heap, Lines, Tables, Texts

\* What the reference becomes in each statement.
RefDimLine(x, bounds, redim) ==
    LET shared == kind[x] = "shared"
        n == AtLeast0(bounds[1]) + 1
    IN  IF shared /\ ~redim /\ bounds = <<>> THEN ref[x]
        ELSE IF bounds = <<>> THEN <<>>
        ELSE IF redim \/ shared THEN Grown(ref[x], n, 0) ELSE Zeros(n)

RefDimTable(x, n, redim) == Grown(IF redim THEN ref[x] ELSE <<>>, n + 1, Zeros(Wide))
RefSetLine(x, i) ==
    [Grown(ref[x], IF i < Len(ref[x]) THEN Len(ref[x]) ELSE i + 1, 0) EXCEPT ![i + 1] = Fresh]

\* A resized line is a line.
LEMMA RefDimLineType ==
  ASSUME RefInv, NEW x \in Heap, NEW redim \in BOOLEAN,
         NEW b \in {<<>>} \cup {<<n>> : n \in Sizes}
  PROVE  RefDimLine(x, b, redim) \in Seq(Nat)
<1>1. ref[x] \in Seq(Nat)
  BY KindFacts DEF RefInv, RefHolds
<1>2. CASE b = <<>>
  <2>1. <<>> \in Seq(Nat)
    OBVIOUS
  <2> QED
    BY <1>1, <1>2, <2>1 DEF RefDimLine
<1>3. CASE b # <<>>
  <2>1. AtLeast0(b[1]) + 1 \in Nat
    BY <1>3, ConstantFacts, AtLeast0Facts
  <2> QED
    BY <1>1, <1>3, <2>1, GrownFacts, ZerosFacts DEF RefDimLine
<1> QED
  BY <1>2, <1>3

\* A resized table is a table.
LEMMA RefDimTableType ==
  ASSUME RefInv, NEW x \in Tables, NEW redim \in BOOLEAN, NEW n \in Nat
  PROVE  /\ RefDimTable(x, n, redim) \in Seq(Seq(Nat))
         /\ Len(RefDimTable(x, n, redim)) = n + 1
<1>1. ref[x] \in Seq(Seq(Nat)) /\ <<>> \in Seq(Seq(Nat))
  BY DEF RefInv, RefHolds
<1>2. Zeros(Wide) \in Seq(Nat)
  BY ConstantFacts, ZerosFacts
<1> DEFINE s == IF redim THEN ref[x] ELSE <<>>
<1>3. s \in Seq(Seq(Nat)) /\ n + 1 \in Nat
  BY <1>1
<1>4. RefDimTable(x, n, redim) = Grown(s, n + 1, Zeros(Wide))
  BY DEF RefDimTable
<1> HIDE DEF s
<1> QED
  BY <1>2, <1>3, <1>4, GrownFacts

\* A line with an element set, grown if it must, is a line.
LEMMA RefSetLineFacts ==
  ASSUME RefInv, NEW x \in Lines, NEW i \in Nat
  PROVE  LET n == IF i < Len(ref[x]) THEN Len(ref[x]) ELSE i + 1
         IN  /\ RefSetLine(x, i) \in Seq(Nat)
             /\ Len(RefSetLine(x, i)) = n
             /\ \A k \in 1 .. n : RefSetLine(x, i)[k] =
                    IF k = i + 1 THEN Fresh ELSE IF k <= Len(ref[x]) THEN ref[x][k] ELSE 0
<1> DEFINE n == IF i < Len(ref[x]) THEN Len(ref[x]) ELSE i + 1
           g == Grown(ref[x], n, 0)
<1>1. ref[x] \in Seq(Nat) /\ n \in Nat /\ i + 1 \in 1 .. n /\ Fresh \in Nat
  BY DEF RefInv, RefHolds, Fresh
<1> HIDE DEF n
<1>2. /\ g \in Seq(Nat) /\ Len(g) = n
      /\ \A k \in 1 .. n : g[k] = IF k <= Len(ref[x]) THEN ref[x][k] ELSE 0
  BY <1>1, GrownZero
<1>3. RefSetLine(x, i) = [g EXCEPT ![i + 1] = Fresh]
  BY DEF RefSetLine, n
<1> HIDE DEF g
<1>4. /\ [g EXCEPT ![i + 1] = Fresh] \in Seq(Nat)
      /\ Len([g EXCEPT ![i + 1] = Fresh]) = n
      /\ \A k \in 1 .. n : [g EXCEPT ![i + 1] = Fresh][k] = IF k = i + 1 THEN Fresh ELSE g[k]
  BY <1>1, <1>2, ExceptFacts
<1>5. /\ RefSetLine(x, i) \in Seq(Nat)
      /\ Len(RefSetLine(x, i)) = n
      /\ \A k \in 1 .. n : RefSetLine(x, i)[k] =
             IF k = i + 1 THEN Fresh ELSE IF k <= Len(ref[x]) THEN ref[x][k] ELSE 0
  BY <1>2, <1>3, <1>4
<1> QED
  BY <1>5 DEF n

ValueOf(x, v) ==
    /\ x \in Names
    /\ x \in Lines => v \in Seq(Nat)
    /\ x \in Tables => v \in Seq(Seq(Nat))
    /\ x \in Texts => v \in Nat

\* One name given a value of its type.
LEMMA RefPut ==
  ASSUME NEW rf, RefHolds(rf), NEW x, NEW v, ValueOf(x, v)
  PROVE  RefHolds([rf EXCEPT ![x] = v])
BY DEF RefHolds, ValueOf, Lines, Tables, Texts, Of

\* Two names given values of their types.
LEMMA RefPutTwo ==
  ASSUME NEW rf, RefHolds(rf), NEW x, NEW v, ValueOf(x, v), NEW y, NEW w, ValueOf(y, w)
  PROVE  RefHolds([rf EXCEPT ![y] = w, ![x] = v])
<1>1. RefHolds([rf EXCEPT ![y] = w])
  BY RefPut
<1>2. RefHolds([[rf EXCEPT ![y] = w] EXCEPT ![x] = v])
  BY <1>1, RefPut
<1> QED
  BY <1>2

\* The kinds of a name, as the actions use them.
LEMMA ValueOfKind ==
  ASSUME kind \in Kinds
  PROVE  /\ \A x \in Lines : \A v \in Seq(Nat) : ValueOf(x, v)
         /\ \A x \in Heap : \A v \in Seq(Nat) : ValueOf(x, v)
         /\ \A x \in Tables : \A v \in Seq(Seq(Nat)) : ValueOf(x, v)
         /\ \A x \in Texts : \A v \in Nat : ValueOf(x, v)
<1>1. /\ Heap \subseteq Lines /\ Lines \subseteq Names /\ Tables \subseteq Names
      /\ Texts \subseteq Names
      /\ Lines \cap Tables = {} /\ Lines \cap Texts = {} /\ Tables \cap Texts = {}
  BY KindFacts
<1> QED
  BY <1>1 DEF ValueOf

\* Each statement keeps RefInv.
LEMMA DimLineRef ==
  ASSUME RefInv, NEW x \in Heap, NEW redim \in BOOLEAN,
         NEW b \in {<<>>} \cup {<<n>> : n \in Sizes}, DimLine(x, b, redim)
  PROVE  RefInv'
<1>1. kind \in Kinds /\ RefHolds(ref)
  BY DEF RefInv
<1>2. RefHolds([ref EXCEPT ![x] = RefDimLine(x, b, redim)])
  BY <1>1, RefDimLineType, ValueOfKind, RefPut
<1>3. Moved([ref EXCEPT ![x] = RefDimLine(x, b, redim)])
  BY DEF DimLine, RefDimLine, Statement, Moved
<1> QED
  BY <1>2, <1>3, MovedRef

LEMMA DimTableRef ==
  ASSUME RefInv, NEW x \in Of({"flat"}), NEW n \in Sizes \ {-1}, NEW redim \in BOOLEAN,
         DimTable(x, n, redim)
  PROVE  RefInv'
<1>1. kind \in Kinds /\ RefHolds(ref) /\ x \in Tables /\ n \in Nat
  BY ConstantFacts DEF RefInv, Tables, Of
<1>2. RefHolds([ref EXCEPT ![x] = RefDimTable(x, n, redim)])
  BY <1>1, RefDimTableType, ValueOfKind, RefPut
<1>3. Moved([ref EXCEPT ![x] = RefDimTable(x, n, redim)])
  BY DEF DimTable, RefDimTable, Statement, Moved
<1> QED
  BY <1>2, <1>3, MovedRef

LEMMA SetLineRef ==
  ASSUME RefInv, NEW x \in Lines, NEW i \in 0 .. MaxIndex, SetLine(x, i)
  PROVE  RefInv'
<1>1. kind \in Kinds /\ RefHolds(ref) /\ i \in Nat
  BY ConstantFacts DEF RefInv
<1>2. RefHolds([ref EXCEPT ![x] = RefSetLine(x, i)])
  BY <1>1, RefSetLineFacts, ValueOfKind, RefPut
<1>3. Moved([ref EXCEPT ![x] = RefSetLine(x, i)])
  BY DEF SetLine, RefSetLine, Statement, Moved
<1> QED
  BY <1>2, <1>3, MovedRef

\* A row, and an element of a row, of a table.
LEMMA RowPut ==
  ASSUME NEW t \in Seq(Seq(Nat)), NEW r \in Nat, r < Len(t), NEW v \in Seq(Nat)
  PROVE  /\ t[r + 1] \in Seq(Nat)
         /\ [t EXCEPT ![r + 1] = v] \in Seq(Seq(Nat))
         /\ Len([t EXCEPT ![r + 1] = v]) = Len(t)
         /\ \A k \in 1 .. Len(t) : [t EXCEPT ![r + 1] = v][k] = IF k = r + 1 THEN v ELSE t[k]
<1>1. r + 1 \in 1 .. Len(t)
  OBVIOUS
<1>2. t[r + 1] \in Seq(Nat)
  BY <1>1
<1> QED
  BY <1>1, <1>2, ExceptFacts

\* An element of a line replaced.
LEMMA ElementPut ==
  ASSUME NEW t \in Seq(Nat), NEW k \in Nat, k < Len(t), NEW v \in Nat
  PROVE  /\ t[k + 1] \in Nat
         /\ [t EXCEPT ![k + 1] = v] \in Seq(Nat)
         /\ Len([t EXCEPT ![k + 1] = v]) = Len(t)
<1>1. k + 1 \in 1 .. Len(t)
  OBVIOUS
<1> QED
  BY <1>1, ExceptFacts

LEMMA SetTableRef ==
  ASSUME RefInv, NEW x \in Tables, NEW i \in 0 .. MaxIndex, NEW j \in 0 .. MaxIndex,
         SetTable(x, i, j)
  PROVE  RefInv'
<1> DEFINE row == [ref[x][i + 1] EXCEPT ![j + 1] = Fresh]
           new == [ref[x] EXCEPT ![i + 1] = row]
<1>1. kind \in Kinds /\ RefHolds(ref) /\ i \in Nat /\ j \in Nat /\ Fresh \in Nat
  BY ConstantFacts DEF RefInv, Fresh
<1>2. ref[x] \in Seq(Seq(Nat)) /\ i < Len(ref[x]) /\ j < Len(ref[x][i + 1])
  BY DEF RefInv, RefHolds, SetTable
<1>3. ref[x][i + 1] \in Seq(Nat)
  BY <1>1, <1>2
<1>4. row \in Seq(Nat)
  BY <1>1, <1>2, <1>3, ElementPut
<1> HIDE DEF row
<1>5. new \in Seq(Seq(Nat))
  BY <1>1, <1>2, <1>4, RowPut
<1> HIDE DEF new
<1>6. RefHolds([ref EXCEPT ![x] = new])
  BY <1>1, <1>5, ValueOfKind, RefPut
<1>7. Moved([ref EXCEPT ![x] = new])
  BY DEF SetTable, new, row, Statement, Moved
<1> QED
  BY <1>6, <1>7, MovedRef

LEMMA SetTextRef ==
  ASSUME RefInv, NEW x \in Texts, SetText(x)
  PROVE  RefInv'
<1>1. kind \in Kinds /\ RefHolds(ref) /\ Fresh \in Nat
  BY DEF RefInv, Fresh
<1>2. RefHolds([ref EXCEPT ![x] = Fresh])
  BY <1>1, ValueOfKind, RefPut
<1>3. Moved([ref EXCEPT ![x] = Fresh])
  BY DEF SetText, Statement, Moved
<1> QED
  BY <1>2, <1>3, MovedRef

\* A statement that gives two names new values keeps RefInv.
LEMMA MovedTwo ==
  ASSUME RefInv, NEW x, NEW v, ValueOf(x, v), NEW y, NEW w, ValueOf(y, w),
         Moved(ref) \/ Moved([ref EXCEPT ![y] = w, ![x] = v])
  PROVE  RefInv'
<1>1. RefHolds(ref)
  BY DEF RefInv
<1>2. RefHolds([ref EXCEPT ![y] = w, ![x] = v])
  BY <1>1, RefPutTwo
<1> QED
  BY <1>1, <1>2, MovedRef

LEMMA RowToArrayRef ==
  ASSUME RefInv, NEW x \in Tables, NEW r \in 0 .. MaxIndex, NEW y \in Heap, RowToArray(x, r, y)
  PROVE  RefInv'
<1> DEFINE w == ref[x][r + 1]
           v == [ref[x] EXCEPT ![r + 1] = <<>>]
<1>1. kind \in Kinds /\ r \in Nat /\ <<>> \in Seq(Nat)
  BY ConstantFacts DEF RefInv
<1>2. ref[x] \in Seq(Seq(Nat)) /\ r < Len(ref[x])
  BY DEF RefInv, RefHolds, RowToArray
<1>3. w \in Seq(Nat) /\ v \in Seq(Seq(Nat))
  BY <1>1, <1>2, RowPut
<1>4. x # y /\ x \in Names /\ y \in Names
  BY <1>1, KindFacts
<1>5. [ref EXCEPT ![y] = w, ![x][r + 1] = <<>>] = [ref EXCEPT ![y] = w, ![x] = v]
  BY <1>4 DEF RefInv, RefHolds
<1>6. Moved(ref) \/ Moved([ref EXCEPT ![y] = w, ![x][r + 1] = <<>>])
  BY DEF RowToArray, Statement, Moved, Fails
<1>7. ValueOf(x, v) /\ ValueOf(y, w)
  BY <1>1, <1>3, ValueOfKind
<1> HIDE DEF w, v
<1> QED
  BY <1>5, <1>6, <1>7, MovedTwo

LEMMA ArrayToRowRef ==
  ASSUME RefInv, NEW y \in Tables, NEW r \in 0 .. MaxIndex, NEW x \in Heap, ArrayToRow(x, y, r)
  PROVE  RefInv'
<1> DEFINE w == [ref[y] EXCEPT ![r + 1] = ref[x]]
<1>1. kind \in Kinds /\ r \in Nat /\ <<>> \in Seq(Nat)
  BY ConstantFacts DEF RefInv
<1>2. ref[y] \in Seq(Seq(Nat)) /\ r < Len(ref[y]) /\ ref[x] \in Seq(Nat)
  BY <1>1, KindFacts DEF RefInv, RefHolds, ArrayToRow
<1>3. w \in Seq(Seq(Nat))
  BY <1>1, <1>2, RowPut
<1>4. [ref EXCEPT ![y][r + 1] = ref[x], ![x] = <<>>] = [ref EXCEPT ![y] = w, ![x] = <<>>]
  OBVIOUS
<1>5. Moved(ref) \/ Moved([ref EXCEPT ![y][r + 1] = ref[x], ![x] = <<>>])
  <2> DEFINE rf == [ref EXCEPT ![y][r + 1] = ref[x], ![x] = <<>>]
             i == AttachArrayToRow(slot, x, y, r)
             cm == CAttachArrayToRow(c, x, y, r)
             rc == Reason(kind[y] = "flat", "flat")
  <2>1. PICK landed \in BOOLEAN :
          Statement(IF ref[y][r + 1] # <<>> THEN Fails ELSE <<rf, FALSE>>, i, "", cm, rc,
                    LAttachArrayToRow(llvm, x, y, r, landed), "attach")
    BY Zenon DEF ArrayToRow
  <2>2. dyn' = dyn
    BY DEF ArrayToRow
  <2> HIDE DEF rf, i, cm, rc
  <2>3. Moved(ref) \/ Moved(rf)
    BY <2>1, <2>2 DEF Statement, Moved, Fails
  <2> QED
    BY <2>3 DEF rf
<1>6. ValueOf(x, <<>>) /\ ValueOf(y, w)
  BY <1>1, <1>3, ValueOfKind
<1> HIDE DEF w
<1> QED
  BY <1>4, <1>5, <1>6, MovedTwo

LEMMA ArrayToArrayRef ==
  ASSUME RefInv, NEW x \in Lines, NEW y \in Lines, ArrayToArray(x, y)
  PROVE  RefInv'
<1>1. kind \in Kinds /\ ref[x] \in Seq(Nat) /\ <<>> \in Seq(Nat)
  BY DEF RefInv, RefHolds
<1>2. Moved(ref) \/ Moved([ref EXCEPT ![y] = ref[x], ![x] = <<>>])
  BY DEF ArrayToArray, Statement, Moved, Fails
<1>3. ValueOf(x, <<>>) /\ ValueOf(y, ref[x])
  BY <1>1, ValueOfKind
<1> QED
  BY <1>2, <1>3, MovedTwo

LEMMA TextToTextRef ==
  ASSUME RefInv, NEW x \in Texts, NEW y \in Texts, TextToText(x, y)
  PROVE  RefInv'
<1>1. kind \in Kinds /\ ref[x] \in Nat
  BY DEF RefInv, RefHolds
<1>2. Moved(ref) \/ Moved([ref EXCEPT ![y] = ref[x], ![x] = 0])
  BY DEF TextToText, Statement, Moved, Fails
<1>3. ValueOf(x, 0) /\ ValueOf(y, ref[x])
  BY <1>1, ValueOfKind
<1> QED
  BY <1>2, <1>3, MovedTwo

LEMMA TextToElementRef ==
  ASSUME RefInv, NEW x \in Texts, NEW y \in Lines, NEW k \in 0 .. MaxIndex, TextToElement(x, y, k)
  PROVE  RefInv'
<1> DEFINE w == [ref[y] EXCEPT ![k + 1] = ref[x]]
<1>1. kind \in Kinds /\ k \in Nat /\ ref[x] \in Nat /\ ref[y] \in Seq(Nat)
  BY ConstantFacts DEF RefInv, RefHolds
<1>2. CASE k < Len(ref[y])
  <2>1. w \in Seq(Nat)
    BY <1>1, <1>2, ElementPut
  <2>2. [ref EXCEPT ![y][k + 1] = ref[x], ![x] = 0] = [ref EXCEPT ![y] = w, ![x] = 0]
    OBVIOUS
  <2>3. Moved(ref) \/ Moved([ref EXCEPT ![y][k + 1] = ref[x], ![x] = 0])
    BY DEF TextToElement, Statement, Moved, Fails
  <2>4. ValueOf(x, 0) /\ ValueOf(y, w)
    BY <1>1, <2>1, ValueOfKind
  <2> HIDE DEF w
  <2> QED
    BY <2>2, <2>3, <2>4, MovedTwo
<1>3. CASE ~(k < Len(ref[y]))
  <2>1. k >= Len(ref[y])
    BY <1>1, <1>3
  <2>2. Moved(ref)
    BY <2>1 DEF TextToElement, Statement, Moved, Fails
  <2>3. RefHolds(ref)
    BY DEF RefInv
  <2> QED
    BY <2>2, <2>3, MovedRef
<1> QED
  BY <1>2, <1>3

LEMMA ElementToTextRef ==
  ASSUME RefInv, NEW y \in Texts, NEW x \in Lines, NEW k \in 0 .. MaxIndex, ElementToText(x, k, y)
  PROVE  RefInv'
<1> DEFINE v == [ref[x] EXCEPT ![k + 1] = 0]
           w == ref[x][k + 1]
<1>1. kind \in Kinds /\ k \in Nat /\ ref[x] \in Seq(Nat)
  BY ConstantFacts DEF RefInv, RefHolds
<1>2. CASE k < Len(ref[x])
  <2>1. v \in Seq(Nat) /\ w \in Nat
    BY <1>1, <1>2, ElementPut
  <2>2. x # y /\ x \in Names /\ y \in Names
    BY <1>1, KindFacts
  <2>3. [ref EXCEPT ![y] = w, ![x][k + 1] = 0] = [ref EXCEPT ![y] = w, ![x] = v]
    BY <2>2 DEF RefInv, RefHolds
  <2>4. Moved(ref) \/ Moved([ref EXCEPT ![y] = w, ![x][k + 1] = 0])
    BY DEF ElementToText, Statement, Moved, Fails
  <2>5. ValueOf(x, v) /\ ValueOf(y, w)
    BY <1>1, <2>1, ValueOfKind
  <2> HIDE DEF w, v
  <2> QED
    BY <2>3, <2>4, <2>5, MovedTwo
<1>3. CASE ~(k < Len(ref[x]))
  <2>1. k >= Len(ref[x])
    BY <1>1, <1>3
  <2>2. Moved(ref)
    BY <2>1 DEF ElementToText, Statement, Moved, Fails
  <2>3. RefHolds(ref)
    BY DEF RefInv
  <2> QED
    BY <2>2, <2>3, MovedRef
<1> QED
  BY <1>2, <1>3

LEMMA SwapRef ==
  ASSUME RefInv, NEW x, NEW y, {x, y} \subseteq Heap \/ {x, y} \subseteq Texts, Swap(x, y)
  PROVE  RefInv'
<1>1. kind \in Kinds
  BY DEF RefInv
<1>2. ValueOf(x, ref[y]) /\ ValueOf(y, ref[x])
  <2>1. CASE {x, y} \subseteq Heap
    BY <1>1, <2>1, KindFacts, ValueOfKind DEF RefInv, RefHolds
  <2>2. CASE {x, y} \subseteq Texts
    BY <1>1, <2>2, ValueOfKind DEF RefInv, RefHolds
  <2> QED
    BY <2>1, <2>2
<1>3. Moved([ref EXCEPT ![x] = ref[y], ![y] = ref[x]])
  BY DEF Swap, Statement, Moved
<1> QED
  BY <1>2, <1>3, MovedTwo

\* Every step keeps RefInv.
LEMMA RefStep ==
  ASSUME RefInv, [Next]_vars
  PROVE  RefInv'
<1>1. CASE UNCHANGED vars
  BY <1>1 DEF vars, RefInv, RefHolds, Names, Of, Heap, Lines, Tables, Texts
<1>2. CASE Next
  <2>1. \A x \in Heap, redim \in BOOLEAN, b \in {<<>>} \cup {<<n>> : n \in Sizes} :
           DimLine(x, b, redim) => RefInv'
    BY DimLineRef
  <2>2. \A x \in Of({"flat"}), n \in Sizes \ {-1}, redim \in BOOLEAN :
           DimTable(x, n, redim) => RefInv'
    BY DimTableRef
  <2>3. \A x \in Lines, i \in 0 .. MaxIndex : SetLine(x, i) => RefInv'
    BY SetLineRef
  <2>4. \A x \in Tables, i \in 0 .. MaxIndex, j \in 0 .. MaxIndex : SetTable(x, i, j) => RefInv'
    BY SetTableRef
  <2>5. \A x \in Texts : SetText(x) => RefInv'
    BY SetTextRef
  <2>6. \A x \in Tables, r \in 0 .. MaxIndex, y \in Heap :
           RowToArray(x, r, y) \/ ArrayToRow(y, x, r) => RefInv'
    BY RowToArrayRef, ArrayToRowRef
  <2>7. \A x, y \in Lines : ArrayToArray(x, y) => RefInv'
    BY ArrayToArrayRef
  <2>8. \A x, y \in Texts : TextToText(x, y) => RefInv'
    BY TextToTextRef
  <2>9. \A x \in Texts, y \in Lines, k \in 0 .. MaxIndex :
           TextToElement(x, y, k) \/ ElementToText(y, k, x) => RefInv'
    BY TextToElementRef, ElementToTextRef
  <2>10. \A x, y \in Heap : Swap(x, y) => RefInv'
    BY SwapRef
  <2>11. \A x, y \in Texts : Swap(x, y) => RefInv'
    BY SwapRef
  <2> QED
    BY <1>2, <2>1, <2>2, <2>3, <2>4, <2>5, <2>6, <2>7, <2>8, <2>9, <2>10, <2>11 DEF Next
<1> QED
  BY <1>1, <1>2

-----------------------------------------------------------------------------
(* Tables in one piece *)

\* The number of elements of no, one and two dimensions.
LEMMA CountFacts ==
  /\ Count(<<>>) = 0
  /\ \A a : Count(<<a>>) = a
  /\ \A a, b : Count(<<a, b>>) = a * b
BY DEF Count

\* The place of an element, seen from the rows of the table.
LEMMA FlatPlaces ==
  ASSUME NEW n \in Nat, NEW r \in 1 .. n, NEW j \in 1 .. Wide
  PROVE  Place(r, j) \in 1 .. Cells(n)
<1>1. Wide \in Nat /\ Wide > 0
  BY ConstantFacts
<1>2. r - 1 \in 0 .. n - 1 /\ j - 1 \in 0 .. Wide - 1
  BY <1>1
<1>3. n * Wide \in Nat /\ (r - 1) * Wide \in Nat /\ (r - 1) * Wide + (j - 1) < n * Wide
  BY <1>1, <1>2, Places
<1> QED
  BY <1>1, <1>3 DEF Place, Cells

\* The rows past the end lie past the cells of the rest.
LEMMA PlacePast ==
  ASSUME NEW n \in Nat, NEW r \in Nat, r > n, NEW j \in 1 .. Wide
  PROVE  ~(Place(r, j) <= Cells(n))
<1> DEFINE q == r - 1
<1>1. Wide \in Nat /\ q \in Nat /\ n <= q /\ j > 0 /\ j \in Nat
  BY ConstantFacts
<1> HIDE DEF q
<1>2. q * Wide \in Nat /\ n * Wide \in Nat /\ n * Wide <= q * Wide
  BY <1>1, Multiples
<1>3. ~(q * Wide + j <= n * Wide)
  BY <1>1, <1>2
<1> QED
  BY <1>3 DEF Place, Cells, q

\* A table has a natural number of cells.
LEMMA CellsType == \A n \in Nat : Cells(n) \in Nat
BY ConstantFacts DEF Cells

\* Two elements of a table have two places.
LEMMA PlacesDiffer ==
  ASSUME NEW r \in Nat \ {0}, NEW j \in 1 .. Wide,
         NEW q \in Nat \ {0}, NEW k \in 1 .. Wide, Place(r, j) = Place(q, k)
  PROVE  r = q /\ j = k
<1>1. Wide \in Nat
  BY ConstantFacts
<1>2. /\ r - 1 \in 0 .. r - 1 /\ q - 1 \in Nat
      /\ j - 1 \in 0 .. Wide - 1 /\ k - 1 \in 0 .. Wide - 1
  BY <1>1
<1>3. (q - 1) * Wide \in Nat /\ (r - 1) * Wide \in Nat
  BY <1>1, <1>2
<1>4. (r - 1) * Wide + (j - 1) = (q - 1) * Wide + (k - 1)
  BY <1>1, <1>3 DEF Place
<1>5. r - 1 = q - 1 /\ j - 1 = k - 1
  BY <1>1, <1>2, <1>4, Places
<1> QED
  BY <1>5

\* A shorter or longer store is a table with fewer or more rows; what is past the
\* old end is 0, unless nothing is.
LEMMA FlatGrown ==
  ASSUME NEW S, NEW a \in Seq(S), NEW t \in Seq(Seq(Nat)), FlatHolds(a, t),
         NEW n \in Nat, NEW fill \in S, fill = 0 \/ n <= Len(t)
  PROVE  FlatHolds(Grown(a, Cells(n), fill), Grown(t, n, Zeros(Wide)))
<1> DEFINE b == Grown(a, Cells(n), fill)
           u == Grown(t, n, Zeros(Wide))
<1>1. Wide \in Nat /\ Cells(n) \in Nat /\ Zeros(Wide) \in Seq(Nat)
  BY ConstantFacts, CellsType, ZerosFacts
<1>2. /\ Len(b) = Cells(n)
      /\ \A i \in 1 .. Cells(n) : b[i] = IF i <= Len(a) THEN a[i] ELSE fill
  BY <1>1, GrownAt
<1>3. /\ Len(u) = n /\ DOMAIN u = 1 .. n
      /\ \A r \in 1 .. n : u[r] = IF r <= Len(t) THEN t[r] ELSE Zeros(Wide)
  BY GrownAt
<1> HIDE DEF b, u
<1>4. ASSUME NEW r \in 1 .. n
      PROVE  Len(u[r]) = Wide /\ \A j \in 1 .. Wide : b[Place(r, j)] = u[r][j]
  <2>1. CASE r <= Len(t)
    <3>1. r \in 1 .. Len(t) /\ u[r] = t[r]
      BY <1>3, <2>1
    <3>2. Len(t[r]) = Wide /\ \A j \in 1 .. Wide : a[Place(r, j)] = t[r][j]
      BY <3>1 DEF FlatHolds
    <3>3. \A j \in 1 .. Wide : /\ Place(r, j) \in 1 .. Len(a)
                               /\ Place(r, j) \in 1 .. Cells(n)
      BY <3>1, FlatPlaces DEF FlatHolds
    <3>4. \A j \in 1 .. Wide : b[Place(r, j)] = a[Place(r, j)]
      BY <1>2, <3>3
    <3> QED
      BY <3>1, <3>2, <3>4
  <2>2. CASE r > Len(t)
    <3>1. u[r] = Zeros(Wide) /\ fill = 0
      BY <1>3, <2>2
    <3>2. Len(u[r]) = Wide /\ \A j \in 1 .. Wide : u[r][j] = 0
      BY <1>1, <3>1, ZerosFacts
    <3>3. ASSUME NEW j \in 1 .. Wide PROVE b[Place(r, j)] = 0
      <4>1. Place(r, j) \in 1 .. Cells(n)
        BY FlatPlaces
      <4>2. ~(Place(r, j) <= Len(a))
        BY <2>2, PlacePast DEF FlatHolds
      <4> QED
        BY <1>2, <3>1, <4>1, <4>2
    <3> QED
      BY <3>2, <3>3
  <2> QED
    BY <2>1, <2>2
<1>5. Len(b) = Cells(Len(u))
  BY <1>2, <1>3
<1>6. FlatHolds(b, u)
  BY <1>3, <1>4, <1>5 DEF FlatHolds
<1> QED
  BY <1>6 DEF b, u

\* A table without rows.
LEMMA FlatEmpty == FlatHolds(<<>>, <<>>)
BY ConstantFacts DEF FlatHolds, Cells

\* Nothing, resized, is empty elements.
LEMMA ZerosGrown ==
  ASSUME NEW n \in Nat
  PROVE  Zeros(n) = Grown(<<>>, n, 0)
BY DEF Zeros, Grown

\* A new table in one piece.
LEMMA FlatZeros ==
  ASSUME NEW n \in Nat
  PROVE  FlatHolds(Zeros(Cells(n)), Grown(<<>>, n, Zeros(Wide)))
<1>1. <<>> \in Seq(Nat) /\ <<>> \in Seq(Seq(Nat)) /\ 0 \in Nat
  OBVIOUS
<1>2. Cells(n) \in Nat
  BY CellsType
<1>3. FlatHolds(Grown(<<>>, Cells(n), 0), Grown(<<>>, n, Zeros(Wide)))
  BY <1>1, FlatEmpty, FlatGrown
<1> QED
  BY <1>2, <1>3, ZerosGrown

\* What DIM x[1, Inner] allocates.
LEMMA FlatFirst == FlatHolds(Zeros(Cells(2)), Table(1, 0))
<1>1. Table(1, 0) = Grown(<<>>, 2, Zeros(Wide))
  BY DEF Table, Grown, Zeros
<1> QED
  BY <1>1, FlatZeros

\* An element of a table in one piece is set.
LEMMA FlatSet ==
  ASSUME NEW S, NEW a \in Seq(S), NEW t \in Seq(Seq(Nat)), FlatHolds(a, t),
         NEW i \in Nat, i < Len(t), NEW j \in Nat, j < Len(t[i + 1]), NEW v \in Nat, v \in S
  PROVE  /\ j < Wide
         /\ i * Wide + j + 1 \in 1 .. Len(a)
         /\ FlatHolds([a EXCEPT ![i * Wide + j + 1] = v], [t EXCEPT ![i + 1][j + 1] = v])
<1> DEFINE p == i * Wide + j + 1
           row == [t[i + 1] EXCEPT ![j + 1] = v]
           b == [a EXCEPT ![p] = v]
           u == [t EXCEPT ![i + 1] = row]
<1>1. i + 1 \in 1 .. Len(t) /\ t[i + 1] \in Seq(Nat) /\ Len(t[i + 1]) = Wide /\ Wide \in Nat
  BY ConstantFacts DEF FlatHolds
<1>2. j + 1 \in 1 .. Wide
  BY <1>1
<1>3. /\ Place(i + 1, j + 1) \in 1 .. Cells(Len(t))
      /\ \A q \in 1 .. Len(t), k \in 1 .. Wide :
           Place(i + 1, j + 1) = Place(q, k) => i + 1 = q /\ j + 1 = k
  <2> DEFINE q0 == i + 1
             k0 == j + 1
             n == Len(t)
  <2>1. q0 \in 1 .. n /\ k0 \in 1 .. Wide /\ n \in Nat
    BY <1>1, <1>2
  <2> HIDE DEF q0, k0, n
  <2>2. Place(q0, k0) \in 1 .. Cells(n)
    BY <2>1, FlatPlaces
  <2>3. ASSUME NEW q \in 1 .. n, NEW k \in 1 .. Wide, Place(q0, k0) = Place(q, k)
        PROVE  q0 = q /\ k0 = k
    <3>1. q0 \in Nat \ {0} /\ q \in Nat \ {0} /\ k0 \in 1 .. Wide /\ k \in 1 .. Wide
      BY <2>1
    <3>2. Place(q0, k0) = Place(q, k)
      BY <2>3
    <3> HIDE <2>3
    <3> QED
      BY ONLY <3>1, <3>2, PlacesDiffer
  <2> QED
    BY <2>2, <2>3 DEF q0, k0, n
<1>4. p = Place(i + 1, j + 1)
  BY <1>1 DEF Place
<1>5. p \in 1 .. Len(a)
  BY <1>3, <1>4 DEF FlatHolds
<1>6. /\ row \in Seq(Nat) /\ Len(row) = Wide
      /\ \A k \in 1 .. Wide : row[k] = IF k = j + 1 THEN v ELSE t[i + 1][k]
  BY <1>1, <1>2, ExceptFacts
<1> HIDE DEF row
<1>7. /\ u \in Seq(Seq(Nat)) /\ Len(u) = Len(t) /\ DOMAIN u = 1 .. Len(t)
      /\ \A q \in 1 .. Len(t) : u[q] = IF q = i + 1 THEN row ELSE t[q]
  BY <1>1, <1>6, ExceptFacts
<1> HIDE DEF p
<1>8. Len(b) = Len(a) /\ \A k \in 1 .. Len(a) : b[k] = IF k = p THEN v ELSE a[k]
  BY <1>5, ExceptFacts
<1> HIDE DEF b, u
<1>9. ASSUME NEW q \in 1 .. Len(t)
      PROVE  Len(u[q]) = Wide /\ \A k \in 1 .. Wide : b[Place(q, k)] = u[q][k]
  <2>1. Len(t[q]) = Wide /\ \A k \in 1 .. Wide : a[Place(q, k)] = t[q][k]
    BY DEF FlatHolds
  <2>2. \A k \in 1 .. Wide : Place(q, k) \in 1 .. Len(a)
    BY FlatPlaces DEF FlatHolds
  <2>3. CASE q = i + 1
    <3>1. u[q] = row
      BY <1>7, <2>3
    <3>2. ASSUME NEW k \in 1 .. Wide PROVE b[Place(q, k)] = row[k]
      <4>1. CASE k = j + 1
        <5>1. Place(q, k) = p
          BY <1>4, <2>3, <4>1
        <5> QED
          BY <1>5, <1>6, <1>8, <4>1, <5>1
      <4>2. CASE k # j + 1
        <5>1. Place(q, k) # p
          BY <1>3, <1>4, <4>2
        <5>2. b[Place(q, k)] = a[Place(q, k)]
          BY <1>8, <2>2, <5>1
        <5> QED
          BY <1>6, <2>1, <2>3, <4>2, <5>2
      <4> QED
        BY <4>1, <4>2
    <3> QED
      BY <1>6, <3>1, <3>2
  <2>4. CASE q # i + 1
    <3>1. u[q] = t[q]
      BY <1>7, <2>4
    <3>2. \A k \in 1 .. Wide : Place(q, k) # p
      BY <1>3, <1>4, <2>4
    <3> QED
      BY <1>8, <2>1, <2>2, <3>1, <3>2
  <2> QED
    BY <2>3, <2>4
<1>10. FlatHolds(b, u)
  BY <1>7, <1>8, <1>9 DEF FlatHolds
<1>11. j < Wide
  BY <1>1
<1> QED
  BY <1>5, <1>10, <1>11 DEF b, u, p, row

-----------------------------------------------------------------------------
(* The LLVM code *)

LExcuses == {"shared", "attach", "swap"} \subseteq Excused

\* A statement as the LLVM code sees it: lm is its state after it, unless the
\* comparison has ended or the reference fails.
LMoves(rf, failed, lm, reason) ==
    /\ kind' = kind /\ ~err.ref
    /\ ref' = rf /\ err'.ref = failed
    /\ why'.llvm = Excuse("llvm", reason)
    /\ llvm' = IF why'.llvm = "" /\ ~failed THEN lm ELSE llvm

\* A statement keeps LInv if, where nothing ends the comparison, it keeps LHolds.
LEMMA LMoved ==
  ASSUME LExcuses, LInv, NEW rf, NEW failed \in BOOLEAN, NEW lm,
         NEW reason \in {"", "shared", "attach", "swap"},
         LMoves(rf, failed, lm, reason),
         reason = "" /\ ~failed /\ LHolds(llvm, ref) => LHolds(lm, rf)
  PROVE  LInv'
<1> SUFFICES ASSUME why'.llvm = "", ~failed PROVE LHolds(lm, rf)'
  BY DEF LInv, LMoves, LHolds, HolderHolds, Names, Lines, Tables, Texts, Of
<1>1. reason = "" /\ why.llvm = ""
  BY DEF LMoves, Excuse, LExcuses
<1>2. LHolds(lm, rf)
  BY <1>1 DEF LInv, LMoves
<1> QED
  BY <1>2 DEF LMoves, LHolds, HolderHolds, Names, Lines, Tables, Texts, Of

\* One holder and its name given what belongs together.
LEMMA LPut ==
  ASSUME NEW m, NEW rf, LHolds(m, rf), DOMAIN rf = Names,
         NEW x \in Names, NEW h, NEW t, HolderHolds(x, h, t)
  PROVE  LHolds([m EXCEPT ![x] = h], [rf EXCEPT ![x] = t])
BY DEF LHolds

\* The counts of a DIM.
LEMMA LCountsFacts ==
  /\ LCounts(<<>>) = <<>>
  /\ \A n : LCounts(<<n>>) = <<AtLeast0(n) + 1>>
  /\ \A n, m : LCounts(<<n, m>>) = <<AtLeast0(n) + 1, AtLeast0(m) + 1>>
BY DEF LCounts

\* A line without elements has none at all.
LEMMA NoElements0 ==
  ASSUME NEW s
  PROVE  Grown(s, 0, 0) = <<>> /\ Zeros(0) = <<>>
BY DEF Grown, Zeros

\* A line is neither a table nor a text.
LEMMA NotTable ==
  ASSUME kind \in Kinds, NEW x \in Lines
  PROVE  x \in Names /\ x \notin Tables /\ x \notin Texts
BY KindFacts

\* A table is neither a line nor a text.
LEMMA NotLine ==
  ASSUME kind \in Kinds, NEW x \in Tables
  PROVE  x \in Names /\ x \notin Lines /\ x \notin Texts /\ (kind[x] = "node" \/ kind[x] = "flat")
BY KindFacts DEF Tables, Of

\* A holder for a line.
LEMMA LLine ==
  ASSUME kind \in Kinds, NEW x \in Lines, NEW h, NEW t \in Seq(Nat), NEW b \in Seq(Nat),
         h.buf = b, b = t, h.cnt = <<Len(t)>>, h = [buf |-> h.buf, cnt |-> h.cnt, val |-> h.val],
         h.val \in Nat
  PROVE  HolderHolds(x, h, t)
<1>1. h.cnt \in Seq(Nat)
  OBVIOUS
<1> QED
  BY <1>1, NotTable DEF HolderHolds, LVar

\* DIM and REDIM of a line leave buffer and count in step.
LEMMA LDimLineHolds ==
  ASSUME RefInv, NEW x \in Heap, NEW redim \in BOOLEAN,
         NEW b \in {<<>>} \cup {<<n>> : n \in Sizes}, HolderHolds(x, llvm[x], ref[x]),
         kind[x] = "shared" => redim /\ b # <<>>
  PROVE  HolderHolds(x, IF kind[x] = "shared" THEN LDimShared(llvm[x], b, redim)
                        ELSE LDim(llvm[x], b, redim), RefDimLine(x, b, redim))
<1> DEFINE h == llvm[x]
           g == IF kind[x] = "shared" THEN LDimShared(h, b, redim) ELSE LDim(h, b, redim)
           t == RefDimLine(x, b, redim)
<1>1. kind \in Kinds /\ x \in Lines /\ t \in Seq(Nat) /\ ref[x] \in Seq(Nat)
  BY KindFacts, RefDimLineType DEF RefInv, RefHolds
<1>2. h \in LVar /\ h.buf = ref[x]
  BY <1>1 DEF HolderHolds
<1>3. CASE b = <<>>
  <2>1. t = <<>> /\ kind[x] # "shared"
    BY <1>3 DEF RefDimLine
  <2>2. Count(LCounts(b)) = 0
    BY <1>3, LCountsFacts, CountFacts
  <2>3. g = [h EXCEPT !.buf = <<>>, !.cnt = <<0>>]
    BY <1>3, <2>1, <2>2, NoElements0 DEF LDim, dyn_resize
  <2>4. g = [buf |-> <<>>, cnt |-> <<0>>, val |-> h.val] /\ h.val \in Nat
    BY <1>2, <2>3 DEF LVar
  <2>5. <<0>> = <<Len(<<>>)>> /\ <<>> \in Seq(Nat)
    OBVIOUS
  <2> HIDE DEF g, h, t
  <2>6. HolderHolds(x, g, t)
    BY <1>1, <2>1, <2>4, <2>5, LLine
  <2> QED
    BY <2>6 DEF g, h, t
<1>4. CASE b # <<>>
  <2>1. PICK n \in Sizes : b = <<n>>
    BY <1>4
  <2> DEFINE m == AtLeast0(n) + 1
  <2>2. m \in Nat
    BY ConstantFacts, AtLeast0Facts
  <2>3. LCounts(b) = <<m>> /\ Count(LCounts(b)) = m
    BY <2>1, LCountsFacts, CountFacts
  <2>4. t = IF redim \/ kind[x] = "shared" THEN Grown(ref[x], m, 0) ELSE Zeros(m)
    BY <2>1, <1>4 DEF RefDimLine
  <2>5. t = IF redim THEN Grown(h.buf, m, 0) ELSE Zeros(m)
    BY <1>2, <2>4
  <2>6. g = [h EXCEPT !.buf = t, !.cnt = <<m>>]
    <3> HIDE DEF m, t, h
    <3>1. CASE kind[x] = "shared"
      BY <3>1, <1>4, <2>3, <2>5 DEF LDimShared, dyn_resize
    <3>2. CASE kind[x] # "shared"
      BY <3>2, <1>4, <2>3, <2>5 DEF LDim, dyn_resize
    <3> QED
      BY <3>1, <3>2
  <2>7. Len(t) = m
    BY <1>1, <2>2, <2>4, GrownZero, ZerosFacts
  <2> HIDE DEF m, t, h, g
  <2>8. g = [buf |-> t, cnt |-> <<m>>, val |-> h.val] /\ h.val \in Nat
    BY <1>2, <2>6 DEF LVar
  <2>9. HolderHolds(x, g, t)
    BY <1>1, <2>7, <2>8, LLine
  <2> QED
    BY <2>9 DEF g, h, t
<1> QED
  BY <1>3, <1>4

\* Each statement the LLVM code is compared on keeps LInv.
LEMMA DimLineL ==
  ASSUME LExcuses, RefInv, LInv, NEW x \in Heap, NEW redim \in BOOLEAN,
         NEW b \in {<<>>} \cup {<<n>> : n \in Sizes}, DimLine(x, b, redim)
  PROVE  LInv'
<1> DEFINE g == IF kind[x] = "shared" THEN LDimShared(llvm[x], b, redim)
                ELSE LDim(llvm[x], b, redim)
           lm == [llvm EXCEPT ![x] = g]
           rf == [ref EXCEPT ![x] = RefDimLine(x, b, redim)]
           reason == Reason(kind[x] = "shared" /\ (~redim \/ b = <<>>), "shared")
<1>1. LMoves(rf, FALSE, lm, reason)
  BY DEF DimLine, Statement, LMoves, RefDimLine
<1>2. reason \in {"", "shared", "attach", "swap"}
  BY DEF Reason
<1>3. ASSUME reason = "", LHolds(llvm, ref) PROVE LHolds(lm, rf)
  <2>1. kind[x] = "shared" => redim /\ b # <<>>
    BY <1>3 DEF Reason
  <2>2. x \in Names /\ DOMAIN ref = Names
    BY KindFacts DEF RefInv, RefHolds
  <2>3. HolderHolds(x, g, RefDimLine(x, b, redim))
    BY <1>3, <2>1, <2>2, LDimLineHolds DEF LHolds
  <2> HIDE DEF g
  <2> QED
    BY <1>3, <2>2, <2>3, LPut
<1> HIDE DEF lm, rf, reason
<1> QED
  BY <1>1, <1>2, <1>3, LMoved

\* DIM and REDIM of a table leave buffer and counts in step.
LEMMA LDimTableHolds ==
  ASSUME RefInv, NEW x \in Tables, NEW n \in Nat, NEW redim \in BOOLEAN,
         HolderHolds(x, llvm[x], ref[x])
  PROVE  HolderHolds(x, LDim(llvm[x], <<n, Inner>>, redim), RefDimTable(x, n, redim))
<1> DEFINE h == llvm[x]
           g == LDim(h, <<n, Inner>>, redim)
           t == RefDimTable(x, n, redim)
           a == IF redim THEN Grown(h.buf, Cells(n + 1), 0) ELSE Zeros(Cells(n + 1))
<1>1. kind \in Kinds /\ ref[x] \in Seq(Seq(Nat)) /\ n + 1 \in Nat /\ Wide \in Nat
  BY ConstantFacts DEF RefInv, RefHolds
<1>2. h \in LVar /\ FlatHolds(h.buf, ref[x])
  BY DEF HolderHolds
<1>3. AtLeast0(n) + 1 = n + 1 /\ AtLeast0(Inner) + 1 = Wide
  BY ConstantFacts, AtLeast0Facts DEF Wide
<1>4. LCounts(<<n, Inner>>) = <<n + 1, Wide>>
  BY <1>3, LCountsFacts
<1>5. Count(LCounts(<<n, Inner>>)) = Cells(n + 1)
  BY <1>4, CountFacts DEF Cells
<1>6. g = [h EXCEPT !.buf = a, !.cnt = <<n + 1, Wide>>]
  BY <1>4, <1>5 DEF LDim, dyn_resize
<1>7. Len(t) = n + 1 /\ Cells(n + 1) \in Nat
  BY <1>1, RefDimTableType, CellsType
<1>8. a \in Seq(Nat)
  BY <1>2, <1>7, GrownZero, ZerosFacts DEF LVar
<1>9. FlatHolds(a, t)
  <2>1. CASE redim
    <3> DEFINE s == h.buf
               u == ref[x]
               k == n + 1
    <3>1. s \in Seq(Nat) /\ u \in Seq(Seq(Nat)) /\ FlatHolds(s, u) /\ k \in Nat /\ 0 \in Nat
      BY <1>1, <1>2 DEF LVar
    <3> HIDE DEF s, u, k
    <3>2. FlatHolds(Grown(s, Cells(k), 0), Grown(u, k, Zeros(Wide)))
      BY <3>1, FlatGrown
    <3> QED
      BY <2>1, <3>2 DEF s, u, k, RefDimTable
  <2>2. CASE ~redim
    BY <1>1, <2>2, FlatZeros DEF RefDimTable
  <2> QED
    BY <2>1, <2>2
<1> HIDE DEF a, t, g
<1>10. g = [buf |-> a, cnt |-> <<n + 1, Wide>>, val |-> h.val] /\ h.val \in Nat
  BY <1>2, <1>6 DEF LVar
<1>11. g \in LVar /\ g.cnt = <<Len(t), Wide>> /\ g.buf = a
  BY <1>1, <1>7, <1>8, <1>10 DEF LVar
<1>12. HolderHolds(x, g, t)
  BY <1>1, <1>9, <1>11, NotLine DEF HolderHolds
<1> QED
  BY <1>12 DEF g, t

LEMMA DimTableL ==
  ASSUME LExcuses, RefInv, LInv, NEW x \in Of({"flat"}), NEW n \in Sizes \ {-1},
         NEW redim \in BOOLEAN, DimTable(x, n, redim)
  PROVE  LInv'
<1> DEFINE g == LDim(llvm[x], <<n, Inner>>, redim)
           lm == [llvm EXCEPT ![x] = g]
           rf == [ref EXCEPT ![x] = RefDimTable(x, n, redim)]
<1>1. LMoves(rf, FALSE, lm, "")
  BY DEF DimTable, Statement, LMoves, RefDimTable
<1>2. ASSUME LHolds(llvm, ref) PROVE LHolds(lm, rf)
  <2>1. x \in Tables /\ n \in Nat
    BY ConstantFacts DEF Tables, Of
  <2>2. x \in Names /\ DOMAIN ref = Names
    BY <2>1, NotLine DEF RefInv, RefHolds
  <2>3. HolderHolds(x, g, RefDimTable(x, n, redim))
    BY <1>2, <2>1, <2>2, LDimTableHolds DEF LHolds
  <2> HIDE DEF g
  <2> QED
    BY <1>2, <2>2, <2>3, LPut
<1> HIDE DEF lm, rf
<1> QED
  BY <1>1, <1>2, LMoved

\* A sequence resized to the length it has.
LEMMA GrownSame ==
  ASSUME NEW S, NEW s \in Seq(S), NEW fill
  PROVE  Grown(s, Len(s), fill) = s
BY DEF Grown

LEMMA SetLineL ==
  ASSUME LExcuses, RefInv, LInv, NEW x \in Lines, NEW i \in 0 .. MaxIndex, SetLine(x, i)
  PROVE  LInv'
<1> DEFINE h == llvm[x]
           g == LWrite(h, <<i>>, Fresh, x \in Heap)
           lm == [llvm EXCEPT ![x] = g]
           rf == [ref EXCEPT ![x] = RefSetLine(x, i)]
           n == IF i < Len(ref[x]) THEN Len(ref[x]) ELSE i + 1
           s == ref[x]
           t == RefSetLine(x, i)
<1>1. LMoves(rf, FALSE, lm, "")
  BY DEF SetLine, Statement, LMoves, RefSetLine
<1>2. ASSUME LHolds(llvm, ref) PROVE LHolds(lm, rf)
  <2>1. kind \in Kinds /\ x \in Names /\ DOMAIN ref = Names /\ i \in Nat /\ s \in Seq(Nat)
    BY ConstantFacts, NotTable DEF RefInv, RefHolds
  <2>2. t \in Seq(Nat) /\ Len(t) = n /\ n \in Nat
    BY <2>1, RefSetLineFacts
  <2>3. h \in LVar /\ h.buf = s /\ h.cnt = <<Len(s)>>
    BY <1>2, <2>1 DEF LHolds, HolderHolds
  <2>4. (IF h.cnt[1] > i + 1 THEN h.cnt[1] ELSE i + 1) = n
    BY <2>1, <2>3
  <2>5. g = [buf |-> t, cnt |-> <<n>>, val |-> h.val] /\ h.val \in Nat
    <3>1. CASE x \in Heap
      <4> DEFINE k == [h EXCEPT !.buf = dyn_resize(@, n), !.cnt[1] = n]
      <4>5. [<<Len(s)>> EXCEPT ![1] = n] = <<n>>
        OBVIOUS
      <4>6. k = [h EXCEPT !.buf = Grown(s, n, 0), !.cnt = [<<Len(s)>> EXCEPT ![1] = n]]
        BY <2>3 DEF dyn_resize
      <4> HIDE DEF k, h, s, n
      <4>1. k = [buf |-> Grown(s, n, 0), cnt |-> <<n>>, val |-> h.val]
        BY <2>3, <4>5, <4>6 DEF LVar
      <4>2. g = [k EXCEPT !.buf[array_elem_ptr(k, <<i>>) + 1] = Fresh]
        BY <2>4, <3>1 DEF LWrite, k
      <4> HIDE DEF k
      <4>3. array_elem_ptr(k, <<i>>) = i
        BY <4>1 DEF array_elem_ptr
      <4> HIDE DEF g
      <4>4. g = [buf |-> [Grown(s, n, 0) EXCEPT ![i + 1] = Fresh], cnt |-> <<n>>, val |-> h.val]
        BY <4>1, <4>2, <4>3
      <4> QED
        BY <2>3, <4>4 DEF RefSetLine, LVar, s, n
    <3>2. CASE x \notin Heap
      <4>1. i < Len(s) /\ n = Len(s)
        BY <2>1, <3>2 DEF SetLine
      <4>2. g = [h EXCEPT !.buf[array_elem_ptr(h, <<i>>) + 1] = Fresh]
        BY <3>2 DEF LWrite
      <4>3. array_elem_ptr(h, <<i>>) = i
        BY <2>3 DEF array_elem_ptr
      <4> HIDE DEF g
      <4>4. g = [buf |-> [s EXCEPT ![i + 1] = Fresh], cnt |-> <<n>>, val |-> h.val]
        BY <2>3, <4>1, <4>2, <4>3 DEF LVar
      <4>5. Grown(s, n, 0) = s
        BY <2>1, <4>1, GrownSame
      <4> QED
        BY <2>3, <4>4, <4>5 DEF RefSetLine, LVar
    <3> QED
      BY <3>1, <3>2
  <2> HIDE DEF g, t, n, h
  <2>6. HolderHolds(x, g, t)
    BY <2>1, <2>2, <2>5, LLine
  <2> HIDE DEF s
  <2> QED
    BY <1>2, <2>1, <2>6, LPut DEF t
<1> HIDE DEF lm, rf
<1> QED
  BY <1>1, <1>2, LMoved

LEMMA SetTableL ==
  ASSUME LExcuses, RefInv, LInv, NEW x \in Tables, NEW i \in 0 .. MaxIndex,
         NEW j \in 0 .. MaxIndex, SetTable(x, i, j)
  PROVE  LInv'
<1> DEFINE h == llvm[x]
           g == LWrite(h, <<i, j>>, Fresh, FALSE)
           s == ref[x]
           t == [s EXCEPT ![i + 1][j + 1] = Fresh]
           lm == [llvm EXCEPT ![x] = g]
           rf == [ref EXCEPT ![x][i + 1][j + 1] = Fresh]
<1>1. LMoves(rf, FALSE, lm, "")
  BY DEF SetTable, Statement, LMoves
<1>2. ASSUME LHolds(llvm, ref) PROVE LHolds(lm, rf)
  <2>1. /\ kind \in Kinds /\ x \in Names /\ DOMAIN ref = Names /\ i \in Nat /\ j \in Nat
        /\ s \in Seq(Seq(Nat)) /\ i < Len(s) /\ j < Len(s[i + 1]) /\ Fresh \in Nat
    <3>1. kind \in Kinds /\ x \in Names /\ DOMAIN ref = Names
      BY NotLine DEF RefInv, RefHolds
    <3>2. i \in Nat /\ j \in Nat
      BY ConstantFacts
    <3>3. s \in Seq(Seq(Nat)) /\ Fresh \in Nat
      BY DEF RefInv, RefHolds, Fresh
    <3>4. i < Len(s) /\ j < Len(s[i + 1])
      BY DEF SetTable
    <3> QED
      BY <3>1, <3>2, <3>3, <3>4
  <2>2. h \in LVar /\ FlatHolds(h.buf, s) /\ h.cnt = <<Len(s), Wide>>
    BY <1>2, <2>1 DEF LHolds, HolderHolds
  <2>3. h.buf \in Seq(Nat)
    BY <2>2 DEF LVar
  <2> DEFINE b == [h.buf EXCEPT ![i * Wide + j + 1] = Fresh]
  <2>4. i * Wide + j + 1 \in 1 .. Len(h.buf) /\ FlatHolds(b, t)
    BY <2>1, <2>2, <2>3, FlatSet
  <2>5. array_elem_ptr(h, <<i, j>>) = i * Wide + j
    BY <2>2 DEF array_elem_ptr
  <2>6. g = [h EXCEPT !.buf = b]
    BY <2>5 DEF LWrite
  <2>7. b \in Seq(Nat)
    BY <2>1, <2>3, <2>4, ExceptFacts
  <2>8. Len(t) = Len(s)
    BY <2>1
  <2> HIDE DEF b, g, t
  <2> HIDE DEF h, s
  <2>13. g = [buf |-> b, cnt |-> <<Len(t), Wide>>, val |-> h.val] /\ h.val \in Nat
    BY <2>2, <2>6, <2>8 DEF LVar
  <2>14. Len(t) \in Nat /\ Wide \in Nat
    BY <2>1, <2>8, ConstantFacts
  <2>9. g = [buf |-> b, cnt |-> <<Len(t), Wide>>, val |-> h.val] /\ h.val \in Nat
        /\ Len(t) \in Nat /\ Wide \in Nat
    BY <2>13, <2>14
  <2>10. g \in LVar /\ g.cnt = <<Len(t), Wide>> /\ FlatHolds(g.buf, t)
    BY <2>4, <2>7, <2>9 DEF LVar
  <2>11. HolderHolds(x, g, t)
    BY <2>1, <2>10, NotLine DEF HolderHolds
  <2>12. rf = [ref EXCEPT ![x] = t]
    BY DEF t, s
  <2>15. HolderHolds(x, g, t) /\ DOMAIN ref = Names /\ x \in Names
    BY <2>1, <2>11
  <2> HIDE DEF rf
  <2> QED
    BY <1>2, <2>12, <2>15, LPut
<1> HIDE DEF lm, rf
<1> QED
  BY <1>1, <1>2, LMoved

LEMMA SetTextL ==
  ASSUME LExcuses, RefInv, LInv, NEW x \in Texts, SetText(x)
  PROVE  LInv'
<1> DEFINE g == [llvm[x] EXCEPT !.val = Fresh]
           lm == [llvm EXCEPT ![x].val = Fresh]
           rf == [ref EXCEPT ![x] = Fresh]
<1>1. LMoves(rf, FALSE, lm, "")
  BY DEF SetText, Statement, LMoves
<1>2. ASSUME LHolds(llvm, ref) PROVE LHolds(lm, rf)
  <2>1. /\ kind \in Kinds /\ x \in Names /\ DOMAIN ref = Names /\ Fresh \in Nat
        /\ x \notin Lines /\ x \notin Tables
    BY KindFacts DEF RefInv, RefHolds, Fresh
  <2>2. llvm[x] \in LVar
    BY <1>2, <2>1 DEF LHolds, HolderHolds
  <2>3. HolderHolds(x, g, Fresh)
    BY <2>1, <2>2 DEF HolderHolds, LVar
  <2> HIDE DEF g
  <2>4. lm = [llvm EXCEPT ![x] = g]
    BY DEF g
  <2> HIDE DEF lm
  <2> QED
    BY <1>2, <2>1, <2>3, <2>4, LPut
<1> HIDE DEF lm, rf
<1> QED
  BY <1>1, <1>2, LMoved

\* An ATTACH and a SWAP end the comparison.
LEMMA LEnded ==
  ASSUME LExcuses, LInv, NEW reason \in {"attach", "swap"}, why'.llvm = Excuse("llvm", reason)
  PROVE  LInv'
<1>1. why'.llvm # ""
  BY DEF Excuse, LExcuses
<1> QED
  BY <1>1 DEF LInv

\* Every ATTACH and SWAP ends the comparison.
LEMMA RowToArrayL == ASSUME LExcuses, LInv, NEW x, NEW r, NEW y, RowToArray(x, r, y) PROVE LInv'
<1>1. why'.llvm = Excuse("llvm", "attach")
  BY DEF RowToArray, Statement
<1> QED
  BY <1>1, LEnded

LEMMA ArrayToArrayL == ASSUME LExcuses, LInv, NEW x, NEW y, ArrayToArray(x, y) PROVE LInv'
<1>1. why'.llvm = Excuse("llvm", "attach")
  BY DEF ArrayToArray, Statement
<1> QED
  BY <1>1, LEnded

LEMMA TextToTextL == ASSUME LExcuses, LInv, NEW x, NEW y, TextToText(x, y) PROVE LInv'
<1>1. why'.llvm = Excuse("llvm", "attach")
  BY DEF TextToText, Statement
<1> QED
  BY <1>1, LEnded

LEMMA TextToElementL == ASSUME LExcuses, LInv, NEW x, NEW y, NEW k, TextToElement(x, y, k) PROVE LInv'
<1>1. why'.llvm = Excuse("llvm", "attach")
  BY DEF TextToElement, Statement
<1> QED
  BY <1>1, LEnded

LEMMA ElementToTextL == ASSUME LExcuses, LInv, NEW x, NEW k, NEW y, ElementToText(x, k, y) PROVE LInv'
<1>1. why'.llvm = Excuse("llvm", "attach")
  BY DEF ElementToText, Statement
<1> QED
  BY <1>1, LEnded

LEMMA SwapL == ASSUME LExcuses, LInv, NEW x, NEW y, Swap(x, y) PROVE LInv'
<1>1. why'.llvm = Excuse("llvm", "swap")
  BY DEF Swap, Statement
<1> QED
  BY <1>1, LEnded

LEMMA ArrayToRowL == ASSUME LExcuses, LInv, NEW x, NEW y, NEW r, ArrayToRow(x, y, r) PROVE LInv'
<1> DEFINE rs == IF ref[y][r + 1] # <<>> THEN Fails
                 ELSE <<[ref EXCEPT ![y][r + 1] = ref[x], ![x] = <<>>], FALSE>>
           i == AttachArrayToRow(slot, x, y, r)
           cm == CAttachArrayToRow(c, x, y, r)
           rc == Reason(kind[y] = "flat", "flat")
<1>1. PICK landed \in BOOLEAN :
        Statement(rs, i, "", cm, rc, LAttachArrayToRow(llvm, x, y, r, landed), "attach")
  BY Zenon DEF ArrayToRow
<1> HIDE DEF rs, i, cm, rc
<1>2. why'.llvm = Excuse("llvm", "attach")
  BY <1>1 DEF Statement
<1> QED
  BY <1>2, LEnded

\* What the declarations leave the LLVM code with.
LEMMA InitL == Init => LInv
<1> SUFFICES ASSUME Init PROVE LHolds(llvm, ref)
  BY DEF LInv
<1>1. kind \in Kinds
  BY DEF Init
<1>2. /\ llvm = [x \in Names |-> CASE kind[x] = "fixed" -> LDim(LNew, <<1>>, FALSE)
                                  [] x \in Tables -> LDim(LNew, <<1, Inner>>, FALSE)
                                  [] x \in Texts -> LNew
                                  [] OTHER -> [LNew EXCEPT !.cnt = <<0>>]]
      /\ ref = [x \in Names |-> CASE kind[x] = "fixed" -> <<0, 0>>
                                 [] x \in Tables -> Table(1, 0)
                                 [] x \in Texts -> 0
                                 [] OTHER -> <<>>]
  BY DEF Init
<1>3. DOMAIN llvm = Names
  BY <1>2
<1>4. ASSUME NEW x \in Names PROVE HolderHolds(x, llvm[x], ref[x])
  <2>1. CASE kind[x] = "fixed"
    <3>1. x \in Lines /\ x \notin Tables /\ x \notin Texts
      BY <2>1 DEF Lines, Tables, Texts, Of
    <3>2. llvm[x] = LDim(LNew, <<1>>, FALSE) /\ ref[x] = <<0, 0>>
      BY <1>2, <2>1, <3>1
    <3>3. AtLeast0(1) + 1 = 2
      BY AtLeast0Facts
    <3>4. LCounts(<<1>>) = <<2>> /\ Count(LCounts(<<1>>)) = 2
      BY <3>3, LCountsFacts, CountFacts
    <3>5. llvm[x] = [buf |-> <<0, 0>>, cnt |-> <<2>>, val |-> 0]
      BY <3>2, <3>4, EmptyAndZeros DEF LDim, LNew
    <3> QED
      BY <1>1, <3>1, <3>2, <3>5, EmptyAndZeros, LLine
  <2>2. CASE x \in Tables
    <3>1. x \notin Lines /\ x \notin Texts /\ kind[x] # "fixed"
      BY <1>1, <2>2, NotLine
    <3>2. llvm[x] = LDim(LNew, <<1, Inner>>, FALSE) /\ ref[x] = Table(1, 0)
      BY <1>2, <2>2, <3>1
    <3>3. AtLeast0(1) + 1 = 2 /\ AtLeast0(Inner) + 1 = Wide /\ Wide \in Nat
      BY AtLeast0Facts, ConstantFacts DEF Wide
    <3>4. LCounts(<<1, Inner>>) = <<2, Wide>> /\ Count(LCounts(<<1, Inner>>)) = Cells(2)
      BY <3>3, LCountsFacts, CountFacts DEF Cells
    <3>5. llvm[x] = [buf |-> Zeros(Cells(2)), cnt |-> <<2, Wide>>, val |-> 0]
      BY <3>2, <3>4 DEF LDim, LNew
    <3>6. Zeros(Cells(2)) \in Seq(Nat) /\ Len(Table(1, 0)) = 2
      BY CellsType, ZerosFacts, FirstTable
    <3>7. llvm[x] \in LVar
      BY <3>3, <3>5, <3>6 DEF LVar
    <3>8. llvm[x].cnt = <<Len(Table(1, 0)), Wide>> /\ llvm[x].buf = Zeros(Cells(2))
      <4>1. llvm[x].cnt = <<2, Wide>> /\ llvm[x].buf = Zeros(Cells(2))
        BY ONLY <3>5
      <4>2. Len(Table(1, 0)) = 2
        BY <3>6
      <4> QED
        BY ONLY <4>1, <4>2
    <3>9. FlatHolds(llvm[x].buf, Table(1, 0))
      BY <3>8, FlatFirst
    <3> QED
      BY <3>1, <3>2, <3>7, <3>8, <3>9 DEF HolderHolds
  <2>3. CASE x \in Texts
    <3>1. x \notin Lines /\ x \notin Tables /\ kind[x] # "fixed"
      BY <1>1, <2>3, KindFacts DEF Texts, Of
    <3>2. llvm[x] = LNew /\ ref[x] = 0
      BY <1>2, <2>3, <3>1
    <3> QED
      BY <3>1, <3>2 DEF HolderHolds, LNew, LVar
  <2>4. CASE x \in Lines /\ kind[x] # "fixed"
    <3>1. x \notin Texts /\ x \notin Tables
      BY <1>1, <2>4, KindFacts
    <3>2. llvm[x] = [LNew EXCEPT !.cnt = <<0>>] /\ ref[x] = <<>>
      BY <1>2, <2>4, <3>1
    <3>3. llvm[x] = [buf |-> <<>>, cnt |-> <<0>>, val |-> 0]
      BY <3>2 DEF LNew
    <3>4. <<0>> = <<Len(<<>>)>>
      OBVIOUS
    <3> DEFINE h == llvm[x]
               e == <<>>
    <3>5. /\ e \in Seq(Nat) /\ h.buf = e /\ h.cnt = <<Len(e)>> /\ h.val = 0 /\ h.val \in Nat
          /\ h = [buf |-> h.buf, cnt |-> h.cnt, val |-> h.val]
      BY <3>3, <3>4
    <3> HIDE DEF h, e
    <3>6. HolderHolds(x, h, e)
      BY <1>1, <2>4, <3>5, LLine
    <3> QED
      BY <3>2, <3>6 DEF h, e
  <2> QED
    BY <1>1, <2>1, <2>2, <2>3, <2>4, KindFacts
<1> QED
  BY <1>3, <1>4 DEF LHolds

\* Every step keeps LInv.
LEMMA LStep ==
  ASSUME LExcuses, RefInv, LInv, [Next]_vars
  PROVE  LInv'
<1>1. CASE UNCHANGED vars
  BY <1>1 DEF vars, LInv, LHolds, HolderHolds, Names, Of, Lines, Tables, Texts
<1>2. CASE Next
  <2>1. \A x \in Heap, redim \in BOOLEAN, b \in {<<>>} \cup {<<n>> : n \in Sizes} :
           DimLine(x, b, redim) => LInv'
    BY DimLineL
  <2>2. \A x \in Of({"flat"}), n \in Sizes \ {-1}, redim \in BOOLEAN :
           DimTable(x, n, redim) => LInv'
    BY DimTableL
  <2>3. \A x \in Lines, i \in 0 .. MaxIndex : SetLine(x, i) => LInv'
    BY SetLineL
  <2>4. \A x \in Tables, i \in 0 .. MaxIndex, j \in 0 .. MaxIndex : SetTable(x, i, j) => LInv'
    BY SetTableL
  <2>5. \A x \in Texts : SetText(x) => LInv'
    BY SetTextL
  <2>6. \A x, r, y : RowToArray(x, r, y) => LInv'
    BY RowToArrayL
  <2>7. \A x, r, y : ArrayToRow(x, y, r) => LInv'
    BY ArrayToRowL
  <2>8. \A x, y : ArrayToArray(x, y) => LInv'
    BY ArrayToArrayL
  <2>9. \A x, y : TextToText(x, y) => LInv'
    BY TextToTextL
  <2>10. \A x, y, k : TextToElement(x, y, k) => LInv'
    BY TextToElementL
  <2>11. \A x, y, k : ElementToText(x, k, y) => LInv'
    BY ElementToTextL
  <2>12. \A x, y : Swap(x, y) => LInv'
    BY SwapL
  <2> QED
    BY <1>2, <2>1, <2>2, <2>3, <2>4, <2>5, <2>6, <2>7, <2>8, <2>9, <2>10, <2>11, <2>12 DEF Next
<1> QED
  BY <1>1, <1>2

\* What LlvmKeepsArrays says of a variable follows from what its holder holds.
LEMMA LVisible ==
  ASSUME RefInv, NEW x \in Names, HolderHolds(x, llvm[x], ref[x])
  PROVE  CASE x \in Lines -> Slice(llvm[x].buf, 0, llvm[x].cnt[1]) = ref[x]
           [] x \in Tables -> LTable(llvm[x], ref[x]) = ref[x]
           [] x \in Texts -> llvm[x].val = ref[x]
<1>1. kind \in Kinds
  BY DEF RefInv
<1>2. ASSUME x \in Lines PROVE Slice(llvm[x].buf, 0, llvm[x].cnt[1]) = ref[x]
  <2> DEFINE s == ref[x]
  <2>1. s \in Seq(Nat) /\ llvm[x].buf = s /\ llvm[x].cnt[1] = Len(s)
    BY <1>2 DEF RefInv, RefHolds, HolderHolds
  <2> HIDE DEF s
  <2>2. Slice(s, 0, Len(s)) = s
    BY <2>1 DEF Slice
  <2> QED
    BY <2>1, <2>2 DEF s
<1>3. ASSUME x \in Tables PROVE LTable(llvm[x], ref[x]) = ref[x]
  <2> DEFINE t == ref[x]
             h == llvm[x]
  <2>1. t \in Seq(Seq(Nat)) /\ h.cnt = <<Len(t), Wide>> /\ FlatHolds(h.buf, t)
    BY <1>3 DEF RefInv, RefHolds, HolderHolds
  <2> HIDE DEF t, h
  <2>2. ASSUME NEW r \in DOMAIN t, NEW j \in DOMAIN t[r]
        PROVE  h.buf[array_elem_ptr(h, <<r - 1, j - 1>>) + 1] = t[r][j]
    <3>1. r \in Nat /\ t[r] \in Seq(Nat) /\ Wide \in Nat
      BY <2>1, ConstantFacts
    <3>2. Len(t[r]) = Wide /\ \A k \in 1 .. Wide : h.buf[Place(r, k)] = t[r][k]
      BY <2>1 DEF FlatHolds
    <3>3. j \in 1 .. Wide
      BY <3>1, <3>2
    <3>4. array_elem_ptr(h, <<r - 1, j - 1>>) = (r - 1) * Wide + (j - 1)
      BY <2>1 DEF array_elem_ptr
    <3>5. array_elem_ptr(h, <<r - 1, j - 1>>) + 1 = Place(r, j)
      BY <3>1, <3>3, <3>4 DEF Place
    <3> QED
      BY <3>2, <3>3, <3>5
  <2>3. LTable(h, t) = [r \in DOMAIN t |-> [j \in DOMAIN t[r] |-> t[r][j]]]
    BY <2>2 DEF LTable
  <2>4. \A r \in DOMAIN t : [j \in DOMAIN t[r] |-> t[r][j]] = t[r]
    BY <2>1
  <2>5. LTable(h, t) = [r \in DOMAIN t |-> t[r]]
    BY <2>3, <2>4
  <2>6. LTable(h, t) = t
    BY <2>1, <2>5
  <2> QED
    BY <2>6 DEF t, h
<1>4. ASSUME x \in Texts PROVE llvm[x].val = ref[x]
  BY <1>4 DEF HolderHolds
<1> QED
  BY <1>1, <1>2, <1>3, <1>4, KindFacts

\* Unless a program declares a SHARED array again, moves or swaps, a holder of the
\* LLVM code has the elements of its variable, and as many as the counts say: DIM,
\* REDIM and element assignment keep the buffer and the count slots together.
THEOREM LlvmInStep == ASSUME LExcuses PROVE Spec => []LlvmKeepsArrays
<1>1. Init => RefInv /\ LInv
  BY InitRef, InitL
<1>2. RefInv /\ LInv /\ [Next]_vars => (RefInv /\ LInv)'
  BY RefStep, LStep
<1>3. RefInv /\ LInv => LlvmKeepsArrays
  <2> SUFFICES ASSUME RefInv, LHolds(llvm, ref), NEW x \in Names
               PROVE  CASE x \in Lines -> Slice(llvm[x].buf, 0, llvm[x].cnt[1]) = ref[x]
                        [] x \in Tables -> LTable(llvm[x], ref[x]) = ref[x]
                        [] x \in Texts -> llvm[x].val = ref[x]
    BY DEF LInv, LlvmKeepsArrays
  <2> QED
    BY LVisible DEF LHolds
<1> QED
  BY <1>1, <1>2, <1>3, PTL DEF Spec

-----------------------------------------------------------------------------
(* The emitted C program *)

CExcuses == {"shared", "tail", "flat", "fixed"} \subseteq Excused
CReasons == {"", "undefined", "shared", "tail", "flat", "fixed"}

\* A statement as the C program sees it.
CMoves(rf, failed, cm, reason) ==
    /\ kind' = kind /\ ~err.ref
    /\ ref' = rf /\ err'.ref = failed
    /\ why'.c = Excuse("c", reason)
    /\ c' = IF why'.c = "" /\ ~failed THEN cm ELSE c

\* A statement keeps CInv if, where nothing ends the comparison, it keeps CHolds.
LEMMA CMoved ==
  ASSUME CExcuses, CInv, NEW rf, NEW failed \in BOOLEAN, NEW cm, NEW reason \in CReasons,
         CMoves(rf, failed, cm, reason),
         reason = "" /\ ~failed /\ CHolds(c, ref) => CHolds(cm, rf)
  PROVE  CInv'
<1> SUFFICES ASSUME why'.c = "", ~failed PROVE CHolds(cm, rf)'
  BY DEF CInv, CMoves, CHolds, CVarHolds, CTableHolds, Names, Lines, Tables, Texts, Of
<1>1. reason = "" /\ why.c = ""
  BY DEF CMoves, Excuse, CExcuses, CReasons
<1>2. CHolds(cm, rf)
  BY <1>1 DEF CInv, CMoves
<1> QED
  BY <1>2 DEF CMoves, CHolds, CVarHolds, CTableHolds, Names, Lines, Tables, Texts, Of

\* One variable and its name given what belongs together.
LEMMA CPut ==
  ASSUME NEW m, NEW rf, CHolds(m, rf), DOMAIN rf = Names,
         NEW x \in Names, NEW v, NEW t, CVarHolds(x, v, t)
  PROVE  CHolds([m EXCEPT ![x] = v], [rf EXCEPT ![x] = t])
BY DEF CHolds

\* The same for two variables.
LEMMA CPutTwo ==
  ASSUME NEW m, NEW rf, CHolds(m, rf), DOMAIN rf = Names,
         NEW x \in Names, NEW v, NEW t, CVarHolds(x, v, t),
         NEW y \in Names, NEW w, NEW u, CVarHolds(y, w, u)
  PROVE  CHolds([m EXCEPT ![x] = v, ![y] = w], [rf EXCEPT ![x] = t, ![y] = u])
<1>1. CHolds([m EXCEPT ![x] = v], [rf EXCEPT ![x] = t])
  BY CPut
<1>2. DOMAIN [rf EXCEPT ![x] = t] = Names
  OBVIOUS
<1>3. CHolds([[m EXCEPT ![x] = v] EXCEPT ![y] = w], [[rf EXCEPT ![x] = t] EXCEPT ![y] = u])
  BY <1>1, <1>2, CPut
<1> QED
  BY <1>3

\* A pointer is null or points to one block.
LEMMA CMemFacts ==
  /\ <<>> \in CMem
  /\ \A s \in Seq(Int) : <<s>> \in CMem
  /\ \A s \in Seq(Nat) : s \in Seq(Int) /\ <<s>> \in CMem
<1>1. <<>> \in CMem
  BY DEF CMem
<1>2. ASSUME NEW s \in Seq(Int) PROVE <<s>> \in CMem
  BY DEF CMem
<1>3. ASSUME NEW s \in Seq(Nat) PROVE s \in Seq(Int)
  OBVIOUS
<1> QED
  BY <1>1, <1>2, <1>3

\* A pointer to an array that is not empty points to its elements.
LEMMA CHeldMem ==
  ASSUME NEW p, p.mem \in CMem, NEW t \in Seq(Nat), CHeld(p, t), t # <<>>
  PROVE  p.mem = <<t>>
BY DEF CHeld, Block, CMem

\* A new block under its bound.
LEMMA CBlockFacts ==
  ASSUME NEW v \in CVar, NEW s \in Seq(Nat)
  PROVE  CBlock(v, s) \in CVar /\ CHeld(CBlock(v, s), s)
<1> DEFINE m == <<s>>
           u == Len(s) - 1
<1>1. m \in CMem /\ u \in Int
  BY CMemFacts
<1>2. CBlock(v, s) = [v EXCEPT !.mem = m, !.ub = u]
  BY DEF CBlock
<1> HIDE DEF m, u
<1> DEFINE w == CBlock(v, s)
<1>4. w = [v EXCEPT !.mem = m, !.ub = u]
  BY <1>2
<1> HIDE DEF w
<1>3. w \in CVar /\ w.mem = m /\ w.ub = u
  BY <1>1, <1>4 DEF CVar
<1> QED
  BY <1>3 DEF w, CHeld, Block, m, u

\* The null pointer holds nothing.
LEMMA CNullFacts ==
  ASSUME NEW v \in CVar
  PROVE  CNull(v) \in CVar /\ CHeld(CNull(v), <<>>)
<1> DEFINE m == <<>>
           u == -1
<1>1. m \in CMem /\ u \in Int
  BY CMemFacts
<1>2. CNull(v) = [v EXCEPT !.mem = m, !.ub = u]
  BY DEF CNull
<1> HIDE DEF m, u
<1> DEFINE w == CNull(v)
<1>4. w = [v EXCEPT !.mem = m, !.ub = u]
  BY <1>2
<1> HIDE DEF w
<1>3. w \in CVar /\ w.mem = m /\ w.ub = u
  BY <1>1, <1>4 DEF CVar
<1> QED
  BY <1>3 DEF w, CHeld, Block, m, u

\* A variable for a line.
LEMMA CLine ==
  ASSUME kind \in Kinds, NEW x \in Lines, NEW v \in CVar, NEW t, CHeld(v, t)
  PROVE  CVarHolds(x, v, t)
BY NotTable DEF CVarHolds

\* A variable for a text.
LEMMA CText ==
  ASSUME kind \in Kinds, NEW x \in Texts, NEW v \in CVar, NEW e, v.val = e
  PROVE  CVarHolds(x, v, e)
<1>1. x \notin Lines /\ x \notin Tables
  BY KindFacts
<1> QED
  BY <1>1 DEF CVarHolds

\* DIM and REDIM of a line leave block and bound in step.
LEMMA CDimHolds ==
  ASSUME RefInv, NEW x \in Heap, NEW redim \in BOOLEAN,
         NEW b \in {<<>>} \cup {<<n>> : n \in Sizes}, CVarHolds(x, c[x], ref[x]),
         kind[x] = "shared" => ((b = <<>>) # redim), b # <<>> => b[1] >= 0
  PROVE  CVarHolds(x, CDim(c[x], b, redim, kind[x] = "shared"), RefDimLine(x, b, redim))
<1> DEFINE v == c[x]
           s == ref[x]
           g == CDim(v, b, redim, kind[x] = "shared")
           t == RefDimLine(x, b, redim)
<1>1. kind \in Kinds /\ x \in Lines /\ s \in Seq(Nat)
  BY KindFacts DEF RefInv, RefHolds
<1>2. v \in CVar /\ Block(v) = s /\ CHeld(v, s)
  BY <1>1 DEF CVarHolds, CHeld
<1>3. CASE b = <<>>
  <2>1. CASE kind[x] = "shared"
    <3>1. g = v /\ t = s
      BY <1>3, <2>1 DEF CDim, RefDimLine
    <3> QED
      BY <1>1, <1>2, <3>1, CLine
  <2>2. CASE kind[x] # "shared"
    <3>1. g = CNull(v) /\ t = <<>>
      BY <1>3, <2>2 DEF CDim, RefDimLine
    <3> HIDE DEF v, g, t
    <3>2. CVarHolds(x, g, t)
      BY <1>1, <1>2, <3>1, CNullFacts, CLine
    <3> QED
      BY <3>2 DEF v, g, t
  <2> QED
    BY <2>1, <2>2
<1>4. CASE b # <<>>
  <2>1. PICK n \in Sizes : b = <<n>>
    BY <1>4
  <2>2. n \in Nat /\ b[1] = n /\ AtLeast0(b[1]) + 1 = n + 1 /\ n + 1 \in Nat
    <3>1. b[1] = n /\ n \in Int /\ n >= 0
      BY <1>4, <2>1, ConstantFacts
    <3> QED
      BY <3>1, AtLeast0Facts
  <2>3. t = IF redim THEN Grown(s, n + 1, 0) ELSE Zeros(n + 1)
    BY <1>4, <2>2 DEF RefDimLine
  <2>4. g = CBlock(v, t)
    <3> HIDE DEF v, s, t
    <3>1. CASE redim
      BY <1>2, <1>4, <2>2, <2>3, <3>1 DEF CDim, emit_group_redim
    <3>2. CASE ~redim
      BY <1>4, <2>2, <2>3, <3>2 DEF CDim
    <3> QED
      BY <3>1, <3>2
  <2>5. t \in Seq(Nat)
    BY <1>1, <2>2, <2>3, GrownZero, ZerosFacts
  <2> HIDE DEF v, g, t
  <2>6. CVarHolds(x, g, t)
    BY <1>1, <1>2, <2>4, <2>5, CBlockFacts, CLine
  <2> QED
    BY <2>6 DEF v, g, t
<1> QED
  BY <1>3, <1>4

\* Each statement that moves nothing keeps CInv.
LEMMA DimLineC ==
  ASSUME CExcuses, RefInv, CInv, NEW x \in Heap, NEW redim \in BOOLEAN,
         NEW b \in {<<>>} \cup {<<n>> : n \in Sizes}, DimLine(x, b, redim)
  PROVE  CInv'
<1> DEFINE shared == kind[x] = "shared"
           g == CDim(c[x], b, redim, shared)
           cm == [c EXCEPT ![x] = g]
           rf == [ref EXCEPT ![x] = RefDimLine(x, b, redim)]
           negative == b # <<>> /\ (b # <<>> => b[1] < 0)
           reason == IF negative THEN "undefined"
                     ELSE Reason(shared /\ (b = <<>>) = redim, "shared")
<1>1. CMoves(rf, FALSE, cm, reason)
  BY DEF DimLine, Statement, CMoves, RefDimLine
<1>2. reason \in CReasons
  BY DEF Reason, CReasons
<1>3. ASSUME reason = "", CHolds(c, ref) PROVE CHolds(cm, rf)
  <2>1. ~negative /\ (shared => ((b = <<>>) # redim))
    BY <1>3 DEF Reason
  <2>2. b # <<>> => b[1] \in Int /\ b[1] >= 0
    BY <2>1, ConstantFacts
  <2>3. x \in Names /\ DOMAIN ref = Names
    BY KindFacts DEF RefInv, RefHolds
  <2>4. CVarHolds(x, g, RefDimLine(x, b, redim))
    BY <1>3, <2>1, <2>2, <2>3, CDimHolds DEF CHolds
  <2> HIDE DEF g
  <2> QED
    BY <1>3, <2>3, <2>4, CPut
<1> HIDE DEF cm, rf, reason
<1> QED
  BY <1>1, <1>2, <1>3, CMoved

\* DIM of a contiguous table, and REDIM that does not grow it.
LEMMA CDimFlatHolds ==
  ASSUME RefInv, NEW x \in Of({"flat"}), NEW n \in Nat, NEW redim \in BOOLEAN,
         CVarHolds(x, c[x], ref[x]), redim => n + 1 <= Len(ref[x])
  PROVE  CVarHolds(x, CDimFlat(c[x], <<n, Inner>>, redim), RefDimTable(x, n, redim))
<1> DEFINE v == c[x]
           g == CDimFlat(v, <<n, Inner>>, redim)
           t == RefDimTable(x, n, redim)
           a == IF redim THEN Grown(Block(v), Cells(n + 1), Junk) ELSE Zeros(Cells(n + 1))
<1>1. /\ x \in Tables /\ kind[x] = "flat" /\ kind \in Kinds
      /\ ref[x] \in Seq(Seq(Nat)) /\ n + 1 \in Nat /\ Cells(n + 1) \in Nat
  BY CellsType DEF RefInv, RefHolds, Tables, Of
<1>2. v \in CVar /\ Len(v.mem) = 1 /\ FlatHolds(v.mem[1], ref[x])
  BY <1>1 DEF CVarHolds, CTableHolds
<1>3. Block(v) = v.mem[1] /\ Block(v) \in Seq(Int)
  BY <1>2 DEF CVar, CMem, Block
<1>4. Count([k \in DOMAIN <<n, Inner>> |-> <<n, Inner>>[k] + 1]) = Cells(n + 1)
  <2>1. [k \in DOMAIN <<n, Inner>> |-> <<n, Inner>>[k] + 1] = <<n + 1, Inner + 1>>
    OBVIOUS
  <2> QED
    BY <2>1, CountFacts DEF Cells, Wide
<1>5. g = [CBlock(v, a) EXCEPT !.inner = Inner]
  BY <1>4 DEF CDimFlat
<1>6. a \in Seq(Int)
  <2>1. Junk \in Int
    BY DEF Junk
  <2>2. Grown(Block(v), Cells(n + 1), Junk) \in Seq(Int)
    BY <1>1, <1>3, <2>1, GrownFacts
  <2>3. Zeros(Cells(n + 1)) \in Seq(Int)
    BY <1>1, ZerosFacts
  <2> QED
    BY <2>2, <2>3
<1>7. FlatHolds(a, t)
  <2>1. CASE redim
    <3> DEFINE s == Block(v)
               u == ref[x]
               k == n + 1
    <3>1. /\ s \in Seq(Int) /\ u \in Seq(Seq(Nat)) /\ FlatHolds(s, u)
          /\ k \in Nat /\ Junk \in Int /\ k <= Len(u)
      BY <1>1, <1>2, <1>3, <2>1 DEF Junk
    <3> HIDE DEF s, u, k
    <3>2. FlatHolds(Grown(s, Cells(k), Junk), Grown(u, k, Zeros(Wide)))
      BY <3>1, FlatGrown
    <3> QED
      BY <2>1, <3>2 DEF s, u, k, RefDimTable
  <2>2. CASE ~redim
    BY <1>1, <2>2, FlatZeros DEF RefDimTable
  <2> QED
    BY <2>1, <2>2
<1> HIDE DEF a, g, t, v
<1>8. CBlock(v, a) \in CVar /\ CBlock(v, a).mem = <<a>>
  <2> DEFINE m == <<a>>
             u == Len(a) - 1
  <2>1. m \in CMem /\ u \in Int
    BY <1>6, CMemFacts
  <2>2. CBlock(v, a) = [v EXCEPT !.mem = m, !.ub = u]
    BY DEF CBlock
  <2> HIDE DEF m, u
  <2> DEFINE w == CBlock(v, a)
  <2>4. w = [v EXCEPT !.mem = m, !.ub = u]
    BY <2>2
  <2> HIDE DEF w
  <2>3. w \in CVar /\ w.mem = m
    BY <1>2, <2>1, <2>4 DEF CVar
  <2> QED
    BY <2>3 DEF w, m
<1>9. g \in CVar /\ g.mem = <<a>>
  BY <1>5, <1>8, ConstantFacts DEF CVar
<1>10. CVarHolds(x, g, t)
  <2>1. x \notin Lines /\ x \notin Texts
    BY <1>1, NotLine
  <2>2. Len(g.mem) = 1 /\ g.mem[1] = a
    BY <1>9
  <2> QED
    BY <1>1, <1>7, <1>9, <2>1, <2>2 DEF CVarHolds, CTableHolds
<1> QED
  BY <1>10 DEF g, t, v

LEMMA DimTableC ==
  ASSUME CExcuses, RefInv, CInv, NEW x \in Of({"flat"}), NEW n \in Sizes \ {-1},
         NEW redim \in BOOLEAN, DimTable(x, n, redim)
  PROVE  CInv'
<1> DEFINE g == CDimFlat(c[x], <<n, Inner>>, redim)
           cm == [c EXCEPT ![x] = g]
           rf == [ref EXCEPT ![x] = RefDimTable(x, n, redim)]
           reason == Reason(redim /\ n + 1 > Len(ref[x]), "tail")
<1>1. CMoves(rf, FALSE, cm, reason)
  BY DEF DimTable, Statement, CMoves, RefDimTable
<1>2. reason \in CReasons
  BY DEF Reason, CReasons
<1>3. ASSUME reason = "", CHolds(c, ref) PROVE CHolds(cm, rf)
  <2>1. x \in Tables /\ n \in Nat
    BY ConstantFacts DEF Tables, Of
  <2>2. x \in Names /\ DOMAIN ref = Names /\ Len(ref[x]) \in Nat
    BY <2>1, NotLine DEF RefInv, RefHolds
  <2>3. redim => n + 1 <= Len(ref[x])
    BY <1>3, <2>1, <2>2 DEF Reason
  <2>4. CVarHolds(x, g, RefDimTable(x, n, redim))
    BY <1>3, <2>1, <2>2, <2>3, CDimFlatHolds DEF CHolds
  <2> HIDE DEF g
  <2> QED
    BY <1>3, <2>2, <2>4, CPut
<1> HIDE DEF cm, rf, reason
<1> QED
  BY <1>1, <1>2, <1>3, CMoved

\* An element set in a line, under its bound or past it.
LEMMA CSetLineHolds ==
  ASSUME RefInv, NEW x \in Lines, NEW i \in Nat, CVarHolds(x, c[x], ref[x]),
         x \in Heap \/ i < Len(ref[x])
  PROVE  CVarHolds(x, IF x \in Heap THEN CWrite(c[x], i, Fresh)
                      ELSE [c[x] EXCEPT !.mem[1][i + 1] = Fresh], RefSetLine(x, i))
<1> DEFINE v == c[x]
           s == ref[x]
           t == RefSetLine(x, i)
           n == IF i < Len(s) THEN Len(s) ELSE i + 1
<1>1. kind \in Kinds /\ s \in Seq(Nat) /\ t \in Seq(Nat) /\ Fresh \in Nat
  BY RefSetLineFacts DEF RefInv, RefHolds, Fresh
<1>2. v \in CVar /\ CHeld(v, s) /\ Block(v) = s /\ v.ub = Len(s) - 1
  BY DEF CVarHolds, CHeld
<1>3. t = [Grown(s, n, 0) EXCEPT ![i + 1] = Fresh]
  BY DEF RefSetLine
<1>4. i < Len(s) => Grown(s, n, 0) = s
  BY <1>1, GrownSame
<1>5. CASE x \in Heap
  <2>1. i > v.ub <=> ~(i < Len(s))
    BY <1>1, <1>2
  <2>2. (IF i > v.ub THEN Grown(Block(v), i + 1, 0) ELSE Block(v)) = Grown(s, n, 0)
    BY <1>2, <1>4, <2>1
  <2> HIDE DEF v, s, t, n
  <2>3. CWrite(v, i, Fresh) = CBlock(v, t)
    BY <1>3, <2>2 DEF CWrite
  <2>4. CVarHolds(x, CBlock(v, t), t)
    BY <1>1, <1>2, CBlockFacts, CLine
  <2> QED
    BY <1>5, <2>3, <2>4 DEF v, t
<1>6. CASE x \notin Heap
  <2>1. i < Len(s) /\ s # <<>>
    BY <1>1, <1>6
  <2>2. t = [s EXCEPT ![i + 1] = Fresh] /\ Len(t) = Len(s)
    <3>1. t = [s EXCEPT ![i + 1] = Fresh]
      BY <1>3, <1>4, <2>1
    <3> QED
      BY <1>1, <2>1, <3>1, ElementPut
  <2> DEFINE g == [v EXCEPT !.mem[1][i + 1] = Fresh]
  <2>3. v.mem \in CMem
    BY <1>2 DEF CVar
  <2>4. v.mem = <<s>>
    BY <1>1, <1>2, <2>1, <2>3, CHeldMem
  <2> HIDE DEF s, t, v
  <2>5. g = [v EXCEPT !.mem = <<t>>]
    <3> DEFINE e == [s EXCEPT ![i + 1] = Fresh]
    <3>2. [<<s>> EXCEPT ![1][i + 1] = Fresh] = [<<s>> EXCEPT ![1] = e]
      OBVIOUS
    <3> HIDE DEF e
    <3>3. [<<s>> EXCEPT ![1] = e] = <<e>>
      OBVIOUS
    <3>4. e = t
      BY <2>2 DEF e
    <3>1. [<<s>> EXCEPT ![1][i + 1] = Fresh] = <<t>>
      BY <3>2, <3>3, <3>4
    <3> QED
      BY <2>4, <3>1
  <2> HIDE DEF g
  <2>6. <<t>> \in CMem
    BY <1>1, CMemFacts
  <2>7. g \in CVar /\ g.mem = <<t>> /\ g.ub = v.ub
    BY <1>2, <2>5, <2>6 DEF CVar
  <2>8. CHeld(g, t)
    BY <1>2, <2>2, <2>7 DEF CHeld, Block
  <2>9. CVarHolds(x, g, t)
    BY <1>1, <2>7, <2>8, CLine
  <2> QED
    BY <1>6, <2>9 DEF g, v, t
<1> QED
  BY <1>5, <1>6

LEMMA SetLineC ==
  ASSUME CExcuses, RefInv, CInv, NEW x \in Lines, NEW i \in 0 .. MaxIndex, SetLine(x, i)
  PROVE  CInv'
<1> DEFINE g == IF x \in Heap THEN CWrite(c[x], i, Fresh)
                ELSE [c[x] EXCEPT !.mem[1][i + 1] = Fresh]
           cm == IF x \in Heap THEN [c EXCEPT ![x] = CWrite(@, i, Fresh)]
                 ELSE [c EXCEPT ![x].mem[1][i + 1] = Fresh]
           rf == [ref EXCEPT ![x] = RefSetLine(x, i)]
<1>1. CMoves(rf, FALSE, cm, "")
  BY DEF SetLine, Statement, CMoves, RefSetLine
<1>2. "" \in CReasons
  BY DEF CReasons
<1>3. ASSUME CHolds(c, ref) PROVE CHolds(cm, rf)
  <2>1. x \in Heap \/ i < Len(ref[x])
    BY DEF SetLine
  <2>2. x \in Names /\ DOMAIN ref = Names /\ i \in Nat
    BY ConstantFacts, NotTable DEF RefInv, RefHolds
  <2>3. CVarHolds(x, g, RefSetLine(x, i))
    BY <1>3, <2>1, <2>2, CSetLineHolds DEF CHolds
  <2>4. cm = [c EXCEPT ![x] = g]
    OBVIOUS
  <2> HIDE DEF g, cm
  <2> QED
    BY <1>3, <2>2, <2>3, <2>4, CPut
<1> HIDE DEF cm, rf
<1> QED
  BY <1>1, <1>2, <1>3, CMoved

\* A row of a table of rows.
LEMMA CRowFacts ==
  ASSUME kind \in Kinds, NEW x \in Tables, kind[x] = "node", NEW v,
         NEW t \in Seq(Seq(Nat)), CVarHolds(x, v, t), NEW r \in Nat, r < Len(t)
  PROVE  /\ v.rows[r + 1] \in CRow /\ v.rows[r + 1].mem \in CMem /\ v.rows[r + 1].ub \in Int
         /\ CHeld(v.rows[r + 1], t[r + 1])
<1>1. v.rows \in Seq(CRow) /\ Len(v.rows) = Len(t) /\ \A q \in DOMAIN t : CHeld(v.rows[q], t[q])
  BY DEF CVarHolds, CTableHolds, CVar
<1>2. r + 1 \in 1 .. Len(t) /\ r + 1 \in DOMAIN t
  OBVIOUS
<1>3. v.rows[r + 1] \in CRow
  BY <1>1, <1>2
<1> QED
  BY <1>1, <1>2, <1>3 DEF CRow

\* A row of a table is replaced.
LEMMA CRowPut ==
  ASSUME kind \in Kinds, NEW x \in Tables, kind[x] = "node", NEW v,
         NEW t \in Seq(Seq(Nat)), CVarHolds(x, v, t), NEW r \in Nat, r < Len(t),
         NEW p \in CRow, NEW u \in Seq(Nat), CHeld(p, u)
  PROVE  CVarHolds(x, [v EXCEPT !.rows[r + 1] = p], [t EXCEPT ![r + 1] = u])
<1> DEFINE rows == [v.rows EXCEPT ![r + 1] = p]
           g == [v EXCEPT !.rows[r + 1] = p]
           w == [t EXCEPT ![r + 1] = u]
<1>1. /\ v \in CVar /\ v.rows \in Seq(CRow) /\ Len(v.rows) = Len(t)
      /\ \A q \in DOMAIN t : CHeld(v.rows[q], t[q])
  BY DEF CVarHolds, CTableHolds, CVar
<1>2. r + 1 \in 1 .. Len(v.rows)
  BY <1>1
<1>3. /\ rows \in Seq(CRow) /\ Len(rows) = Len(t)
      /\ \A q \in 1 .. Len(t) : rows[q] = IF q = r + 1 THEN p ELSE v.rows[q]
  BY <1>1, <1>2, ExceptFacts
<1>4. /\ w \in Seq(Seq(Nat)) /\ Len(w) = Len(t) /\ DOMAIN w = 1 .. Len(t)
      /\ \A q \in 1 .. Len(t) : w[q] = IF q = r + 1 THEN u ELSE t[q]
  BY RowPut
<1>5. g = [v EXCEPT !.rows = rows]
  OBVIOUS
<1> HIDE DEF rows, g, w
<1>6. g \in CVar /\ g.rows = rows
  BY <1>1, <1>3, <1>5 DEF CVar
<1>7. ASSUME NEW q \in 1 .. Len(t) PROVE CHeld(rows[q], w[q])
  <2>1. CASE q = r + 1
    <3>1. rows[q] = p /\ w[q] = u
      BY <1>3, <1>4, <2>1
    <3> QED
      BY <3>1
  <2>2. CASE q # r + 1
    <3>1. rows[q] = v.rows[q] /\ w[q] = t[q]
      BY <1>3, <1>4, <2>2
    <3> QED
      BY <1>1, <3>1
  <2> QED
    BY <2>1, <2>2
<1>8. CVarHolds(x, g, w)
  BY <1>3, <1>4, <1>6, <1>7, NotLine DEF CVarHolds, CTableHolds
<1> QED
  BY <1>8 DEF g, w

\* An element set in a table, through its row or by its offset.
LEMMA CSetTableHolds ==
  ASSUME RefInv, NEW x \in Tables, NEW i \in Nat, NEW j \in Nat,
         CVarHolds(x, c[x], ref[x]), i < Len(ref[x]), j < Len(ref[x][i + 1])
  PROVE  CVarHolds(x, IF kind[x] = "node" THEN [c[x] EXCEPT !.rows[i + 1].mem[1][j + 1] = Fresh]
                      ELSE [c[x] EXCEPT !.mem[1][CFlatOffset(<<i, j>>) + 1] = Fresh],
                   [ref[x] EXCEPT ![i + 1][j + 1] = Fresh])
<1> DEFINE v == c[x]
           t == ref[x]
           u == [t[i + 1] EXCEPT ![j + 1] = Fresh]
           w == [t EXCEPT ![i + 1][j + 1] = Fresh]
<1>1. kind \in Kinds /\ t \in Seq(Seq(Nat)) /\ Fresh \in Nat /\ v \in CVar
  BY DEF RefInv, RefHolds, Fresh, CVarHolds
<1>2. t[i + 1] \in Seq(Nat) /\ t[i + 1] # <<>>
  BY <1>1
<1>3. u \in Seq(Nat) /\ Len(u) = Len(t[i + 1])
  BY <1>1, <1>2, ElementPut
<1>4. CASE kind[x] = "node"
  <2> DEFINE p == v.rows[i + 1]
             q == [p EXCEPT !.mem = <<u>>]
             g == [v EXCEPT !.rows[i + 1].mem[1][j + 1] = Fresh]
  <2>1. p \in CRow /\ p.mem \in CMem /\ CHeld(p, t[i + 1])
    BY <1>1, <1>4, CRowFacts
  <2>2. p.mem = <<t[i + 1]>>
    BY <1>2, <2>1, CHeldMem
  <2>3. w = [t EXCEPT ![i + 1] = u]
    OBVIOUS
  <2>4. [p.mem EXCEPT ![1][j + 1] = Fresh] = <<u>>
    <3> DEFINE s == t[i + 1]
    <3>1. p.mem = <<s>>
      BY <2>2
    <3> HIDE DEF s, p, u
    <3>2. [<<s>> EXCEPT ![1][j + 1] = Fresh] = [<<s>> EXCEPT ![1] = [s EXCEPT ![j + 1] = Fresh]]
      OBVIOUS
    <3>3. u = [s EXCEPT ![j + 1] = Fresh]
      BY DEF u, s
    <3>4. [<<s>> EXCEPT ![1] = u] = <<u>>
      OBVIOUS
    <3> QED
      BY <3>1, <3>2, <3>3, <3>4
  <2>5. g = [v EXCEPT !.rows[i + 1] = q]
    <3>1. g = [v EXCEPT !.rows[i + 1].mem = [p.mem EXCEPT ![1][j + 1] = Fresh]]
      OBVIOUS
    <3>2. g = [v EXCEPT !.rows[i + 1].mem = <<u>>]
      BY <2>4, <3>1
    <3> QED
      BY <3>2
  <2> HIDE DEF u
  <2>6. <<u>> \in CMem
    BY <1>3, CMemFacts
  <2> HIDE DEF p
  <2>7. q \in CRow /\ q.mem = <<u>> /\ q.ub = p.ub
    BY <2>1, <2>6 DEF CRow
  <2>8. CHeld(q, u)
    BY <1>3, <2>1, <2>7 DEF CHeld, Block
  <2> HIDE DEF q, g, v, t, w
  <2>9. CVarHolds(x, v, t) /\ i < Len(t)
    BY DEF v, t
  <2>10. CVarHolds(x, g, w)
    BY <1>1, <1>3, <1>4, <2>3, <2>5, <2>7, <2>8, <2>9, CRowPut
  <2> QED
    BY <1>4, <2>10 DEF g, v, w, t
<1>5. CASE kind[x] # "node"
  <2> DEFINE a == v.mem[1]
             k == i * Wide + j + 1
             b == [a EXCEPT ![k] = Fresh]
             g == [v EXCEPT !.mem[1][CFlatOffset(<<i, j>>) + 1] = Fresh]
  <2>1. Len(v.mem) = 1 /\ FlatHolds(a, t) /\ v.mem \in CMem
    BY <1>1, <1>5 DEF CVarHolds, CTableHolds, CVar
  <2>2. a \in Seq(Int) /\ v.mem = <<a>> /\ Fresh \in Int
    BY <1>1, <2>1 DEF CMem
  <2>3. CFlatOffset(<<i, j>>) + 1 = k
    BY DEF CFlatOffset, Wide
  <2>4. k \in 1 .. Len(a) /\ FlatHolds(b, w)
    BY <1>1, <2>1, <2>2, FlatSet
  <2>5. b \in Seq(Int)
    BY <2>2, <2>4, ExceptFacts
  <2> HIDE DEF a, k
  <2>6. g = [v EXCEPT !.mem = <<b>>]
    <3>1. g = [v EXCEPT !.mem = [<<a>> EXCEPT ![1][k] = Fresh]]
      BY <2>2, <2>3
    <3>2. [<<a>> EXCEPT ![1][k] = Fresh] = <<b>>
      <4>1. [<<a>> EXCEPT ![1][k] = Fresh] = [<<a>> EXCEPT ![1] = b]
        OBVIOUS
      <4> HIDE DEF b
      <4>2. [<<a>> EXCEPT ![1] = b] = <<b>>
        OBVIOUS
      <4> QED
        BY <4>1, <4>2
    <3> QED
      BY <3>1, <3>2
  <2> HIDE DEF b, g, v, w
  <2>7. <<b>> \in CMem
    BY <2>5, CMemFacts
  <2>8. g \in CVar /\ g.mem = <<b>>
    BY <1>1, <2>6, <2>7 DEF CVar
  <2>9. Len(g.mem) = 1 /\ g.mem[1] = b
    BY <2>8
  <2>10. CVarHolds(x, g, w)
    BY <1>1, <1>5, <2>4, <2>8, <2>9, NotLine DEF CVarHolds, CTableHolds
  <2> QED
    BY <1>5, <2>10 DEF g, v, w
<1> QED
  BY <1>4, <1>5

LEMMA SetTableC ==
  ASSUME CExcuses, RefInv, CInv, NEW x \in Tables, NEW i \in 0 .. MaxIndex,
         NEW j \in 0 .. MaxIndex, SetTable(x, i, j)
  PROVE  CInv'
<1> DEFINE g == IF kind[x] = "node" THEN [c[x] EXCEPT !.rows[i + 1].mem[1][j + 1] = Fresh]
                ELSE [c[x] EXCEPT !.mem[1][CFlatOffset(<<i, j>>) + 1] = Fresh]
           cm == IF kind[x] = "node" THEN [c EXCEPT ![x].rows[i + 1].mem[1][j + 1] = Fresh]
                 ELSE [c EXCEPT ![x].mem[1][CFlatOffset(<<i, j>>) + 1] = Fresh]
           t == [ref[x] EXCEPT ![i + 1][j + 1] = Fresh]
           rf == [ref EXCEPT ![x][i + 1][j + 1] = Fresh]
<1>1. CMoves(rf, FALSE, cm, "")
  BY DEF SetTable, Statement, CMoves
<1>2. "" \in CReasons
  BY DEF CReasons
<1>3. ASSUME CHolds(c, ref) PROVE CHolds(cm, rf)
  <2>1. i < Len(ref[x]) /\ j < Len(ref[x][i + 1])
    BY DEF SetTable
  <2>2. x \in Names /\ DOMAIN ref = Names
    BY NotLine DEF RefInv, RefHolds
  <2>3. i \in Nat /\ j \in Nat
    BY ConstantFacts
  <2>4. CVarHolds(x, c[x], ref[x])
    BY <1>3, <2>2 DEF CHolds
  <2>5. CVarHolds(x, g, t)
    BY <2>1, <2>3, <2>4, CSetTableHolds
  <2>6. cm = [c EXCEPT ![x] = g] /\ rf = [ref EXCEPT ![x] = t]
    OBVIOUS
  <2> HIDE DEF g, cm, t, rf
  <2> QED
    BY <1>3, <2>2, <2>5, <2>6, CPut
<1> HIDE DEF cm, rf
<1> QED
  BY <1>1, <1>2, <1>3, CMoved

LEMMA SetTextC ==
  ASSUME CExcuses, RefInv, CInv, NEW x \in Texts, SetText(x)
  PROVE  CInv'
<1> DEFINE g == [c[x] EXCEPT !.val = Fresh]
           cm == [c EXCEPT ![x].val = Fresh]
           rf == [ref EXCEPT ![x] = Fresh]
<1>1. CMoves(rf, FALSE, cm, "")
  BY DEF SetText, Statement, CMoves
<1>2. "" \in CReasons
  BY DEF CReasons
<1>3. ASSUME CHolds(c, ref) PROVE CHolds(cm, rf)
  <2>1. /\ kind \in Kinds /\ x \in Names /\ DOMAIN ref = Names /\ Fresh \in Nat
        /\ x \notin Lines /\ x \notin Tables
    BY KindFacts DEF RefInv, RefHolds, Fresh
  <2>2. c[x] \in CVar
    BY <1>3, <2>1 DEF CHolds, CVarHolds
  <2>3. g \in CVar /\ g.val = Fresh
    BY <2>1, <2>2 DEF CVar
  <2>4. cm = [c EXCEPT ![x] = g]
    OBVIOUS
  <2> HIDE DEF g, cm
  <2>5. CVarHolds(x, g, Fresh)
    BY <2>1, <2>3 DEF CVarHolds
  <2> QED
    BY <1>3, <2>1, <2>4, <2>5, CPut
<1> HIDE DEF cm, rf
<1> QED
  BY <1>1, <1>2, <1>3, CMoved

\* A row goes to an array: the pointer moves and the row is the null pointer.
LEMMA RowToArrayC ==
  ASSUME CExcuses, RefInv, CInv, NEW x \in Tables, NEW r \in 0 .. MaxIndex, NEW y \in Heap,
         RowToArray(x, r, y)
  PROVE  CInv'
<1> DEFINE failed == ref[y] # <<>>
           cm == CAttachRowToArray(c, x, r, y)
           new == [ref EXCEPT ![y] = ref[x][r + 1], ![x][r + 1] = <<>>]
           rf == IF failed THEN ref ELSE new
           reason == Reason(kind[x] = "flat", "flat")
<1>1. CMoves(rf, failed, cm, reason)
  BY DEF RowToArray, Statement, CMoves, Fails
<1>2. reason \in CReasons
  BY DEF Reason, CReasons
<1>3. ASSUME reason = "", ~failed, CHolds(c, ref) PROVE CHolds(cm, rf)
  <2> DEFINE t == ref[x]
             row == c[x].rows[r + 1]
             null == [mem |-> <<>>, ub |-> -1]
             u == t[r + 1]
             w == [t EXCEPT ![r + 1] = <<>>]
             gx == [c[x] EXCEPT !.rows[r + 1] = null]
             gy == [c[y] EXCEPT !.mem = row.mem, !.ub = row.ub]
  <2>1. /\ kind \in Kinds /\ DOMAIN ref = Names /\ x \in Names /\ y \in Names /\ x # y
        /\ y \in Lines /\ kind[x] = "node" /\ DOMAIN c = Names
    BY <1>3, KindFacts, NotLine DEF RefInv, RefHolds, Reason, CHolds
  <2>2. t \in Seq(Seq(Nat)) /\ r < Len(t) /\ r \in Nat
    <3>1. r < Len(t)
      BY DEF RowToArray
    <3>2. t \in Seq(Seq(Nat))
      BY DEF RefInv, RefHolds
    <3> QED
      BY <3>1, <3>2, ConstantFacts
  <2>3. CVarHolds(x, c[x], t) /\ c[y] \in CVar
    BY <1>3, <2>1 DEF CHolds, CVarHolds
  <2>4. row \in CRow /\ row.mem \in CMem /\ row.ub \in Int /\ CHeld(row, u) /\ u \in Seq(Nat)
    <3> DEFINE v == c[x]
    <3>1. CVarHolds(x, v, t)
      BY <2>3
    <3> HIDE DEF t, v
    <3>2. /\ v.rows[r + 1] \in CRow /\ v.rows[r + 1].mem \in CMem /\ v.rows[r + 1].ub \in Int
          /\ CHeld(v.rows[r + 1], t[r + 1])
      BY <2>1, <2>2, <3>1, CRowFacts
    <3>3. t[r + 1] \in Seq(Nat)
      BY <2>2
    <3> QED
      BY <3>2, <3>3 DEF v
  <2>5. cm = [c EXCEPT ![y] = gy, ![x] = gx]
    BY <2>1 DEF CAttachRowToArray
  <2>6. new = [ref EXCEPT ![y] = u, ![x] = w]
    BY <2>1
  <2>7. null \in CRow /\ CHeld(null, <<>>) /\ <<>> \in Seq(Nat)
    BY CMemFacts DEF CRow, CHeld, Block
  <2> HIDE DEF null
  <2>8. CVarHolds(x, gx, w)
    BY <2>1, <2>2, <2>3, <2>7, CRowPut
  <2> HIDE DEF row, u
  <2>9. gy \in CVar /\ CHeld(gy, u)
    BY <2>3, <2>4 DEF CVar, CHeld, Block
  <2>10. CVarHolds(y, gy, u)
    BY <2>1, <2>9, CLine
  <2> HIDE DEF gx, gy, w, cm, new
  <2>11. CHolds(cm, new)
    BY <1>3, <2>1, <2>5, <2>6, <2>8, <2>10, CPutTwo
  <2> QED
    BY <1>3, <2>11
<1>4. failed \in BOOLEAN
  OBVIOUS
<1> HIDE DEF cm, rf, reason, failed
<1> QED
  BY <1>1, <1>2, <1>3, <1>4, CMoved

\* An array goes to a row, and is the null pointer after it.
LEMMA ArrayToRowC ==
  ASSUME CExcuses, RefInv, CInv, NEW x \in Heap, NEW y \in Tables, NEW r \in 0 .. MaxIndex,
         ArrayToRow(x, y, r)
  PROVE  CInv'
<1> DEFINE failed == ref[y][r + 1] # <<>>
           cm == CAttachArrayToRow(c, x, y, r)
           new == [ref EXCEPT ![y][r + 1] = ref[x], ![x] = <<>>]
           rf == IF failed THEN ref ELSE new
           reason == Reason(kind[y] = "flat", "flat")
           rs == IF ref[y][r + 1] # <<>> THEN Fails ELSE <<new, FALSE>>
           i == AttachArrayToRow(slot, x, y, r)
<1>0. PICK landed \in BOOLEAN :
        Statement(rs, i, "", cm, reason, LAttachArrayToRow(llvm, x, y, r, landed), "attach")
  BY Zenon DEF ArrayToRow
<1>5. rs[1] = rf /\ rs[2] = failed
  BY DEF Fails
<1> HIDE DEF rs, i
<1>1. CMoves(rf, failed, cm, reason)
  BY <1>0, <1>5 DEF Statement, CMoves
<1>2. reason \in CReasons
  BY DEF Reason, CReasons
<1>3. ASSUME reason = "", ~failed, CHolds(c, ref) PROVE CHolds(cm, rf)
  <2> DEFINE t == ref[y]
             s == ref[x]
             p == [mem |-> c[x].mem, ub |-> c[x].ub]
             w == [t EXCEPT ![r + 1] = s]
             gy == [c[y] EXCEPT !.rows[r + 1] = p]
             gx == CNull(c[x])
  <2>1. /\ kind \in Kinds /\ DOMAIN ref = Names /\ x \in Names /\ y \in Names /\ x # y
        /\ x \in Lines /\ kind[y] = "node" /\ DOMAIN c = Names
    BY <1>3, KindFacts, NotLine DEF RefInv, RefHolds, Reason, CHolds
  <2>2. t \in Seq(Seq(Nat)) /\ r < Len(t) /\ r \in Nat /\ s \in Seq(Nat)
    <3>1. r < Len(t)
      BY DEF ArrayToRow
    <3> QED
      BY <2>1, <3>1, ConstantFacts DEF RefInv, RefHolds
  <2>3. CVarHolds(y, c[y], t) /\ c[x] \in CVar /\ CHeld(c[x], s)
    BY <1>3, <2>1 DEF CHolds, CVarHolds
  <2>4. p \in CRow /\ CHeld(p, s)
    BY <2>3 DEF CVar, CRow, CHeld, Block
  <2>5. cm = [c EXCEPT ![y] = gy, ![x] = gx]
    <3> HIDE DEF gx
    <3>1. cm = [c EXCEPT ![y].rows[r + 1] = p, ![x] = CNull(@)]
      BY <2>1 DEF CAttachArrayToRow
    <3>2. cm = [c EXCEPT ![y].rows[r + 1] = p, ![x] = gx]
      BY <2>1, <3>1 DEF gx
    <3> QED
      BY <2>1, <3>2
  <2>6. new = [ref EXCEPT ![y] = w, ![x] = <<>>]
    OBVIOUS
  <2> HIDE DEF p
  <2>8. CVarHolds(y, gy, w)
    BY <2>1, <2>2, <2>3, <2>4, CRowPut
  <2>9. gx \in CVar /\ CHeld(gx, <<>>)
    BY <2>3, CNullFacts
  <2> HIDE DEF gx, gy, w, cm, new
  <2> DEFINE e == <<>>
  <2>7. CHeld(gx, e)
    BY <2>9
  <2>12. new = [ref EXCEPT ![y] = w, ![x] = e]
    BY <2>6
  <2> HIDE DEF e
  <2>10. CVarHolds(x, gx, e)
    BY <2>1, <2>7, <2>9, CLine
  <2>11. CHolds(cm, new)
    BY <1>3, <2>1, <2>5, <2>12, <2>8, <2>10, CPutTwo
  <2> QED
    BY <1>3, <2>11
<1>4. failed \in BOOLEAN
  OBVIOUS
<1> HIDE DEF cm, rf, reason, failed
<1> QED
  BY <1>1, <1>2, <1>3, <1>4, CMoved

\* Each of the other moves keeps CInv.
LEMMA ArrayToArrayC ==
  ASSUME CExcuses, RefInv, CInv, NEW x \in Lines, NEW y \in Lines, x # y, ArrayToArray(x, y)
  PROVE  CInv'
<1> DEFINE failed == ref[y] # <<>>
           cm == CAttachWhole(c, x, y)
           new == [ref EXCEPT ![y] = ref[x], ![x] = <<>>]
           rf == IF failed THEN ref ELSE new
           reason == Reason(~({x, y} \subseteq Heap), "fixed")
<1>1. CMoves(rf, failed, cm, reason)
  BY DEF ArrayToArray, Statement, CMoves, Fails
<1>2. reason \in CReasons
  BY DEF Reason, CReasons
<1>3. ASSUME reason = "", ~failed, CHolds(c, ref) PROVE CHolds(cm, rf)
  <2> DEFINE s == ref[x]
             e == <<>>
             gy == [c[y] EXCEPT !.mem = c[x].mem, !.ub = c[x].ub]
             gx == CNull(c[x])
  <2>1. /\ kind \in Kinds /\ DOMAIN ref = Names /\ x \in Names /\ y \in Names
        /\ {x, y} \subseteq Heap /\ DOMAIN c = Names
    BY <1>3, NotTable DEF RefInv, RefHolds, Reason, CHolds
  <2>2. c[y] \in CVar /\ c[x] \in CVar /\ CHeld(c[x], s)
    BY <1>3, <2>1 DEF CHolds, CVarHolds
  <2>3. cm = [c EXCEPT ![y] = gy, ![x] = gx]
    <3> HIDE DEF gx
    <3>1. {x, y} \subseteq Heap => ~({x, y} \subseteq Of({"fixed"}))
      BY DEF Heap, Of
    <3>2. cm = [c EXCEPT ![y].mem = c[x].mem, ![y].ub = c[x].ub, ![x] = CNull(@)]
      BY <2>1, <3>1 DEF CAttachWhole
    <3>3. cm = [c EXCEPT ![y].mem = c[x].mem, ![y].ub = c[x].ub, ![x] = gx]
      BY <2>1, <3>2 DEF gx
    <3> QED
      BY <2>1, <3>3
  <2>4. gy \in CVar /\ CHeld(gy, s)
    BY <2>2 DEF CVar, CHeld, Block
  <2>5. gx \in CVar /\ CHeld(gx, e)
    BY <2>2, CNullFacts
  <2>6. new = [ref EXCEPT ![y] = s, ![x] = e]
    OBVIOUS
  <2> HIDE DEF gx, gy, cm, new, s, e
  <2>7. CVarHolds(y, gy, s) /\ CVarHolds(x, gx, e)
    BY <2>1, <2>4, <2>5, CLine
  <2>8. CHolds(cm, new)
    BY <1>3, <2>1, <2>3, <2>6, <2>7, CPutTwo
  <2> QED
    BY <1>3, <2>8
<1>4. failed \in BOOLEAN
  OBVIOUS
<1> HIDE DEF cm, rf, reason, failed
<1> QED
  BY <1>1, <1>2, <1>3, <1>4, CMoved

LEMMA TextToTextC ==
  ASSUME CExcuses, RefInv, CInv, NEW x \in Texts, NEW y \in Texts, x # y, TextToText(x, y)
  PROVE  CInv'
<1> DEFINE failed == ref[y] # 0
           cm == CAttachTexts(c, x, y)
           new == [ref EXCEPT ![y] = ref[x], ![x] = 0]
           rf == IF failed THEN ref ELSE new
<1>1. CMoves(rf, failed, cm, "")
  BY DEF TextToText, Statement, CMoves, Fails
<1>2. "" \in CReasons
  BY DEF CReasons
<1>3. ASSUME ~failed, CHolds(c, ref) PROVE CHolds(cm, rf)
  <2> DEFINE v == ref[x]
             gy == [c[y] EXCEPT !.val = v]
             gx == [c[x] EXCEPT !.val = 0]
  <2>1. /\ kind \in Kinds /\ DOMAIN ref = Names /\ x \in Names /\ y \in Names
        /\ DOMAIN c = Names /\ v \in Nat
    BY <1>3 DEF RefInv, RefHolds, CHolds, Texts, Of
  <2>2. c[y] \in CVar /\ c[x] \in CVar /\ c[x].val = v
    BY <1>3, <2>1 DEF CHolds, CVarHolds
  <2>3. cm = [c EXCEPT ![y] = gy, ![x] = gx]
    BY <2>1, <2>2 DEF CAttachTexts
  <2>4. gy \in CVar /\ gy.val = v /\ gx \in CVar /\ gx.val = 0
    BY <2>1, <2>2 DEF CVar
  <2>6. new = [ref EXCEPT ![y] = v, ![x] = 0]
    OBVIOUS
  <2> HIDE DEF gx, gy, cm, new, v
  <2>7. CVarHolds(y, gy, v) /\ CVarHolds(x, gx, 0)
    BY <2>1, <2>4, CText
  <2>8. CHolds(cm, new)
    BY <1>3, <2>1, <2>3, <2>6, <2>7, CPutTwo
  <2> QED
    BY <1>3, <2>8
<1>4. failed \in BOOLEAN
  OBVIOUS
<1> HIDE DEF cm, rf, failed
<1> QED
  BY <1>1, <1>2, <1>3, <1>4, CMoved

\* An element of an array that is not empty is replaced.
LEMMA CElementPut ==
  ASSUME kind \in Kinds, NEW x \in Lines, NEW v, NEW t \in Seq(Nat), CVarHolds(x, v, t),
         NEW k \in Nat, k < Len(t), NEW e \in Nat
  PROVE  CVarHolds(x, [v EXCEPT !.mem[1][k + 1] = e], [t EXCEPT ![k + 1] = e])
<1> DEFINE u == [t EXCEPT ![k + 1] = e]
           g == [v EXCEPT !.mem[1][k + 1] = e]
<1>1. v \in CVar /\ CHeld(v, t) /\ v.mem \in CMem /\ t # <<>>
  BY DEF CVarHolds, CVar
<1>2. v.mem = <<t>> /\ v.ub = Len(t) - 1
  BY <1>1, CHeldMem DEF CHeld
<1>3. u \in Seq(Nat) /\ Len(u) = Len(t)
  BY ElementPut
<1>4. g = [v EXCEPT !.mem = <<u>>]
  <2>1. [<<t>> EXCEPT ![1][k + 1] = e] = [<<t>> EXCEPT ![1] = u]
    OBVIOUS
  <2> HIDE DEF u
  <2>2. [<<t>> EXCEPT ![1] = u] = <<u>>
    OBVIOUS
  <2>3. g = [v EXCEPT !.mem = [v.mem EXCEPT ![1][k + 1] = e]]
    OBVIOUS
  <2> QED
    BY <1>2, <2>1, <2>2, <2>3
<1> HIDE DEF u, g
<1>5. <<u>> \in CMem
  BY <1>3, CMemFacts
<1>6. g \in CVar /\ g.mem = <<u>> /\ g.ub = v.ub
  BY <1>1, <1>4, <1>5 DEF CVar
<1>7. CHeld(g, u)
  BY <1>2, <1>3, <1>6 DEF CHeld, Block
<1>8. CVarHolds(x, g, u)
  BY <1>6, <1>7, CLine
<1> QED
  BY <1>8 DEF g, u

LEMMA TextToElementC ==
  ASSUME CExcuses, RefInv, CInv, NEW x \in Texts, NEW y \in Lines, NEW k \in 0 .. MaxIndex,
         TextToElement(x, y, k)
  PROVE  CInv'
<1> DEFINE failed == k >= Len(ref[y]) \/ ref[y][k + 1] # 0
           cm == CAttachTextToElement(c, x, y, k)
           new == [ref EXCEPT ![y][k + 1] = ref[x], ![x] = 0]
           rf == IF failed THEN ref ELSE new
<1>1. CMoves(rf, failed, cm, "")
  BY DEF TextToElement, Statement, CMoves, Fails
<1>2. "" \in CReasons
  BY DEF CReasons
<1>3. ASSUME ~failed, CHolds(c, ref) PROVE CHolds(cm, rf)
  <2> DEFINE v == ref[x]
             t == ref[y]
             w == [t EXCEPT ![k + 1] = v]
             gy == [c[y] EXCEPT !.mem[1][k + 1] = v]
             gx == [c[x] EXCEPT !.val = 0]
  <2>1. /\ kind \in Kinds /\ DOMAIN ref = Names /\ x \in Names /\ y \in Names /\ x # y
        /\ DOMAIN c = Names /\ v \in Nat /\ t \in Seq(Nat)
    BY <1>3, NotTable DEF RefInv, RefHolds, CHolds, Texts, Of
  <2>2. k \in Nat /\ k < Len(t)
    BY <1>3, <2>1, ConstantFacts
  <2>3. CVarHolds(y, c[y], t) /\ c[x] \in CVar /\ c[x].val = v
    BY <1>3, <2>1 DEF CHolds, CVarHolds
  <2>4. cm = [c EXCEPT ![y] = gy, ![x] = gx]
    BY <2>1, <2>3 DEF CAttachTextToElement
  <2>5. gx \in CVar /\ gx.val = 0
    BY <2>3 DEF CVar
  <2>6. new = [ref EXCEPT ![y] = w, ![x] = 0]
    OBVIOUS
  <2> HIDE DEF v, t
  <2>7. CVarHolds(y, gy, w)
    BY <2>1, <2>2, <2>3, CElementPut
  <2> HIDE DEF gx, gy, cm, new, w
  <2>8. CVarHolds(x, gx, 0)
    BY <2>1, <2>5, CText
  <2>9. CHolds(cm, new)
    BY <1>3, <2>1, <2>4, <2>6, <2>7, <2>8, CPutTwo
  <2> QED
    BY <1>3, <2>9
<1>4. failed \in BOOLEAN
  OBVIOUS
<1> HIDE DEF cm, rf, failed
<1> QED
  BY <1>1, <1>2, <1>3, <1>4, CMoved

LEMMA ElementToTextC ==
  ASSUME CExcuses, RefInv, CInv, NEW y \in Texts, NEW x \in Lines, NEW k \in 0 .. MaxIndex,
         ElementToText(x, k, y)
  PROVE  CInv'
<1> DEFINE failed == ref[y] # 0 \/ k >= Len(ref[x])
           cm == CAttachElementToText(c, x, k, y)
           new == [ref EXCEPT ![y] = ref[x][k + 1], ![x][k + 1] = 0]
           rf == IF failed THEN ref ELSE new
<1>1. CMoves(rf, failed, cm, "")
  BY DEF ElementToText, Statement, CMoves, Fails
<1>2. "" \in CReasons
  BY DEF CReasons
<1>3. ASSUME ~failed, CHolds(c, ref) PROVE CHolds(cm, rf)
  <2> DEFINE t == ref[x]
             v == t[k + 1]
             w == [t EXCEPT ![k + 1] = 0]
             gy == [c[y] EXCEPT !.val = v]
             gx == [c[x] EXCEPT !.mem[1][k + 1] = 0]
  <2>1. /\ kind \in Kinds /\ DOMAIN ref = Names /\ x \in Names /\ y \in Names /\ x # y
        /\ DOMAIN c = Names /\ t \in Seq(Nat)
    BY <1>3, NotTable DEF RefInv, RefHolds, CHolds, Texts, Of
  <2>2. k \in Nat /\ k < Len(t)
    BY <1>3, <2>1, ConstantFacts
  <2>10. v \in Nat
    BY <2>1, <2>2, ElementPut
  <2>3. CVarHolds(x, c[x], t) /\ c[y] \in CVar /\ Block(c[x]) = t
    BY <1>3, <2>1 DEF CHolds, CVarHolds, CHeld
  <2>4. cm = [c EXCEPT ![y] = gy, ![x] = gx]
    BY <2>1, <2>3 DEF CAttachElementToText
  <2>5. gy \in CVar /\ gy.val = v
    BY <2>3, <2>10 DEF CVar
  <2>6. new = [ref EXCEPT ![y] = v, ![x] = w]
    BY <2>1
  <2> HIDE DEF v, t
  <2>7. CVarHolds(x, gx, w)
    BY <2>1, <2>2, <2>3, CElementPut
  <2> HIDE DEF gx, gy, cm, new, w
  <2>8. CVarHolds(y, gy, v)
    BY <2>1, <2>5, CText
  <2>9. CHolds(cm, new)
    BY <1>3, <2>1, <2>4, <2>6, <2>7, <2>8, CPutTwo
  <2> QED
    BY <1>3, <2>9
<1>4. failed \in BOOLEAN
  OBVIOUS
<1> HIDE DEF cm, rf, failed
<1> QED
  BY <1>1, <1>2, <1>3, <1>4, CMoved

LEMMA SwapC ==
  ASSUME CExcuses, RefInv, CInv, NEW x, NEW y, {x, y} \subseteq Heap \/ {x, y} \subseteq Texts,
         x # y, Swap(x, y)
  PROVE  CInv'
<1> DEFINE cm == emit_swap(c, x, y)
           rf == [ref EXCEPT ![x] = ref[y], ![y] = ref[x]]
<1>1. CMoves(rf, FALSE, cm, "")
  BY DEF Swap, Statement, CMoves
<1>2. "" \in CReasons
  BY DEF CReasons
<1>3. ASSUME CHolds(c, ref) PROVE CHolds(cm, rf)
  <2> DEFINE s == ref[x]
             t == ref[y]
             gx == [c[x] EXCEPT !.mem = c[y].mem, !.ub = c[y].ub, !.val = c[y].val]
             gy == [c[y] EXCEPT !.mem = c[x].mem, !.ub = c[x].ub, !.val = c[x].val]
  <2>1. /\ kind \in Kinds /\ DOMAIN ref = Names /\ x \in Names /\ y \in Names
        /\ DOMAIN c = Names
    BY <1>3, KindFacts DEF RefInv, RefHolds, CHolds
  <2>2. CVarHolds(x, c[x], s) /\ CVarHolds(y, c[y], t) /\ c[x] \in CVar /\ c[y] \in CVar
    BY <1>3, <2>1 DEF CHolds, CVarHolds
  <2>3. cm = [c EXCEPT ![x] = gx, ![y] = gy]
    BY <2>1 DEF emit_swap
  <2>4. /\ gx \in CVar /\ gx.mem = c[y].mem /\ gx.ub = c[y].ub /\ gx.val = c[y].val
        /\ gy \in CVar /\ gy.mem = c[x].mem /\ gy.ub = c[x].ub /\ gy.val = c[x].val
    BY <2>2 DEF CVar
  <2> HIDE DEF gx, gy, cm, s, t
  <2>5. CVarHolds(x, gx, t) /\ CVarHolds(y, gy, s)
    <3>1. CASE {x, y} \subseteq Heap
      <4>1. x \in Lines /\ y \in Lines
        BY <2>1, <3>1, KindFacts
      <4>2. CHeld(gx, t) /\ CHeld(gy, s)
        BY <2>2, <2>4, <4>1 DEF CVarHolds, CHeld, Block
      <4> QED
        BY <2>1, <2>4, <4>1, <4>2, CLine
    <3>2. CASE {x, y} \subseteq Texts
      <4>1. gx.val = t /\ gy.val = s
        BY <2>2, <2>4, <3>2 DEF CVarHolds
      <4> QED
        BY <2>1, <2>4, <3>2, <4>1, CText
    <3> QED
      BY <3>1, <3>2
  <2>6. rf = [ref EXCEPT ![x] = t, ![y] = s]
    BY DEF s, t
  <2> HIDE DEF rf
  <2> QED
    BY <1>3, <2>1, <2>3, <2>5, <2>6, CPutTwo
<1> HIDE DEF cm, rf
<1> QED
  BY <1>1, <1>2, <1>3, CMoved

\* A variable before its declaration.
LEMMA CNewFacts == CNew \in CVar /\ CHeld(CNew, <<>>) /\ CNew.val = 0
<1> DEFINE m == <<>>
<1>1. CNew = [mem |-> m, ub |-> -1, rows |-> m, inner |-> -1, val |-> 0]
  BY DEF CNew
<1>2. m \in CMem /\ m \in Seq(CRow) /\ Len(m) - 1 = -1
  BY CMemFacts
<1> HIDE DEF m
<1>3. CNew \in CVar /\ CNew.mem = m /\ CNew.ub = -1 /\ CNew.val = 0
  BY <1>1, <1>2 DEF CVar
<1> QED
  BY <1>2, <1>3 DEF CHeld, Block, m

\* The declarations of the three kinds of arrays that have a bound.
LEMMA CFirstNode ==
  ASSUME kind \in Kinds, NEW x \in Tables, kind[x] = "node"
  PROVE  CVarHolds(x, CDimNode(CNew, <<1, Inner>>), Table(1, 0))
<1> DEFINE z == Zeros(Wide)
           p == [mem |-> <<z>>, ub |-> Inner]
           rows == [r \in 1 .. 2 |-> p]
           g == CDimNode(CNew, <<1, Inner>>)
           t == Table(1, 0)
<1>1. z \in Seq(Nat) /\ Len(z) = Wide /\ Inner \in Int /\ Wide - 1 = Inner
  BY ConstantFacts, ZerosFacts DEF Wide
<1>2. g = [CNew EXCEPT !.inner = Inner, !.rows = rows]
  BY DEF CDimNode, Wide
<1> HIDE DEF z
<1>3. p \in CRow /\ CHeld(p, z)
  <2>1. <<z>> \in CMem
    BY <1>1, CMemFacts
  <2>2. p \in CRow
    BY <1>1, <2>1 DEF CRow
  <2>3. Block(p) = z /\ p.ub = Len(z) - 1
    BY <1>1 DEF Block
  <2> QED
    BY <2>2, <2>3 DEF CHeld
<1> HIDE DEF p
<1>4. rows \in Seq(CRow) /\ Len(rows) = 2 /\ \A r \in 1 .. 2 : rows[r] = p
  BY <1>3
<1> HIDE DEF rows, g
<1>5. g \in CVar /\ g.rows = rows
  BY <1>1, <1>2, <1>4, CNewFacts DEF CVar
<1>6. t \in Seq(Seq(Nat)) /\ Len(t) = 2 /\ \A r \in 1 .. 2 : t[r] = z
  BY FirstTable DEF z
<1> HIDE DEF t
<1>7. DOMAIN t = 1 .. 2
  BY <1>6
<1>8. \A r \in DOMAIN t : CHeld(g.rows[r], t[r])
  BY <1>3, <1>4, <1>5, <1>6, <1>7
<1>9. CVarHolds(x, g, t)
  BY <1>4, <1>5, <1>6, <1>8, NotLine DEF CVarHolds, CTableHolds
<1> QED
  BY <1>9 DEF g, t

\* A contiguous table as declared.
LEMMA CFirstFlat ==
  ASSUME kind \in Kinds, NEW x \in Tables, kind[x] = "flat"
  PROVE  CVarHolds(x, CDimFlat(CNew, <<1, Inner>>, FALSE), Table(1, 0))
<1> DEFINE z == Zeros(Cells(2))
           g == CDimFlat(CNew, <<1, Inner>>, FALSE)
<1>1. z \in Seq(Nat) /\ Inner \in Int
  BY ConstantFacts, CellsType, ZerosFacts
<1>2. Count([k \in DOMAIN <<1, Inner>> |-> <<1, Inner>>[k] + 1]) = Cells(2)
  <2>1. [k \in DOMAIN <<1, Inner>> |-> <<1, Inner>>[k] + 1] = <<2, Inner + 1>>
    BY ConstantFacts
  <2> QED
    BY <2>1, CountFacts DEF Cells, Wide
<1>3. g = [CBlock(CNew, z) EXCEPT !.inner = Inner]
  BY <1>2 DEF CDimFlat
<1> HIDE DEF z, g
<1>4. CBlock(CNew, z) \in CVar /\ CBlock(CNew, z).mem = <<z>>
  <2>1. CBlock(CNew, z).mem = <<z>>
    BY CNewFacts DEF CBlock, CVar
  <2> QED
    BY <1>1, <2>1, CNewFacts, CBlockFacts
<1>5. g \in CVar /\ g.mem = <<z>>
  BY <1>1, <1>3, <1>4 DEF CVar
<1>6. Len(g.mem) = 1 /\ g.mem[1] = z
  BY <1>5
<1>7. FlatHolds(z, Table(1, 0))
  BY FlatFirst DEF z
<1>8. CVarHolds(x, g, Table(1, 0))
  BY <1>5, <1>6, <1>7, NotLine DEF CVarHolds, CTableHolds
<1> QED
  BY <1>8 DEF g

\* What the declarations leave the C program with.
LEMMA InitC == Init => CInv
<1> SUFFICES ASSUME Init PROVE CHolds(c, ref)
  BY DEF CInv
<1>1. /\ kind \in Kinds
      /\ c = [x \in Names |-> CASE kind[x] = "fixed" -> CBlock(CNew, Zeros(2))
                               [] kind[x] = "node" -> CDimNode(CNew, <<1, Inner>>)
                               [] kind[x] = "flat" -> CDimFlat(CNew, <<1, Inner>>, FALSE)
                               [] OTHER -> CNew]
      /\ ref = [x \in Names |-> CASE kind[x] = "fixed" -> <<0, 0>>
                                 [] x \in Tables -> Table(1, 0)
                                 [] x \in Texts -> 0
                                 [] OTHER -> <<>>]
  BY DEF Init
<1>2. DOMAIN c = Names
  BY <1>1
<1>3. ASSUME NEW x \in Names PROVE CVarHolds(x, c[x], ref[x])
  <2>1. CASE kind[x] = "fixed"
    <3> DEFINE z == Zeros(2)
               g == CBlock(CNew, z)
    <3>1. x \in Lines /\ x \notin Tables /\ x \notin Texts
      BY <2>1 DEF Lines, Tables, Texts, Of
    <3>2. c[x] = g /\ ref[x] = <<0, 0>>
      BY <1>1, <2>1, <3>1
    <3>3. z \in Seq(Nat) /\ ref[x] = z
      BY <3>2, EmptyAndZeros
    <3> HIDE DEF z
    <3>4. g \in CVar /\ CHeld(g, z)
      BY <3>3, CNewFacts, CBlockFacts
    <3> HIDE DEF g
    <3> QED
      BY <1>1, <3>1, <3>2, <3>3, <3>4, CLine
  <2>2. CASE x \in Tables
    <3>1. x \notin Texts /\ kind[x] # "fixed" /\ (kind[x] = "node" \/ kind[x] = "flat")
      BY <1>1, <2>2, NotLine
    <3>2. ref[x] = Table(1, 0)
      BY <1>1, <2>2, <3>1
    <3>3. CASE kind[x] = "node"
      <4>1. c[x] = CDimNode(CNew, <<1, Inner>>)
        BY <1>1, <3>3
      <4> QED
        BY <1>1, <2>2, <3>2, <3>3, <4>1, CFirstNode
    <3>4. CASE kind[x] = "flat"
      <4>1. c[x] = CDimFlat(CNew, <<1, Inner>>, FALSE)
        BY <1>1, <3>4
      <4> QED
        BY <1>1, <2>2, <3>2, <3>4, <4>1, CFirstFlat
    <3> QED
      BY <3>1, <3>3, <3>4
  <2>3. CASE x \in Texts
    <3>1. /\ x \notin Lines /\ x \notin Tables
          /\ kind[x] # "fixed" /\ kind[x] # "node" /\ kind[x] # "flat"
      BY <1>1, <2>3, KindFacts DEF Texts, Of
    <3>2. c[x] = CNew /\ ref[x] = 0
      BY <1>1, <2>3, <3>1
    <3> QED
      BY <1>1, <2>3, <3>2, CNewFacts, CText
  <2>4. CASE x \in Lines /\ kind[x] # "fixed"
    <3>1. x \notin Texts /\ x \notin Tables /\ kind[x] # "node" /\ kind[x] # "flat"
      BY <1>1, <2>4, KindFacts DEF Lines, Of
    <3>2. c[x] = CNew /\ ref[x] = <<>>
      BY <1>1, <2>4, <3>1
    <3> DEFINE e == <<>>
    <3>3. CHeld(CNew, e) /\ ref[x] = e
      BY <3>2, CNewFacts
    <3> HIDE DEF e
    <3> QED
      BY <1>1, <2>4, <3>2, <3>3, CNewFacts, CLine
  <2> QED
    BY <1>1, <2>1, <2>2, <2>3, <2>4, KindFacts
<1> QED
  BY <1>2, <1>3 DEF CHolds

\* Every step keeps CInv.
LEMMA CStep ==
  ASSUME CExcuses, RefInv, CInv, [Next]_vars
  PROVE  CInv'
<1>1. CASE UNCHANGED vars
  BY <1>1 DEF vars, CInv, CHolds, CVarHolds, CTableHolds, Names, Of, Lines, Tables, Texts
<1>2. CASE Next
  <2>1. \A x \in Heap, redim \in BOOLEAN, b \in {<<>>} \cup {<<n>> : n \in Sizes} :
           DimLine(x, b, redim) => CInv'
    BY DimLineC
  <2>2. \A x \in Of({"flat"}), n \in Sizes \ {-1}, redim \in BOOLEAN :
           DimTable(x, n, redim) => CInv'
    BY DimTableC
  <2>3. \A x \in Lines, i \in 0 .. MaxIndex : SetLine(x, i) => CInv'
    BY SetLineC
  <2>4. \A x \in Tables, i \in 0 .. MaxIndex, j \in 0 .. MaxIndex : SetTable(x, i, j) => CInv'
    BY SetTableC
  <2>5. \A x \in Texts : SetText(x) => CInv'
    BY SetTextC
  <2>6. \A x \in Tables, r \in 0 .. MaxIndex, y \in Heap :
           RowToArray(x, r, y) \/ ArrayToRow(y, x, r) => CInv'
    BY RowToArrayC, ArrayToRowC
  <2>7. \A x, y \in Lines : x # y /\ ArrayToArray(x, y) => CInv'
    BY ArrayToArrayC
  <2>8. \A x, y \in Texts : x # y /\ TextToText(x, y) => CInv'
    BY TextToTextC
  <2>9. \A x \in Texts, y \in Lines, k \in 0 .. MaxIndex :
           TextToElement(x, y, k) \/ ElementToText(y, k, x) => CInv'
    BY TextToElementC, ElementToTextC
  <2>10. \A x, y \in Heap : x # y /\ Swap(x, y) => CInv'
    BY SwapC
  <2>11. \A x, y \in Texts : x # y /\ Swap(x, y) => CInv'
    BY SwapC
  <2> QED
    BY <1>2, <2>1, <2>2, <2>3, <2>4, <2>5, <2>6, <2>7, <2>8, <2>9, <2>10, <2>11 DEF Next
<1> QED
  BY <1>1, <1>2

\* What CInv says is what the program sees.
LEMMA CVisible ==
  ASSUME RefInv, NEW x \in Names, CVarHolds(x, c[x], ref[x])
  PROVE  CASE x \in Lines -> Block(c[x]) = ref[x] /\ c[x].ub = Len(ref[x]) - 1
           [] x \in Tables -> CTable(c[x], kind[x], ref[x]) = ref[x]
           [] x \in Texts -> c[x].val = ref[x]
<1>1. kind \in Kinds
  BY DEF RefInv
<1>2. ASSUME x \in Lines PROVE Block(c[x]) = ref[x] /\ c[x].ub = Len(ref[x]) - 1
  BY <1>2 DEF CVarHolds, CHeld
<1>3. ASSUME x \in Tables PROVE CTable(c[x], kind[x], ref[x]) = ref[x]
  <2> DEFINE t == ref[x]
             v == c[x]
             k == kind[x]
             At(r, j) == IF k = "node" THEN v.rows[r].mem[1][j]
                         ELSE v.mem[1][CFlatOffset(<<r - 1, j - 1>>) + 1]
  <2>1. t \in Seq(Seq(Nat)) /\ CTableHolds(v, k, t) /\ CVarHolds(x, v, t)
    BY <1>3 DEF RefInv, RefHolds, CVarHolds
  <2>2. ASSUME NEW r \in DOMAIN t, NEW j \in DOMAIN t[r] PROVE At(r, j) = t[r][j]
    <3>1. r \in Nat /\ t[r] \in Seq(Nat) /\ Wide \in Nat
      BY <2>1, ConstantFacts
    <3>2. CASE k = "node"
      <4> DEFINE q == r - 1
      <4>1. q \in Nat /\ q < Len(t) /\ q + 1 = r
        BY <2>1
      <4> HIDE DEF t, v, q
      <4>2. v.rows[q + 1].mem \in CMem /\ CHeld(v.rows[q + 1], t[q + 1])
        BY <1>1, <1>3, <2>1, <3>2, <4>1, CRowFacts DEF v, t
      <4>3. v.rows[r].mem \in CMem /\ CHeld(v.rows[r], t[r]) /\ t[r] # <<>>
        BY <3>1, <4>1, <4>2
      <4>4. v.rows[r].mem = <<t[r]>>
        BY <3>1, <4>3, CHeldMem
      <4> QED
        BY <3>2, <4>4
    <3>3. CASE k # "node"
      <4>1. Len(t[r]) = Wide /\ \A l \in 1 .. Wide : v.mem[1][Place(r, l)] = t[r][l]
        BY <2>1, <3>3 DEF CTableHolds, FlatHolds
      <4>2. j \in 1 .. Wide
        BY <3>1, <4>1
      <4>3. CFlatOffset(<<r - 1, j - 1>>) + 1 = (r - 1) * Wide + (j - 1) + 1
        BY DEF CFlatOffset, Wide
      <4>4. CFlatOffset(<<r - 1, j - 1>>) + 1 = Place(r, j)
        BY <3>1, <4>2, <4>3 DEF Place
      <4> QED
        BY <3>3, <4>1, <4>2, <4>4
    <3> QED
      BY <3>2, <3>3
  <2>3. CTable(v, k, t) = [r \in DOMAIN t |-> [j \in DOMAIN t[r] |-> At(r, j)]]
    BY DEF CTable
  <2> HIDE DEF At, t, v, k
  <2>4. \A r \in DOMAIN t : [j \in DOMAIN t[r] |-> At(r, j)] = t[r]
    <3> TAKE r \in DOMAIN t
    <3>1. [j \in DOMAIN t[r] |-> At(r, j)] = [j \in DOMAIN t[r] |-> t[r][j]]
      BY <2>2
    <3>2. t[r] \in Seq(Nat)
      BY <2>1
    <3> QED
      BY <3>1, <3>2
  <2>5. CTable(v, k, t) = [r \in DOMAIN t |-> t[r]]
    BY <2>3, <2>4
  <2>6. CTable(v, k, t) = t
    BY <2>1, <2>5
  <2> QED
    BY <2>6 DEF t, v, k
<1>4. ASSUME x \in Texts PROVE c[x].val = ref[x]
  BY <1>4 DEF CVarHolds
<1> QED
  BY <1>1, <1>2, <1>3, <1>4, KindFacts

\* The emitted C program has every element and every bound the program means, for
\* any number of moves, swaps, resizings and assignments, although an ATTACH moves
\* the pointer and the bound apart and a REDIM resizes a block that has moved.  What
\* ends its comparison is named in CExcuses.
THEOREM CProgramInStep == ASSUME CExcuses PROVE Spec => []CProgramKeepsArrays
<1>1. Init => RefInv /\ CInv
  BY InitRef, InitC
<1>2. RefInv /\ CInv /\ [Next]_vars => (RefInv /\ CInv)'
  BY RefStep, CStep
<1>3. RefInv /\ CInv => CProgramKeepsArrays
  <2> SUFFICES ASSUME RefInv, CHolds(c, ref), NEW x \in Names
               PROVE  CASE x \in Lines -> Block(c[x]) = ref[x] /\ c[x].ub = Len(ref[x]) - 1
                        [] x \in Tables -> CTable(c[x], kind[x], ref[x]) = ref[x]
                        [] x \in Texts -> c[x].val = ref[x]
    BY DEF CInv, CProgramKeepsArrays
  <2> QED
    BY CVisible DEF CHolds
<1> QED
  BY <1>1, <1>2, <1>3, PTL DEF Spec

-----------------------------------------------------------------------------
(* The interpreter *)

SlotExcuses == {"scalar", "rows"} \subseteq Excused
SlotReasons == {"", "scalar", "rows"}

\* A statement as the interpreter sees it: its slots are st after it, and fault says
\* whether it reports an error.
SMoves(rf, failed, st, fault, reason) ==
    /\ kind' = kind /\ ~err.ref
    /\ ref' = rf /\ err'.ref = failed
    /\ why'.interp = Excuse("interp", reason)
    /\ why'.interp = "" => slot' = st /\ err'.interp = fault

\* A statement keeps SlotInv if, where nothing ends the comparison, it reports an
\* error exactly when the reference does and keeps SlotsHold otherwise.
LEMMA SMoved ==
  ASSUME SlotExcuses, SlotInv, NEW rf, NEW failed \in BOOLEAN, NEW st, NEW fault,
         NEW reason \in SlotReasons, SMoves(rf, failed, st, fault, reason),
         reason = "" /\ SlotsHold(slot, ref) => fault = failed /\ (~failed => SlotsHold(st, rf))
  PROVE  SlotInv'
<1> SUFFICES ASSUME why'.interp = ""
             PROVE  fault = failed /\ (~failed => SlotsHold(st, rf)')
  BY DEF SlotInv, SMoves, SlotsHold, SlotHolds, Names, Lines, Tables, Texts, Of
<1>1. reason = "" /\ why.interp = ""
  BY DEF SMoves, Excuse, SlotExcuses, SlotReasons
<1>2. fault = failed /\ (~failed => SlotsHold(st, rf))
  BY <1>1 DEF SlotInv, SMoves
<1> QED
  BY <1>2 DEF SMoves, SlotsHold, SlotHolds, Names, Lines, Tables, Texts, Of

\* One slot and its name given what belongs together.
LEMMA SPut ==
  ASSUME NEW m, NEW rf, SlotsHold(m, rf), DOMAIN rf = Names,
         NEW x \in Names, NEW s, NEW t, SlotHolds(x, s, t)
  PROVE  SlotsHold([m EXCEPT ![x] = s], [rf EXCEPT ![x] = t])
BY DEF SlotsHold

\* The same for two slots.
LEMMA SPutTwo ==
  ASSUME NEW m, NEW rf, SlotsHold(m, rf), DOMAIN rf = Names,
         NEW x \in Names, NEW v, NEW t, SlotHolds(x, v, t),
         NEW y \in Names, NEW w, NEW u, SlotHolds(y, w, u)
  PROVE  SlotsHold([m EXCEPT ![x] = v, ![y] = w], [rf EXCEPT ![x] = t, ![y] = u])
<1>1. SlotsHold([m EXCEPT ![x] = v], [rf EXCEPT ![x] = t])
  BY SPut
<1>2. DOMAIN [rf EXCEPT ![x] = t] = Names
  OBVIOUS
<1>3. SlotsHold([[m EXCEPT ![x] = v] EXCEPT ![y] = w], [[rf EXCEPT ![x] = t] EXCEPT ![y] = u])
  BY <1>1, <1>2, SPut
<1> QED
  BY <1>3

\* What a store of one dimension, or a row, says of the value it holds.
LEMMA HeldFacts ==
  ASSUME NEW arr \in Seq(Seq(Nat)), NEW dims, NEW t \in Seq(Nat), Held(arr, dims, t)
  PROVE  /\ (IF arr = <<>> THEN <<>> ELSE arr[1]) = t
         /\ arr = <<>> \/ arr = <<t>>
         /\ arr \in {<<>>, <<<<>>>>} <=> t = <<>>
         /\ t # <<>> => arr = <<t>> /\ dims = <<Len(t)>>
BY DEF Held

\* A slot with one store.
LEMMA NewSlot ==
  ASSUME NEW a \in Seq(Nat), NEW ds \in Seq(Nat), NEW s, s.arr = <<a>>, s.dims = ds,
         s.rows = <<>>, s.val \in Nat,
         s = [val |-> s.val, arr |-> s.arr, dims |-> s.dims, rows |-> s.rows]
  PROVE  s \in Slot
<1>1. <<a>> \in Seq(Seq(Nat)) /\ <<>> \in Seq(Seq(Row))
  OBVIOUS
<1> QED
  BY <1>1 DEF Slot

\* A slot for a line.
LEMMA SLine ==
  ASSUME kind \in Kinds, NEW x \in Lines, NEW s \in Slot, NEW t,
         s.val = 0, s.rows = <<>>, Held(s.arr, s.dims, t)
  PROVE  SlotHolds(x, s, t)
BY NotTable DEF SlotHolds, LineSlot

\* A slot for a text.
LEMMA SText ==
  ASSUME kind \in Kinds, NEW x \in Texts, NEW s \in Slot, NEW e,
         s.arr = <<>>, s.rows = <<>>, s.val = e
  PROVE  SlotHolds(x, s, e)
<1>1. x \notin Lines /\ x \notin Tables
  BY KindFacts
<1> QED
  BY <1>1 DEF SlotHolds, TextSlot

\* A line in a slot of its own.
LEMMA SNewLine ==
  ASSUME kind \in Kinds, NEW x \in Lines, NEW s, NEW t \in Seq(Nat), NEW ds \in Seq(Nat),
         s.val = 0, s.arr = <<t>>, s.dims = ds, s.rows = <<>>,
         ds = <<Len(t)>> \/ (ds = <<>> /\ t = <<>>),
         s = [val |-> s.val, arr |-> s.arr, dims |-> s.dims, rows |-> s.rows]
  PROVE  SlotHolds(x, s, t)
<1>1. s \in Slot
  BY NewSlot
<1>2. Held(s.arr, s.dims, t)
  BY DEF Held
<1> QED
  BY <1>1, <1>2, SLine

\* DIM, REDIM and SHARED of a line leave store and dimensions in step.
LEMMA SDimLineHolds ==
  ASSUME RefInv, NEW x \in Heap, NEW redim \in BOOLEAN,
         NEW b \in {<<>>} \cup {<<n>> : n \in Sizes}, SlotHolds(x, slot[x], ref[x])
  PROVE  SlotHolds(x, DimSlot(slot[x], b, redim, kind[x] = "shared"), RefDimLine(x, b, redim))
<1> DEFINE s == slot[x]
           u == ref[x]
           ds == LCounts(b)
           shared == kind[x] = "shared"
           g == DimSlot(s, b, redim, shared)
           t == RefDimLine(x, b, redim)
           a == IF redim \/ shared THEN Grown(u, Count(ds), 0) ELSE Zeros(Count(ds))
<1>1. kind \in Kinds /\ x \in Lines /\ u \in Seq(Nat) /\ t \in Seq(Nat)
  BY KindFacts, RefDimLineType DEF RefInv, RefHolds
<1>2. s \in Slot /\ s.val = 0 /\ s.rows = <<>> /\ Held(s.arr, s.dims, u)
  BY <1>1 DEF SlotHolds, LineSlot
<1>3. (IF s.arr = <<>> THEN <<>> ELSE s.arr[1]) = u
  <2> HIDE DEF s, u
  <2>1. s.arr \in Seq(Seq(Nat))
    BY <1>2 DEF Slot
  <2> QED
    BY <1>1, <1>2, <2>1, HeldFacts
<1>4. ds = [k \in DOMAIN b |-> AtLeast0(b[k]) + 1]
  BY DEF LCounts
<1>5. CASE b = <<>> /\ shared /\ ~redim
  <2>1. ds = <<>> /\ t = u
    BY <1>5, LCountsFacts DEF RefDimLine
  <2>2. g = [s EXCEPT !.rows = <<>>]
    BY <1>4, <1>5, <2>1 DEF DimSlot
  <2> HIDE DEF g, s, t, u, ds
  <2>3. g = s
    BY <1>2, <2>2 DEF Slot
  <2>4. SlotHolds(x, s, u)
    BY DEF s, u
  <2>5. SlotHolds(x, g, t)
    BY <2>1, <2>3, <2>4
  <2> QED
    BY <2>5 DEF g, t, s
<1>6. CASE ~(b = <<>> /\ shared /\ ~redim)
  <2>1. a = t /\ ds \in Seq(Nat) /\ (ds = <<Len(t)>> \/ (ds = <<>> /\ t = <<>>))
    <3>1. CASE b = <<>>
      <4>1. t = <<>>
        BY <1>6, <3>1 DEF RefDimLine
      <4>2. ds = <<>> /\ Count(ds) = 0
        BY <3>1, LCountsFacts, CountFacts
      <4>3. a = <<>>
        BY <4>2, NoElements0
      <4> HIDE DEF a, t, ds
      <4> QED
        BY <4>1, <4>2, <4>3
    <3>2. CASE b # <<>>
      <4>1. PICK n \in Sizes : b = <<n>>
        BY <3>2
      <4> DEFINE m == AtLeast0(n) + 1
      <4>2. m \in Nat
        BY ConstantFacts, AtLeast0Facts
      <4>3. ds = <<m>> /\ Count(ds) = m
        BY <4>1, LCountsFacts, CountFacts
      <4>4. t = IF redim \/ shared THEN Grown(u, m, 0) ELSE Zeros(m)
        BY <3>2, <4>1 DEF RefDimLine
      <4> HIDE DEF m, ds, t, u
      <4>5. a = t
        BY <4>3, <4>4
      <4>6. Len(t) = m
        BY <1>1, <4>2, <4>4, GrownZero, ZerosFacts
      <4> HIDE DEF a
      <4> QED
        BY <4>2, <4>3, <4>5, <4>6
    <3> QED
      BY <3>1, <3>2
  <2>2. g = [val |-> 0, arr |-> <<a>>, dims |-> ds, rows |-> <<>>]
    <3> HIDE DEF s, u, ds
    <3>1. CASE redim
      <4>1. g = array_reshape(s, ds)
        BY <1>4, <3>1 DEF DimSlot
      <4>2. g = [s EXCEPT !.arr = <<a>>, !.dims = ds]
        BY <1>3, <3>1, <4>1 DEF array_reshape
      <4> HIDE DEF a, g
      <4> QED
        BY <1>2, <4>2 DEF Slot
    <3>2. CASE ~redim /\ shared
      <4>1. ds # <<>>
        <5>1. b # <<>>
          BY <1>6, <3>2
        <5>2. PICK n \in Sizes : b = <<n>>
          BY <5>1
        <5>3. ds = <<AtLeast0(n) + 1>>
          BY <5>2, LCountsFacts DEF ds
        <5> QED
          BY <5>3
      <4>2. g = array_reshape([s EXCEPT !.rows = <<>>], ds)
        BY <1>4, <3>2, <4>1 DEF DimSlot
      <4>3. [s EXCEPT !.rows = <<>>] = s
        BY <1>2 DEF Slot
      <4>4. g = [s EXCEPT !.arr = <<a>>, !.dims = ds]
        BY <1>3, <3>2, <4>2, <4>3 DEF array_reshape
      <4> HIDE DEF a, g
      <4> QED
        BY <1>2, <4>4 DEF Slot
    <3>3. CASE ~redim /\ ~shared
      <4>1. g = new_array_nd(ds)
        BY <1>4, <3>3 DEF DimSlot
      <4> QED
        BY <3>3, <4>1 DEF new_array_nd
    <3> QED
      BY <3>1, <3>2, <3>3
  <2> HIDE DEF g, t, a, ds
  <2>3. SlotHolds(x, g, t)
    BY <1>1, <2>1, <2>2, SNewLine
  <2> QED
    BY <2>3 DEF g, t
<1> QED
  BY <1>5, <1>6

\* Each statement that moves nothing keeps SlotInv.
LEMMA DimLineS ==
  ASSUME SlotExcuses, RefInv, SlotInv, NEW x \in Heap, NEW redim \in BOOLEAN,
         NEW b \in {<<>>} \cup {<<n>> : n \in Sizes}, DimLine(x, b, redim)
  PROVE  SlotInv'
<1> DEFINE g == DimSlot(slot[x], b, redim, kind[x] = "shared")
           st == [slot EXCEPT ![x] = g]
           rf == [ref EXCEPT ![x] = RefDimLine(x, b, redim)]
<1>1. SMoves(rf, FALSE, st, FALSE, "")
  BY DEF DimLine, Statement, SMoves, RefDimLine
<1>2. "" \in SlotReasons
  BY DEF SlotReasons
<1>3. ASSUME SlotsHold(slot, ref) PROVE SlotsHold(st, rf)
  <2>1. x \in Names /\ DOMAIN ref = Names
    BY KindFacts DEF RefInv, RefHolds
  <2>2. SlotHolds(x, g, RefDimLine(x, b, redim))
    BY <1>3, <2>1, SDimLineHolds DEF SlotsHold
  <2> HIDE DEF g
  <2> QED
    BY <1>3, <2>1, <2>2, SPut
<1> HIDE DEF st, rf
<1> QED
  BY <1>1, <1>2, <1>3, SMoved

\* A table in one piece, in a slot of its own.
LEMMA SNewTable ==
  ASSUME kind \in Kinds, NEW x \in Tables, NEW s, NEW t \in Seq(Seq(Nat)), NEW a \in Seq(Nat),
         s.val \in Nat, s.arr = <<a>>, s.dims = <<Len(t), Wide>>, s.rows = <<>>,
         s = [val |-> s.val, arr |-> s.arr, dims |-> s.dims, rows |-> s.rows], FlatHolds(a, t)
  PROVE  SlotHolds(x, s, t)
<1> DEFINE ds == <<Len(t), Wide>>
<1>1. ds \in Seq(Nat)
  BY ConstantFacts
<1> HIDE DEF ds
<1>2. s.dims = ds
  BY DEF ds
<1>3. s \in Slot
  BY <1>1, <1>2, NewSlot
<1>4. Len(s.arr) = 1 /\ s.arr[1] = a
  OBVIOUS
<1> QED
  BY <1>3, <1>4, NotLine DEF SlotHolds, TableSlot

\* DIM of a table, and REDIM of one that has no rows yet.
LEMMA SDimTableHolds ==
  ASSUME RefInv, NEW x \in Tables, NEW n \in Nat, NEW redim \in BOOLEAN,
         SlotHolds(x, slot[x], ref[x]), redim => slot[x].rows = <<>>
  PROVE  SlotHolds(x, DimSlot(slot[x], <<n, Inner>>, redim, FALSE), RefDimTable(x, n, redim))
<1> DEFINE s == slot[x]
           ds == <<n + 1, Wide>>
           g == DimSlot(s, <<n, Inner>>, redim, FALSE)
           t == RefDimTable(x, n, redim)
           a == IF redim THEN Grown(s.arr[1], Cells(n + 1), 0) ELSE Zeros(Cells(n + 1))
<1>1. /\ kind \in Kinds /\ ref[x] \in Seq(Seq(Nat)) /\ n + 1 \in Nat /\ Wide \in Nat
      /\ Cells(n + 1) \in Nat
  BY ConstantFacts, CellsType DEF RefInv, RefHolds
<1>2. s \in Slot /\ TableSlot(s, ref[x])
  BY DEF SlotHolds
<1>3. AtLeast0(n) + 1 = n + 1 /\ AtLeast0(Inner) + 1 = Wide
  BY ConstantFacts, AtLeast0Facts DEF Wide
<1>4. LCounts(<<n, Inner>>) = ds /\ Count(ds) = Cells(n + 1)
  BY <1>3, LCountsFacts, CountFacts DEF Cells
<1>5. ds = [k \in DOMAIN <<n, Inner>> |-> AtLeast0(<<n, Inner>>[k]) + 1]
  BY <1>4 DEF LCounts
<1>6. t \in Seq(Seq(Nat)) /\ Len(t) = n + 1
  BY <1>1, RefDimTableType
<1>7. redim => Len(s.arr) = 1 /\ s.arr # <<>> /\ s.arr[1] \in Seq(Nat) /\ FlatHolds(s.arr[1], ref[x])
  <2> SUFFICES ASSUME redim
               PROVE  Len(s.arr) = 1 /\ s.arr # <<>> /\ s.arr[1] \in Seq(Nat)
                      /\ FlatHolds(s.arr[1], ref[x])
    OBVIOUS
  <2>1. Len(s.arr) = 1 /\ FlatHolds(s.arr[1], ref[x])
    BY <1>2 DEF TableSlot
  <2>2. s.arr \in Seq(Seq(Nat))
    BY <1>2 DEF Slot
  <2> HIDE DEF s
  <2> QED
    BY <2>1, <2>2
<1>8. a \in Seq(Nat) /\ FlatHolds(a, t)
  <2>1. CASE redim
    <3> DEFINE u == s.arr[1]
               w == ref[x]
               k == n + 1
    <3>1. u \in Seq(Nat) /\ w \in Seq(Seq(Nat)) /\ FlatHolds(u, w) /\ k \in Nat /\ 0 \in Nat
          /\ Cells(k) \in Nat
      BY <1>1, <1>7, <2>1
    <3> HIDE DEF u, w, k, s
    <3>2. FlatHolds(Grown(u, Cells(k), 0), Grown(w, k, Zeros(Wide)))
      BY <3>1, FlatGrown
    <3>3. Grown(u, Cells(k), 0) \in Seq(Nat)
      BY <3>1, GrownZero
    <3> QED
      BY <2>1, <3>2, <3>3 DEF u, w, k, s, RefDimTable
  <2>2. CASE ~redim
    BY <1>1, <2>2, FlatZeros, ZerosFacts DEF RefDimTable
  <2> QED
    BY <2>1, <2>2
<1>9. /\ g.arr = <<a>> /\ g.dims = ds /\ g.rows = <<>> /\ g.val \in Nat
      /\ g = [val |-> g.val, arr |-> g.arr, dims |-> g.dims, rows |-> g.rows]
  <2> HIDE DEF s, ds, t
  <2>1. CASE redim
    <3>1. g = array_reshape(s, ds)
      BY <1>5, <2>1 DEF DimSlot
    <3>2. g = [s EXCEPT !.arr = <<a>>, !.dims = ds]
      BY <1>4, <1>7, <2>1, <3>1 DEF array_reshape
    <3>3. s.rows = <<>>
      BY <2>1 DEF s
    <3> HIDE DEF a, g
    <3> QED
      BY <1>2, <3>2, <3>3 DEF Slot
  <2>2. CASE ~redim
    <3>1. g = new_array_nd(ds)
      BY <1>5, <2>2 DEF DimSlot
    <3>2. Zeros(Count(ds)) = a
      BY <1>4, <2>2
    <3> HIDE DEF a, g
    <3>3. g = [val |-> 0, arr |-> <<a>>, dims |-> ds, rows |-> <<>>]
      BY <3>1, <3>2 DEF new_array_nd
    <3> QED
      BY <3>3
  <2> QED
    BY <2>1, <2>2
<1>10. g.dims = <<Len(t), Wide>>
  BY <1>6, <1>9
<1> HIDE DEF g, t, a, ds
<1>11. SlotHolds(x, g, t)
  BY <1>1, <1>6, <1>8, <1>9, <1>10, SNewTable
<1> QED
  BY <1>11 DEF g, t

LEMMA DimTableS ==
  ASSUME SlotExcuses, RefInv, SlotInv, NEW x \in Of({"flat"}), NEW n \in Sizes \ {-1},
         NEW redim \in BOOLEAN, DimTable(x, n, redim)
  PROVE  SlotInv'
<1> DEFINE g == DimSlot(slot[x], <<n, Inner>>, redim, FALSE)
           st == [slot EXCEPT ![x] = g]
           rf == [ref EXCEPT ![x] = RefDimTable(x, n, redim)]
           reason == Reason(redim /\ slot[x].rows # <<>>, "rows")
<1>1. SMoves(rf, FALSE, st, FALSE, reason)
  BY DEF DimTable, Statement, SMoves, RefDimTable
<1>2. reason \in SlotReasons
  BY DEF Reason, SlotReasons
<1>3. ASSUME reason = "", SlotsHold(slot, ref) PROVE SlotsHold(st, rf)
  <2>1. x \in Tables /\ n \in Nat
    BY ConstantFacts DEF Tables, Of
  <2>2. x \in Names /\ DOMAIN ref = Names
    BY <2>1, NotLine DEF RefInv, RefHolds
  <2>3. redim => slot[x].rows = <<>>
    BY <1>3 DEF Reason
  <2>4. SlotHolds(x, g, RefDimTable(x, n, redim))
    BY <1>3, <2>1, <2>2, <2>3, SDimTableHolds DEF SlotsHold
  <2> HIDE DEF g
  <2> QED
    BY <1>3, <2>2, <2>4, SPut
<1> HIDE DEF st, rf, reason
<1> QED
  BY <1>1, <1>2, <1>3, SMoved

LEMMA SetTextS ==
  ASSUME SlotExcuses, RefInv, SlotInv, NEW x \in Texts, SetText(x)
  PROVE  SlotInv'
<1> DEFINE g == [slot[x] EXCEPT !.val = Fresh]
           st == [slot EXCEPT ![x].val = Fresh]
           rf == [ref EXCEPT ![x] = Fresh]
<1>1. SMoves(rf, FALSE, st, FALSE, "")
  BY DEF SetText, Statement, SMoves
<1>2. "" \in SlotReasons
  BY DEF SlotReasons
<1>3. ASSUME SlotsHold(slot, ref) PROVE SlotsHold(st, rf)
  <2>1. /\ kind \in Kinds /\ x \in Names /\ DOMAIN ref = Names /\ Fresh \in Nat
    BY KindFacts DEF RefInv, RefHolds, Fresh
  <2>2. slot[x] \in Slot /\ slot[x].arr = <<>> /\ slot[x].rows = <<>>
    BY <1>3, <2>1 DEF SlotsHold, SlotHolds, TextSlot
  <2>3. g \in Slot /\ g.val = Fresh /\ g.arr = <<>> /\ g.rows = <<>>
    BY <2>1, <2>2 DEF Slot
  <2>4. st = [slot EXCEPT ![x] = g]
    OBVIOUS
  <2> HIDE DEF g, st
  <2>5. SlotHolds(x, g, Fresh)
    BY <2>1, <2>3, SText
  <2> QED
    BY <1>3, <2>1, <2>4, <2>5, SPut
<1> HIDE DEF st, rf
<1> QED
  BY <1>1, <1>2, <1>3, SMoved

\* The offset of an element of a line.
LEMMA LineOffset ==
  ASSUME NEW s, NEW t \in Seq(Nat), Held(s.arr, s.dims, t), NEW i \in Nat
  PROVE  array_offset(s, <<i>>) = IF i < Len(t) THEN i ELSE -1
<1>1. CASE s.arr = <<>> /\ t = <<>>
  BY <1>1 DEF array_offset
<1>2. CASE s.arr = <<t>> /\ s.dims = <<Len(t)>>
  <2>1. s.arr # <<>> /\ s.arr[1] = t /\ Len(s.dims) = 1 /\ s.dims[1] = Len(t)
        /\ DOMAIN s.dims = {1}
    BY <1>2
  <2> QED
    BY <2>1 DEF array_offset
<1>3. CASE s.arr = <<t>> /\ s.dims = <<>> /\ t = <<>>
  BY <1>3 DEF array_offset
<1> QED
  BY <1>1, <1>2, <1>3 DEF Held

\* An element set in a line, which grows in `dyn`.
LEMMA SSetLineHolds ==
  ASSUME RefInv, NEW x \in Lines, NEW i \in Nat, SlotHolds(x, slot[x], ref[x]),
         x \in Heap \/ i < Len(ref[x])
  PROVE  SlotHolds(x, WriteSlot(slot[x], <<i>>, Fresh, x \in dyn), RefSetLine(x, i))
<1> DEFINE s == slot[x]
           u == ref[x]
           t == RefSetLine(x, i)
           g == WriteSlot(s, <<i>>, Fresh, x \in dyn)
           n == IF i < Len(u) THEN Len(u) ELSE i + 1
<1>1. /\ kind \in Kinds /\ u \in Seq(Nat) /\ t \in Seq(Nat) /\ Fresh \in Nat /\ Len(t) = n
      /\ Heap \subseteq dyn
  BY RefSetLineFacts DEF RefInv, RefHolds, Fresh
<1>2. s \in Slot /\ s.val = 0 /\ s.rows = <<>> /\ Held(s.arr, s.dims, u)
  BY DEF SlotHolds, LineSlot
<1>3. /\ (IF s.arr = <<>> THEN <<>> ELSE s.arr[1]) = u
      /\ u # <<>> => s.arr = <<u>> /\ s.dims = <<Len(u)>>
  <2> HIDE DEF s, u
  <2>1. s.arr \in Seq(Seq(Nat))
    BY <1>2 DEF Slot
  <2> QED
    BY <1>1, <1>2, <2>1, HeldFacts
<1>4. array_offset(s, <<i>>) = IF i < Len(u) THEN i ELSE -1
  <2> HIDE DEF s, u
  <2> QED
    BY <1>1, <1>2, LineOffset
<1>5. t = [Grown(u, n, 0) EXCEPT ![i + 1] = Fresh]
  BY DEF RefSetLine
<1>6. g = [val |-> 0, arr |-> <<t>>, dims |-> <<n>>, rows |-> <<>>]
  <2>1. CASE i < Len(u)
    <3>1. s.arr = <<u>> /\ s.dims = <<n>>
      BY <1>1, <1>3, <2>1
    <3>2. t = [u EXCEPT ![i + 1] = Fresh]
      BY <1>1, <1>5, <2>1, GrownSame
    <3> HIDE DEF s, u, t, n
    <3>3. g = [s EXCEPT !.arr[1][i + 1] = Fresh]
      BY <1>2, <1>4, <2>1 DEF WriteSlot
    <3>4. g = [s EXCEPT !.arr = [s.arr EXCEPT ![1][i + 1] = Fresh]]
      BY <3>3
    <3>5. [s.arr EXCEPT ![1][i + 1] = Fresh] = <<t>>
      <4> DEFINE e == [u EXCEPT ![i + 1] = Fresh]
      <4>1. [<<u>> EXCEPT ![1][i + 1] = Fresh] = [<<u>> EXCEPT ![1] = e]
        OBVIOUS
      <4> HIDE DEF e
      <4>2. [<<u>> EXCEPT ![1] = e] = <<e>>
        OBVIOUS
      <4>3. e = t
        BY <3>2 DEF e
      <4> QED
        BY <3>1, <4>1, <4>2, <4>3
    <3> HIDE DEF g
    <3>6. g = [s EXCEPT !.arr = <<t>>]
      BY <3>4, <3>5
    <3> QED
      BY <1>2, <3>1, <3>6 DEF Slot
  <2>2. CASE ~(i < Len(u))
    <3> DEFINE w == Grown(u, i + 1, 0)
               ds == <<i + 1>>
               h == [s EXCEPT !.arr = <<w>>, !.dims = ds]
    <3>1. x \in dyn /\ n = i + 1
      BY <1>1, <2>2
    <3>2. Count(ds) = i + 1
      BY CountFacts
    <3> HIDE DEF s, u, t, n
    <3>3. g = [array_reshape(s, ds) EXCEPT !.arr[1][i + 1] = Fresh]
      <4>1. ~(array_offset(s, <<i>>) >= 0)
        BY <1>4, <2>2
      <4> QED
        BY <1>2, <4>1, <3>1 DEF WriteSlot
    <3>4. array_reshape(s, ds) = h
      BY <1>3, <3>2 DEF array_reshape
    <3>5. t = [w EXCEPT ![i + 1] = Fresh]
      BY <1>5, <3>1
    <3> HIDE DEF w, ds
    <3>10. h = [s EXCEPT !.arr = <<w>>, !.dims = ds]
      OBVIOUS
    <3>11. s \in Slot /\ s.val = 0 /\ s.rows = <<>>
      BY <1>2
    <3> HIDE DEF h
    <3>6. h = [val |-> 0, arr |-> <<w>>, dims |-> ds, rows |-> <<>>]
      BY <3>10, <3>11 DEF Slot
    <3>7. [<<w>> EXCEPT ![1][i + 1] = Fresh] = <<t>>
      <4> DEFINE e == [w EXCEPT ![i + 1] = Fresh]
      <4>1. [<<w>> EXCEPT ![1][i + 1] = Fresh] = [<<w>> EXCEPT ![1] = e]
        OBVIOUS
      <4> HIDE DEF e
      <4>2. [<<w>> EXCEPT ![1] = e] = <<e>>
        OBVIOUS
      <4>3. e = t
        BY <3>5 DEF e
      <4> QED
        BY <4>1, <4>2, <4>3
    <3> HIDE DEF g, h
    <3>8. g = [h EXCEPT !.arr = [<<w>> EXCEPT ![1][i + 1] = Fresh]]
      BY <3>3, <3>4, <3>6
    <3>9. g = [h EXCEPT !.arr = <<t>>]
      BY <3>7, <3>8
    <3> QED
      BY <3>1, <3>6, <3>9 DEF ds
  <2> QED
    BY <2>1, <2>2
<1> DEFINE ds == <<n>>
<1>7. ds \in Seq(Nat) /\ ds = <<Len(t)>>
  BY <1>1
<1>8. g.dims = ds
  BY <1>6
<1> HIDE DEF g, t, n, ds
<1>9. SlotHolds(x, g, t)
  BY <1>1, <1>6, <1>7, <1>8, SNewLine
<1> QED
  BY <1>9 DEF g, t

LEMMA SetLineS ==
  ASSUME SlotExcuses, RefInv, SlotInv, NEW x \in Lines, NEW i \in 0 .. MaxIndex, SetLine(x, i)
  PROVE  SlotInv'
<1> DEFINE g == WriteSlot(slot[x], <<i>>, Fresh, x \in dyn)
           st == [slot EXCEPT ![x] = g]
           rf == [ref EXCEPT ![x] = RefSetLine(x, i)]
<1>1. SMoves(rf, FALSE, st, FALSE, "")
  BY DEF SetLine, Statement, SMoves, RefSetLine
<1>2. "" \in SlotReasons
  BY DEF SlotReasons
<1>3. ASSUME SlotsHold(slot, ref) PROVE SlotsHold(st, rf)
  <2>1. x \in Heap \/ i < Len(ref[x])
    BY DEF SetLine
  <2>2. x \in Names /\ DOMAIN ref = Names /\ i \in Nat
    BY ConstantFacts, NotTable DEF RefInv, RefHolds
  <2>3. SlotHolds(x, g, RefSetLine(x, i))
    BY <1>3, <2>1, <2>2, SSetLineHolds DEF SlotsHold
  <2> HIDE DEF g
  <2> QED
    BY <1>3, <2>2, <2>3, SPut
<1> HIDE DEF st, rf
<1> QED
  BY <1>1, <1>2, <1>3, SMoved

-----------------------------------------------------------------------------
(* Rows *)

RowsHold(s, t) ==
    /\ Len(s.rows) = 1 /\ Len(s.rows[1]) = Len(t)
    /\ \A r \in DOMAIN t : Held(s.rows[1][r].arr, s.rows[1][r].dims, t[r])

\* A slot for a table of rows.
LEMMA STable ==
  ASSUME kind \in Kinds, NEW x \in Tables, NEW s \in Slot, NEW t, RowsHold(s, t)
  PROVE  SlotHolds(x, s, t)
BY NotLine DEF SlotHolds, TableSlot, RowsHold

\* The row of one element of a table in one piece.
LEMMA FlatSlice ==
  ASSUME NEW a \in Seq(Nat), NEW t \in Seq(Seq(Nat)), FlatHolds(a, t), NEW r \in DOMAIN t
  PROVE  Slice(a, (r - 1) * Wide, Wide) = t[r]
<1> DEFINE from == (r - 1) * Wide
           b == Slice(a, from, Wide)
           w == Wide
<1>1. r \in Nat /\ r >= 1 /\ w \in Nat /\ from \in Nat /\ t[r] \in Seq(Nat)
  <2> DEFINE q == r - 1
  <2>1. r \in Nat /\ r >= 1 /\ t[r] \in Seq(Nat) /\ q \in Nat
    OBVIOUS
  <2>2. w \in Nat
    BY ConstantFacts
  <2>3. from = q * w
    OBVIOUS
  <2> HIDE DEF q, w, from
  <2>4. q * w \in Nat
    BY <2>1, <2>2
  <2> QED
    BY <2>1, <2>2, <2>3, <2>4
<1>2. Len(t[r]) = w /\ \A j \in 1 .. w : a[from + j] = t[r][j]
  BY DEF FlatHolds, Place
<1>3. b = [i \in 1 .. w |-> a[from + i]]
  BY DEF Slice
<1> HIDE DEF from, w, b
<1>4. b = [i \in 1 .. w |-> t[r][i]]
  BY <1>2, <1>3
<1>5. b = t[r]
  BY <1>1, <1>2, <1>4
<1> QED
  BY <1>5 DEF b, from, w

\* Cutting a table into rows keeps what it holds.
LEMMA EnsureRows ==
  ASSUME NEW s \in Slot, NEW t \in Seq(Seq(Nat)), TableSlot(s, t)
  PROVE  ensure_node_rows(s) \in Slot /\ RowsHold(ensure_node_rows(s), t)
<1> DEFINE g == ensure_node_rows(s)
<1>1. CASE s.rows # <<>>
  <2>1. g = s
    BY <1>1 DEF ensure_node_rows
  <2> QED
    BY <1>1, <2>1 DEF TableSlot, RowsHold
<1>2. CASE s.rows = <<>>
  <2>1. Len(s.arr) = 1 /\ s.dims = <<Len(t), Wide>> /\ FlatHolds(s.arr[1], t)
    BY <1>2 DEF TableSlot
  <2> DEFINE a == s.arr[1]
             n == Len(t)
             ds == <<Wide>>
             row(r) == [arr |-> <<t[r]>>, dims |-> ds]
             rows == [r \in 1 .. n |-> row(r)]
  <2>2. a \in Seq(Nat) /\ s.arr # <<>>
    BY <2>1 DEF Slot
  <2>3. s.dims # <<>> /\ Len(s.dims) # 1 /\ s.dims[1] = n /\ s.dims[2] = Wide
    BY <2>1
  <2>4. n \in Nat /\ DOMAIN t = 1 .. n
    OBVIOUS
  <2>5. g = [s EXCEPT !.arr = <<>>,
              !.rows = <<[r \in 1 .. n |-> [arr |-> <<Slice(a, (r - 1) * Wide, Wide)>>,
                                            dims |-> ds]]>>]
    <3> HIDE DEF n
    <3> QED
      BY <1>2, <2>2, <2>3 DEF ensure_node_rows
  <2>6. [r \in 1 .. n |-> [arr |-> <<Slice(a, (r - 1) * Wide, Wide)>>, dims |-> ds]] = rows
    <3>1. \A r \in 1 .. n : Slice(a, (r - 1) * Wide, Wide) = t[r]
      <4> HIDE DEF a
      <4> QED
        BY <2>1, <2>2, <2>4, FlatSlice DEF a
    <3> QED
      BY <3>1
  <2>7. ds \in Seq(Nat)
    BY ConstantFacts
  <2>8. ASSUME NEW r \in 1 .. n
        PROVE  row(r) \in Row /\ row(r).arr = <<t[r]>> /\ row(r).dims = ds /\ Len(t[r]) = Wide
    <3>1. t[r] \in Seq(Nat)
      BY <2>4
    <3>2. Len(t[r]) = Wide
      BY <2>1, <2>4 DEF FlatHolds
    <3> HIDE DEF ds
    <3>3. <<t[r]>> \in Seq(Seq(Nat))
      BY <3>1
    <3> QED
      BY <2>7, <3>2, <3>3 DEF Row
  <2>9. \A r \in 1 .. n : Held(row(r).arr, row(r).dims, t[r])
    BY <2>8 DEF Held
  <2> HIDE DEF row, n, ds, g
  <2>10. /\ rows \in Seq(Row) /\ Len(rows) = n /\ \A r \in 1 .. n : rows[r] = row(r)
    BY <2>4, <2>8
  <2> HIDE DEF rows
  <2>11. g = [s EXCEPT !.arr = <<>>, !.rows = <<rows>>]
    BY <2>5, <2>6
  <2>12. <<rows>> \in Seq(Seq(Row)) /\ <<>> \in Seq(Seq(Nat))
    BY <2>10
  <2>13. g \in Slot /\ g.rows = <<rows>>
    BY <2>11, <2>12 DEF Slot
  <2>14. Len(g.rows) = 1 /\ g.rows[1] = rows
    BY <2>13
  <2>15. \A r \in DOMAIN t : Held(rows[r].arr, rows[r].dims, t[r])
    BY <2>4, <2>9, <2>10
  <2>16. RowsHold(g, t)
    BY <2>4, <2>10, <2>14, <2>15 DEF RowsHold, n
  <2> QED
    BY <2>13, <2>16 DEF g
<1> QED
  BY <1>1, <1>2

\* A row of a table that is in rows.
LEMMA RowFacts ==
  ASSUME NEW s \in Slot, NEW t \in Seq(Seq(Nat)), RowsHold(s, t), NEW r \in Nat, r < Len(t)
  PROVE  /\ s.rows[1][r + 1] \in Row
         /\ s.rows[1][r + 1].arr \in Seq(Seq(Nat)) /\ s.rows[1][r + 1].dims \in Seq(Nat)
         /\ Held(s.rows[1][r + 1].arr, s.rows[1][r + 1].dims, t[r + 1])
<1>1. s.rows \in Seq(Seq(Row)) /\ Len(s.rows) = 1 /\ Len(s.rows[1]) = Len(t)
  BY DEF Slot, RowsHold
<1>2. s.rows[1] \in Seq(Row)
  BY <1>1
<1>3. r + 1 \in 1 .. Len(t) /\ r + 1 \in DOMAIN t
  OBVIOUS
<1>4. s.rows[1][r + 1] \in Row
  BY <1>1, <1>2, <1>3
<1>5. Held(s.rows[1][r + 1].arr, s.rows[1][r + 1].dims, t[r + 1])
  BY <1>3 DEF RowsHold
<1> QED
  BY <1>4, <1>5 DEF Row

\* One row of a table given another value.
LEMMA RowReplaced ==
  ASSUME NEW s \in Slot, NEW t \in Seq(Seq(Nat)), RowsHold(s, t), NEW r \in Nat, r < Len(t),
         NEW p \in Row, NEW u \in Seq(Nat), Held(p.arr, p.dims, u)
  PROVE  /\ [s EXCEPT !.rows[1][r + 1] = p] \in Slot
         /\ RowsHold([s EXCEPT !.rows[1][r + 1] = p], [t EXCEPT ![r + 1] = u])
<1> DEFINE k == s.rows[1]
           rows == [k EXCEPT ![r + 1] = p]
           g == [s EXCEPT !.rows[1][r + 1] = p]
           w == [t EXCEPT ![r + 1] = u]
<1>1. /\ s.rows \in Seq(Seq(Row)) /\ Len(s.rows) = 1 /\ Len(k) = Len(t)
      /\ \A q \in DOMAIN t : Held(k[q].arr, k[q].dims, t[q])
  BY DEF Slot, RowsHold
<1>2. k \in Seq(Row) /\ s.rows = <<k>>
  BY <1>1
<1>3. /\ w \in Seq(Seq(Nat)) /\ Len(w) = Len(t) /\ DOMAIN w = 1 .. Len(t)
      /\ \A q \in 1 .. Len(t) : w[q] = IF q = r + 1 THEN u ELSE t[q]
  BY RowPut
<1>4. r + 1 \in 1 .. Len(k)
  BY <1>1
<1> HIDE DEF k
<1>5. /\ rows \in Seq(Row) /\ Len(rows) = Len(t)
      /\ \A q \in 1 .. Len(t) : rows[q] = IF q = r + 1 THEN p ELSE k[q]
  BY <1>1, <1>2, <1>4, ExceptFacts
<1>6. g = [s EXCEPT !.rows = <<rows>>]
  <2>1. g = [s EXCEPT !.rows = [<<k>> EXCEPT ![1][r + 1] = p]]
    BY <1>2
  <2>2. [<<k>> EXCEPT ![1][r + 1] = p] = [<<k>> EXCEPT ![1] = rows]
    OBVIOUS
  <2> HIDE DEF rows, g
  <2>3. [<<k>> EXCEPT ![1] = rows] = <<rows>>
    OBVIOUS
  <2> QED
    BY <2>1, <2>2, <2>3
<1> HIDE DEF rows, g, w
<1>7. <<rows>> \in Seq(Seq(Row))
  BY <1>5
<1>8. g \in Slot /\ g.rows = <<rows>>
  BY <1>6, <1>7 DEF Slot
<1>9. Len(g.rows) = 1 /\ g.rows[1] = rows
  BY <1>8
<1> HIDE DEF k
<1>10. ASSUME NEW q \in 1 .. Len(t) PROVE Held(rows[q].arr, rows[q].dims, w[q])
  <2>1. CASE q = r + 1
    <3>1. rows[q] = p /\ w[q] = u
      BY <1>3, <1>5, <2>1
    <3> QED
      BY <3>1
  <2>2. CASE q # r + 1
    <3>1. rows[q] = k[q]
      BY <1>5, <2>2
    <3>2. w[q] = t[q]
      BY <1>3, <2>2
    <3>3. q \in DOMAIN t
      OBVIOUS
    <3>4. Held(k[q].arr, k[q].dims, t[q])
      BY ONLY <1>1, <3>3
    <3> QED
      BY <3>1, <3>2, <3>4
  <2> QED
    BY <2>1, <2>2
<1>11. RowsHold(g, w)
  BY <1>3, <1>5, <1>9, <1>10 DEF RowsHold
<1> QED
  BY <1>8, <1>11 DEF g, w

\* The offset of an element of a table in one piece.
LEMMA FlatOffset ==
  ASSUME NEW s, NEW n \in Nat, Len(s.arr) = 1, s.dims = <<n, Wide>>, Len(s.arr[1]) = Cells(n),
         NEW i \in Nat, i < n, NEW j \in Nat, j < Wide
  PROVE  array_offset(s, <<i, j>>) = i * Wide + j
<1> DEFINE At(q) == IF q <= Len(<<i, j>>) THEN <<i, j>>[q] ELSE 0
           off == IF Len(s.dims) = 2 THEN At(1) * s.dims[2] + At(2) ELSE At(1)
<1>1. At(1) = i /\ At(2) = j
  OBVIOUS
<1>2. Len(s.dims) = 2 /\ DOMAIN s.dims = 1 .. 2 /\ s.dims[1] = n /\ s.dims[2] = Wide
  OBVIOUS
<1>3. off = i * Wide + j
  BY <1>1, <1>2
<1>4. off < Len(s.arr[1])
  <2>1. i + 1 \in 1 .. n /\ j + 1 \in 1 .. Wide /\ Wide \in Nat
    BY ConstantFacts
  <2>2. Place(i + 1, j + 1) = i * Wide + (j + 1) /\ i * Wide \in Nat
    BY <2>1 DEF Place
  <2>3. Place(i + 1, j + 1) \in 1 .. Cells(n)
    BY <2>1, FlatPlaces
  <2> QED
    BY <1>3, <2>2, <2>3
<1>5. \A q \in DOMAIN s.dims : At(q) < s.dims[q]
  BY <1>1, <1>2
<1>6. array_offset(s, <<i, j>>) =
        IF s.arr # <<>> /\ (\A q \in DOMAIN s.dims : At(q) < s.dims[q]) /\ off < Len(s.arr[1])
        THEN off ELSE -1
  BY DEF array_offset
<1> HIDE DEF At, off
<1> QED
  BY <1>3, <1>4, <1>5, <1>6

\* An element set in a table, in one piece or in rows.
LEMMA SSetTableHolds ==
  ASSUME RefInv, NEW x \in Tables, NEW i \in Nat, NEW j \in Nat, NEW grow,
         SlotHolds(x, slot[x], ref[x]), i < Len(ref[x]), j < Len(ref[x][i + 1])
  PROVE  SlotHolds(x, WriteSlot(slot[x], <<i, j>>, Fresh, grow),
                   [ref[x] EXCEPT ![i + 1][j + 1] = Fresh])
<1> DEFINE s == slot[x]
           t == ref[x]
           e == Fresh
           u == [t[i + 1] EXCEPT ![j + 1] = e]
           w == [t EXCEPT ![i + 1][j + 1] = e]
           g == WriteSlot(s, <<i, j>>, e, grow)
<1>1. kind \in Kinds /\ t \in Seq(Seq(Nat)) /\ e \in Nat
  BY DEF RefInv, RefHolds, Fresh
<1>2. s \in Slot /\ TableSlot(s, t)
  BY DEF SlotHolds
<1>3. t[i + 1] \in Seq(Nat) /\ t[i + 1] # <<>> /\ i < Len(t) /\ j < Len(t[i + 1])
  BY <1>1
<1>4. u \in Seq(Nat) /\ Len(u) = Len(t[i + 1]) /\ w = [t EXCEPT ![i + 1] = u]
  <2>1. u \in Seq(Nat) /\ Len(u) = Len(t[i + 1])
    BY <1>1, <1>3, ElementPut
  <2> QED
    BY <2>1
<1> HIDE DEF e
<1>5. CASE s.rows = <<>>
  <2> DEFINE a == s.arr[1]
             k == i * Wide + j + 1
             b == [a EXCEPT ![k] = e]
             ds == <<Len(t), Wide>>
  <2>1. Len(s.arr) = 1 /\ s.dims = ds /\ FlatHolds(a, t)
    BY <1>2, <1>5 DEF TableSlot
  <2>2. a \in Seq(Nat) /\ s.arr = <<a>>
    BY <1>2, <2>1 DEF Slot
  <2>3. j < Wide /\ k \in 1 .. Len(a) /\ FlatHolds(b, w)
    <3> HIDE DEF s, t
    <3> QED
      BY <1>1, <1>3, <2>1, <2>2, FlatSet
  <2>4. b \in Seq(Nat)
    BY <1>1, <2>2, <2>3, ExceptFacts
  <2>5. /\ Len(s.dims) = 2 /\ DOMAIN s.dims = 1 .. 2
        /\ s.dims[1] = Len(t) /\ s.dims[2] = Wide /\ s.arr # <<>>
    BY <2>1, <2>2
  <2>6. array_offset(s, <<i, j>>) = i * Wide + j
    <3> DEFINE n == Len(t)
    <3>1. Len(s.arr) = 1 /\ s.dims = <<n, Wide>> /\ Len(s.arr[1]) = Cells(n)
      BY <2>1 DEF FlatHolds
    <3>2. n \in Nat /\ i < n
      BY <1>1, <1>3
    <3> HIDE DEF n, s, t
    <3> QED
      BY <2>3, <3>1, <3>2, FlatOffset
  <2>7. i * Wide + j \in Nat
    BY ConstantFacts
  <2>8. g = [s EXCEPT !.arr[1][k] = e]
    BY <1>5, <2>6, <2>7 DEF WriteSlot
  <2> HIDE DEF a, k, g
  <2>9. [<<a>> EXCEPT ![1][k] = e] = <<b>>
    <3>1. [<<a>> EXCEPT ![1][k] = e] = [<<a>> EXCEPT ![1] = b]
      OBVIOUS
    <3> HIDE DEF b
    <3>2. [<<a>> EXCEPT ![1] = b] = <<b>>
      OBVIOUS
    <3> QED
      BY <3>1, <3>2
  <2>10. g = [s EXCEPT !.arr = [<<a>> EXCEPT ![1][k] = e]]
    BY <2>2, <2>8
  <2> HIDE DEF b, ds, s
  <2>11. g = [s EXCEPT !.arr = <<b>>]
    BY <2>9, <2>10
  <2>12. Len(w) = Len(t) /\ w \in Seq(Seq(Nat))
    BY <1>1, <1>3, <1>4, RowPut
  <2>13. /\ g.val \in Nat /\ g.arr = <<b>> /\ g.dims = ds /\ g.rows = <<>>
         /\ g = [val |-> g.val, arr |-> g.arr, dims |-> g.dims, rows |-> g.rows]
    BY <1>2, <1>5, <2>1, <2>11 DEF Slot
  <2>14. g.dims = <<Len(w), Wide>>
    BY <2>12, <2>13 DEF ds
  <2> HIDE DEF w, t
  <2>15. SlotHolds(x, g, w)
    BY <1>1, <2>3, <2>4, <2>12, <2>13, <2>14, SNewTable
  <2> QED
    BY <2>15 DEF g, w, s, t, e
<1>6. CASE s.rows # <<>>
  <2> DEFINE p == s.rows[1][i + 1]
             q == [arr |-> <<u>>, dims |-> p.dims]
             h == [s EXCEPT !.rows[1][i + 1] = q]
  <2>1. RowsHold(s, t)
    BY <1>2, <1>6 DEF TableSlot, RowsHold
  <2>2. p \in Row /\ p.arr \in Seq(Seq(Nat)) /\ p.dims \in Seq(Nat) /\ Held(p.arr, p.dims, t[i + 1])
    <3> HIDE DEF s, t
    <3> QED
      BY <1>1, <1>2, <1>3, <2>1, RowFacts
  <2>3. p.arr = <<t[i + 1]>> /\ p.dims = <<Len(t[i + 1])>>
    <3> DEFINE a == p.arr
               d == p.dims
               v == t[i + 1]
    <3>1. a \in Seq(Seq(Nat)) /\ v \in Seq(Nat) /\ v # <<>> /\ Held(a, d, v)
      BY <1>3, <2>2
    <3> HIDE DEF a, d, v
    <3>2. a = <<v>> /\ d = <<Len(v)>>
      BY <3>1, HeldFacts
    <3> QED
      BY <3>2 DEF a, d, v
  <2>4. Len(s.rows[1]) = Len(t)
    BY <2>1 DEF RowsHold
  <2>5. g = h
    <3> DEFINE ix == <<i, j>>
               len == Len(p.arr[1])
    <3>1. ix[1] = i /\ ix[2] = j /\ Len(ix) = 2
      OBVIOUS
    <3>2. len = Len(t[i + 1]) /\ p.arr[1] = t[i + 1] /\ p.arr # <<>> /\ j < len
      BY <1>3, <2>3
    <3>3. Grown(p.arr[1], len, 0) = t[i + 1]
      <4> DEFINE v == t[i + 1]
      <4>1. v \in Seq(Nat) /\ p.arr[1] = v /\ len = Len(v)
        BY <1>3, <3>2
      <4> HIDE DEF v, len
      <4>2. Grown(v, Len(v), 0) = v
        BY <4>1, GrownSame
      <4> QED
        BY <4>1, <4>2 DEF v
    <3>4. ~(Len(ix) < 2 \/ i >= Len(s.rows[1]) \/ p.arr = <<>>)
      BY <1>1, <1>3, <2>4, <3>1, <3>2
    <3> HIDE DEF ix, len
    <3>5. g = [s EXCEPT !.rows[1][i + 1] =
                 [arr |-> <<[Grown(p.arr[1], len, 0) EXCEPT ![j + 1] = e]>>, dims |-> p.dims]]
      BY <1>6, <3>1, <3>2, <3>4 DEF WriteSlot, ix, len
    <3> QED
      BY <3>3, <3>5
  <2> HIDE DEF u, p
  <2>6. q \in Row /\ q.arr = <<u>> /\ q.dims = p.dims
    BY <1>4, <2>2 DEF Row
  <2>7. Held(q.arr, q.dims, u)
    BY <1>4, <2>3, <2>6 DEF Held
  <2> HIDE DEF q, s, t, w, g
  <2>8. h \in Slot /\ RowsHold(h, w)
    BY <1>1, <1>2, <1>3, <1>4, <2>1, <2>6, <2>7, RowReplaced
  <2> HIDE DEF h
  <2>9. SlotHolds(x, g, w)
    BY <1>1, <2>5, <2>8, STable
  <2> QED
    BY <2>9 DEF g, w, s, t, e
<1> QED
  BY <1>5, <1>6

LEMMA SetTableS ==
  ASSUME SlotExcuses, RefInv, SlotInv, NEW x \in Tables, NEW i \in 0 .. MaxIndex,
         NEW j \in 0 .. MaxIndex, SetTable(x, i, j)
  PROVE  SlotInv'
<1> DEFINE g == WriteSlot(slot[x], <<i, j>>, Fresh, x \in dyn)
           st == [slot EXCEPT ![x] = g]
           t == [ref[x] EXCEPT ![i + 1][j + 1] = Fresh]
           rf == [ref EXCEPT ![x][i + 1][j + 1] = Fresh]
<1>1. SMoves(rf, FALSE, st, FALSE, "")
  BY DEF SetTable, Statement, SMoves
<1>2. "" \in SlotReasons
  BY DEF SlotReasons
<1>3. ASSUME SlotsHold(slot, ref) PROVE SlotsHold(st, rf)
  <2>1. i < Len(ref[x]) /\ j < Len(ref[x][i + 1])
    BY DEF SetTable
  <2>2. x \in Names /\ DOMAIN ref = Names
    BY NotLine DEF RefInv, RefHolds
  <2>3. i \in Nat /\ j \in Nat
    BY ConstantFacts
  <2>4. SlotHolds(x, slot[x], ref[x])
    BY <1>3, <2>2 DEF SlotsHold
  <2>5. SlotHolds(x, g, t)
    BY <2>1, <2>3, <2>4, SSetTableHolds
  <2>6. rf = [ref EXCEPT ![x] = t]
    OBVIOUS
  <2> HIDE DEF g, t, rf
  <2> QED
    BY <1>3, <2>2, <2>5, <2>6, SPut
<1> HIDE DEF st, rf
<1> QED
  BY <1>1, <1>2, <1>3, SMoved

\* A row goes to an array: the table is cut into rows and the row is left empty.
LEMMA RowToArrayS ==
  ASSUME SlotExcuses, RefInv, SlotInv, NEW x \in Tables, NEW r \in 0 .. MaxIndex, NEW y \in Heap,
         RowToArray(x, r, y)
  PROVE  SlotInv'
<1> DEFINE failed == ref[y] # <<>>
           res == AttachRowToArray(slot, x, r, y)
           new == [ref EXCEPT ![y] = ref[x][r + 1], ![x][r + 1] = <<>>]
           rf == IF failed THEN ref ELSE new
<1>1. SMoves(rf, failed, res[1], res[2], "")
  <2> HIDE DEF res
  <2> QED
    BY DEF RowToArray, Statement, SMoves, Fails, res
<1>2. "" \in SlotReasons
  BY DEF SlotReasons
<1>4. failed \in BOOLEAN
  OBVIOUS
<1>3. ASSUME SlotsHold(slot, ref)
      PROVE  res[2] = failed /\ (~failed => SlotsHold(res[1], rf))
  <2> DEFINE t == ref[x]
             src == ensure_node_rows(slot[x])
             row == src.rows[1][r + 1]
             u == t[r + 1]
             w == [t EXCEPT ![r + 1] = <<>>]
             gx == [src EXCEPT !.rows[1][r + 1] = NoRow]
             gy == [slot[y] EXCEPT !.arr = row.arr, !.dims = row.dims, !.rows = <<>>]
             st == [slot EXCEPT ![x] = gx, ![y] = gy]
  <2>1. /\ kind \in Kinds /\ DOMAIN ref = Names /\ x \in Names /\ y \in Names /\ x # y
        /\ y \in Lines /\ DOMAIN slot = Names
    BY <1>3, KindFacts, NotLine DEF RefInv, RefHolds, SlotsHold
  <2>2. t \in Seq(Seq(Nat)) /\ r < Len(t) /\ r \in Nat /\ u \in Seq(Nat) /\ ref[y] \in Seq(Nat)
    <3>1. r < Len(t)
      BY DEF RowToArray
    <3>2. t \in Seq(Seq(Nat)) /\ ref[y] \in Seq(Nat)
      BY <2>1 DEF RefInv, RefHolds
    <3>3. r \in Nat
      BY ConstantFacts
    <3> HIDE DEF t
    <3> QED
      BY <3>1, <3>2, <3>3, RowPut DEF u
  <2>3. /\ slot[x] \in Slot /\ TableSlot(slot[x], t)
        /\ slot[y] \in Slot /\ LineSlot(slot[y], ref[y])
    BY <1>3, <2>1 DEF SlotsHold, SlotHolds
  <2>4. src \in Slot /\ RowsHold(src, t)
    BY <2>2, <2>3, EnsureRows
  <2> HIDE DEF src
  <2>5. /\ row \in Row /\ row.arr \in Seq(Seq(Nat)) /\ row.dims \in Seq(Nat)
        /\ Held(row.arr, row.dims, u)
    <3> HIDE DEF t
    <3> QED
      BY <2>2, <2>4, RowFacts DEF u
  <2>6. is_empty_array(slot[y]) <=> ~failed
    <3> DEFINE a == slot[y].arr
               d == slot[y].dims
               v == ref[y]
    <3>1. a \in Seq(Seq(Nat)) /\ v \in Seq(Nat) /\ Held(a, d, v) /\ slot[y].rows = <<>>
      BY <2>2, <2>3 DEF LineSlot, Slot
    <3> HIDE DEF a, d, v
    <3>2. a \in {<<>>, <<<<>>>>} <=> v = <<>>
      BY <3>1, HeldFacts
    <3> QED
      BY <3>1, <3>2 DEF is_empty_array, NoElements, a, v
  <2>7. res = IF failed THEN <<slot, TRUE>> ELSE <<st, FALSE>>
    BY <2>1, <2>6 DEF AttachRowToArray, src
  <2>8. res[2] = failed /\ (~failed => res[1] = st)
    <3> HIDE DEF res, st, failed
    <3> QED
      BY <1>4, <2>7
  <2>9. NoRow \in Row /\ Held(NoRow.arr, NoRow.dims, <<>>) /\ <<>> \in Seq(Nat)
    BY DEF NoRow, Row, Held
  <2>10. gx \in Slot /\ RowsHold(gx, w)
    <3> HIDE DEF t
    <3> QED
      BY <2>2, <2>4, <2>9, RowReplaced
  <2> HIDE DEF row, u, gx, w
  <2>11. gy \in Slot /\ gy.val = 0 /\ gy.rows = <<>> /\ Held(gy.arr, gy.dims, u)
    BY <2>3, <2>5 DEF LineSlot, Slot
  <2> HIDE DEF gy
  <2>12. SlotHolds(x, gx, w) /\ SlotHolds(y, gy, u)
    BY <2>1, <2>10, <2>11, STable, SLine
  <2>13. new = [ref EXCEPT ![x] = w, ![y] = u]
    BY <2>1 DEF w, u
  <2> HIDE DEF new, t
  <2>14. SlotsHold(st, new)
    BY <1>3, <2>1, <2>12, <2>13, SPutTwo
  <2> HIDE DEF st, res
  <2> QED
    BY <2>8, <2>14
<1> HIDE DEF res, rf, failed
<1> QED
  BY <1>1, <1>2, <1>3, <1>4, SMoved

\* An array goes to a row.
LEMMA ArrayToRowS ==
  ASSUME SlotExcuses, RefInv, SlotInv, NEW x \in Heap, NEW y \in Tables, NEW r \in 0 .. MaxIndex,
         ArrayToRow(x, y, r)
  PROVE  SlotInv'
<1> DEFINE failed == ref[y][r + 1] # <<>>
           res == AttachArrayToRow(slot, x, y, r)
           cm == CAttachArrayToRow(c, x, y, r)
           rc == Reason(kind[y] = "flat", "flat")
           new == [ref EXCEPT ![y][r + 1] = ref[x], ![x] = <<>>]
           rf == IF failed THEN ref ELSE new
           rs == IF ref[y][r + 1] # <<>> THEN Fails ELSE <<new, FALSE>>
<1>0. PICK landed \in BOOLEAN :
        Statement(rs, res, "", cm, rc, LAttachArrayToRow(llvm, x, y, r, landed), "attach")
  BY Zenon DEF ArrayToRow
<1>5. rs[1] = rf /\ rs[2] = failed
  BY DEF Fails
<1> HIDE DEF rs, res, cm, rc
<1>1. SMoves(rf, failed, res[1], res[2], "")
  BY <1>0, <1>5 DEF Statement, SMoves
<1>2. "" \in SlotReasons
  BY DEF SlotReasons
<1>3. ASSUME SlotsHold(slot, ref)
      PROVE  res[2] = failed /\ (~failed => SlotsHold(res[1], rf))
  <2> DEFINE t == ref[y]
             s == ref[x]
             e == <<>>
             dst == ensure_node_rows(slot[y])
             row == dst.rows[1][r + 1]
             p == [arr |-> slot[x].arr, dims |-> slot[x].dims]
             w == [t EXCEPT ![r + 1] = s]
             gx == Emptied(slot[x])
             gy == [dst EXCEPT !.rows[1][r + 1] = p]
             st == [slot EXCEPT ![x] = gx, ![y] = gy]
  <2>1. /\ kind \in Kinds /\ DOMAIN ref = Names /\ x \in Names /\ y \in Names /\ x # y
        /\ x \in Lines /\ DOMAIN slot = Names
    BY <1>3, KindFacts, NotLine DEF RefInv, RefHolds, SlotsHold
  <2>2. t \in Seq(Seq(Nat)) /\ r < Len(t) /\ r \in Nat /\ s \in Seq(Nat) /\ t[r + 1] \in Seq(Nat)
    <3>1. r < Len(t)
      BY DEF ArrayToRow
    <3>2. t \in Seq(Seq(Nat)) /\ s \in Seq(Nat)
      BY <2>1 DEF RefInv, RefHolds
    <3>3. r \in Nat
      BY ConstantFacts
    <3> HIDE DEF t, s
    <3> QED
      BY <3>1, <3>2, <3>3, RowPut
  <2>3. /\ slot[y] \in Slot /\ TableSlot(slot[y], t)
        /\ slot[x] \in Slot /\ LineSlot(slot[x], s)
    BY <1>3, <2>1 DEF SlotsHold, SlotHolds
  <2>4. dst \in Slot /\ RowsHold(dst, t)
    BY <2>2, <2>3, EnsureRows
  <2> HIDE DEF dst
  <2>6. NoElements(row) <=> ~failed
    <3> DEFINE a == row.arr
               d == row.dims
               v == t[r + 1]
    <3>1. a \in Seq(Seq(Nat)) /\ v \in Seq(Nat) /\ Held(a, d, v)
      <4> HIDE DEF t
      <4> QED
        BY <2>2, <2>4, RowFacts
    <3> HIDE DEF a, d, v
    <3>2. a \in {<<>>, <<<<>>>>} <=> v = <<>>
      BY <3>1, HeldFacts
    <3> QED
      BY <3>2 DEF NoElements, a, v
  <2>7. res = IF failed THEN <<[slot EXCEPT ![y] = dst], TRUE>> ELSE <<st, FALSE>>
    BY <2>1, <2>6 DEF AttachArrayToRow, dst, res
  <2>8. res[2] = failed /\ (~failed => res[1] = st)
    BY <2>7
  <2>9. p \in Row /\ Held(p.arr, p.dims, s)
    BY <2>3 DEF LineSlot, Slot, Row
  <2> HIDE DEF p
  <2>10. gy \in Slot /\ RowsHold(gy, w)
    <3> HIDE DEF t, s
    <3> QED
      BY <2>2, <2>4, <2>9, RowReplaced
  <2>11. gx \in Slot /\ gx.val = 0 /\ gx.rows = <<>> /\ Held(gx.arr, gx.dims, e)
    <3>1. <<>> \in Seq(Seq(Nat)) /\ <<0>> \in Seq(Nat)
      OBVIOUS
    <3> DEFINE d == <<0>>
    <3>2. gx = [slot[x] EXCEPT !.arr = <<>>, !.dims = d]
      BY DEF Emptied
    <3> HIDE DEF gx, d
    <3>3. gx \in Slot /\ gx.val = slot[x].val /\ gx.rows = slot[x].rows /\ gx.arr = <<>>
      BY <2>3, <3>1, <3>2 DEF Slot, d
    <3> QED
      BY <2>3, <3>3 DEF LineSlot, Held
  <2>13. new = [ref EXCEPT ![x] = e, ![y] = w]
    BY <2>1
  <2> HIDE DEF gx, gy, w, e
  <2>12. SlotHolds(y, gy, w) /\ SlotHolds(x, gx, e)
    BY <2>1, <2>10, <2>11, STable, SLine
  <2> HIDE DEF new, t
  <2>14. SlotsHold(st, new)
    BY <1>3, <2>1, <2>12, <2>13, SPutTwo
  <2> HIDE DEF st
  <2> QED
    BY <2>8, <2>14
<1>4. failed \in BOOLEAN
  OBVIOUS
<1> HIDE DEF rf, failed
<1> QED
  BY <1>1, <1>2, <1>3, <1>4, SMoved

\* What the slot of a line says of its value.
LEMMA LineFacts ==
  ASSUME NEW s \in Slot, NEW t \in Seq(Nat), LineSlot(s, t)
  PROVE  /\ s.val = 0 /\ s.rows = <<>>
         /\ s.arr = <<>> \/ s.arr = <<t>>
         /\ s.arr = <<>> => t = <<>>
         /\ is_empty_array(s) <=> t = <<>>
         /\ t # <<>> => s.arr = <<t>> /\ s.dims = <<Len(t)>>
<1> DEFINE a == s.arr
           d == s.dims
<1>1. a \in Seq(Seq(Nat)) /\ Held(a, d, t) /\ s.rows = <<>> /\ s.val = 0
  BY DEF LineSlot, Slot
<1> HIDE DEF a, d
<1>2. /\ a = <<>> \/ a = <<t>>
      /\ a \in {<<>>, <<<<>>>>} <=> t = <<>>
      /\ t # <<>> => a = <<t>> /\ d = <<Len(t)>>
  BY <1>1, HeldFacts
<1>3. a = <<>> => t = <<>>
  BY <1>2
<1> QED
  BY <1>1, <1>2, <1>3 DEF a, d, is_empty_array, NoElements

\* A whole array moves: only an array without a store, which is empty, passes for a
\* string there.
LEMMA ArrayToArrayS ==
  ASSUME SlotExcuses, RefInv, SlotInv, NEW x \in Lines, NEW y \in Lines, x # y,
         ArrayToArray(x, y)
  PROVE  SlotInv'
<1> DEFINE failed == ref[y] # <<>>
           res == AttachWhole(slot, x, y)
           new == [ref EXCEPT ![y] = ref[x], ![x] = <<>>]
           rf == IF failed THEN ref ELSE new
           reason == Reason(slot[x].arr = <<>> /\ ref[y] # <<>>, "scalar")
<1>1. SMoves(rf, failed, res[1], res[2], reason)
  <2> HIDE DEF res
  <2> QED
    BY DEF ArrayToArray, Statement, SMoves, Fails, res
<1>2. reason \in SlotReasons
  BY DEF Reason, SlotReasons
<1>4. failed \in BOOLEAN
  OBVIOUS
<1>3. ASSUME reason = "", SlotsHold(slot, ref)
      PROVE  res[2] = failed /\ (~failed => SlotsHold(res[1], rf))
  <2> DEFINE s == ref[x]
             t == ref[y]
             e == <<>>
             sx == slot[x]
             sy == slot[y]
  <2>1. /\ kind \in Kinds /\ DOMAIN ref = Names /\ x \in Names /\ y \in Names
        /\ DOMAIN slot = Names /\ s \in Seq(Nat) /\ t \in Seq(Nat)
    BY <1>3, NotTable DEF RefInv, RefHolds, SlotsHold
  <2>2. sx \in Slot /\ LineSlot(sx, s) /\ sy \in Slot /\ LineSlot(sy, t)
    BY <1>3, <2>1 DEF SlotsHold, SlotHolds
  <2> HIDE DEF s, t, sx, sy
  <2>3. /\ sx.val = 0 /\ sx.rows = <<>> /\ (sx.arr = <<>> => s = <<>>)
        /\ sy.val = 0 /\ sy.rows = <<>> /\ (is_empty_array(sy) <=> t = <<>>)
    BY <2>1, <2>2, LineFacts
  <2>4. CASE sx.arr = <<>>
    <3>1. ~failed
      BY <1>3, <2>4 DEF Reason, sx
    <3>2. s = <<>> /\ t = <<>>
      BY <2>3, <2>4, <3>1 DEF t
    <3>3. res = <<[slot EXCEPT ![x].val = 0, ![y].val = sx.val], FALSE>>
      <4>1. ~(sy.val # 0)
        BY <2>3
      <4> QED
        BY <2>3, <2>4, <4>1 DEF AttachWhole, sx, sy
    <3>4. [slot EXCEPT ![x].val = 0, ![y].val = sx.val]
            = [slot EXCEPT ![x] = [sx EXCEPT !.val = 0], ![y] = [sy EXCEPT !.val = sx.val]]
      BY <2>1 DEF sx, sy
    <3>5. [sx EXCEPT !.val = 0] = sx /\ [sy EXCEPT !.val = sx.val] = sy
      BY <2>2, <2>3 DEF Slot
    <3> DEFINE st == [slot EXCEPT ![x] = sx, ![y] = sy]
    <3> HIDE DEF res
    <3>6. res = <<st, FALSE>>
      BY <3>3, <3>4, <3>5
    <3>7. new = [ref EXCEPT ![x] = s, ![y] = t]
      BY <2>1, <3>2 DEF s
    <3>8. SlotHolds(x, sx, s) /\ SlotHolds(y, sy, t)
      BY <1>3, <2>1 DEF SlotsHold, sx, sy, s, t
    <3> HIDE DEF new
    <3>9. SlotsHold(st, new)
      BY <1>3, <2>1, <3>7, <3>8, SPutTwo
    <3> HIDE DEF st, failed
    <3> QED
      BY <1>4, <3>1, <3>6, <3>9
  <2>5. CASE sx.arr # <<>>
    <3> DEFINE gx == [Emptied(sx) EXCEPT !.rows = <<>>]
               gy == [sx EXCEPT !.val = sy.val]
               st == [slot EXCEPT ![x] = gx, ![y] = gy]
    <3>1. is_empty_array(sy) <=> ~failed
      BY <2>3 DEF t
    <3>2. res = IF failed THEN <<slot, TRUE>> ELSE <<st, FALSE>>
      <4> HIDE DEF failed
      <4>1. AttachWhole(slot, x, y) =
              IF ~is_empty_array(sy) THEN <<slot, TRUE>>
              ELSE <<[slot EXCEPT ![x] = [Emptied(@) EXCEPT !.rows = <<>>],
                                  ![y] = [sx EXCEPT !.val = sy.val]], FALSE>>
        BY <2>5 DEF AttachWhole, sx, sy
      <4>2. [slot EXCEPT ![x] = [Emptied(@) EXCEPT !.rows = <<>>],
                         ![y] = [sx EXCEPT !.val = sy.val]] = st
        BY <2>1 DEF sx
      <4> HIDE DEF st
      <4> QED
        BY <3>1, <4>1, <4>2
    <3>3. gx \in Slot /\ gx.val = 0 /\ gx.rows = <<>> /\ Held(gx.arr, gx.dims, e)
      <4> DEFINE d == <<0>>
      <4>1. <<>> \in Seq(Seq(Nat)) /\ d \in Seq(Nat)
        OBVIOUS
      <4>2. gx = [[sx EXCEPT !.arr = <<>>, !.dims = d] EXCEPT !.rows = <<>>]
        BY DEF Emptied
      <4> HIDE DEF gx, d
      <4>3. gx \in Slot /\ gx.val = sx.val /\ gx.rows = sx.rows /\ gx.arr = <<>>
        BY <2>2, <2>3, <4>1, <4>2 DEF Slot
      <4> QED
        BY <2>3, <4>3 DEF Held
    <3>4. gy \in Slot /\ gy.val = 0 /\ gy.rows = <<>> /\ Held(gy.arr, gy.dims, s)
      <4>1. gy \in Slot /\ gy.val = 0 /\ gy.rows = sx.rows /\ gy.arr = sx.arr /\ gy.dims = sx.dims
        BY <2>2, <2>3 DEF Slot
      <4> HIDE DEF gy
      <4> QED
        BY <2>2, <2>3, <4>1 DEF LineSlot
    <3>5. new = [ref EXCEPT ![x] = e, ![y] = s]
      BY <2>1 DEF s
    <3> HIDE DEF gx, gy, e
    <3>6. SlotHolds(x, gx, e) /\ SlotHolds(y, gy, s)
      BY <2>1, <3>3, <3>4, SLine
    <3> HIDE DEF new
    <3>7. SlotsHold(st, new)
      BY <1>3, <2>1, <3>5, <3>6, SPutTwo
    <3> HIDE DEF st, res, failed
    <3> QED
      BY <1>4, <3>2, <3>7
  <2> QED
    BY <2>4, <2>5
<1> HIDE DEF res, rf, reason, failed
<1> QED
  BY <1>1, <1>2, <1>3, <1>4, SMoved

\* A string moves.
LEMMA TextToTextS ==
  ASSUME SlotExcuses, RefInv, SlotInv, NEW x \in Texts, NEW y \in Texts, x # y, TextToText(x, y)
  PROVE  SlotInv'
<1> DEFINE failed == ref[y] # 0
           res == AttachWhole(slot, x, y)
           new == [ref EXCEPT ![y] = ref[x], ![x] = 0]
           rf == IF failed THEN ref ELSE new
<1>1. SMoves(rf, failed, res[1], res[2], "")
  <2> HIDE DEF res
  <2> QED
    BY DEF TextToText, Statement, SMoves, Fails, res
<1>2. "" \in SlotReasons
  BY DEF SlotReasons
<1>4. failed \in BOOLEAN
  OBVIOUS
<1>3. ASSUME SlotsHold(slot, ref)
      PROVE  res[2] = failed /\ (~failed => SlotsHold(res[1], rf))
  <2> DEFINE v == ref[x]
             gx == [slot[x] EXCEPT !.val = 0]
             gy == [slot[y] EXCEPT !.val = v]
             st == [slot EXCEPT ![x] = gx, ![y] = gy]
  <2>1. /\ kind \in Kinds /\ DOMAIN ref = Names /\ x \in Names /\ y \in Names
        /\ DOMAIN slot = Names /\ v \in Nat
    BY <1>3 DEF RefInv, RefHolds, SlotsHold, Texts, Of
  <2>2. /\ slot[x] \in Slot /\ slot[x].arr = <<>> /\ slot[x].rows = <<>> /\ slot[x].val = v
        /\ slot[y] \in Slot /\ slot[y].arr = <<>> /\ slot[y].rows = <<>> /\ slot[y].val = ref[y]
    BY <1>3, <2>1 DEF SlotsHold, SlotHolds, TextSlot
  <2>3. res = IF failed THEN <<slot, TRUE>> ELSE <<st, FALSE>>
    <3>1. AttachWhole(slot, x, y) =
            IF slot[y].val # 0 THEN <<slot, TRUE>>
            ELSE <<[slot EXCEPT ![x].val = 0, ![y].val = slot[x].val], FALSE>>
      BY <2>2 DEF AttachWhole
    <3>2. [slot EXCEPT ![x].val = 0, ![y].val = slot[x].val] = st
      BY <2>1, <2>2
    <3> HIDE DEF st
    <3> QED
      BY <2>2, <3>1, <3>2
  <2>4. /\ gx \in Slot /\ gx.arr = <<>> /\ gx.rows = <<>> /\ gx.val = 0
        /\ gy \in Slot /\ gy.arr = <<>> /\ gy.rows = <<>> /\ gy.val = v
    BY <2>1, <2>2 DEF Slot
  <2>5. new = [ref EXCEPT ![x] = 0, ![y] = v]
    BY <2>1
  <2> HIDE DEF gx, gy, v, new
  <2>6. SlotHolds(x, gx, 0) /\ SlotHolds(y, gy, v)
    BY <2>1, <2>4, SText
  <2>7. SlotsHold(st, new)
    BY <1>3, <2>1, <2>5, <2>6, SPutTwo
  <2> HIDE DEF st, res, failed
  <2> QED
    BY <1>4, <2>3, <2>7
<1> HIDE DEF res, rf, failed
<1> QED
  BY <1>1, <1>2, <1>3, <1>4, SMoved

\* An element of a line that is not empty is replaced.
LEMMA SElementPut ==
  ASSUME kind \in Kinds, NEW x \in Lines, NEW s \in Slot, NEW t \in Seq(Nat), LineSlot(s, t),
         NEW k \in Nat, k < Len(t), NEW e \in Nat
  PROVE  SlotHolds(x, [s EXCEPT !.arr[1][k + 1] = e], [t EXCEPT ![k + 1] = e])
<1> DEFINE u == [t EXCEPT ![k + 1] = e]
           g == [s EXCEPT !.arr[1][k + 1] = e]
           ds == <<Len(t)>>
<1>1. t # <<>>
  OBVIOUS
<1>2. s.arr = <<t>> /\ s.dims = ds /\ s.val = 0 /\ s.rows = <<>>
  BY <1>1, LineFacts
<1>3. u \in Seq(Nat) /\ Len(u) = Len(t)
  BY ElementPut
<1>4. g = [s EXCEPT !.arr = <<u>>]
  <2>1. [<<t>> EXCEPT ![1][k + 1] = e] = [<<t>> EXCEPT ![1] = u]
    OBVIOUS
  <2> HIDE DEF u
  <2>2. [<<t>> EXCEPT ![1] = u] = <<u>>
    OBVIOUS
  <2>3. g = [s EXCEPT !.arr = [s.arr EXCEPT ![1][k + 1] = e]]
    OBVIOUS
  <2> QED
    BY <1>2, <2>1, <2>2, <2>3
<1>5. ds \in Seq(Nat) /\ ds = <<Len(u)>>
  BY <1>3
<1> HIDE DEF u, g, ds
<1>6. g = [val |-> 0, arr |-> <<u>>, dims |-> ds, rows |-> <<>>]
  BY <1>2, <1>4 DEF Slot
<1>7. SlotHolds(x, g, u)
  BY <1>3, <1>5, <1>6, SNewLine
<1> QED
  BY <1>7 DEF g, u

\* A string moves into an element.
LEMMA TextToElementS ==
  ASSUME SlotExcuses, RefInv, SlotInv, NEW x \in Texts, NEW y \in Lines, NEW k \in 0 .. MaxIndex,
         TextToElement(x, y, k)
  PROVE  SlotInv'
<1> DEFINE failed == k >= Len(ref[y]) \/ ref[y][k + 1] # 0
           res == AttachTextToElement(slot, x, y, k)
           new == [ref EXCEPT ![y][k + 1] = ref[x], ![x] = 0]
           rf == IF failed THEN ref ELSE new
<1>1. SMoves(rf, failed, res[1], res[2], "")
  <2> HIDE DEF res
  <2> QED
    BY DEF TextToElement, Statement, SMoves, Fails, res
<1>2. "" \in SlotReasons
  BY DEF SlotReasons
<1>4. failed \in BOOLEAN
  OBVIOUS
<1>3. ASSUME SlotsHold(slot, ref)
      PROVE  res[2] = failed /\ (~failed => SlotsHold(res[1], rf))
  <2> DEFINE v == ref[x]
             t == ref[y]
             w == [t EXCEPT ![k + 1] = v]
             gx == [slot[x] EXCEPT !.val = 0]
             gy == [slot[y] EXCEPT !.arr[1][k + 1] = v]
             st == [slot EXCEPT ![x] = gx, ![y] = gy]
  <2>1. /\ kind \in Kinds /\ DOMAIN ref = Names /\ x \in Names /\ y \in Names /\ x # y
        /\ DOMAIN slot = Names /\ v \in Nat /\ t \in Seq(Nat) /\ k \in Nat
    BY <1>3, NotTable, ConstantFacts DEF RefInv, RefHolds, SlotsHold, Texts, Of
  <2>2. /\ slot[x] \in Slot /\ slot[x].arr = <<>> /\ slot[x].rows = <<>> /\ slot[x].val = v
        /\ slot[y] \in Slot /\ LineSlot(slot[y], t)
    BY <1>3, <2>1 DEF SlotsHold, SlotHolds, TextSlot
  <2>3. (slot[y].arr = <<>> => t = <<>>) /\ (slot[y].arr # <<>> => slot[y].arr[1] = t)
    <3> DEFINE sy == slot[y]
    <3> HIDE DEF sy, t
    <3>1. (sy.arr = <<>> \/ sy.arr = <<t>>) /\ (sy.arr = <<>> => t = <<>>)
      BY <2>1, <2>2, LineFacts DEF sy
    <3> QED
      BY <3>1 DEF sy
  <2>4. res = IF failed THEN <<slot, TRUE>> ELSE <<st, FALSE>>
    <3> DEFINE other == [slot EXCEPT ![x].val = 0, ![y].arr[1][k + 1] = slot[x].val]
    <3>1. other = st
      BY <2>1, <2>2
    <3>2. AttachTextToElement(slot, x, y, k) =
            IF slot[y].arr = <<>> \/ k >= Len(slot[y].arr[1]) THEN <<slot, TRUE>>
            ELSE IF slot[y].arr[1][k + 1] # 0 THEN <<slot, TRUE>> ELSE <<other, FALSE>>
      BY DEF AttachTextToElement
    <3> HIDE DEF st, other
    <3>3. CASE slot[y].arr = <<>>
      <4>1. k >= Len(t)
        BY <2>1, <2>3, <3>3
      <4> QED
        BY <3>1, <3>2, <3>3, <4>1
    <3>4. CASE slot[y].arr # <<>>
      BY <2>3, <3>1, <3>2, <3>4
    <3> QED
      BY <3>3, <3>4
  <2>5. ASSUME ~failed PROVE SlotsHold(st, new)
    <3>1. k < Len(t)
      BY <2>1, <2>5
    <3> DEFINE sy == slot[y]
    <3>2. sy \in Slot /\ LineSlot(sy, t) /\ gy = [sy EXCEPT !.arr[1][k + 1] = v]
      BY <2>2
    <3>3. gx \in Slot /\ gx.arr = <<>> /\ gx.rows = <<>> /\ gx.val = 0
      BY <2>2 DEF Slot
    <3>4. new = [ref EXCEPT ![x] = 0, ![y] = w]
      BY <2>1
    <3> HIDE DEF sy, t, v, gy
    <3>5. SlotHolds(y, gy, w)
      BY <2>1, <3>1, <3>2, SElementPut
    <3> HIDE DEF gx, w, new
    <3>6. SlotHolds(x, gx, 0)
      BY <2>1, <3>3, SText
    <3> QED
      BY <1>3, <2>1, <3>4, <3>5, <3>6, SPutTwo
  <2> HIDE DEF st, res, failed, new
  <2> QED
    BY <1>4, <2>4, <2>5
<1> HIDE DEF res, rf, failed
<1> QED
  BY <1>1, <1>2, <1>3, <1>4, SMoved

\* An element moves into a string.
LEMMA ElementToTextS ==
  ASSUME SlotExcuses, RefInv, SlotInv, NEW y \in Texts, NEW x \in Lines, NEW k \in 0 .. MaxIndex,
         ElementToText(x, k, y)
  PROVE  SlotInv'
<1> DEFINE failed == ref[y] # 0 \/ k >= Len(ref[x])
           res == AttachElementToText(slot, x, k, y)
           new == [ref EXCEPT ![y] = ref[x][k + 1], ![x][k + 1] = 0]
           rf == IF failed THEN ref ELSE new
<1>1. SMoves(rf, failed, res[1], res[2], "")
  <2> HIDE DEF res
  <2> QED
    BY DEF ElementToText, Statement, SMoves, Fails, res
<1>2. "" \in SlotReasons
  BY DEF SlotReasons
<1>4. failed \in BOOLEAN
  OBVIOUS
<1>3. ASSUME SlotsHold(slot, ref)
      PROVE  res[2] = failed /\ (~failed => SlotsHold(res[1], rf))
  <2> DEFINE t == ref[x]
             v == t[k + 1]
             w == [t EXCEPT ![k + 1] = 0]
             gy == [slot[y] EXCEPT !.val = v]
             gx == [slot[x] EXCEPT !.arr[1][k + 1] = 0]
             st == [slot EXCEPT ![x] = gx, ![y] = gy]
  <2>1. /\ kind \in Kinds /\ DOMAIN ref = Names /\ x \in Names /\ y \in Names /\ x # y
        /\ DOMAIN slot = Names /\ t \in Seq(Nat) /\ k \in Nat
    BY <1>3, NotTable, ConstantFacts DEF RefInv, RefHolds, SlotsHold, Texts, Of
  <2>2. /\ slot[y] \in Slot /\ slot[y].arr = <<>> /\ slot[y].rows = <<>> /\ slot[y].val = ref[y]
        /\ slot[x] \in Slot /\ LineSlot(slot[x], t)
    BY <1>3, <2>1 DEF SlotsHold, SlotHolds, TextSlot
  <2>3. (slot[x].arr = <<>> => t = <<>>) /\ (slot[x].arr # <<>> => slot[x].arr[1] = t)
    <3> DEFINE sx == slot[x]
    <3> HIDE DEF sx, t
    <3>1. (sx.arr = <<>> \/ sx.arr = <<t>>) /\ (sx.arr = <<>> => t = <<>>)
      BY <2>1, <2>2, LineFacts DEF sx
    <3> QED
      BY <3>1 DEF sx
  <2>4. res = IF failed THEN <<slot, TRUE>> ELSE <<st, FALSE>>
    <3> DEFINE other == [slot EXCEPT ![x].arr[1][k + 1] = 0, ![y].val = slot[x].arr[1][k + 1]]
    <3>1. slot[x].arr # <<>> => other = st
      BY <2>1, <2>3
    <3>2. AttachElementToText(slot, x, k, y) =
            IF slot[y].val # 0 \/ slot[x].arr = <<>> THEN <<slot, TRUE>>
            ELSE IF k >= Len(slot[x].arr[1]) THEN <<slot, TRUE>> ELSE <<other, FALSE>>
      BY DEF AttachElementToText
    <3> HIDE DEF st, other
    <3>3. CASE slot[x].arr = <<>>
      <4>1. k >= Len(t)
        BY <2>1, <2>3, <3>3
      <4> QED
        BY <3>2, <3>3, <4>1
    <3>4. CASE slot[x].arr # <<>>
      BY <2>2, <2>3, <3>1, <3>2, <3>4
    <3> QED
      BY <3>3, <3>4
  <2>5. ASSUME ~failed PROVE SlotsHold(st, new)
    <3>1. k < Len(t)
      BY <2>1, <2>5
    <3>7. v \in Nat
      BY <2>1, <3>1, ElementPut
    <3> DEFINE sx == slot[x]
    <3>2. sx \in Slot /\ LineSlot(sx, t) /\ gx = [sx EXCEPT !.arr[1][k + 1] = 0]
      BY <2>2
    <3>3. gy \in Slot /\ gy.arr = <<>> /\ gy.rows = <<>> /\ gy.val = v
      BY <2>2, <3>7 DEF Slot
    <3>4. new = [ref EXCEPT ![x] = w, ![y] = v]
      BY <2>1
    <3> HIDE DEF sx, t, v, gx
    <3>5. SlotHolds(x, gx, w)
      BY <2>1, <3>1, <3>2, SElementPut
    <3> HIDE DEF gy, w, new
    <3>6. SlotHolds(y, gy, v)
      BY <2>1, <3>3, SText
    <3> QED
      BY <1>3, <2>1, <3>4, <3>5, <3>6, SPutTwo
  <2> HIDE DEF st, res, failed, new
  <2> QED
    BY <1>4, <2>4, <2>5
<1> HIDE DEF res, rf, failed
<1> QED
  BY <1>1, <1>2, <1>3, <1>4, SMoved

\* Two slots change places.
LEMMA SwapS ==
  ASSUME SlotExcuses, RefInv, SlotInv, NEW x, NEW y,
         {x, y} \subseteq Heap \/ {x, y} \subseteq Texts, Swap(x, y)
  PROVE  SlotInv'
<1> DEFINE st == exec_swap(slot, x, y)
           rf == [ref EXCEPT ![x] = ref[y], ![y] = ref[x]]
<1>1. SMoves(rf, FALSE, st, FALSE, "")
  BY DEF Swap, Statement, SMoves
<1>2. "" \in SlotReasons
  BY DEF SlotReasons
<1>3. ASSUME SlotsHold(slot, ref) PROVE SlotsHold(st, rf)
  <2> DEFINE s == ref[x]
             t == ref[y]
             gx == slot[x]
             gy == slot[y]
  <2>1. kind \in Kinds /\ DOMAIN ref = Names /\ x \in Names /\ y \in Names
    BY KindFacts DEF RefInv, RefHolds
  <2>2. SlotHolds(x, gx, s) /\ SlotHolds(y, gy, t)
    BY <1>3, <2>1 DEF SlotsHold
  <2>3. st = [slot EXCEPT ![x] = gy, ![y] = gx] /\ rf = [ref EXCEPT ![x] = t, ![y] = s]
    BY DEF exec_swap
  <2>4. SlotHolds(x, gy, t) /\ SlotHolds(y, gx, s)
    <3>1. \/ x \in Lines /\ y \in Lines /\ x \notin Tables /\ y \notin Tables
             /\ x \notin Texts /\ y \notin Texts
          \/ x \in Texts /\ y \in Texts /\ x \notin Tables /\ y \notin Tables
             /\ x \notin Lines /\ y \notin Lines
      BY <2>1, KindFacts
    <3> HIDE DEF gx, gy, s, t
    <3> QED
      BY <2>2, <3>1 DEF SlotHolds
  <2> HIDE DEF st, rf, s, t, gx, gy
  <2> QED
    BY <1>3, <2>1, <2>3, <2>4, SPutTwo
<1> HIDE DEF st, rf
<1> QED
  BY <1>1, <1>2, <1>3, SMoved

\* What the declarations leave the interpreter with.
LEMMA InitS == Init => SlotInv
<1> SUFFICES ASSUME Init PROVE err.interp = err.ref /\ SlotsHold(slot, ref)
  BY DEF SlotInv
<1>1. /\ kind \in Kinds /\ err.interp = err.ref
      /\ slot = [x \in Names |-> CASE x \in Heap -> new_array_nd(<<>>)
                                  [] x \in Tables -> new_array_nd(<<2, Wide>>)
                                  [] x \in Texts -> NewText
                                  [] OTHER -> new_array_nd(<<2>>)]
      /\ ref = [x \in Names |-> CASE kind[x] = "fixed" -> <<0, 0>>
                                 [] x \in Tables -> Table(1, 0)
                                 [] x \in Texts -> 0
                                 [] OTHER -> <<>>]
  BY DEF Init
<1>2. DOMAIN slot = Names
  BY <1>1
<1>3. ASSUME NEW x \in Names PROVE SlotHolds(x, slot[x], ref[x])
  <2> DEFINE g == slot[x]
  <2>1. CASE kind[x] = "fixed"
    <3> DEFINE ds == <<2>>
               z == Zeros(2)
    <3>1. x \in Lines /\ x \notin Tables /\ x \notin Texts /\ x \notin Heap
      BY <2>1 DEF Lines, Tables, Texts, Heap, Of
    <3>2. g = new_array_nd(ds) /\ ref[x] = z
      BY <1>1, <2>1, <3>1, EmptyAndZeros
    <3>3. ds \in Seq(Nat) /\ Count(ds) = 2 /\ ds = <<Len(z)>> /\ z \in Seq(Nat)
      <4>1. Len(z) = 2 /\ z \in Seq(Nat)
        BY EmptyAndZeros
      <4>2. ds \in Seq(Nat) /\ Count(ds) = 2
        BY CountFacts
      <4> HIDE DEF z
      <4> QED
        BY <4>1, <4>2
    <3> HIDE DEF ds, z, g
    <3>4. g = [val |-> 0, arr |-> <<z>>, dims |-> ds, rows |-> <<>>]
      BY <3>2, <3>3 DEF new_array_nd, z
    <3>5. SlotHolds(x, g, z)
      BY <1>1, <3>1, <3>3, <3>4, SNewLine
    <3> QED
      BY <3>2, <3>5 DEF g
  <2>2. CASE x \in Tables
    <3> DEFINE ds == <<2, Wide>>
               a == Zeros(Cells(2))
               t == Table(1, 0)
    <3>1. x \notin Texts /\ x \notin Heap /\ kind[x] # "fixed"
      BY <1>1, <2>2, NotLine, KindFacts
    <3>2. g = new_array_nd(ds) /\ ref[x] = t
      BY <1>1, <2>2, <3>1
    <3>3. Count(ds) = Cells(2)
      BY CountFacts DEF Cells
    <3>4. a \in Seq(Nat) /\ FlatHolds(a, t) /\ t \in Seq(Seq(Nat)) /\ Len(t) = 2
      BY CellsType, ZerosFacts, FlatFirst, FirstTable
    <3>5. ds = <<Len(t), Wide>>
      BY <3>4
    <3> HIDE DEF ds, a, t, g
    <3>6. g = [val |-> 0, arr |-> <<a>>, dims |-> ds, rows |-> <<>>]
      BY <3>2, <3>3 DEF new_array_nd, a
    <3>7. g.dims = <<Len(t), Wide>>
      BY <3>5, <3>6
    <3>8. SlotHolds(x, g, t)
      BY <1>1, <2>2, <3>4, <3>6, <3>7, SNewTable
    <3> QED
      BY <3>2, <3>8 DEF g
  <2>3. CASE x \in Texts
    <3>1. x \notin Heap /\ x \notin Tables /\ kind[x] # "fixed"
      BY <1>1, <2>3, KindFacts DEF Texts, Of
    <3>2. g = NewText /\ ref[x] = 0
      BY <1>1, <2>3, <3>1
    <3>3. NewText \in Slot /\ NewText.arr = <<>> /\ NewText.rows = <<>> /\ NewText.val = 0
      BY DEF NewText, Slot
    <3> QED
      BY <1>1, <2>3, <3>2, <3>3, SText
  <2>4. CASE x \in Lines /\ kind[x] # "fixed"
    <3> DEFINE e == <<>>
    <3>1. x \in Heap /\ x \notin Texts /\ x \notin Tables
      BY <1>1, <2>4, KindFacts
    <3>2. g = new_array_nd(<<>>) /\ ref[x] = e
      BY <1>1, <2>4, <3>1
    <3>3. e \in Seq(Nat) /\ Count(<<>>) = 0 /\ Zeros(0) = e
      BY DEF Count, Zeros
    <3> HIDE DEF e, g
    <3>4. g = [val |-> 0, arr |-> <<e>>, dims |-> e, rows |-> <<>>]
      BY <3>2, <3>3 DEF new_array_nd, e
    <3>5. SlotHolds(x, g, e)
      <4>1. e = <<>> /\ g.val = 0 /\ g.arr = <<e>> /\ g.dims = e /\ g.rows = <<>>
        BY <3>4 DEF e
      <4>2. g \in Slot
        BY <3>3, <3>4, <4>1, NewSlot
      <4>3. Held(g.arr, g.dims, e)
        BY <4>1 DEF Held
      <4> QED
        BY <1>1, <2>4, <4>1, <4>2, <4>3, SLine
    <3> QED
      BY <3>2, <3>5 DEF g
  <2> QED
    BY <1>1, <2>1, <2>2, <2>3, <2>4, KindFacts
<1> QED
  BY <1>1, <1>2, <1>3 DEF SlotsHold

\* Every step keeps SlotInv.
LEMMA SStep ==
  ASSUME SlotExcuses, RefInv, SlotInv, [Next]_vars
  PROVE  SlotInv'
<1>1. CASE UNCHANGED vars
  BY <1>1 DEF vars, SlotInv, SlotsHold, SlotHolds, Names, Of, Lines, Tables, Texts
<1>2. CASE Next
  <2>1. \A x \in Heap, redim \in BOOLEAN, b \in {<<>>} \cup {<<n>> : n \in Sizes} :
           DimLine(x, b, redim) => SlotInv'
    BY DimLineS
  <2>2. \A x \in Of({"flat"}), n \in Sizes \ {-1}, redim \in BOOLEAN :
           DimTable(x, n, redim) => SlotInv'
    BY DimTableS
  <2>3. \A x \in Lines, i \in 0 .. MaxIndex : SetLine(x, i) => SlotInv'
    BY SetLineS
  <2>4. \A x \in Tables, i \in 0 .. MaxIndex, j \in 0 .. MaxIndex : SetTable(x, i, j) => SlotInv'
    BY SetTableS
  <2>5. \A x \in Texts : SetText(x) => SlotInv'
    BY SetTextS
  <2>6. \A x \in Tables, r \in 0 .. MaxIndex, y \in Heap :
           RowToArray(x, r, y) \/ ArrayToRow(y, x, r) => SlotInv'
    BY RowToArrayS, ArrayToRowS
  <2>7. \A x, y \in Lines : x # y /\ ArrayToArray(x, y) => SlotInv'
    BY ArrayToArrayS
  <2>8. \A x, y \in Texts : x # y /\ TextToText(x, y) => SlotInv'
    BY TextToTextS
  <2>9. \A x \in Texts, y \in Lines, k \in 0 .. MaxIndex :
           TextToElement(x, y, k) \/ ElementToText(y, k, x) => SlotInv'
    BY TextToElementS, ElementToTextS
  <2>10. \A x, y \in Heap : x # y /\ Swap(x, y) => SlotInv'
    BY SwapS
  <2>11. \A x, y \in Texts : x # y /\ Swap(x, y) => SlotInv'
    BY SwapS
  <2> QED
    BY <1>2, <2>1, <2>2, <2>3, <2>4, <2>5, <2>6, <2>7, <2>8, <2>9, <2>10, <2>11 DEF Next
<1> QED
  BY <1>1, <1>2

-----------------------------------------------------------------------------
(* What a program reads from the interpreter's slots *)

\* The bounds and the elements of a line.
LEMMA ReadLine ==
  ASSUME NEW s \in Slot, NEW t \in Seq(Nat), LineSlot(s, t)
  PROVE  SlotLine(s) = t
<1>1. s.rows = <<>> /\ Held(s.arr, s.dims, t)
  BY DEF LineSlot
<1>2. UBoundSlot(s) = Len(t) - 1
  <2>1. CASE s.arr = <<>>
    <3>1. Len(t) = 0
      BY <1>1, <2>1 DEF Held
    <3> QED
      BY <1>1, <2>1, <3>1 DEF UBoundSlot
  <2>2. CASE s.arr # <<>>
    <3>1. s.arr = <<t>>
      BY <1>1, <2>2 DEF Held
    <3> QED
      BY <1>1, <2>2, <3>1 DEF UBoundSlot
  <2> QED
    BY <2>1, <2>2
<1>3. ASSUME NEW i \in 1 .. Len(t) PROVE ReadSlot(s, <<i - 1>>) = t[i]
  <2> DEFINE k == i - 1
  <2>1. k \in Nat /\ k < Len(t) /\ k + 1 = i
    OBVIOUS
  <2> HIDE DEF k
  <2>2. array_offset(s, <<k>>) = k
    BY <1>1, <2>1, LineOffset
  <2>3. s.arr = <<t>>
    BY <1>1, <2>1 DEF Held
  <2>4. ReadSlot(s, <<k>>) = s.arr[1][k + 1]
    BY <1>1, <2>1, <2>2 DEF ReadSlot
  <2> QED
    BY <2>1, <2>3, <2>4 DEF k
<1>4. SlotLine(s) = [i \in 1 .. Len(t) |-> ReadSlot(s, <<i - 1>>)]
  BY <1>2 DEF SlotLine
<1>5. SlotLine(s) = [i \in 1 .. Len(t) |-> t[i]]
  BY <1>3, <1>4
<1> QED
  BY <1>5

\* An element of a table, in one piece or in rows.
LEMMA ReadTable ==
  ASSUME NEW s \in Slot, NEW t \in Seq(Seq(Nat)), TableSlot(s, t),
         NEW i \in Nat, i < Len(t), NEW j \in Nat, j < Len(t[i + 1])
  PROVE  ReadSlot(s, <<i, j>>) = t[i + 1][j + 1]
<1>1. t[i + 1] \in Seq(Nat) /\ t[i + 1] # <<>> /\ i + 1 \in DOMAIN t
  OBVIOUS
<1>2. CASE s.rows = <<>>
  <2>1. Len(s.arr) = 1 /\ s.dims = <<Len(t), Wide>> /\ FlatHolds(s.arr[1], t)
    BY <1>2 DEF TableSlot
  <2> DEFINE n == Len(t)
             v == t[i + 1]
             a == s.arr[1]
  <2>2. Len(a) = Cells(n) /\ Len(v) = Wide /\ \A k \in 1 .. Wide : a[Place(i + 1, k)] = v[k]
    BY <1>1, <2>1 DEF FlatHolds
  <2>3. n \in Nat /\ i < n /\ Wide \in Nat /\ j < Wide /\ s.dims = <<n, Wide>>
    BY <2>1, <2>2, ConstantFacts
  <2>4. i * Wide \in Nat /\ Place(i + 1, j + 1) = i * Wide + (j + 1)
    BY <2>3 DEF Place
  <2> HIDE DEF n, v
  <2>5. array_offset(s, <<i, j>>) = i * Wide + j
    <3>1. Len(s.arr) = 1 /\ Len(s.arr[1]) = Cells(n)
      BY <2>1, <2>2
    <3> QED
      BY ONLY <2>3, <3>1, i \in Nat, j \in Nat, FlatOffset
  <2> HIDE DEF a
  <2>7. a[i * Wide + j + 1] = v[j + 1]
    <3> DEFINE m == i * Wide
    <3>1. m + (j + 1) = m + j + 1 /\ j + 1 \in 1 .. Wide
      BY <2>3, <2>4
    <3>2. a[m + (j + 1)] = v[j + 1]
      BY <2>2, <2>4, <3>1
    <3> HIDE DEF m
    <3> QED
      BY <3>1, <3>2 DEF m
  <2>8. ReadSlot(s, <<i, j>>) = s.arr[1][i * Wide + j + 1]
    <3> DEFINE off == i * Wide + j
    <3>1. off \in Nat /\ array_offset(s, <<i, j>>) = off
      BY <2>4, <2>5
    <3> HIDE DEF off
    <3>2. ReadSlot(s, <<i, j>>) = s.arr[1][off + 1]
      BY <1>2, <3>1 DEF ReadSlot
    <3> QED
      BY <3>2 DEF off
  <2> QED
    BY <2>7, <2>8 DEF a, v
<1>3. CASE s.rows # <<>>
  <2> DEFINE p == s.rows[1][i + 1]
             v == t[i + 1]
             a == p.arr
             d == p.dims
  <2>1. RowsHold(s, t)
    BY <1>3 DEF TableSlot, RowsHold
  <2>2. a \in Seq(Seq(Nat)) /\ Held(a, d, v) /\ v \in Seq(Nat) /\ v # <<>>
    BY <1>1, <2>1, RowFacts
  <2>3. Len(s.rows[1]) = Len(t)
    BY <2>1 DEF RowsHold
  <2> HIDE DEF a, d, v
  <2>4. a = <<v>>
    BY <2>2, HeldFacts
  <2>5. ReadSlot(s, <<i, j>>) =
          IF i < Len(s.rows[1]) /\ a # <<>> /\ j < Len(a[1]) THEN a[1][j + 1] ELSE 0
    BY <1>3 DEF ReadSlot, a
  <2> QED
    BY <2>3, <2>4, <2>5 DEF v
<1> QED
  BY <1>2, <1>3

\* What SlotInv says is what the program sees.
LEMMA SVisible ==
  ASSUME RefInv, NEW x \in Names, SlotHolds(x, slot[x], ref[x])
  PROVE  CASE x \in Lines -> SlotLine(slot[x]) = ref[x]
           [] x \in Tables -> SlotTable(slot[x], ref[x]) = ref[x]
           [] x \in Texts -> slot[x].val = ref[x]
<1>1. kind \in Kinds /\ slot[x] \in Slot
  BY DEF RefInv, SlotHolds
<1>2. ASSUME x \in Lines PROVE SlotLine(slot[x]) = ref[x]
  BY <1>1, <1>2, ReadLine DEF SlotHolds, RefInv, RefHolds
<1>3. ASSUME x \in Tables PROVE SlotTable(slot[x], ref[x]) = ref[x]
  <2> DEFINE t == ref[x]
             s == slot[x]
             At(r, j) == ReadSlot(s, <<r - 1, j - 1>>)
  <2>1. t \in Seq(Seq(Nat)) /\ s \in Slot /\ TableSlot(s, t)
    BY <1>3 DEF RefInv, RefHolds, SlotHolds
  <2> HIDE DEF t, s
  <2>2. ASSUME NEW r \in DOMAIN t, NEW j \in DOMAIN t[r] PROVE At(r, j) = t[r][j]
    <3> DEFINE i == r - 1
               k == j - 1
    <3>1. t[r] \in Seq(Nat)
      BY <2>1
    <3>2. i \in Nat /\ i < Len(t) /\ i + 1 = r
      BY <2>1
    <3>3. k \in Nat /\ k < Len(t[r]) /\ k + 1 = j
      BY <3>1
    <3> HIDE DEF i, k
    <3>4. ReadSlot(s, <<i, k>>) = t[i + 1][k + 1]
      BY <2>1, <3>2, <3>3, ReadTable
    <3> QED
      BY <3>2, <3>3, <3>4 DEF i, k
  <2>3. SlotTable(s, t) = [r \in DOMAIN t |-> [j \in DOMAIN t[r] |-> At(r, j)]]
    BY DEF SlotTable
  <2> HIDE DEF At
  <2>4. \A r \in DOMAIN t : [j \in DOMAIN t[r] |-> At(r, j)] = t[r]
    <3> TAKE r \in DOMAIN t
    <3>1. [j \in DOMAIN t[r] |-> At(r, j)] = [j \in DOMAIN t[r] |-> t[r][j]]
      BY <2>2
    <3>2. t[r] \in Seq(Nat)
      BY <2>1
    <3> QED
      BY <3>1, <3>2
  <2>5. SlotTable(s, t) = [r \in DOMAIN t |-> t[r]]
    BY <2>3, <2>4
  <2>6. SlotTable(s, t) = t
    BY <2>1, <2>5
  <2> QED
    BY <2>6 DEF t, s
<1>4. ASSUME x \in Texts PROVE slot[x].val = ref[x]
  BY <1>4 DEF SlotHolds, TextSlot
<1> QED
  BY <1>1, <1>2, <1>3, <1>4, KindFacts

\* The interpreter reads from every name what the program last put there, and an
\* ATTACH fails exactly when its destination is occupied, for any number of moves,
\* swaps, resizings and assignments: of whole arrays, of rows cut out of a table that
\* lay in one piece, of strings.  What ends its comparison is named in SlotExcuses.
THEOREM InterpreterInStep == ASSUME SlotExcuses PROVE Spec => []InterpreterKeepsArrays
<1>1. Init => RefInv /\ SlotInv
  BY InitRef, InitS
<1>2. RefInv /\ SlotInv /\ [Next]_vars => (RefInv /\ SlotInv)'
  BY RefStep, SStep
<1>3. RefInv /\ SlotInv => InterpreterKeepsArrays
  <2> SUFFICES ASSUME RefInv, SlotsHold(slot, ref), NEW x \in Names
               PROVE  CASE x \in Lines -> SlotLine(slot[x]) = ref[x]
                        [] x \in Tables -> SlotTable(slot[x], ref[x]) = ref[x]
                        [] x \in Texts -> slot[x].val = ref[x]
    BY DEF SlotInv, InterpreterKeepsArrays
  <2> QED
    BY SVisible DEF SlotsHold
<1> QED
  BY <1>1, <1>2, <1>3, PTL DEF Spec
=============================================================================
