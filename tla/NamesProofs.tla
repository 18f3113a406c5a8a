----------------------------- MODULE NamesProofs -----------------------------
(***************************************************************************)
(* For every program without # names: a name keeps its value.              *)
(*                                                                         *)
(* The invariant says, of each engine that no known departure has ended,   *)
(* where a spelling's value is: under the name its slot has in the         *)
(* function that runs, local or shared, with the value the reference has   *)
(* under the spelling.  A step's proof is in two parts: the slot that a    *)
(* statement resolves its name to is the one with that name (whatever the  *)
(* statements before it left in the symbol table), and a value stored      *)
(* there disturbs no other spelling.                                       *)
(***************************************************************************)
EXTENDS Names, TLAPS

CONSTANTS ScalarNames, ArrayNames   \* the names of the programs, apart

-----------------------------------------------------------------------------
(* The programs: any statements on scalars and array elements, with the    *)
(* suffixes that the statement takes, and no # names                       *)

Scalar == [n : ScalarNames, s : {"", "$"}, h : {FALSE}]
Number == {o \in Scalar : o.s = ""}
String == {o \in Scalar : o.s = "$"}
Element == [n : ArrayNames, s : {"[]"}, h : {FALSE}]

PlainStatement ==
    [op : {"dim", "shared", "byref", "read", "dim_array"}, l : Scalar, r : {None}] \cup
    [op : {"assign", "print"}, l : Scalar \cup Element, r : {None}] \cup
    [op : {"inc", "for"}, l : Number, r : {None}] \cup
    [op : {"brace", "byte"}, l : String, r : {None}] \cup
    [op : {"swap"}, l : Scalar \cup Element, r : Scalar \cup Element]

PlainNames ==
    /\ ScalarNames \cap ArrayNames = {}
    /\ \A n \in ScalarNames \cup ArrayNames : n = <<n[1], "">>

PlainFamilies ==
    \A fam \in Families :
        /\ fam.n \in Nat /\ fam.m \in Nat
        /\ fam.first \subseteq PlainStatement /\ fam.second \subseteq PlainStatement
        /\ \A ps \in fam.params : ps \subseteq Scalar

NameExcuses ==
    {"byref", "read", "for", "inc", "brace", "array", "swap", "swap suffix", "swap shared",
     "shared", "param"} \subseteq Excused

Engines == {"interp", "c"}

-----------------------------------------------------------------------------
(* What each name stands for, in a function f *)

FunctionOK(f) ==
    /\ f.body \in Seq(PlainStatement)
    /\ f.params \subseteq Scalar
    /\ DeclaredFirst(f.params, f.body)

\* No parameter is used with both types.
ParamsApart(f) == \A o \in f.params : ~Mixed(f, o.n)

Clashes(f) == scan_body_collisions(f.body)

\* An operand that the scan before the analysis sees under its bare name.
Seen(st, o) ==
    /\ st.op \notin {"dim_array", "brace", "byte"}
    /\ o \in Operands(st)
    /\ ~(st.op = "swap" /\ o.s = "$")

\* The spellings that it sees, and the parameters.
Live(f) == {o \in Scalar : o \in f.params \/ \E i \in DOMAIN f.body : Seen(f.body[i], o)}

\* The name of a spelling's slot.
NameOf(f, o) == IF o.s = "$" /\ o.n \in Clashes(f) THEN <<o.n[1], "$">> ELSE o.n

LocalKey(e, f, o) ==
    IF e = "interp" THEN <<"local", NameOf(f, o)>> ELSE <<"local", NameOf(f, o), o.s = "$">>
SharedKey(f, o) == <<"shared", NameOf(f, o)>>
RefLocal(o) == <<"local", o.n[1], o.s = "$", FALSE>>
RefShared(o) == <<"shared", o.n[1], o.s = "$", FALSE>>

\* Where an operand is, D being the spellings declared shared.
Place(e, f, D, o) ==
    IF Elem(o) THEN <<"elem", o.n>> ELSE IF o \in D THEN SharedKey(f, o) ELSE LocalKey(e, f, o)
RefPlace(D, o) ==
    IF Elem(o) THEN <<"elem", o.n>> ELSE IF o \in D THEN RefShared(o) ELSE RefLocal(o)

Key(e, slot) == IF e = "interp" THEN SlotKey(slot) ELSE CKey(slot)
Run(e, m, items, v) == IF e = "interp" THEN RunSlots(m, items, v) ELSE RunC(m, items, v)

-----------------------------------------------------------------------------
(* The inductive invariant *)

ProgramOK ==
    /\ DOMAIN prog = 1 .. 2 /\ Len(prog) = 2
    /\ \A g \in 1 .. 2 : FunctionOK(prog[g])
    /\ fn \in 0 .. 2 /\ pc \in Nat \ {0}
    /\ fn = 0 => pc = 1
    /\ fn > 0 => pc <= Len(prog[fn].body) + 1

\* The tables of function f, where the spellings in D are declared shared.
TablesOK(a, f, D) ==
    /\ DOMAIN a = {"symbols", "arrays", "shared", "collisions", "shared_writes", "shared_scalars"}
    /\ a.collisions = Clashes(f)
    /\ a.shared_writes = {}
    /\ a.shared_scalars = {NameOf(f, o) : o \in D}

\* A symbol that no other spelling competes for has that spelling's type.
SymbolsOK(a, f) ==
    \A o \in Live(f) :
        o.n \in DOMAIN a.symbols /\ o.n \notin Clashes(f) => a.symbols[o.n] = from_suffix(o.s)

\* No array competes with a scalar, nor an entry of the full name with one of the base.
ArraysOK(a, f) ==
    \A o \in Uses(f) \cap Scalar :
        /\ full_name(o.n, o.s) \notin DOMAIN a.arrays
        /\ o.s = "$" /\ o.n \notin Clashes(f) => full_name(o.n, o.s) \notin DOMAIN a.symbols

\* A string of I, one that was introduced, is known; one declared only, under a name of
\* its own, is empty.
IntroducedOK(a, f, I, r) ==
    /\ \A o \in String : o \in I /\ o.n \notin Clashes(f) => o.n \in DOMAIN a.symbols
    /\ \A o \in String \cap Live(f) :
          o.n \in Clashes(f) /\ o.n \notin DOMAIN a.symbols => ValueAt(r, RefLocal(o)) = 0

\* What is not in U, what has not been used, has no value yet.
Untouched(U, r) == \A o \in Scalar \ U : ValueAt(r, RefLocal(o)) = 0

\* The analysis, where the reference's store is r.
Tables(a, f, D, I, U, r) ==
    /\ TablesOK(a, f, D) /\ SymbolsOK(a, f) /\ ArraysOK(a, f)
    /\ IntroducedOK(a, f, I, r)
    /\ Untouched(U, r)

\* Two declarations are one variable if and only if they are one spelling.
SharedApart(p, g, S) ==
    \A h, i \in 1 .. g : \A o \in S[h] : \A q \in S[i] :
        NameOf(p[h], o) = NameOf(p[i], q) <=> o = q

\* The element of an array of strings with a scalar's name.
TextElement(o) == <<"elem", <<o.n[1], "$">>>>

\* The values of engine e's store m are the reference's, and no array has a scalar's.
\* Nothing is shared that was not declared so: S[h] is what function h declares.
Holds(e, p, g, S, m, r) ==
    /\ g > 0 => \A o \in Live(p[g]) : ValueAt(m, LocalKey(e, p[g], o)) = ValueAt(r, RefLocal(o))
    /\ \A n \in ArrayNames : ValueAt(m, <<"elem", n>>) = ValueAt(r, <<"elem", n>>)
    /\ \A o \in Scalar : ValueAt(m, TextElement(o)) = 0
    /\ \A h \in 1 .. g : \A o \in S[h] : ValueAt(m, SharedKey(p[h], o)) = ValueAt(r, RefShared(o))
    /\ \A k \in DOMAIN m : k[1] = "shared" => \E h \in 1 .. g : \E o \in S[h] : k = SharedKey(p[h], o)
    /\ \A k \in DOMAIN r : k[1] = "shared" => \E h \in 1 .. g : \E o \in S[h] : k = RefShared(o)

\* What a function f has declared shared, introduced and used before its statement n.
SharedBefore(f, n) == {o \in Scalar : \E i \in 1 .. n - 1 : f.body[i].op = "shared" /\ f.body[i].l = o}
IntroducedBefore(f, n) ==
    {o \in Scalar : \/ o \in f.params
                    \/ \E i \in 1 .. n - 1 : /\ f.body[i].l = o
                                              /\ f.body[i].op \in {"assign", "dim", "shared"}}
UsedBefore(f, n) == f.params \cup UNION {Operands(f.body[i]) : i \in 1 .. n - 1}

\* What each function up to g, which is at its statement n, has declared shared.
SharedBy(p, g, n) == [h \in 1 .. g |-> IF h < g THEN Shares(p[h]) ELSE SharedBefore(p[g], n)]

StoreOf(e) == IF e = "interp" THEN slots ELSE cvars

EngineInv(e) ==
    why[e] = {} =>
      /\ \A g \in 1 .. fn : ParamsApart(prog[g])
      /\ fn > 0 => Tables(an, prog[fn], SharedBefore(prog[fn], pc), IntroducedBefore(prog[fn], pc),
                          UsedBefore(prog[fn], pc), ref)
      /\ SharedApart(prog, fn, SharedBy(prog, fn, pc))
      /\ Holds(e, prog, fn, SharedBy(prog, fn, pc), StoreOf(e), ref)
      /\ shown[e] = shown.ref

NamesInv == ProgramOK /\ DOMAIN why = Engines /\ \A e \in Engines : EngineInv(e)

-----------------------------------------------------------------------------
(* Stores *)

\* A store after a Put.
LEMMA PutValue ==
    ASSUME NEW m, NEW k, NEW v, NEW j
    PROVE  ValueAt(Put(m, k, v), j) = IF j = k THEN v ELSE ValueAt(m, j)
BY DEF ValueAt, Put

LEMMA PutDomain ==
    ASSUME NEW m, NEW k, NEW v
    PROVE  DOMAIN Put(m, k, v) = DOMAIN m \cup {k}
BY DEF Put

\* OrPut with 0 changes no value.
LEMMA OrPutValue ==
    ASSUME NEW m, NEW k, NEW j
    PROVE  /\ ValueAt(OrPut(m, k, 0), j) = ValueAt(m, j)
           /\ DOMAIN OrPut(m, k, 0) = DOMAIN m \cup {k}
BY PutDomain DEF ValueAt, Put, OrPut

LEMMA NotIn ==
    ASSUME NEW m, NEW k, k \notin DOMAIN m
    PROVE  ValueAt(m, k) = 0
BY DEF ValueAt

-----------------------------------------------------------------------------
(* Operands *)

\* The parts of a scalar.
LEMMA ScalarParts ==
    ASSUME PlainNames, NEW o \in Scalar
    PROVE  /\ o.n \in ScalarNames /\ o.n = <<o.n[1], "">> /\ o.n[2] = ""
           /\ o.s \in {"", "$"} /\ o.h = FALSE
           /\ ~Elem(o) /\ (IsText(o) <=> o.s = "$")
           /\ o \notin Element /\ o # None
  <1>1. o.n \in ScalarNames /\ o.s \in {"", "$"} /\ o.h = FALSE
    BY DEF Scalar
  <1>2. o.n = <<o.n[1], "">>
    BY <1>1 DEF PlainNames
  <1>7. PICK b : o.n = <<b, "">>
    BY <1>2
  <1>3. o.n[2] = ""
    <2>1. \A n, c, d : n = <<c, d>> => n[2] = d
      OBVIOUS
    <2> QED
      BY <1>7, <2>1
  <1>4. o \notin Element
    BY <1>1 DEF Element, PlainNames
  <1>5. DOMAIN o = {"n", "s", "h"}
    BY DEF Scalar
  <1>6. o # None
    BY <1>5 DEF None
  <1> QED
    BY <1>1, <1>2, <1>3, <1>4, <1>6 DEF Elem, IsText

\* The parts of an element.
LEMMA ElementParts ==
    ASSUME PlainNames, NEW o \in Element
    PROVE  /\ o.n \in ArrayNames /\ o.n \notin ScalarNames /\ o.s = "[]" /\ o.h = FALSE /\ Elem(o)
           /\ o \notin Scalar /\ o # None
  <1>1. o.n \in ArrayNames /\ o.s = "[]" /\ o.h = FALSE
    BY DEF Element
  <1>2. o \notin Scalar
    BY <1>1 DEF Scalar
  <1>5. DOMAIN o = {"n", "s", "h"}
    BY DEF Element
  <1>6. o # None
    BY <1>5 DEF None
  <1> QED
    BY <1>1, <1>2, <1>6 DEF PlainNames, Elem

\* A scalar is told by its base and its type.
LEMMA SameScalar ==
    ASSUME NEW o \in Scalar, NEW q \in Scalar, o.n = q.n, o.s = "$" <=> q.s = "$"
    PROVE  o = q
  <1>1. o = [n |-> o.n, s |-> o.s, h |-> FALSE] /\ o.s \in {"", "$"}
    BY DEF Scalar
  <1>2. q = [n |-> q.n, s |-> q.s, h |-> FALSE] /\ q.s \in {"", "$"}
    BY DEF Scalar
  <1> QED
    BY <1>1, <1>2

\* What each statement has.
LEMMA StatementParts ==
    ASSUME PlainNames, NEW st \in PlainStatement
    PROVE  /\ st.op \in {"dim", "shared", "byref", "read", "dim_array", "assign", "print", "inc",
                         "for", "brace", "byte", "swap"}
           /\ st.l \in Scalar \cup Element
           /\ st.op \in {"inc", "for"} => st.l \in Number
           /\ st.op \in {"brace", "byte"} => st.l \in String
           /\ st.op \notin {"assign", "print", "swap"} => st.l \in Scalar
           /\ st.op # "swap" => Operands(st) = {st.l}
           /\ st.op = "swap" => st.r \in Scalar \cup Element /\ Operands(st) = {st.l, st.r}
           /\ Operands(st) \subseteq Scalar \cup Element /\ st.l \in Operands(st)
  <1>1. /\ st.op \in {"dim", "shared", "byref", "read", "dim_array", "assign", "print", "inc",
                      "for", "brace", "byte", "swap"}
        /\ st.l \in Scalar \cup Element
        /\ st.op \in {"inc", "for"} => st.l \in Number
        /\ st.op \in {"brace", "byte"} => st.l \in String
        /\ st.op \notin {"assign", "print", "swap"} => st.l \in Scalar
        /\ st.op # "swap" => st.r = None
        /\ st.op = "swap" => st.r \in Scalar \cup Element
    BY DEF PlainStatement, Number, String
  <1>2. \A o \in Scalar \cup Element : o # None
    BY ScalarParts, ElementParts
  <1>3. st.op # "swap" => Operands(st) = {st.l}
    BY <1>1, <1>2 DEF Operands
  <1>4. st.op = "swap" => Operands(st) = {st.l, st.r}
    BY <1>1, <1>2 DEF Operands
  <1> QED
    BY <1>1, <1>3, <1>4

-----------------------------------------------------------------------------
(* Collisions of types *)

\* A suffix's type is string or integer.
LEMMA SuffixType ==
    ASSUME NEW s
    PROVE  /\ from_suffix(s) = "string" <=> s = "$"
           /\ from_suffix(s) \in {"string", "integer"}
BY DEF from_suffix

\* SWAP names a string with its suffix, and nothing else.
LEMMA SwapNames ==
    ASSUME PlainNames, NEW o \in Scalar \cup Element
    PROVE  /\ o.s # "$" => SwapName(o) = o.n
           /\ o.s = "$" => SwapName(o) = <<o.n[1], "$">> /\ SwapName(o) \notin ScalarNames
  <1>1. o.s \in {"", "$"} \/ Elem(o)
    BY ScalarParts, ElementParts
  <1>2. ASSUME o.s = "$"
        PROVE  SwapName(o) = <<o.n[1], "$">> /\ SwapName(o) \notin ScalarNames
    <2>1. SwapName(o) = <<o.n[1], "$">>
      BY <1>2 DEF SwapName, Elem, full_name
    <2>2. \A c, d, n : n = <<c, d>> => n[2] = d
      OBVIOUS
    <2>3. SwapName(o)[2] = "$"
      BY <2>1, <2>2
    <2>4. \A n \in ScalarNames : n[2] = ""
      BY <2>2 DEF PlainNames
    <2> QED
      BY <2>1, <2>3, <2>4
  <1> QED
    BY <1>1, <1>2 DEF SwapName, full_name

\* What the scan notes for a statement under a scalar's name are its operands.
LEMMA NotedOperand ==
    ASSUME PlainNames, NEW st \in PlainStatement, NEW k \in Noted(st), k.n \in ScalarNames
    PROVE  /\ st.op # "dim_array"
           /\ \E o \in Operands(st) : k.n = o.n /\ (k.t = "string" <=> o.s = "$")
  <1> USE StatementParts
  <1>4. CASE st.op = "swap"
    <2>1. Noted(st) = {[n |-> SwapName(o), t |-> from_suffix(o.s)] : o \in Operands(st)}
      BY <1>4 DEF Noted
    <2>2. PICK o \in Operands(st) : k = [n |-> SwapName(o), t |-> from_suffix(o.s)]
      BY <2>1
    <2>3. k.n = o.n /\ (k.t = "string" <=> o.s = "$")
      BY <2>2, SuffixType, SwapNames
    <2> QED
      BY <1>4, <2>3
  <1>1. CASE st.op \in {"dim", "shared", "assign", "print", "byref", "inc", "read"}
    <2>1. Noted(st) = {[n |-> o.n, t |-> from_suffix(o.s)] : o \in Operands(st)}
      BY <1>1 DEF Noted
    <2>2. PICK o \in Operands(st) : k = [n |-> o.n, t |-> from_suffix(o.s)]
      BY <2>1
    <2>3. k.n = o.n /\ (k.t = "string" <=> o.s = "$")
      BY <2>2, SuffixType
    <2> QED
      BY <1>1, <2>3
  <1>2. CASE st.op = "for"
    <2>1. k = [n |-> st.l.n, t |-> "integer"]
      BY <1>2 DEF Noted
    <2>2. st.l.s = ""
      BY <1>2 DEF Number
    <2> QED
      BY <1>2, <2>1, <2>2
  <1>3. CASE st.op \in {"dim_array", "brace", "byte"}
    BY <1>3 DEF Noted
  <1> QED
    BY <1>1, <1>2, <1>3, <1>4

\* The operands that the scan sees are noted.
LEMMA OperandNoted ==
    ASSUME PlainNames, NEW st \in PlainStatement, NEW o, Seen(st, o)
    PROVE  [n |-> o.n, t |-> from_suffix(o.s)] \in Noted(st)
  <1> USE StatementParts DEF Seen
  <1>1. CASE st.op \in {"dim", "shared", "assign", "print", "byref", "inc", "read"}
    BY <1>1 DEF Noted
  <1>3. CASE st.op = "swap"
    <2>1. Noted(st) = {[n |-> SwapName(q), t |-> from_suffix(q.s)] : q \in Operands(st)}
      BY <1>3 DEF Noted
    <2>2. SwapName(o) = o.n
      BY <1>3, SwapNames
    <2> QED
      BY <2>1, <2>2
  <1>2. CASE st.op = "for"
    <2>1. o = st.l /\ o.s = ""
      BY <1>2 DEF Number
    <2>2. from_suffix(o.s) = "integer"
      BY <2>1 DEF from_suffix
    <2>3. Noted(st) = {[n |-> st.l.n, t |-> "integer"]}
      BY <1>2 DEF Noted
    <2> QED
      BY <2>1, <2>2, <2>3
  <1> QED
    BY <1>1, <1>2, <1>3

\* Every statement of a body is a plain one.
LEMMA BodyStatement ==
    ASSUME NEW f, FunctionOK(f), NEW i \in DOMAIN f.body
    PROVE  f.body[i] \in PlainStatement
BY DEF FunctionOK

\* The operand of a statement is one of the function's uses.
LEMMA OperandUsed ==
    ASSUME NEW f, NEW i \in DOMAIN f.body, f.body[i].op # "dim_array", NEW o \in Operands(f.body[i])
    PROVE  o \in Uses(f)
BY DEF Uses

\* A base that collides is used with both types.
LEMMA ClashMixed ==
    ASSUME PlainNames, NEW f, FunctionOK(f), NEW n \in Clashes(f), n \in ScalarNames
    PROVE  Mixed(f, n)
  <1>1. PICK k, o \in UNION {Noted(f.body[i]) : i \in DOMAIN f.body} :
           k.n = n /\ o.n = n /\ o.t = "string" /\ k.t # "string"
    BY DEF Clashes, scan_body_collisions
  <1>2. PICK i \in DOMAIN f.body, j \in DOMAIN f.body : k \in Noted(f.body[i]) /\ o \in Noted(f.body[j])
    BY <1>1
  <1>3. f.body[i] \in PlainStatement /\ f.body[j] \in PlainStatement
    BY BodyStatement
  <1>4. PICK q \in Operands(f.body[i]) : q.n = n /\ q.s # "$"
    BY <1>1, <1>2, <1>3, NotedOperand
  <1>5. PICK w \in Operands(f.body[j]) : w.n = n /\ w.s = "$"
    BY <1>1, <1>2, <1>3, NotedOperand
  <1>6. q \in Uses(f) /\ w \in Uses(f)
    BY <1>1, <1>2, <1>3, NotedOperand, OperandUsed
  <1>7. q \in Scalar
    BY <1>3, <1>4, StatementParts, ElementParts
  <1>8. q.s = ""
    BY <1>4, <1>7, ScalarParts
  <1> QED
    BY <1>4, <1>5, <1>6, <1>8 DEF Mixed

\* Live spellings are uses.
LEMMA LiveUsed ==
    ASSUME NEW f, NEW o \in Live(f)
    PROVE  o \in Uses(f) /\ o \in Scalar
BY DEF Live, Seen, Uses

\* Two live spellings of a base collide, unless one is a parameter.
LEMMA LiveClash ==
    ASSUME PlainNames, NEW f, FunctionOK(f), ParamsApart(f), NEW o \in Live(f), NEW q \in Live(f),
           o.n = q.n, o.s = "$", q.s = ""
    PROVE  o.n \in Clashes(f)
  <1>1. Mixed(f, o.n)
    BY LiveUsed DEF Mixed
  <1>2. o \notin f.params /\ q \notin f.params
    BY <1>1 DEF ParamsApart
  <1>3. PICK i \in DOMAIN f.body : Seen(f.body[i], o)
    BY <1>2 DEF Live
  <1>4. PICK j \in DOMAIN f.body : Seen(f.body[j], q)
    BY <1>2 DEF Live
  <1>5. f.body[i] \in PlainStatement /\ f.body[j] \in PlainStatement
    BY BodyStatement
  <1> DEFINE k == [n |-> o.n, t |-> from_suffix(o.s)]
             m == [n |-> q.n, t |-> from_suffix(q.s)]
  <1>6. k \in Noted(f.body[i]) /\ m \in Noted(f.body[j])
    BY <1>3, <1>4, <1>5, OperandNoted
  <1>7. k.n = o.n /\ m.n = o.n /\ k.t = "string" /\ m.t # "string"
    BY SuffixType
  <1> HIDE DEF k, m
  <1> QED
    BY <1>6, <1>7 DEF Clashes, scan_body_collisions

\* A shared or otherwise live string whose base is mixed collides.
LEMMA MixedClash ==
    ASSUME PlainNames, NEW f, FunctionOK(f), ParamsApart(f), NEW o \in Live(f), o.s = "$", Mixed(f, o.n)
    PROVE  o.n \in Clashes(f)
  <1>1. PICK q \in Uses(f) : q.n = o.n /\ q.s = ""
    BY DEF Mixed
  <1>2. q \notin f.params
    BY <1>1 DEF ParamsApart
  <1>3. PICK i \in DOMAIN f.body : f.body[i].op # "dim_array" /\ q \in Operands(f.body[i])
    BY <1>2 DEF Uses
  <1>4. q \in Scalar
    BY <1>1, <1>3, BodyStatement, StatementParts, ElementParts
  <1>5. f.body[i].op \notin {"brace", "byte"}
    BY <1>1, <1>3, BodyStatement, StatementParts DEF String
  <1>6. q \in Live(f)
    BY <1>1, <1>3, <1>4, <1>5 DEF Live, Seen
  <1> QED
    BY <1>1, <1>6, LiveClash

-----------------------------------------------------------------------------
(* Names of slots, and the keys made of them *)

\* A slot's name has the spelling's base.
LEMMA NameParts ==
    ASSUME PlainNames, NEW f, NEW o \in Scalar
    PROVE  /\ NameOf(f, o)[1] = o.n[1]
           /\ NameOf(f, o) = IF o.s = "$" /\ o.n \in Clashes(f) THEN <<o.n[1], "$">> ELSE o.n
           /\ o.s = "" => NameOf(f, o) = o.n
           /\ o.n \notin Clashes(f) => NameOf(f, o) = o.n
  <1>1. \A c, d : <<c, d>>[1] = c
    OBVIOUS
  <1> QED
    BY <1>1 DEF NameOf

\* The names of the programs are told by their bases.
LEMMA SameBase ==
    ASSUME PlainNames, NEW o \in Scalar, NEW q \in Scalar, o.n[1] = q.n[1]
    PROVE  o.n = q.n
  <1>1. o.n = <<o.n[1], "">> /\ q.n = <<q.n[1], "">>
    BY ScalarParts
  <1> DEFINE b == o.n[1]
             c == q.n[1]
  <1>2. o.n = <<b, "">> /\ q.n = <<c, "">> /\ b = c
    BY <1>1
  <1> HIDE DEF b, c
  <1> QED
    BY <1>2

\* A name with a suffix is not one of the names of the programs.
LEMMA TextName ==
    ASSUME PlainNames, NEW o \in Scalar, NEW q \in Scalar
    PROVE  <<o.n[1], "$">> # q.n
  <1>1. q.n[2] = ""
    BY ScalarParts
  <1>2. \A c, d, n : n = <<c, d>> => n[2] = d
    OBVIOUS
  <1>3. <<o.n[1], "$">> = q.n => q.n[2] = "$"
    BY <1>2
  <1> QED
    BY <1>1, <1>3

\* Two live spellings have two slots.
LEMMA NameInjective ==
    ASSUME PlainNames, NEW f, FunctionOK(f), ParamsApart(f), NEW o \in Live(f), NEW q \in Live(f),
           NameOf(f, o) = NameOf(f, q)
    PROVE  o = q
  <1>1. o \in Scalar /\ q \in Scalar
    BY LiveUsed
  <1>2. o.n = q.n
    BY <1>1, NameParts, SameBase
  <1>3. o.s \in {"", "$"} /\ q.s \in {"", "$"}
    BY <1>1, ScalarParts
  <1>4. CASE o.s = "$" /\ q.s = ""
    BY <1>1, <1>2, <1>4, LiveClash, NameParts, TextName
  <1>5. CASE q.s = "$" /\ o.s = ""
    BY <1>1, <1>2, <1>5, LiveClash, NameParts, TextName
  <1> QED
    BY <1>1, <1>2, <1>3, <1>4, <1>5, SameScalar

\* The kinds of keys.
LEMMA KeyKinds ==
    ASSUME NEW e, NEW f, NEW o, NEW n
    PROVE  /\ LocalKey(e, f, o)[1] = "local" /\ RefLocal(o)[1] = "local"
           /\ SharedKey(f, o)[1] = "shared" /\ RefShared(o)[1] = "shared"
           /\ <<"elem", n>>[1] = "elem"
  <1>1. \A b, c : <<b, c>>[1] = b
    OBVIOUS
  <1>2. \A b, c, d : <<b, c, d>>[1] = b
    OBVIOUS
  <1>3. \A b, c, d, i : <<b, c, d, i>>[1] = b
    OBVIOUS
  <1> QED
    BY <1>1, <1>2, <1>3 DEF LocalKey, SharedKey, RefLocal, RefShared

\* So do two live locals have two keys, in either engine.
LEMMA LocalInjective ==
    ASSUME PlainNames, NEW e, NEW f, FunctionOK(f), ParamsApart(f), NEW o \in Live(f), NEW q \in Live(f)
    PROVE  LocalKey(e, f, o) = LocalKey(e, f, q) <=> o = q
  <1>1. \A b, c : <<b, c>>[2] = c
    OBVIOUS
  <1>2. \A b, c, d : <<b, c, d>>[2] = c
    OBVIOUS
  <1>3. LocalKey(e, f, o)[2] = NameOf(f, o) /\ LocalKey(e, f, q)[2] = NameOf(f, q)
    BY <1>1, <1>2 DEF LocalKey
  <1> QED
    BY <1>3, NameInjective

LEMMA SharedEqual ==
    ASSUME NEW f, NEW g, NEW o, NEW q
    PROVE  SharedKey(f, o) = SharedKey(g, q) <=> NameOf(f, o) = NameOf(g, q)
BY DEF SharedKey

\* Two spellings have two keys in the reference.
LEMMA RefInjective ==
    ASSUME PlainNames, NEW o \in Scalar, NEW q \in Scalar
    PROVE  /\ RefLocal(o) = RefLocal(q) <=> o = q
           /\ RefShared(o) = RefShared(q) <=> o = q
  <1>1. \A b, c, d, i : <<b, c, d, i>>[2] = c /\ <<b, c, d, i>>[3] = d
    OBVIOUS
  <1>2. CASE RefLocal(o) = RefLocal(q) \/ RefShared(o) = RefShared(q)
    <2>1. o.n[1] = q.n[1] /\ (o.s = "$" <=> q.s = "$")
      BY <1>1, <1>2 DEF RefLocal, RefShared
    <2> QED
      BY <2>1, SameBase, SameScalar
  <1> QED
    BY <1>2

-----------------------------------------------------------------------------
(* The slot that each statement's path finds *)

\* The slot has the operand's storage and name.
Named(slot, f, D, o) == slot.st = (IF o \in D THEN "shared" ELSE "local") /\ slot.n = NameOf(f, o)

\* And, a local one, its type.
Means(slot, f, D, o) == Named(slot, f, D, o) /\ (o \notin D => (slot.t = "string" <=> o.s = "$"))

\* Storage and name are all that the interpreter's key takes.
LEMMA NamesKey ==
    ASSUME PlainNames, NEW f, NEW D, NEW o \in Scalar, NEW slot,
           Named(slot, f, D, o)
    PROVE  Key("interp", slot) = Place("interp", f, D, o)
BY ScalarParts DEF Key, Place, Named, SlotKey, SharedKey, LocalKey

\* The type is the rest of the C program's.
LEMMA MeansKey ==
    ASSUME PlainNames, NEW f, NEW D, NEW o \in Scalar, NEW slot, NEW e \in Engines,
           Means(slot, f, D, o)
    PROVE  Key(e, slot) = Place(e, f, D, o)
  <1>1. CASE e = "interp"
    BY <1>1, NamesKey DEF Means
  <1>2. CASE e = "c"
    <2>1. Key(e, slot) = IF slot.st = "local" THEN <<slot.st, slot.n, slot.t = "string">>
                         ELSE <<slot.st, slot.n>>
      BY <1>2 DEF Key, CKey
    <2>2. Place(e, f, D, o) = IF o \in D THEN <<"shared", NameOf(f, o)>>
                              ELSE <<"local", NameOf(f, o), o.s = "$">>
      BY <1>2, ScalarParts DEF Place, SharedKey, LocalKey
    <2> QED
      BY <2>1, <2>2 DEF Means, Named
  <1> QED
    BY <1>1, <1>2 DEF Engines

\* slot_name gives the name of the slot.
LEMMA SlotName ==
    ASSUME PlainNames, NEW f, NEW D, NEW a, TablesOK(a, f, D), NEW o \in Scalar
    PROVE  slot_name(a, o.n, o.s) = NameOf(f, o)
  <1>1. a.collisions = Clashes(f)
    BY DEF TablesOK
  <1>2. CASE o.s = "$"
    <2>1. from_suffix(o.s) = "string" /\ full_name(o.n, o.s) = <<o.n[1], "$">>
      BY <1>2, SuffixType DEF full_name
    <2> QED
      BY <1>1, <1>2, <2>1 DEF slot_name, NameOf
  <1>3. CASE o.s # "$"
    BY <1>3, SuffixType DEF slot_name, NameOf
  <1> QED
    BY <1>2, <1>3

\* The shared scalars are those declared so.
LEMMA SharedScalar ==
    ASSUME PlainNames, NEW f, FunctionOK(f), ParamsApart(f), NEW D, D \subseteq Live(f),
           NEW a, TablesOK(a, f, D), NEW o \in Live(f)
    PROVE  NameOf(f, o) \in a.shared_scalars <=> o \in D
BY NameInjective DEF TablesOK

LEMMA ValueType ==
    ASSUME PlainNames, NEW o \in Scalar
    PROVE  ref_value_type(o.n, o.s) = from_suffix(o.s)
BY ScalarParts DEF ref_value_type

LEMMA SlotParts ==
    ASSUME NEW st, NEW n, NEW t
    PROVE  Slot(st, n, t).st = st /\ Slot(st, n, t).n = n /\ Slot(st, n, t).t = t
BY DEF Slot

\* What the slots that the analysis makes mean.
LEMMA LocalMeans ==
    ASSUME PlainNames, NEW f, NEW D, NEW o \in Scalar, o \notin D, NEW t, t = from_suffix(o.s)
    PROVE  Means(Local(NameOf(f, o), t), f, D, o)
BY SlotParts, SuffixType DEF Means, Named, Local

LEMMA SharedMeans ==
    ASSUME NEW f, NEW D, NEW o \in D, NEW t
    PROVE  Means(Slot("shared", NameOf(f, o), t), f, D, o)
BY SlotParts DEF Means, Named

\* The name without its suffix, where the base is the slot's name.
LEMMA BareMeans ==
    ASSUME PlainNames, NEW f, NEW D, NEW o \in Scalar, o \notin D, NameOf(f, o) = o.n,
           NEW t, t = from_suffix(o.s)
    PROVE  Means(Local(o.n, t), f, D, o)
BY LocalMeans

\* symbol finds every live spelling, whatever came before.
LEMMA SymbolMeans ==
    ASSUME PlainNames, NEW f, FunctionOK(f), ParamsApart(f), NEW D, D \subseteq Live(f),
           NEW a, TablesOK(a, f, D), SymbolsOK(a, f), NEW o \in Live(f)
    PROVE  Means(symbol(a, o.n, o.s), f, D, o)
  <1> DEFINE vt == from_suffix(o.s)
             x == NameOf(f, o)
  <1>1. o \in Scalar
    BY LiveUsed
  <1>2. slot_name(a, o.n, o.s) = x /\ (x \in a.shared_scalars <=> o \in D) /\ ref_value_type(o.n, o.s) = vt
    BY <1>1, SlotName, SharedScalar, ValueType
  <1>3. ~shared_read_symbol(a, o.n, o.s) /\ a.collisions = Clashes(f)
    BY DEF shared_read_symbol, TablesOK
  <1>4. CASE o \in D
    BY <1>2, <1>4, SharedMeans DEF symbol, shared_variable
  <1>5. CASE o \notin D /\ o.n \in Clashes(f)
    <2>1. symbol(a, o.n, o.s) = Local(x, vt)
      BY <1>2, <1>3, <1>5 DEF symbol
    <2> QED
      BY <1>1, <1>5, <2>1, LocalMeans
  <1>6. CASE o \notin D /\ o.n \notin Clashes(f)
    <2>1. x = o.n
      BY <1>1, <1>6, NameParts
    <2>2. CASE ~Known(a, o.n)
      <3>1. symbol(a, o.n, o.s) = Local(o.n, vt)
        BY <1>2, <1>3, <1>6, <2>2 DEF symbol
      <3> QED
        BY <1>1, <1>6, <2>1, <3>1, BareMeans
    <2>3. CASE Known(a, o.n)
      <3>1. a.symbols[o.n] = vt
        BY <1>6, <2>3 DEF SymbolsOK, Known
      <3>2. symbol(a, o.n, o.s) = checked_symbol(a, o.n)
        BY <1>2, <1>3, <1>6, <2>3, <3>1 DEF symbol
      <3> QED
        BY <1>1, <1>6, <2>1, <3>1, <3>2, BareMeans DEF checked_symbol
    <2> QED
      BY <2>2, <2>3
  <1> QED
    BY <1>4, <1>5, <1>6

\* byref_symbol does not look at the collisions: right for all but a colliding string.
LEMMA ByrefMeans ==
    ASSUME PlainNames, NEW f, FunctionOK(f), ParamsApart(f), NEW D, D \subseteq Live(f),
           NEW a, TablesOK(a, f, D), SymbolsOK(a, f), NEW o \in Live(f),
           ~(Mixed(f, o.n) /\ IsText(o))
    PROVE  Means(byref_symbol(a, o.n, o.s), f, D, o)
  <1> DEFINE vt == from_suffix(o.s)
             x == NameOf(f, o)
  <1>1. o \in Scalar
    BY LiveUsed
  <1>2. slot_name(a, o.n, o.s) = x /\ (x \in a.shared_scalars <=> o \in D) /\ ref_value_type(o.n, o.s) = vt
    BY <1>1, SlotName, SharedScalar, ValueType
  <1>3. x = o.n
    <2>1. o.s = "$" => o.n \notin Clashes(f)
      BY <1>1, ScalarParts, ClashMixed
    <2> QED
      BY <1>1, <2>1, ScalarParts, NameParts
  <1>4. CASE o \in D
    BY <1>2, <1>4, SharedMeans DEF byref_symbol, shared_variable
  <1>5. CASE o \notin D /\ ~Known(a, o.n)
    <2>1. byref_symbol(a, o.n, o.s) = Local(o.n, vt)
      BY <1>2, <1>5 DEF byref_symbol
    <2> QED
      BY <1>1, <1>3, <1>5, <2>1, BareMeans
  <1>6. CASE o \notin D /\ Known(a, o.n) /\ a.symbols[o.n] = vt
    <2>1. byref_symbol(a, o.n, o.s) = Local(o.n, vt)
      BY <1>2, <1>6 DEF byref_symbol, checked_symbol
    <2> QED
      BY <1>1, <1>3, <1>6, <2>1, BareMeans
  <1>7. CASE o \notin D /\ Known(a, o.n) /\ a.symbols[o.n] # vt
    <2>1. byref_symbol(a, o.n, o.s) = Local(full_name(o.n, o.s), vt)
      BY <1>2, <1>7 DEF byref_symbol
    <2>2. o.n \in Clashes(f)
      BY <1>7 DEF SymbolsOK, Known
    <2>3. o.s = ""
      BY <1>1, <2>2, ScalarParts, ClashMixed
    <2>4. full_name(o.n, o.s) = o.n
      BY <2>3 DEF full_name
    <2> QED
      BY <1>1, <1>3, <1>7, <2>1, <2>4, BareMeans
  <1> QED
    BY <1>4, <1>5, <1>6, <1>7

\* The symbol entered where there was none.
Entered(a, o) == [a EXCEPT !.symbols = OrPut(@, o.n, from_suffix(o.s))]

\* The tables stay right.
LEMMA EnteredTables ==
    ASSUME PlainNames, NEW f, FunctionOK(f), ParamsApart(f), NEW D,
           NEW a, TablesOK(a, f, D), SymbolsOK(a, f), NEW o \in Live(f)
    PROVE  /\ TablesOK(Entered(a, o), f, D) /\ SymbolsOK(Entered(a, o), f)
           /\ Entered(a, o).symbols = OrPut(a.symbols, o.n, from_suffix(o.s))
           /\ Entered(a, o).arrays = a.arrays
           /\ DOMAIN Entered(a, o).symbols = DOMAIN a.symbols \cup {o.n}
  <1> DEFINE b == Entered(a, o)
             t == from_suffix(o.s)
  <1>1. /\ b.symbols = OrPut(a.symbols, o.n, t) /\ b.arrays = a.arrays
        /\ b.collisions = a.collisions /\ b.shared_writes = a.shared_writes
        /\ b.shared_scalars = a.shared_scalars /\ DOMAIN b = DOMAIN a
    BY DEF TablesOK, Entered
  <1>2. TablesOK(b, f, D)
    BY <1>1 DEF TablesOK
  <1>3. DOMAIN b.symbols = DOMAIN a.symbols \cup {o.n}
    BY <1>1 DEF OrPut, Put
  <1>4. ASSUME NEW q \in Live(f), q.n \in DOMAIN b.symbols, q.n \notin Clashes(f)
        PROVE  b.symbols[q.n] = from_suffix(q.s)
    <2>1. CASE q.n \in DOMAIN a.symbols
      <3>1. b.symbols[q.n] = a.symbols[q.n]
        BY <1>1, <2>1 DEF OrPut, Put
      <3> QED
        BY <1>4, <2>1, <3>1 DEF SymbolsOK
    <2>2. CASE q.n \notin DOMAIN a.symbols
      <3>1. q.n = o.n /\ b.symbols[q.n] = t
        BY <1>1, <1>3, <1>4, <2>2 DEF OrPut, Put
      <3>2. o \in Scalar /\ q \in Scalar
        BY LiveUsed
      <3>3. o.s = q.s
        BY <1>4, <3>1, <3>2, LiveClash, ScalarParts
      <3> QED
        BY <3>1, <3>3
    <2> QED
      BY <2>1, <2>2
  <1> QED
    BY <1>1, <1>2, <1>3, <1>4 DEF SymbolsOK

\* An assignment enters the symbol, and stores to the spelling.
LEMMA AssignmentMeans ==
    ASSUME PlainNames, NEW f, FunctionOK(f), ParamsApart(f), NEW D, D \subseteq Live(f),
           NEW a, TablesOK(a, f, D), SymbolsOK(a, f), NEW o \in Live(f)
    PROVE  /\ assignment(a, o).an = Entered(a, o)
           /\ \E slot : assignment(a, o).items = <<Set(slot)>> /\ Means(slot, f, D, o)
  <1> DEFINE vt == from_suffix(o.s)
             x == NameOf(f, o)
             b == Entered(a, o)
             slot == IF x \in a.shared_scalars THEN Slot("shared", x, vt)
                     ELSE IF o.n \in a.collisions THEN Local(x, vt)
                     ELSE IF o.s = "" \/ b.symbols[o.n] = vt THEN checked_symbol(b, o.n)
                     ELSE Local(full_name(o.n, o.s), vt)
  <1>1. o \in Scalar
    BY LiveUsed
  <1>2. slot_name(a, o.n, o.s) = x /\ (x \in a.shared_scalars <=> o \in D)
    BY <1>1, SlotName, SharedScalar
  <1>3. assignment(a, o) = Out(b, <<Set(slot)>>)
    BY <1>2 DEF assignment, Entered
  <1>4. a.collisions = Clashes(f)
    BY DEF TablesOK
  <1>5. ASSUME o \in D PROVE Means(slot, f, D, o)
    <2>1. slot = Slot("shared", x, vt)
      BY <1>2, <1>5
    <2> HIDE DEF slot
    <2> QED
      BY <1>5, <2>1, SharedMeans
  <1>6. ASSUME o \notin D, o.n \in Clashes(f) PROVE Means(slot, f, D, o)
    <2>1. slot = Local(x, vt)
      BY <1>2, <1>4, <1>6
    <2> HIDE DEF slot
    <2> QED
      BY <1>1, <1>6, <2>1, LocalMeans
  <1>7. ASSUME o \notin D, o.n \notin Clashes(f) PROVE Means(slot, f, D, o)
    <2>1. b.symbols[o.n] = vt
      BY <1>7, EnteredTables DEF SymbolsOK
    <2>2. slot = Local(o.n, vt)
      BY <1>2, <1>4, <1>7, <2>1 DEF checked_symbol
    <2>3. Means(Local(o.n, vt), f, D, o)
      BY <1>1, <1>7, BareMeans, NameParts
    <2> HIDE DEF slot
    <2> QED
      BY <2>2, <2>3
  <1> HIDE DEF slot, b
  <1>8. Means(slot, f, D, o)
    BY <1>5, <1>6, <1>7
  <1>9. assignment(a, o).an = b /\ assignment(a, o).items = <<Set(slot)>>
    BY <1>3 DEF Out
  <1> QED
    BY <1>8, <1>9 DEF b

\* READ too, to one that is neither mixed nor shared.
LEMMA ReadMeans ==
    ASSUME PlainNames, NEW f, FunctionOK(f), ParamsApart(f), NEW D, D \subseteq Live(f),
           NEW a, TablesOK(a, f, D), SymbolsOK(a, f), NEW o \in Live(f),
           o \notin D, ~Mixed(f, o.n)
    PROVE  /\ read_stmt(a, o).an = Entered(a, o)
           /\ \E slot : read_stmt(a, o).items = <<Set(slot)>> /\ Means(slot, f, D, o)
  <1> DEFINE b == Entered(a, o)
             slot == Local(o.n, b.symbols[o.n])
  <1>1. o \in Scalar /\ o.n \notin Clashes(f)
    BY LiveUsed, ScalarParts, ClashMixed
  <1>2. b.symbols[o.n] = from_suffix(o.s)
    BY <1>1, EnteredTables DEF SymbolsOK
  <1>3. Means(slot, f, D, o)
    BY <1>1, <1>2, BareMeans, NameParts
  <1>4. read_stmt(a, o) = Out(b, <<Set(slot)>>)
    BY DEF read_stmt, Entered, checked_symbol
  <1> HIDE DEF b, slot
  <1>5. read_stmt(a, o).an = b /\ read_stmt(a, o).items = <<Set(slot)>>
    BY <1>4 DEF Out
  <1> QED
    BY <1>3, <1>5 DEF b

\* INC names the slot, with the type of the symbol, right or not.
LEMMA IncNames ==
    ASSUME PlainNames, NEW f, FunctionOK(f), ParamsApart(f), NEW D, D \subseteq Live(f),
           NEW a, TablesOK(a, f, D), SymbolsOK(a, f), NEW o \in Live(f), o.s = ""
    PROVE  /\ inc_dec(a, o).an = a
           /\ \E slot : /\ inc_dec(a, o).items = <<Set(slot)>> /\ Named(slot, f, D, o)
                        /\ ~Mixed(f, o.n) => Means(slot, f, D, o)
  <1> DEFINE x == NameOf(f, o)
             t == IF Known(a, o.n) THEN a.symbols[o.n] ELSE from_suffix(o.s)
             slot == IF x \in a.shared_scalars THEN Slot("shared", x, t) ELSE Local(o.n, t)
  <1>1. o \in Scalar /\ x = o.n
    BY LiveUsed, NameParts
  <1>2. slot_name(a, o.n, o.s) = x /\ (x \in a.shared_scalars <=> o \in D)
    BY <1>1, SlotName, SharedScalar
  <1>3. inc_dec(a, o) = Out(a, <<Set(slot)>>)
    <2> DEFINE target == IF Known(a, o.n) THEN checked_symbol(a, o.n) ELSE Local(o.n, from_suffix(o.s))
    <2>2. target = Slot("local", o.n, t)
      BY DEF checked_symbol, Local
    <2>3. inc_dec(a, o) = Out(a, <<Set(IF x \in a.shared_scalars THEN Slot("shared", x, target.t) ELSE target)>>)
      BY <1>2 DEF inc_dec
    <2>4. target.t = t
      BY ONLY <2>2, SlotParts
    <2> QED
      BY <2>2, <2>3, <2>4 DEF Local
  <1>4. ASSUME o \in D PROVE Means(slot, f, D, o)
    <2>1. slot = Slot("shared", x, t)
      BY <1>2, <1>4
    <2> HIDE DEF slot, t
    <2> QED
      BY <1>4, <2>1, SharedMeans
  <1>5. ASSUME o \notin D PROVE Named(slot, f, D, o)
    <2>1. slot = Slot("local", o.n, t)
      BY <1>2, <1>5 DEF Local
    <2> HIDE DEF slot, t
    <2>2. slot.st = "local" /\ slot.n = o.n
      BY ONLY <2>1, SlotParts
    <2> QED
      BY <1>1, <1>5, <2>2 DEF Named
  <1>6. ASSUME o \notin D, ~Mixed(f, o.n) PROVE Means(slot, f, D, o)
    <2>1. o.n \notin Clashes(f)
      BY <1>1, <1>6, ScalarParts, ClashMixed
    <2>2. slot = Local(o.n, from_suffix(o.s))
      BY <1>2, <1>6, <2>1 DEF SymbolsOK, Known, checked_symbol
    <2> HIDE DEF slot
    <2> QED
      BY <1>1, <1>6, <2>2, BareMeans
  <1> HIDE DEF slot, t, x
  <1>7. Named(slot, f, D, o) /\ (~Mixed(f, o.n) => Means(slot, f, D, o))
    BY <1>4, <1>5, <1>6 DEF Means
  <1>8. inc_dec(a, o).an = a /\ inc_dec(a, o).items = <<Set(slot)>>
    BY ONLY <1>3 DEF Out
  <1> QED
    BY <1>7, <1>8

\* FOR has a local of the bare name.
LEMMA ForMeans ==
    ASSUME PlainNames, NEW f, NEW D, NEW a, NEW o \in Scalar, o.s = "", o \notin D
    PROVE  /\ for_stmt(a, o).an = a
           /\ \E slot : for_stmt(a, o).items = <<Set(slot)>> /\ Means(slot, f, D, o)
  <1>1. from_suffix(o.s) = "integer"
    BY DEF from_suffix
  <1>2. Means(Local(o.n, "integer"), f, D, o)
    BY <1>1, BareMeans, NameParts
  <1> QED
    BY <1>2 DEF for_stmt, Out

\* The item of a by-reference argument.
LEMMA ByrefResult ==
    ASSUME PlainNames, NEW f, FunctionOK(f), ParamsApart(f), NEW D, D \subseteq Live(f),
           NEW a, TablesOK(a, f, D), SymbolsOK(a, f), NEW o \in Live(f),
           ~(Mixed(f, o.n) /\ IsText(o))
    PROVE  /\ call_arg(a, o).an = a
           /\ \E slot : call_arg(a, o).items = <<Set(slot)>> /\ Means(slot, f, D, o)
  <1> DEFINE slot == byref_symbol(a, o.n, o.s)
  <1>1. Means(slot, f, D, o)
    BY ByrefMeans
  <1>2. call_arg(a, o).an = a /\ call_arg(a, o).items = <<Set(slot)>>
    BY DEF call_arg, Out
  <1> HIDE DEF slot
  <1> QED
    BY <1>1, <1>2

\* A string's braces find it when it has been introduced and is not mixed.
LEMMA BraceMeans ==
    ASSUME PlainNames, NEW f, FunctionOK(f), ParamsApart(f), NEW D, D \subseteq Live(f),
           NEW a, TablesOK(a, f, D), SymbolsOK(a, f), ArraysOK(a, f), NEW I, NEW r,
           IntroducedOK(a, f, I, r), NEW o \in Live(f), o.s = "$", o \in I, ~Mixed(f, o.n)
    PROVE  /\ brace_assignment(a, o).an = a
           /\ \E slot : brace_assignment(a, o).items = <<Set(slot)>> /\ Means(slot, f, D, o)
  <1> DEFINE x == NameOf(f, o)
             slot == IF x \in a.shared_scalars THEN Slot("shared", x, "string")
                     ELSE checked_symbol(a, o.n)
  <1>1. o \in Scalar /\ o \in Uses(f) /\ o \in String
    BY LiveUsed DEF String
  <1>2. o.n \notin Clashes(f)
    BY <1>1, ScalarParts, ClashMixed
  <1>3. slot_name(a, o.n, o.s) = x /\ (x \in a.shared_scalars <=> o \in D)
    BY <1>1, SlotName, SharedScalar
  <1>4. full_name(o.n, o.s) \notin DOMAIN a.arrays
    BY <1>1 DEF ArraysOK
  <1>5. Known(a, o.n)
    BY <1>1, <1>2 DEF IntroducedOK, Known
  <1>6. a.symbols[o.n] = "string"
    BY <1>2, <1>5, SuffixType DEF SymbolsOK, Known
  <1>7. brace_assignment(a, o) = Out(a, <<Set(slot)>>)
    BY <1>3, <1>4, <1>5, <1>6 DEF brace_assignment
  <1>8. ASSUME o \in D PROVE Means(slot, f, D, o)
    BY <1>3, <1>8, SharedMeans
  <1>9. ASSUME o \notin D PROVE Means(slot, f, D, o)
    <2>1. slot = Local(o.n, from_suffix(o.s))
      BY <1>3, <1>6, <1>9, SuffixType DEF checked_symbol
    <2> HIDE DEF slot
    <2> QED
      BY <1>1, <1>2, <1>9, <2>1, BareMeans, NameParts
  <1> HIDE DEF slot
  <1>10. brace_assignment(a, o).an = a /\ brace_assignment(a, o).items = <<Set(slot)>>
    BY <1>7 DEF Out
  <1> QED
    BY <1>8, <1>9, <1>10

Show(slot) == [k |-> "print", to |-> slot]
ByteFinds(out, f, D, o, r) ==
    \/ \E slot : out.items = <<Show(slot)>> /\ Means(slot, f, D, o)
    \/ /\ out.items = <<>> \/ \E slot : out.items = <<Show(slot)>> /\ SlotKey(slot) = TextElement(o)
                                                                 /\ CKey(slot) = TextElement(o)
       /\ o \notin D /\ ValueAt(r, RefLocal(o)) = 0

\* Reading a byte of it does so too; where it finds no scalar, nothing was stored.
LEMMA ByteMeans ==
    ASSUME PlainNames, NEW f, FunctionOK(f), ParamsApart(f), NEW D, D \subseteq Live(f),
           NEW a, TablesOK(a, f, D), SymbolsOK(a, f), ArraysOK(a, f), NEW I, NEW r,
           IntroducedOK(a, f, I, r), NEW o \in Live(f), o.s = "$", o \in I,
           o \in D => ~Mixed(f, o.n)
    PROVE  function_call(a, o).an = a /\ ByteFinds(function_call(a, o), f, D, o, r)
  <1> DEFINE slot == symbol(a, o.n, o.s)
             x == full_name(o.n, o.s)
             elem == Slot("elem", x, "string")
             out == function_call(a, o)
  <1>1. o \in Scalar /\ o \in Uses(f) /\ o \in String
    BY LiveUsed DEF String
  <1>2. x \notin DOMAIN a.arrays
    BY <1>1 DEF ArraysOK
  <1>3. out = IF Known(a, o.n) THEN Out(a, <<Show(slot)>>)
              ELSE IF Known(a, x) /\ a.symbols[x] = "string" THEN Out(a, <<Show(elem)>>)
              ELSE Out(a, <<>>)
    BY <1>2 DEF function_call, string_byte_read, Show
  <1>4. Means(slot, f, D, o)
    BY SymbolMeans
  <1>5. ASSUME ~Known(a, o.n)
        PROVE  o \notin D /\ ValueAt(r, RefLocal(o)) = 0
    <2>1. o.n \in Clashes(f)
      BY <1>1, <1>5 DEF IntroducedOK, Known
    <2>2. Mixed(f, o.n)
      BY <1>1, <2>1, ScalarParts, ClashMixed
    <2>3. ValueAt(r, RefLocal(o)) = 0
      BY <1>1, <1>5, <2>1 DEF IntroducedOK, Known
    <2> QED
      BY <2>2, <2>3
  <1>6. SlotKey(elem) = TextElement(o) /\ CKey(elem) = TextElement(o)
    BY SlotParts DEF SlotKey, CKey, TextElement, full_name
  <1> HIDE DEF slot, elem, x, out
  <1>7. out.an = a
    BY <1>3 DEF Out
  <1>8. CASE Known(a, o.n)
    <2>1. out.items = <<Show(slot)>>
      BY <1>3, <1>8 DEF Out
    <2> QED
      BY <1>4, <1>7, <2>1 DEF ByteFinds, out
  <1>9. CASE ~Known(a, o.n)
    <2>1. out.items = <<Show(elem)>> \/ out.items = <<>>
      BY <1>3, <1>9 DEF Out
    <2> QED
      BY <1>5, <1>6, <1>7, <1>9, <2>1 DEF ByteFinds, out
  <1> QED
    BY <1>8, <1>9

\* SWAP finds a number under its name, and a string that was introduced under the base's,
\* where it is alone.
LEMMA SwapMeans ==
    ASSUME PlainNames, NEW f, FunctionOK(f), ParamsApart(f), NEW D, D \subseteq Live(f),
           NEW a, TablesOK(a, f, D), SymbolsOK(a, f), ArraysOK(a, f), NEW I, NEW r,
           IntroducedOK(a, f, I, r), NEW o \in Live(f), o \notin D, ~Mixed(f, o.n),
           IsText(o) => o \in I
    PROVE  /\ SwapName(o) \notin a.shared_scalars
           /\ Means(auto_symbol(a, SwapName(o)), f, D, o)
  <1> DEFINE x == SwapName(o)
  <1>1. o \in Scalar /\ o \in Uses(f) /\ o.n \notin Clashes(f)
    BY LiveUsed, ScalarParts, ClashMixed
  <1>2. NameOf(f, o) = o.n
    BY <1>1, NameParts
  <1>3. o.n \notin a.shared_scalars
    BY <1>2, SharedScalar
  <1>4. \A c, d, n : n = <<c, d>> => n[1] = c /\ n[2] = d
    OBVIOUS
  <1>5. CASE o.s = ""
    <2>1. x = o.n /\ o.n[2] = "" /\ from_suffix(o.n[2]) = from_suffix(o.s)
      BY <1>1, <1>5, ScalarParts, SwapNames
    <2>2. auto_symbol(a, o.n) = Local(o.n, from_suffix(o.s))
      BY <1>1, <2>1 DEF auto_symbol, checked_symbol, SymbolsOK, Known
    <2> QED
      BY <1>1, <1>2, <1>3, <2>1, <2>2, BareMeans
  <1>6. CASE o.s = "$"
    <2>1. x = <<o.n[1], "$">> /\ x \notin ScalarNames /\ x = full_name(o.n, o.s)
      BY <1>1, <1>6, SwapNames DEF full_name
    <2>2. x[1] = o.n[1] /\ x[2] = "$"
      BY <1>4, <2>1
    <2>3. ~Known(a, x)
      BY <1>1, <1>6, <2>1 DEF ArraysOK, Known
    <2>4. <<x[1], "">> = o.n
      BY <1>1, <2>2, ScalarParts
    <2>5. Known(a, o.n) /\ a.symbols[o.n] = "string"
      <3>1. o \in String /\ o \in I
        BY <1>1, <1>6, ScalarParts DEF String
      <3>2. o.n \in DOMAIN a.symbols
        BY <1>1, <3>1 DEF IntroducedOK
      <3>3. a.symbols[o.n] = from_suffix(o.s)
        BY <1>1, <3>2 DEF SymbolsOK
      <3> QED
        BY <1>6, <3>2, <3>3, SuffixType DEF Known
    <2>6. auto_symbol(a, x) = Local(o.n, from_suffix(o.s))
      <3> HIDE DEF x
      <3> QED
        BY <1>6, <2>2, <2>3, <2>4, <2>5, SuffixType DEF auto_symbol, checked_symbol
    <2>7. x \notin a.shared_scalars
      <3>1. \A q \in D : NameOf(f, q) # x
        <4> TAKE q \in D
        <4>1. q \in Scalar
          BY LiveUsed
        <4>2. CASE q.n \in Clashes(f)
          <5>1. q.n[1] # o.n[1]
            BY <1>1, <4>1, <4>2, SameBase
          <5> QED
            BY <2>2, <4>1, <5>1, NameParts
        <4>3. CASE q.n \notin Clashes(f)
          BY <2>1, <4>1, <4>3, NameParts, ScalarParts
        <4> QED
          BY <4>2, <4>3
      <3> QED
        BY <3>1 DEF TablesOK
    <2> QED
      BY <1>1, <1>2, <2>6, <2>7, BareMeans
  <1> QED
    BY <1>1, <1>5, <1>6, ScalarParts

-----------------------------------------------------------------------------
(* The tables after a statement *)

\* A string alone in its base, or one whose entry is there, may be stored to.
LEMMA WriteIntroduced ==
    ASSUME PlainNames, NEW f, NEW D, NEW a, NEW I, NEW r, IntroducedOK(a, f, I, r),
           NEW o \in Scalar \cup Element, NEW v,
           o \in Live(f) /\ o.s = "$" /\ o.n \in Clashes(f) => o.n \in DOMAIN a.symbols
    PROVE  IntroducedOK(a, f, I, Put(r, RefPlace(D, o), v))
  <1> DEFINE k == RefPlace(D, o)
  <1>1. ASSUME NEW q \in String \cap Live(f), q.n \in Clashes(f), q.n \notin DOMAIN a.symbols
        PROVE  ValueAt(Put(r, k, v), RefLocal(q)) = 0
    <2>1. ValueAt(r, RefLocal(q)) = 0
      BY <1>1 DEF IntroducedOK
    <2>2. q \in Scalar /\ q.s = "$" /\ q # o
      BY <1>1 DEF String
    <2>3. k # RefLocal(q)
      BY <2>2, KeyKinds, RefInjective, ElementParts DEF RefPlace
    <2> HIDE DEF k
    <2> QED
      BY <2>1, <2>3, PutValue
  <1> HIDE DEF k
  <1>2. \A q \in String : q \in I /\ q.n \notin Clashes(f) => q.n \in DOMAIN a.symbols
    BY DEF IntroducedOK
  <1> QED
    BY <1>1, <1>2 DEF IntroducedOK, k

\* A string just entered and stored is introduced.
LEMMA EnteredIntroduced ==
    ASSUME PlainNames, NEW f, FunctionOK(f), ParamsApart(f), NEW D,
           NEW a, TablesOK(a, f, D), SymbolsOK(a, f), NEW I, NEW r, IntroducedOK(a, f, I, r),
           NEW o \in Live(f), NEW v
    PROVE  IntroducedOK(Entered(a, o), f, I \cup {o}, Put(r, RefPlace(D, o), v))
  <1> DEFINE b == Entered(a, o)
  <1>1. DOMAIN b.symbols = DOMAIN a.symbols \cup {o.n}
    BY EnteredTables
  <1> HIDE DEF b
  <1>2. IntroducedOK(b, f, I \cup {o}, r)
    BY <1>1 DEF IntroducedOK
  <1>3. o \in Scalar
    BY LiveUsed
  <1>4. IntroducedOK(b, f, I \cup {o}, Put(r, RefPlace(D, o), v))
    BY <1>1, <1>2, <1>3, WriteIntroduced
  <1> QED
    BY <1>4 DEF b

LEMMA IntroducedLess ==
    ASSUME NEW f, NEW a, NEW I, NEW r, IntroducedOK(a, f, I, r), NEW J, J \subseteq I
    PROVE  IntroducedOK(a, f, J, r)
BY DEF IntroducedOK

\* What is stored to has been used.
LEMMA WriteUntouched ==
    ASSUME PlainNames, NEW D, NEW U, NEW r, Untouched(U, r), NEW o \in Scalar \cup Element, NEW v
    PROVE  Untouched(U \cup {o}, Put(r, RefPlace(D, o), v))
  <1> SUFFICES ASSUME NEW q \in Scalar, q \notin U, q # o
               PROVE  ValueAt(Put(r, RefPlace(D, o), v), RefLocal(q)) = 0
    BY DEF Untouched
  <1> DEFINE k == RefPlace(D, o)
  <1>1. k # RefLocal(q)
    BY KeyKinds, RefInjective, ElementParts DEF RefPlace
  <1>2. ValueAt(r, RefLocal(q)) = 0
    BY DEF Untouched
  <1> HIDE DEF k
  <1>3. ValueAt(Put(r, k, v), RefLocal(q)) = 0
    BY <1>1, <1>2, PutValue
  <1> QED
    BY <1>3 DEF k

LEMMA UntouchedLess ==
    ASSUME NEW U, NEW r, Untouched(U, r), NEW W, U \subseteq W
    PROVE  Untouched(W, r)
BY DEF Untouched

\* DIM and SHARED of a scalar: the entry of the slot's name is the spelling's type.
Declares(a, b, f, o) ==
    /\ b.symbols = Put(a.symbols, NameOf(f, o), from_suffix(o.s)) /\ b.arrays = a.arrays
    /\ b.collisions = a.collisions /\ b.shared_writes = a.shared_writes
    /\ DOMAIN b = DOMAIN a

DimOf(a, o) == dimScalar(a, o, FALSE)
SharedOf(a, o) == dimScalar(a, o, TRUE)

LEMMA DimDeclares ==
    ASSUME PlainNames, NEW f, NEW D, NEW a, TablesOK(a, f, D), NEW o \in Scalar
    PROVE  LET out == DimOf(a, o)
           IN  /\ Declares(a, out.an, f, o) /\ out.an.shared_scalars = {NameOf(f, q) : q \in D}
               /\ out.items = <<[k |-> "dim", to |-> Slot("local", NameOf(f, o), from_suffix(o.s))]>>
  <1> DEFINE x == NameOf(f, o)
             t == from_suffix(o.s)
             out == DimOf(a, o)
  <1>1. slot_name(a, o.n, o.s) = x
    BY SlotName
  <1> HIDE DEF x, t
  <1>2. /\ out.an = [a EXCEPT !.symbols = Put(@, x, t), !.shared_scalars = @, !.shared = @]
        /\ out.items = <<[k |-> "dim", to |-> Slot("local", x, t)]>>
    BY <1>1 DEF DimOf, dimScalar, Out, t
  <1> HIDE DEF out
  <1> QED
    BY <1>2 DEF TablesOK, Declares, out, x, t

LEMMA SharedDeclares ==
    ASSUME PlainNames, NEW f, NEW D, NEW a, TablesOK(a, f, D), NEW o \in Scalar
    PROVE  LET out == SharedOf(a, o)
           IN  /\ Declares(a, out.an, f, o)
               /\ out.an.shared_scalars = {NameOf(f, q) : q \in D \cup {o}}
               /\ out.items = <<[k |-> "dim", to |-> Slot("shared", NameOf(f, o), from_suffix(o.s))]>>
  <1> DEFINE x == NameOf(f, o)
             t == from_suffix(o.s)
             out == SharedOf(a, o)
  <1>1. slot_name(a, o.n, o.s) = x
    BY SlotName
  <1> HIDE DEF x, t
  <1>2. /\ out.an = [a EXCEPT !.symbols = Put(@, x, t), !.shared_scalars = @ \cup {x},
                             !.shared = Put(@, x, t)]
        /\ out.items = <<[k |-> "dim", to |-> Slot("shared", x, t)]>>
    BY <1>1 DEF SharedOf, dimScalar, Out, t
  <1> HIDE DEF out
  <1>3. Declares(a, out.an, f, o)
    BY <1>2 DEF TablesOK, Declares, x, t
  <1>4. out.an.shared_scalars = a.shared_scalars \cup {x}
    BY <1>2 DEF TablesOK
  <1>5. out.an.shared_scalars = {NameOf(f, q) : q \in D \cup {o}}
    BY <1>4 DEF TablesOK, x
  <1> QED
    BY <1>2, <1>3, <1>5 DEF out, x, t

\* The tables stay right.
LEMMA DeclareTables ==
    ASSUME PlainNames, NEW f, FunctionOK(f), ParamsApart(f), NEW D,
           NEW a, TablesOK(a, f, D), SymbolsOK(a, f), NEW I, NEW r, IntroducedOK(a, f, I, r),
           NEW o \in Live(f), NEW b, Declares(a, b, f, o),
           NEW E, b.shared_scalars = {NameOf(f, q) : q \in E}
    PROVE  TablesOK(b, f, E) /\ SymbolsOK(b, f) /\ IntroducedOK(b, f, I \cup {o}, r)
  <1> DEFINE x == NameOf(f, o)
             t == from_suffix(o.s)
  <1>1. o \in Scalar
    BY LiveUsed
  <1>4. /\ b.symbols = Put(a.symbols, x, t) /\ b.arrays = a.arrays
        /\ b.collisions = a.collisions /\ b.shared_writes = a.shared_writes
        /\ DOMAIN b = DOMAIN a
    BY DEF Declares
  <1> HIDE DEF x, t
  <1>6. TablesOK(b, f, E)
    BY <1>4 DEF TablesOK
  <1>7. DOMAIN b.symbols = DOMAIN a.symbols \cup {x}
    BY <1>4 DEF Put
  <1>8. ASSUME NEW q \in Live(f), q.n \in DOMAIN b.symbols, q.n \notin Clashes(f)
        PROVE  b.symbols[q.n] = from_suffix(q.s)
    <2>0. q \in Scalar
      BY LiveUsed
    <2>1. CASE q.n # x
      <3>1. q.n \in DOMAIN a.symbols /\ b.symbols[q.n] = a.symbols[q.n]
        BY <1>4, <1>7, <1>8, <2>1 DEF Put
      <3> QED
        BY <1>8, <3>1 DEF SymbolsOK
    <2>2. CASE q.n = x
      <3>1. x = o.n
        BY <1>1, <2>0, <2>2, NameParts, TextName DEF x
      <3>2. o.s = q.s
        BY <1>1, <1>8, <2>0, <2>2, <3>1, LiveClash, ScalarParts
      <3>3. b.symbols[q.n] = t
        BY <1>4, <1>8, <2>2 DEF Put
      <3> QED
        BY <3>2, <3>3 DEF t
    <2> QED
      BY <2>1, <2>2
  <1>9. IntroducedOK(b, f, I \cup {o}, r)
    <2>1. o.n \notin Clashes(f) => x = o.n
      BY <1>1, NameParts DEF x
    <2> QED
      BY <1>7, <2>1 DEF IntroducedOK
  <1>10. SymbolsOK(b, f)
    BY <1>8 DEF SymbolsOK
  <1> QED
    BY <1>6, <1>9, <1>10

LEMMA FullName ==
    ASSUME PlainNames, NEW o \in Scalar
    PROVE  full_name(o.n, o.s)[1] = o.n[1]
  <1>1. \A b, c : <<b, c>>[1] = b
    OBVIOUS
  <1> QED
    BY <1>1 DEF full_name

\* The entry of a scalar's slot is that of no other string's full name.
LEMMA ArraysKept ==
    ASSUME PlainNames, NEW f, NEW a, ArraysOK(a, f), NEW o \in Scalar, NEW x \in {o.n, NameOf(f, o)},
           NEW b, b.arrays = a.arrays, DOMAIN b.symbols = DOMAIN a.symbols \cup {x}
    PROVE  ArraysOK(b, f)
  <1>1. ASSUME NEW q \in Uses(f) \cap Scalar, q.s = "$", q.n \notin Clashes(f)
        PROVE  full_name(q.n, q.s) # x
    <2>1. full_name(q.n, q.s) = <<q.n[1], "$">>
      BY <1>1 DEF full_name
    <2>2. CASE x = o.n
      BY <2>1, <2>2, TextName
    <2>3. CASE x # o.n
      <3>1. o.n \in Clashes(f) /\ x[1] = o.n[1]
        BY <2>3, NameParts
      <3>2. q.n[1] # o.n[1]
        BY <1>1, <3>1, SameBase
      <3> QED
        BY <3>1, <3>2, FullName
    <2> QED
      BY <2>2, <2>3
  <1> QED
    BY <1>1 DEF ArraysOK

\* DIM of an array whose base nothing else uses.
LEMMA ArrayTables ==
    ASSUME PlainNames, NEW f, NEW D, NEW a, TablesOK(a, f, D), SymbolsOK(a, f), ArraysOK(a, f),
           NEW I, NEW r, IntroducedOK(a, f, I, r),
           NEW o \in Scalar, \A q \in Uses(f) : q.n # o.n
    PROVE  LET b == dimArray(a, o).an
           IN  /\ TablesOK(b, f, D) /\ SymbolsOK(b, f) /\ ArraysOK(b, f) /\ IntroducedOK(b, f, I, r)
  <1> DEFINE x == full_name(o.n, o.s)
             t == from_suffix(o.s)
             b == dimArray(a, o).an
  <1>1. b = [a EXCEPT !.arrays = Put(@, x, t), !.symbols = Put(@, x, t)]
    BY DEF dimArray, Out
  <1>2. ASSUME NEW q \in Uses(f) \cap Scalar
        PROVE  q.n # x /\ full_name(q.n, q.s) # x /\ full_name(q.n, q.s)[1] # x[1]
    <2>1. q.n[1] # o.n[1]
      BY SameBase
    <2> QED
      BY <2>1, FullName
  <1> HIDE DEF b, x, t
  <1>3. /\ b.symbols = Put(a.symbols, x, t) /\ b.arrays = Put(a.arrays, x, t)
        /\ b.collisions = a.collisions /\ b.shared_writes = a.shared_writes
        /\ b.shared_scalars = a.shared_scalars
        /\ DOMAIN b = DOMAIN a
    BY <1>1 DEF TablesOK
  <1>4. TablesOK(b, f, D)
    BY <1>3 DEF TablesOK
  <1>5. DOMAIN b.symbols = DOMAIN a.symbols \cup {x} /\ DOMAIN b.arrays = DOMAIN a.arrays \cup {x}
    BY <1>3 DEF Put
  <1>6. ArraysOK(b, f)
    BY <1>2, <1>5 DEF ArraysOK
  <1>7. ASSUME NEW q \in Live(f), q.n \in DOMAIN b.symbols, q.n \notin Clashes(f)
        PROVE  b.symbols[q.n] = from_suffix(q.s)
    <2>1. q.n # x
      BY <1>2, LiveUsed
    <2>2. q.n \in DOMAIN a.symbols /\ b.symbols[q.n] = a.symbols[q.n]
      BY <1>3, <1>5, <1>7, <2>1 DEF Put
    <2> QED
      BY <1>7, <2>2 DEF SymbolsOK
  <1>8. SymbolsOK(b, f)
    BY <1>7 DEF SymbolsOK
  <1>9. IntroducedOK(b, f, I, r)
    BY <1>5 DEF IntroducedOK
  <1> QED
    BY <1>4, <1>6, <1>8, <1>9 DEF b

-----------------------------------------------------------------------------
(* The stores after an item *)

\* Function g runs, and S[h] is what function h declares shared.
Scene(p, g, S) ==
    /\ g \in Nat \ {0}
    /\ FunctionOK(p[g]) /\ ParamsApart(p[g])
    /\ \A h \in 1 .. g : S[h] \subseteq Scalar
    /\ S[g] \subseteq Live(p[g])
    /\ SharedApart(p, g, S)

\* The parts of the scene that the proofs use.
LEMMA SceneParts ==
    ASSUME PlainNames, NEW p, NEW g, NEW S, Scene(p, g, S)
    PROVE  /\ g \in 1 .. g /\ g > 0 /\ g \in Nat
           /\ FunctionOK(p[g]) /\ ParamsApart(p[g]) /\ S[g] \subseteq Live(p[g])
           /\ \A h \in 1 .. g : S[h] \subseteq Scalar
           /\ \A q \in Live(p[g]) : q \in Scalar
BY LiveUsed DEF Scene

\* The three kinds of places.
LEMMA PlaceKinds ==
    ASSUME PlainNames, NEW e, NEW f, NEW D, D \subseteq Live(f), NEW o \in Live(f) \cup Element
    PROVE  LET k == Place(e, f, D, o)
               j == RefPlace(D, o)
           IN  \/ o \in Element /\ o \notin D /\ k = <<"elem", o.n>> /\ j = k /\ k[1] = "elem"
               \/ /\ o \in D /\ k = SharedKey(f, o) /\ j = RefShared(o)
                  /\ k[1] = "shared" /\ j[1] = "shared"
               \/ /\ o \in Live(f) /\ o \notin D /\ k = LocalKey(e, f, o) /\ j = RefLocal(o)
                  /\ k[1] = "local" /\ j[1] = "local"
  <1>1. CASE o \in Element
    <2>1. Elem(o) /\ o \notin D
      BY <1>1, ElementParts, LiveUsed
    <2>2. Place(e, f, D, o) = <<"elem", o.n>> /\ RefPlace(D, o) = <<"elem", o.n>>
      BY <2>1 DEF Place, RefPlace
    <2> QED
      BY <1>1, <2>1, <2>2, KeyKinds
  <1>2. CASE o \in Live(f)
    <2>1. ~Elem(o)
      BY <1>2, LiveUsed, ScalarParts
    <2>2. CASE o \in D
      <3>1. Place(e, f, D, o) = SharedKey(f, o) /\ RefPlace(D, o) = RefShared(o)
        BY <2>1, <2>2 DEF Place, RefPlace
      <3> QED
        BY <2>2, <3>1, KeyKinds
    <2>3. CASE o \notin D
      <3>1. Place(e, f, D, o) = LocalKey(e, f, o) /\ RefPlace(D, o) = RefLocal(o)
        BY <2>1, <2>3 DEF Place, RefPlace
      <3> QED
        BY <1>2, <2>3, <3>1, KeyKinds
    <2> QED
      BY <2>2, <2>3
  <1> QED
    BY <1>1, <1>2

LEMMA PairParts ==
    ASSUME NEW b, NEW c
    PROVE  <<b, c>>[1] = b /\ <<b, c>>[2] = c
OBVIOUS

\* An array of strings has none of the array names.
LEMMA TextElementParts ==
    ASSUME PlainNames, NEW q
    PROVE  TextElement(q)[1] = "elem" /\ TextElement(q)[2] \notin ArrayNames
  <1>1. TextElement(q)[1] = "elem" /\ TextElement(q)[2] = <<q.n[1], "$">>
    BY PairParts DEF TextElement
  <1>2. <<q.n[1], "$">>[2] = "$"
    BY PairParts
  <1>3. \A n \in ArrayNames : n[2] = ""
    <2> TAKE n \in ArrayNames
    <2>1. n = <<n[1], "">>
      BY DEF PlainNames
    <2>2. PICK b : n = <<b, "">>
      BY <2>1
    <2> QED
      BY <2>2, PairParts
  <1> DEFINE x == <<q.n[1], "$">>
  <1>4. TextElement(q)[2] = x /\ x[2] = "$"
    BY <1>1, <1>2
  <1> HIDE DEF x
  <1> QED
    BY <1>1, <1>3, <1>4

\* At an operand's place is the reference's value.
LEMMA HoldsValue ==
    ASSUME PlainNames, NEW e, NEW p, NEW g, NEW S, Scene(p, g, S), NEW m, NEW r, Holds(e, p, g, S, m, r),
           NEW o \in Live(p[g]) \cup Element
    PROVE  ValueAt(m, Place(e, p[g], S[g], o)) = ValueAt(r, RefPlace(S[g], o))
  <1> DEFINE k == Place(e, p[g], S[g], o)
             j == RefPlace(S[g], o)
  <1>0. g \in 1 .. g /\ g > 0
    BY SceneParts
  <1>1. \/ o \in Element /\ k = <<"elem", o.n>> /\ j = k
        \/ o \in S[g] /\ k = SharedKey(p[g], o) /\ j = RefShared(o)
        \/ o \in Live(p[g]) /\ k = LocalKey(e, p[g], o) /\ j = RefLocal(o)
    BY SceneParts, PlaceKinds
  <1> HIDE DEF k, j
  <1>2. \A q \in Element : q.n \in ArrayNames
    BY ElementParts
  <1>3. ValueAt(m, k) = ValueAt(r, j)
    BY <1>0, <1>1, <1>2 DEF Holds
  <1> QED
    BY <1>3 DEF k, j

\* A value stored in an operand's place disturbs no other place.
LEMMA HoldsWrite ==
    ASSUME PlainNames, NEW e, NEW p, NEW g, NEW S, Scene(p, g, S), NEW m, NEW r, Holds(e, p, g, S, m, r),
           NEW o \in Live(p[g]) \cup Element, NEW v
    PROVE  Holds(e, p, g, S, Put(m, Place(e, p[g], S[g], o), v), Put(r, RefPlace(S[g], o), v))
  <1> DEFINE f == p[g]
             k == Place(e, f, S[g], o)
             j == RefPlace(S[g], o)
             n == Put(m, k, v)
             s == Put(r, j, v)
  <1>0. /\ g \in 1 .. g /\ g > 0 /\ S[g] \subseteq Live(f)
        /\ \A h \in 1 .. g : S[h] \subseteq Scalar
        /\ \A q \in Live(f) : q \in Scalar
        /\ FunctionOK(f) /\ ParamsApart(f)
    BY SceneParts
  <1>11. \/ o \in Element /\ o \notin S[g] /\ k = <<"elem", o.n>> /\ j = k /\ k[1] = "elem"
         \/ /\ o \in S[g] /\ k = SharedKey(f, o) /\ j = RefShared(o)
            /\ k[1] = "shared" /\ j[1] = "shared"
         \/ /\ o \in Live(f) /\ o \notin S[g] /\ k = LocalKey(e, f, o) /\ j = RefLocal(o)
            /\ k[1] = "local" /\ j[1] = "local"
    BY SceneParts, PlaceKinds
  <1>5. /\ \A x : ValueAt(n, x) = IF x = k THEN v ELSE ValueAt(m, x)
        /\ \A x : ValueAt(s, x) = IF x = j THEN v ELSE ValueAt(r, x)
        /\ DOMAIN n = DOMAIN m \cup {k} /\ DOMAIN s = DOMAIN r \cup {j}
    <2> HIDE DEF k, j
    <2>1. \A x : ValueAt(n, x) = IF x = k THEN v ELSE ValueAt(m, x)
      BY PutValue
    <2>2. \A x : ValueAt(s, x) = IF x = j THEN v ELSE ValueAt(r, x)
      BY PutValue
    <2>3. DOMAIN n = DOMAIN m \cup {k}
      BY PutDomain
    <2>4. DOMAIN s = DOMAIN r \cup {j}
      BY PutDomain
    <2> QED
      BY <2>1, <2>2, <2>3, <2>4
  <1> HIDE DEF f, k, j, n, s
  <1>1. \A q \in Live(f) : (k = LocalKey(e, f, q) <=> j = RefLocal(q))
    <2> TAKE q \in Live(f)
    <2>1. LocalKey(e, f, q)[1] = "local" /\ RefLocal(q)[1] = "local"
      BY KeyKinds
    <2>2. ASSUME o \in Live(f)
          PROVE  /\ LocalKey(e, f, o) = LocalKey(e, f, q) <=> o = q
                 /\ RefLocal(o) = RefLocal(q) <=> o = q
      BY <1>0, <2>2, LocalInjective, RefInjective
    <2> QED
      BY <1>11, <2>1, <2>2
  <1>2. \A a \in ArrayNames : (k = <<"elem", a>> <=> j = <<"elem", a>>)
    <2> TAKE a \in ArrayNames
    <2> DEFINE x == <<"elem", a>>
    <2>1. x[1] = "elem"
      BY KeyKinds
    <2> HIDE DEF x
    <2>2. k = x <=> j = x
      BY <1>11, <2>1
    <2> QED
      BY <2>2 DEF x
  <1>3. \A h \in 1 .. g : \A q \in S[h] : (k = SharedKey(p[h], q) <=> j = RefShared(q))
    <2> TAKE h \in 1 .. g
    <2> TAKE q \in S[h]
    <2>0. q \in Scalar
      BY <1>0
    <2>1. SharedKey(p[h], q)[1] = "shared" /\ RefShared(q)[1] = "shared"
      BY KeyKinds
    <2>2. ASSUME o \in S[g]
          PROVE  /\ SharedKey(f, o) = SharedKey(p[h], q) <=> o = q
                 /\ RefShared(o) = RefShared(q) <=> o = q
      <3>1. NameOf(f, o) = NameOf(p[h], q) <=> o = q
        BY <1>0, <2>2 DEF Scene, SharedApart, f
      <3>2. o \in Scalar
        BY <1>0, <2>2
      <3> QED
        BY <2>0, <3>1, <3>2, SharedEqual, RefInjective
    <2> QED
      BY <1>11, <2>1, <2>2
  <1>4. (k[1] = "shared" \/ j[1] = "shared") => o \in S[g] /\ k = SharedKey(f, o) /\ j = RefShared(o)
    BY <1>11
  <1>6. \A q \in Live(p[g]) : ValueAt(n, LocalKey(e, p[g], q)) = ValueAt(s, RefLocal(q))
    BY <1>0, <1>1, <1>5 DEF Holds, f
  <1>7. \A a \in ArrayNames : ValueAt(n, <<"elem", a>>) = ValueAt(s, <<"elem", a>>)
    <2> TAKE a \in ArrayNames
    <2>1. ValueAt(m, <<"elem", a>>) = ValueAt(r, <<"elem", a>>)
      BY DEF Holds
    <2> DEFINE x == <<"elem", a>>
    <2>2. k = x <=> j = x
      BY <1>2
    <2> HIDE DEF x
    <2>3. ValueAt(n, x) = ValueAt(s, x)
      BY <1>5, <2>1, <2>2 DEF x
    <2> QED
      BY <2>3 DEF x
  <1>8. \A h \in 1 .. g : \A q \in S[h] : ValueAt(n, SharedKey(p[h], q)) = ValueAt(s, RefShared(q))
    BY <1>3, <1>5 DEF Holds
  <1>9. \A x \in DOMAIN n : x[1] = "shared" => \E h \in 1 .. g : \E q \in S[h] : x = SharedKey(p[h], q)
    BY <1>0, <1>4, <1>5 DEF Holds, f
  <1>10. \A x \in DOMAIN s : x[1] = "shared" => \E h \in 1 .. g : \E q \in S[h] : x = RefShared(q)
    BY <1>0, <1>4, <1>5 DEF Holds
  <1>13. \A q \in Scalar : ValueAt(n, TextElement(q)) = 0
    <2> TAKE q \in Scalar
    <2>1. ValueAt(m, TextElement(q)) = 0
      BY DEF Holds
    <2>2. TextElement(q)[1] = "elem" /\ TextElement(q)[2] \notin ArrayNames
      BY TextElementParts
    <2>3. o \in Element => <<"elem", o.n>>[2] \in ArrayNames
      BY ElementParts, PairParts
    <2>4. k # TextElement(q)
      BY <1>11, <2>2, <2>3
    <2> HIDE DEF TextElement
    <2> QED
      BY <1>5, <2>1, <2>4
  <1>12. Holds(e, p, g, S, n, s)
    BY <1>6, <1>7, <1>8, <1>9, <1>10, <1>13 DEF Holds
  <1> QED
    BY <1>12 DEF f, k, j, n, s

\* A store to a name that stands for nothing.
LEMMA HoldsAside ==
    ASSUME PlainNames, NEW e, NEW p, NEW g, NEW S, Scene(p, g, S), NEW m, NEW r, Holds(e, p, g, S, m, r),
           NEW k, NEW v, k[1] = "local", \A q \in Live(p[g]) : k # LocalKey(e, p[g], q)
    PROVE  Holds(e, p, g, S, Put(m, k, v), r)
  <1> DEFINE n == Put(m, k, v)
  <1>1. \A x : ValueAt(n, x) = IF x = k THEN v ELSE ValueAt(m, x)
    BY PutValue
  <1>2. DOMAIN n = DOMAIN m \cup {k}
    BY PutDomain
  <1> HIDE DEF n
  <1>3. \A q \in Live(p[g]) : g > 0 => ValueAt(n, LocalKey(e, p[g], q)) = ValueAt(r, RefLocal(q))
    BY <1>1 DEF Holds
  <1>4. \A a \in ArrayNames : ValueAt(n, <<"elem", a>>) = ValueAt(r, <<"elem", a>>)
    <2> TAKE a \in ArrayNames
    <2>1. ValueAt(m, <<"elem", a>>) = ValueAt(r, <<"elem", a>>)
      BY DEF Holds
    <2>2. <<"elem", a>> # k
      BY KeyKinds
    <2> QED
      BY <1>1, <2>1, <2>2
  <1>5. \A h \in 1 .. g : \A q \in S[h] : ValueAt(n, SharedKey(p[h], q)) = ValueAt(r, RefShared(q))
    <2> TAKE h \in 1 .. g
    <2> TAKE q \in S[h]
    <2>1. SharedKey(p[h], q) # k
      BY KeyKinds
    <2> QED
      BY <1>1, <2>1 DEF Holds
  <1>6. \A x \in DOMAIN n : x[1] = "shared" => \E h \in 1 .. g : \E q \in S[h] : x = SharedKey(p[h], q)
    BY <1>2 DEF Holds
  <1>7. \A x \in DOMAIN r : x[1] = "shared" => \E h \in 1 .. g : \E q \in S[h] : x = RefShared(q)
    BY DEF Holds
  <1>9. \A q \in Scalar : ValueAt(n, TextElement(q)) = 0
    <2> TAKE q \in Scalar
    <2>1. TextElement(q) # k
      BY TextElementParts
    <2> QED
      BY <1>1, <2>1 DEF Holds
  <1>8. Holds(e, p, g, S, n, r)
    BY <1>3, <1>4, <1>5, <1>6, <1>7, <1>9 DEF Holds
  <1> QED
    BY <1>8 DEF n

\* The reference's zero for a variable that had none.
LEMMA HoldsZero ==
    ASSUME PlainNames, NEW e, NEW p, NEW g, NEW S, Scene(p, g, S), NEW m, NEW r, Holds(e, p, g, S, m, r),
           NEW o, ValueAt(r, RefLocal(o)) = 0
    PROVE  Holds(e, p, g, S, m, Put(r, RefLocal(o), 0))
  <1> DEFINE k == RefLocal(o)
             s == Put(r, k, 0)
  <1>0. k[1] = "local"
    BY KeyKinds
  <1>1. \A x : ValueAt(s, x) = ValueAt(r, x)
    <2> HIDE DEF k
    <2> QED
      BY PutValue DEF k
  <1>2. DOMAIN s = DOMAIN r \cup {k}
    <2> HIDE DEF k
    <2> QED
      BY PutDomain
  <1> HIDE DEF s, k
  <1>3. g > 0 => \A q \in Live(p[g]) : ValueAt(m, LocalKey(e, p[g], q)) = ValueAt(s, RefLocal(q))
    BY <1>1 DEF Holds
  <1>4. \A a \in ArrayNames : ValueAt(m, <<"elem", a>>) = ValueAt(s, <<"elem", a>>)
    <2> TAKE a \in ArrayNames
    <2>1. ValueAt(m, <<"elem", a>>) = ValueAt(r, <<"elem", a>>)
      BY DEF Holds
    <2> QED
      BY <1>1, <2>1
  <1>5. \A h \in 1 .. g : \A q \in S[h] : ValueAt(m, SharedKey(p[h], q)) = ValueAt(s, RefShared(q))
    BY <1>1 DEF Holds
  <1>6. \A x \in DOMAIN m : x[1] = "shared" => \E h \in 1 .. g : \E q \in S[h] : x = SharedKey(p[h], q)
    BY DEF Holds
  <1>7. \A x \in DOMAIN s : x[1] = "shared" => \E h \in 1 .. g : \E q \in S[h] : x = RefShared(q)
    BY <1>0, <1>2 DEF Holds
  <1>9. \A q \in Scalar : ValueAt(m, TextElement(q)) = 0
    BY DEF Holds
  <1>8. Holds(e, p, g, S, m, s)
    BY <1>3, <1>4, <1>5, <1>6, <1>7, <1>9 DEF Holds
  <1> QED
    BY <1>8 DEF s, k

-----------------------------------------------------------------------------
(* Sharing *)

\* What is declared shared is live.
LEMMA SharesLive ==
    ASSUME PlainNames, NEW f, FunctionOK(f), NEW o \in Shares(f)
    PROVE  o \in Live(f) /\ o \in Scalar
  <1>1. PICK i \in DOMAIN f.body : f.body[i].op = "shared" /\ o = f.body[i].l
    BY DEF Shares
  <1>2. o \in Scalar /\ o \in Operands(f.body[i])
    BY <1>1, BodyStatement, StatementParts
  <1> QED
    BY <1>1, <1>2 DEF Live, Seen

\* No shared spelling of an earlier function clashes with o's in function g.
NoClash(p, g, o) ==
    \A h \in 1 .. g - 1 : \A q \in Shares(p[h]) :
        q.n = o.n =>
            /\ q = o => ~(IsText(o) /\ Mixed(p[h], o.n) # Mixed(p[g], o.n))
            /\ q # o => /\ IsText(o) => Mixed(p[g], o.n)
                        /\ IsText(q) => Mixed(p[h], o.n)

\* Then o's slot has the name of an earlier one if and only if it is the same spelling.
LEMMA OneName ==
    ASSUME PlainNames, NEW p, NEW g, NEW S, Scene(p, g, S),
           \A h \in 1 .. g - 1 : FunctionOK(p[h]) /\ ParamsApart(p[h]) /\ S[h] = Shares(p[h]),
           NEW o \in Live(p[g]), NoClash(p, g, o), NEW h \in 1 .. g, NEW q \in S[h]
    PROVE  NameOf(p[h], q) = NameOf(p[g], o) <=> q = o
  <1>0. /\ g \in Nat /\ FunctionOK(p[g]) /\ ParamsApart(p[g]) /\ S[g] \subseteq Live(p[g])
        /\ o \in Scalar /\ q \in Scalar
    BY SceneParts
  <1>1. CASE h = g
    BY <1>0, <1>1, NameInjective
  <1>2. CASE h \in 1 .. g - 1
    <2>1. FunctionOK(p[h]) /\ ParamsApart(p[h]) /\ q \in Shares(p[h])
      BY <1>2
    <2>2. q \in Live(p[h])
      BY <2>1, SharesLive
    <2>3. ASSUME NameOf(p[h], q) = NameOf(p[g], o), q # o
          PROVE  FALSE
      <3>1. q.n = o.n
        <4>1. NameOf(p[h], q)[1] = q.n[1]
          BY <1>0, NameParts
        <4>2. NameOf(p[g], o)[1] = o.n[1]
          BY <1>0, NameParts
        <4> QED
          BY <1>0, <2>3, <4>1, <4>2, SameBase
      <3>2. (IsText(o) => Mixed(p[g], o.n)) /\ (IsText(q) => Mixed(p[h], o.n))
        BY <1>2, <2>1, <2>3, <3>1 DEF NoClash
      <3>3. CASE o.s = "$"
        <4>1. q.s = ""
          BY <1>0, <2>3, <3>1, <3>3, SameScalar, ScalarParts
        <4>2. o.n \in Clashes(p[g])
          BY <1>0, <3>2, <3>3, ScalarParts, MixedClash
        <4>3. NameOf(p[g], o) = <<o.n[1], "$">> /\ NameOf(p[h], q) = q.n
          BY <1>0, <3>3, <4>1, <4>2, NameParts
        <4> QED
          BY <1>0, <2>3, <4>3, TextName
      <3>4. CASE o.s # "$"
        <4>1. o.s = "" /\ q.s = "$"
          BY <1>0, <2>3, <3>1, <3>4, SameScalar, ScalarParts
        <4>2. q.n \in Clashes(p[h])
          BY <1>0, <2>1, <2>2, <3>1, <3>2, <4>1, ScalarParts, MixedClash
        <4>3. NameOf(p[h], q) = <<q.n[1], "$">> /\ NameOf(p[g], o) = o.n
          BY <1>0, <4>1, <4>2, NameParts
        <4> QED
          BY <1>0, <2>3, <4>3, TextName
      <3> QED
        BY <3>3, <3>4
    <2>4. ASSUME q = o
          PROVE  NameOf(p[h], q) = NameOf(p[g], o)
      <3>1. CASE o.s = ""
        BY <1>0, <2>4, <3>1, NameParts
      <3>2. CASE o.s = "$"
        <4>1. Mixed(p[h], o.n) <=> Mixed(p[g], o.n)
          <5>1. IsText(o)
            BY <1>0, <3>2, ScalarParts
          <5>2. Mixed(p[h], o.n) \in BOOLEAN /\ Mixed(p[g], o.n) \in BOOLEAN
            BY DEF Mixed
          <5>3. ~(Mixed(p[h], o.n) # Mixed(p[g], o.n))
            BY <1>2, <2>1, <2>4, <5>1 DEF NoClash
          <5> QED
            BY <5>2, <5>3
        <4>2. o.n \in Clashes(p[g]) <=> Mixed(p[g], o.n)
          BY <1>0, <3>2, ScalarParts, ClashMixed, MixedClash
        <4>3. o.n \in Clashes(p[h]) <=> Mixed(p[h], o.n)
          BY <1>0, <2>1, <2>2, <2>4, <3>2, ScalarParts, ClashMixed, MixedClash
        <4> QED
          BY <1>0, <2>4, <4>1, <4>2, <4>3 DEF NameOf
      <3> QED
        BY <1>0, <3>1, <3>2, ScalarParts
    <2> QED
      BY <2>3, <2>4
  <1>3. h = g \/ h \in 1 .. g - 1
    BY <1>0
  <1> QED
    BY <1>1, <1>2, <1>3

\* A declaration without a clash keeps the shared spellings apart.
LEMMA SharedStep ==
    ASSUME PlainNames, NEW p, NEW g, NEW S, Scene(p, g, S),
           \A h \in 1 .. g - 1 : FunctionOK(p[h]) /\ ParamsApart(p[h]) /\ S[h] = Shares(p[h]),
           NEW o \in Live(p[g]), NoClash(p, g, o),
           NEW T, \A h \in 1 .. g : T[h] = IF h = g THEN S[g] \cup {o} ELSE S[h]
    PROVE  SharedApart(p, g, T)
  <1> SUFFICES ASSUME NEW h \in 1 .. g, NEW i \in 1 .. g, NEW q \in T[h], NEW w \in T[i]
               PROVE  NameOf(p[h], q) = NameOf(p[i], w) <=> q = w
    BY DEF SharedApart
  <1>1. q \in S[h] \/ (h = g /\ q = o)
    OBVIOUS
  <1>2. w \in S[i] \/ (i = g /\ w = o)
    OBVIOUS
  <1>3. CASE q \in S[h] /\ w \in S[i]
    BY <1>3 DEF Scene, SharedApart
  <1>4. q \in S[h] => (NameOf(p[h], q) = NameOf(p[g], o) <=> q = o)
    BY OneName
  <1>5. w \in S[i] => (NameOf(p[i], w) = NameOf(p[g], o) <=> w = o)
    BY OneName
  <1> QED
    BY <1>1, <1>2, <1>3, <1>4, <1>5

\* A declaration joins the variable that the spelling has already, or a new one.
LEMMA HoldsShared ==
    ASSUME PlainNames, NEW e, NEW p, NEW g, NEW S, Scene(p, g, S), NEW m, NEW r, Holds(e, p, g, S, m, r),
           NEW o \in Live(p[g]),
           NEW T, \A h \in 1 .. g : T[h] = IF h = g THEN S[g] \cup {o} ELSE S[h],
           SharedApart(p, g, T), NEW n,
           n = m \/ n = OrPut(m, SharedKey(p[g], o), 0)
    PROVE  Holds(e, p, g, T, n, r)
  <1> DEFINE k == SharedKey(p[g], o)
             j == RefShared(o)
  <1>0. g \in 1 .. g /\ g > 0 /\ o \in Scalar /\ \A h \in 1 .. g : S[h] \subseteq Scalar
    BY SceneParts
  <1>1. /\ \A x : ValueAt(n, x) = ValueAt(m, x)
        /\ DOMAIN n \subseteq DOMAIN m \cup {k}
    <2> HIDE DEF k
    <2>1. CASE n = m
      BY <2>1
    <2>2. CASE n = OrPut(m, k, 0)
      BY <2>2, OrPutValue
    <2> QED
      BY <2>1, <2>2 DEF k
  <1>2. ValueAt(m, k) = ValueAt(r, j)
    <2>1. CASE \E h \in 1 .. g : o \in S[h]
      <3>1. PICK h \in 1 .. g : o \in S[h]
        BY <2>1
      <3>2. NameOf(p[h], o) = NameOf(p[g], o)
        BY <1>0, <3>1 DEF SharedApart
      <3>3. SharedKey(p[h], o) = k
        BY <3>2, SharedEqual
      <3> HIDE DEF k, j
      <3>4. ValueAt(m, SharedKey(p[h], o)) = ValueAt(r, j)
        BY <3>1 DEF Holds, j
      <3> QED
        BY <3>3, <3>4
    <2>2. CASE ~ \E h \in 1 .. g : o \in S[h]
      <3>1. k \notin DOMAIN m
        <4> SUFFICES ASSUME k \in DOMAIN m PROVE FALSE
          OBVIOUS
        <4>1. k[1] = "shared"
          BY KeyKinds
        <4>2. PICK h \in 1 .. g : \E q \in S[h] : k = SharedKey(p[h], q)
          BY <4>1 DEF Holds
        <4>5. PICK q \in S[h] : k = SharedKey(p[h], q)
          BY <4>2
        <4>3. NameOf(p[g], o) = NameOf(p[h], q)
          BY <4>5, SharedEqual
        <4>4. o = q
          BY <1>0, <4>3 DEF SharedApart
        <4> QED
          BY <2>2, <4>4
      <3>2. j \notin DOMAIN r
        <4> SUFFICES ASSUME j \in DOMAIN r PROVE FALSE
          OBVIOUS
        <4>1. j[1] = "shared"
          BY KeyKinds
        <4>2. PICK h \in 1 .. g : \E q \in S[h] : j = RefShared(q)
          BY <4>1 DEF Holds
        <4>4. PICK q \in S[h] : j = RefShared(q)
          BY <4>2
        <4>3. o = q
          BY <1>0, <4>4, RefInjective
        <4> QED
          BY <2>2, <4>3
      <3> HIDE DEF k, j
      <3> QED
        BY <3>1, <3>2, NotIn
    <2> QED
      BY <2>1, <2>2
  <1> HIDE DEF k, j
  <1>3. g > 0 => \A q \in Live(p[g]) : ValueAt(n, LocalKey(e, p[g], q)) = ValueAt(r, RefLocal(q))
    BY <1>1 DEF Holds
  <1>4. \A a \in ArrayNames : ValueAt(n, <<"elem", a>>) = ValueAt(r, <<"elem", a>>)
    <2> TAKE a \in ArrayNames
    <2>1. ValueAt(m, <<"elem", a>>) = ValueAt(r, <<"elem", a>>)
      BY DEF Holds
    <2> QED
      BY <1>1, <2>1
  <1>5. \A h \in 1 .. g : \A q \in T[h] : ValueAt(n, SharedKey(p[h], q)) = ValueAt(r, RefShared(q))
    <2> TAKE h \in 1 .. g
    <2> TAKE q \in T[h]
    <2>1. CASE q \in S[h]
      BY <1>1, <2>1 DEF Holds
    <2>2. CASE h = g /\ q = o
      BY <1>1, <1>2, <2>2 DEF k, j
    <2> QED
      BY <2>1, <2>2
  <1>6. \A x \in DOMAIN n : x[1] = "shared" => \E h \in 1 .. g : \E q \in T[h] : x = SharedKey(p[h], q)
    <2> TAKE x \in DOMAIN n
    <2> SUFFICES ASSUME x[1] = "shared" PROVE \E h \in 1 .. g : \E q \in T[h] : x = SharedKey(p[h], q)
      OBVIOUS
    <2>1. CASE x = k
      BY <1>0, <2>1 DEF k
    <2>2. CASE x \in DOMAIN m
      BY <2>2 DEF Holds
    <2> QED
      BY <1>1, <2>1, <2>2
  <1>7. \A x \in DOMAIN r : x[1] = "shared" => \E h \in 1 .. g : \E q \in T[h] : x = RefShared(q)
    BY DEF Holds
  <1>8. \A q \in Scalar : ValueAt(n, TextElement(q)) = 0
    BY <1>1 DEF Holds
  <1> QED
    BY <1>3, <1>4, <1>5, <1>6, <1>7, <1>8 DEF Holds

-----------------------------------------------------------------------------
(* Entering a function *)

\* The store of a function that begins: its arguments and what is shared.
LEMMA BindParts ==
    ASSUME NEW m, NEW K, NEW x
    PROVE  /\ ValueAt(Bind(m, K), x) =
                  IF x \in K THEN Argument ELSE IF x[1] = "shared" THEN ValueAt(m, x) ELSE 0
           /\ DOMAIN Bind(m, K) = K \cup {y \in DOMAIN m : y[1] = "shared"}
BY DEF Bind, ValueAt

\* The values there are the reference's.
LEMMA HoldsEnter ==
    ASSUME PlainNames, NEW e, NEW p, NEW g \in Nat, NEW S, NEW m, NEW r, Holds(e, p, g, S, m, r),
           NEW f, f = p[g + 1], FunctionOK(f), ParamsApart(f),
           \A h \in 1 .. g : S[h] \subseteq Scalar,
           NEW T, \A h \in 1 .. g : T[h] = S[h], T[g + 1] = {},
           NEW K, \A x : x \in K <=> \E o \in f.params : x = LocalKey(e, f, o),
           NEW J, \A x : x \in J <=> \E o \in f.params : x = RefLocal(o),
           NEW n, n = Bind(m, K), NEW s, s = Bind(r, J)
    PROVE  /\ Holds(e, p, g + 1, T, n, s)
           /\ \A o \in Scalar \ f.params : ValueAt(s, RefLocal(o)) = 0
  <1>0. f.params \subseteq Live(f) /\ f.params \subseteq Scalar
    BY DEF Live, FunctionOK
  <1>1. /\ \A q \in Live(f) : LocalKey(e, f, q) \in K <=> q \in f.params
        /\ \A q \in Scalar : RefLocal(q) \in J <=> q \in f.params
    BY <1>0, LocalInjective, RefInjective
  <1>2. (\A x \in K : x[1] = "local") /\ (\A x \in J : x[1] = "local")
    BY KeyKinds
  <1>3. n = Bind(m, K) /\ s = Bind(r, J)
    OBVIOUS
  <1>12. \A x : ValueAt(n, x) = IF x \in K THEN Argument ELSE IF x[1] = "shared" THEN ValueAt(m, x) ELSE 0
    <2>1. \A x : ValueAt(Bind(m, K), x) =
                    IF x \in K THEN Argument ELSE IF x[1] = "shared" THEN ValueAt(m, x) ELSE 0
      BY BindParts
    <2> QED
      BY ONLY <1>3, <2>1
  <1>13. \A x : ValueAt(s, x) = IF x \in J THEN Argument ELSE IF x[1] = "shared" THEN ValueAt(r, x) ELSE 0
    <2>1. \A x : ValueAt(Bind(r, J), x) =
                    IF x \in J THEN Argument ELSE IF x[1] = "shared" THEN ValueAt(r, x) ELSE 0
      BY BindParts
    <2> QED
      BY ONLY <1>3, <2>1
  <1>4. \A q \in Scalar : ValueAt(s, RefLocal(q)) = IF q \in f.params THEN Argument ELSE 0
    <2> TAKE q \in Scalar
    <2> DEFINE x == RefLocal(q)
    <2>1. x[1] = "local" /\ (x \in J <=> q \in f.params)
      BY <1>1, KeyKinds
    <2> HIDE DEF x
    <2>2. ValueAt(s, x) = IF q \in f.params THEN Argument ELSE 0
      BY <1>13, <2>1
    <2> QED
      BY <2>2 DEF x
  <1>5. \A q \in Live(f) : ValueAt(n, LocalKey(e, f, q)) = IF q \in f.params THEN Argument ELSE 0
    <2> TAKE q \in Live(f)
    <2> DEFINE x == LocalKey(e, f, q)
    <2>1. x[1] = "local" /\ (x \in K <=> q \in f.params)
      BY <1>1, KeyKinds
    <2> HIDE DEF x
    <2>2. ValueAt(n, x) = IF q \in f.params THEN Argument ELSE 0
      BY <1>12, <2>1
    <2> QED
      BY <2>2 DEF x
  <1>6. \A a \in ArrayNames : ValueAt(n, <<"elem", a>>) = ValueAt(s, <<"elem", a>>)
    <2> TAKE a \in ArrayNames
    <2> DEFINE x == <<"elem", a>>
    <2>1. x[1] = "elem"
      BY KeyKinds
    <2> HIDE DEF x
    <2>2. x \notin K /\ x \notin J
      BY <1>2, <2>1
    <2>3. ValueAt(n, x) = 0
      BY <1>12, <2>1, <2>2
    <2>4. ValueAt(s, x) = 0
      BY <1>13, <2>1, <2>2
    <2> QED
      BY <2>3, <2>4 DEF x
  <1>7. \A h \in 1 .. g + 1 : \A q \in T[h] : ValueAt(n, SharedKey(p[h], q)) = ValueAt(s, RefShared(q))
    <2> TAKE h \in 1 .. g + 1
    <2> TAKE q \in T[h]
    <2>0. h \in 1 .. g /\ q \in S[h]
      OBVIOUS
    <2> DEFINE x == SharedKey(p[h], q)
               y == RefShared(q)
    <2>1. x[1] = "shared" /\ y[1] = "shared"
      BY ONLY KeyKinds
    <2>2. ValueAt(m, x) = ValueAt(r, y)
      BY <2>0 DEF Holds
    <2> HIDE DEF x, y
    <2>3. x \notin K /\ y \notin J
      BY <1>2, <2>1
    <2>4. ValueAt(n, x) = ValueAt(m, x)
      BY <1>12, <2>1, <2>3
    <2>5. ValueAt(s, y) = ValueAt(r, y)
      BY <1>13, <2>1, <2>3
    <2>6. ValueAt(n, x) = ValueAt(s, y)
      BY <2>2, <2>4, <2>5
    <2> QED
      BY <2>6 DEF x, y
  <1>8. DOMAIN n = K \cup {x \in DOMAIN m : x[1] = "shared"} /\ DOMAIN s = J \cup {x \in DOMAIN r : x[1] = "shared"}
    BY <1>3, BindParts
  <1>9. \A x \in DOMAIN n : x[1] = "shared" => \E h \in 1 .. g + 1 : \E q \in T[h] : x = SharedKey(p[h], q)
    <2> TAKE x \in DOMAIN n
    <2> SUFFICES ASSUME x[1] = "shared"
                 PROVE  \E h \in 1 .. g + 1 : \E q \in T[h] : x = SharedKey(p[h], q)
      OBVIOUS
    <2>1. x \in DOMAIN m
      BY <1>2, <1>8
    <2>2. PICK h \in 1 .. g : \E q \in S[h] : x = SharedKey(p[h], q)
      BY <2>1 DEF Holds
    <2> QED
      BY <2>2
  <1>10. \A x \in DOMAIN s : x[1] = "shared" => \E h \in 1 .. g + 1 : \E q \in T[h] : x = RefShared(q)
    <2> TAKE x \in DOMAIN s
    <2> SUFFICES ASSUME x[1] = "shared"
                 PROVE  \E h \in 1 .. g + 1 : \E q \in T[h] : x = RefShared(q)
      OBVIOUS
    <2>1. x \in DOMAIN r
      BY <1>2, <1>8
    <2>2. PICK h \in 1 .. g : \E q \in S[h] : x = RefShared(q)
      BY <2>1 DEF Holds
    <2> QED
      BY <2>2
  <1>14. \A q \in Scalar : ValueAt(n, TextElement(q)) = 0
    <2> TAKE q \in Scalar
    <2> DEFINE x == TextElement(q)
    <2>1. x[1] = "elem"
      BY TextElementParts
    <2> HIDE DEF x
    <2>2. ValueAt(n, x) = 0
      BY <1>2, <1>12, <2>1
    <2> QED
      BY <2>2 DEF x
  <1>11. Holds(e, p, g + 1, T, n, s)
    BY <1>0, <1>4, <1>5, <1>6, <1>7, <1>9, <1>10, <1>14, LiveUsed DEF Holds
  <1> QED
    BY <1>4, <1>11

\* The tables that a function starts with.
LEMMA EnterTables ==
    ASSUME PlainNames, NEW f, FunctionOK(f), ParamsApart(f), NEW p, scan_shared_writes(p) = {},
           NEW a, NEW r, \A o \in Scalar \ f.params : ValueAt(r, RefLocal(o)) = 0
    PROVE  LET b == function(a, f, p)
           IN  /\ TablesOK(b, f, {}) /\ SymbolsOK(b, f) /\ ArraysOK(b, f)
               /\ IntroducedOK(b, f, f.params, r) /\ Untouched(f.params, r)
  <1> DEFINE b == function(a, f, p)
             Param(n) == CHOOSE o \in f.params : o.n = n
  <1>1. /\ DOMAIN b = {"symbols", "arrays", "shared", "collisions", "shared_writes", "shared_scalars"}
        /\ b.collisions = Clashes(f) /\ b.shared_writes = {} /\ b.shared_scalars = {}
        /\ b.arrays = <<>>
        /\ DOMAIN b.symbols = {o.n : o \in f.params}
        /\ \A n \in {o.n : o \in f.params} : b.symbols[n] = from_suffix(Param(n).s)
    BY DEF function, Clashes
  <1>2. TablesOK(b, f, {})
    BY <1>1 DEF TablesOK
  <1>3. ASSUME NEW o \in Live(f), o.n \in DOMAIN b.symbols, o.n \notin Clashes(f)
        PROVE  b.symbols[o.n] = from_suffix(o.s)
    <2> DEFINE q == Param(o.n)
    <2>1. q \in f.params /\ q.n = o.n
      BY <1>1, <1>3
    <2>2. b.symbols[o.n] = from_suffix(q.s)
      BY <1>1, <1>3
    <2> HIDE DEF q, b
    <2>3. q \in Live(f)
      BY <2>1 DEF Live, FunctionOK
    <2>4. o \in Scalar /\ q \in Scalar
      BY <2>3, LiveUsed
    <2>5. o.s = q.s
      BY <1>3, <2>1, <2>3, <2>4, LiveClash, ScalarParts
    <2> QED
      BY <2>2, <2>5
  <1> HIDE DEF b
  <1>4. DOMAIN b.arrays = {}
    BY <1>1
  <1>5. IntroducedOK(b, f, f.params, r)
    <2>1. \A o \in f.params : o.n \in DOMAIN b.symbols
      BY <1>1
    <2>2. \A o \in String : o \in Scalar
      BY DEF String
    <2> QED
      BY <2>1, <2>2 DEF IntroducedOK
  <1>6. ASSUME NEW q \in Uses(f) \cap Scalar, q.s = "$"
        PROVE  full_name(q.n, q.s) \notin DOMAIN b.symbols
    <2>1. \A o \in f.params : full_name(q.n, q.s) # o.n
      BY <1>6, TextName DEF FunctionOK, full_name
    <2> QED
      BY <1>1, <2>1
  <1> QED
    BY <1>2, <1>3, <1>4, <1>5, <1>6 DEF SymbolsOK, ArraysOK, Untouched, b

-----------------------------------------------------------------------------
(* One statement: what it keeps of an engine e, whatever the program *)

Good(e, p, g, S, a, I, U, m, r) == Tables(a, p[g], S[g], I, U, r) /\ Holds(e, p, g, S, m, r)

\* One item on either engine.
LEMMA RunSet ==
    ASSUME NEW e, NEW m, NEW slot, NEW v
    PROVE  Run(e, m, <<Set(slot)>>, v) = Put(m, Key(e, slot), v)
  <1> DEFINE it == Set(slot)
  <1>1. it.k = "set" /\ it.to = slot /\ it.from = None
    BY DEF Set
  <1> HIDE DEF it
  <1>2. Len(<<it>>) = 1 /\ <<it>>[1] = it
    OBVIOUS
  <1>3. exec_item(m, it, v) = Put(m, SlotKey(slot), v)
    BY <1>1 DEF exec_item
  <1>4. emit_item(m, it, v) = Put(m, CKey(slot), v)
    BY <1>1 DEF emit_item
  <1>5. Run(e, m, <<it>>, v) = IF e = "interp" THEN exec_item(m, it, v) ELSE emit_item(m, it, v)
    BY <1>2 DEF Run, RunSlots, RunC
  <1>6. Run(e, m, <<it>>, v) = Put(m, Key(e, slot), v)
    BY <1>3, <1>4, <1>5 DEF Key
  <1> QED
    BY <1>6 DEF it

LEMMA RunOne ==
    ASSUME NEW e, NEW m, NEW it, NEW v
    PROVE  Run(e, m, <<it>>, v) = IF e = "interp" THEN exec_item(m, it, v) ELSE emit_item(m, it, v)
  <1>1. Len(<<it>>) = 1 /\ <<it>>[1] = it
    OBVIOUS
  <1> QED
    BY <1>1 DEF Run, RunSlots, RunC

\* A store to an operand that the analysis found.
LEMMA WriteStep ==
    ASSUME PlainNames, NEW e, NEW p, NEW g, NEW S, Scene(p, g, S),
           NEW a, NEW I, NEW U, NEW m, NEW r, Good(e, p, g, S, a, I, U, m, r),
           NEW o \in Live(p[g]) \cup Element, NEW v, NEW b, NEW J,
           TablesOK(b, p[g], S[g]), SymbolsOK(b, p[g]), ArraysOK(b, p[g]),
           IntroducedOK(b, p[g], J, Put(r, RefPlace(S[g], o), v)),
           NEW slot, Key(e, slot) = Place(e, p[g], S[g], o)
    PROVE  Good(e, p, g, S, b, J, U \cup {o}, Run(e, m, <<Set(slot)>>, v), Put(r, RefPlace(S[g], o), v))
  <1>1. Holds(e, p, g, S, Run(e, m, <<Set(slot)>>, v), Put(r, RefPlace(S[g], o), v))
    BY RunSet, HoldsWrite DEF Good
  <1>2. o \in Scalar \cup Element
    BY SceneParts
  <1>3. Untouched(U \cup {o}, Put(r, RefPlace(S[g], o), v))
    BY <1>2, WriteUntouched DEF Good, Tables
  <1> QED
    BY <1>1, <1>3 DEF Good, Tables

\* The tables unchanged: for a string that does not collide.
LEMMA PlainWriteStep ==
    ASSUME PlainNames, NEW e, NEW p, NEW g, NEW S, Scene(p, g, S),
           NEW a, NEW I, NEW U, NEW m, NEW r, Good(e, p, g, S, a, I, U, m, r),
           NEW o \in Live(p[g]) \cup Element, NEW v,
           o \in Live(p[g]) => ~(IsText(o) /\ Mixed(p[g], o.n)),
           NEW slot, Key(e, slot) = Place(e, p[g], S[g], o)
    PROVE  Good(e, p, g, S, a, I, U \cup {o}, Run(e, m, <<Set(slot)>>, v), Put(r, RefPlace(S[g], o), v))
  <1>1. o \in Scalar \cup Element
    BY SceneParts
  <1>2. o \in Live(p[g]) /\ o.s = "$" => o.n \notin Clashes(p[g])
    BY LiveUsed, ScalarParts, ClashMixed, SceneParts
  <1>3. IntroducedOK(a, p[g], I, Put(r, RefPlace(S[g], o), v))
    BY <1>1, <1>2, WriteIntroduced DEF Good, Tables
  <1> QED
    BY <1>3, WriteStep DEF Good, Tables

\* One lemma per statement: the tables stay right, the values the same.
LEMMA AssignStep ==
    ASSUME PlainNames, NEW e \in Engines, NEW p, NEW g, NEW S, Scene(p, g, S),
           NEW a, NEW I, NEW U, NEW m, NEW r, Good(e, p, g, S, a, I, U, m, r),
           NEW o \in Live(p[g]), NEW v
    PROVE  LET out == assignment(a, o)
           IN  Good(e, p, g, S, out.an, I \cup {o}, U \cup {o}, Run(e, m, out.items, v),
                    Put(r, RefPlace(S[g], o), v))
  <1> DEFINE out == assignment(a, o)
             b == Entered(a, o)
  <1>1. /\ FunctionOK(p[g]) /\ ParamsApart(p[g]) /\ S[g] \subseteq Live(p[g]) /\ o \in Scalar
        /\ TablesOK(a, p[g], S[g]) /\ SymbolsOK(a, p[g]) /\ ArraysOK(a, p[g])
        /\ IntroducedOK(a, p[g], I, r)
    BY SceneParts DEF Good, Tables
  <1>2. out.an = b /\ \E slot : out.items = <<Set(slot)>> /\ Means(slot, p[g], S[g], o)
    BY <1>1, AssignmentMeans
  <1>3. PICK slot : out.items = <<Set(slot)>> /\ Means(slot, p[g], S[g], o)
    BY <1>2
  <1>4. Key(e, slot) = Place(e, p[g], S[g], o)
    BY <1>1, <1>3, MeansKey
  <1>5. /\ TablesOK(b, p[g], S[g]) /\ SymbolsOK(b, p[g]) /\ b.arrays = a.arrays
        /\ DOMAIN b.symbols = DOMAIN a.symbols \cup {o.n}
    BY <1>1, EnteredTables
  <1>6. ArraysOK(b, p[g])
    <2> HIDE DEF b
    <2> QED
      BY <1>1, <1>5, ArraysKept
  <1>7. IntroducedOK(b, p[g], I \cup {o}, Put(r, RefPlace(S[g], o), v))
    BY <1>1, EnteredIntroduced
  <1> HIDE DEF b, out
  <1>8. Good(e, p, g, S, b, I \cup {o}, U \cup {o}, Run(e, m, <<Set(slot)>>, v),
             Put(r, RefPlace(S[g], o), v))
    BY <1>4, <1>5, <1>6, <1>7, WriteStep
  <1>9. Good(e, p, g, S, out.an, I \cup {o}, U \cup {o}, Run(e, m, out.items, v),
             Put(r, RefPlace(S[g], o), v))
    BY <1>2, <1>3, <1>8
  <1> QED
    BY <1>9 DEF out

LEMMA ReadStep ==
    ASSUME PlainNames, NEW e \in Engines, NEW p, NEW g, NEW S, Scene(p, g, S),
           NEW a, NEW I, NEW U, NEW m, NEW r, Good(e, p, g, S, a, I, U, m, r),
           NEW o \in Live(p[g]), NEW v, o \notin S[g], ~Mixed(p[g], o.n)
    PROVE  LET out == read_stmt(a, o)
           IN  Good(e, p, g, S, out.an, I, U \cup {o}, Run(e, m, out.items, v),
                    Put(r, RefPlace(S[g], o), v))
  <1> DEFINE out == read_stmt(a, o)
             b == Entered(a, o)
  <1>1. /\ FunctionOK(p[g]) /\ ParamsApart(p[g]) /\ S[g] \subseteq Live(p[g]) /\ o \in Scalar
        /\ TablesOK(a, p[g], S[g]) /\ SymbolsOK(a, p[g]) /\ ArraysOK(a, p[g])
        /\ IntroducedOK(a, p[g], I, r)
    BY SceneParts DEF Good, Tables
  <1>2. out.an = b /\ \E slot : out.items = <<Set(slot)>> /\ Means(slot, p[g], S[g], o)
    BY <1>1, ReadMeans
  <1>3. PICK slot : out.items = <<Set(slot)>> /\ Means(slot, p[g], S[g], o)
    BY <1>2
  <1>4. Key(e, slot) = Place(e, p[g], S[g], o)
    BY <1>1, <1>3, MeansKey
  <1>5. /\ TablesOK(b, p[g], S[g]) /\ SymbolsOK(b, p[g]) /\ b.arrays = a.arrays
        /\ DOMAIN b.symbols = DOMAIN a.symbols \cup {o.n}
    BY <1>1, EnteredTables
  <1>6. ArraysOK(b, p[g])
    <2> HIDE DEF b
    <2> QED
      BY <1>1, <1>5, ArraysKept
  <1>7. IntroducedOK(b, p[g], I \cup {o}, Put(r, RefPlace(S[g], o), v))
    BY <1>1, EnteredIntroduced
  <1> HIDE DEF b, out
  <1>8. IntroducedOK(b, p[g], I, Put(r, RefPlace(S[g], o), v))
    BY <1>7, IntroducedLess
  <1>9. Good(e, p, g, S, b, I, U \cup {o}, Run(e, m, <<Set(slot)>>, v), Put(r, RefPlace(S[g], o), v))
    BY <1>4, <1>5, <1>6, <1>8, WriteStep
  <1>10. Good(e, p, g, S, out.an, I, U \cup {o}, Run(e, m, out.items, v), Put(r, RefPlace(S[g], o), v))
    BY <1>2, <1>3, <1>9
  <1> QED
    BY <1>10 DEF out

\* The statements that store and leave the tables alone.
LEMMA FoundStep ==
    ASSUME PlainNames, NEW e \in Engines, NEW p, NEW g, NEW S, Scene(p, g, S),
           NEW a, NEW I, NEW U, NEW m, NEW r, Good(e, p, g, S, a, I, U, m, r),
           NEW o \in Live(p[g]), NEW v, ~(IsText(o) /\ Mixed(p[g], o.n)),
           NEW out, out.an = a,
           \E slot : out.items = <<Set(slot)>> /\ Key(e, slot) = Place(e, p[g], S[g], o)
    PROVE  Good(e, p, g, S, out.an, I, U \cup {o}, Run(e, m, out.items, v), Put(r, RefPlace(S[g], o), v))
  <1>1. PICK slot : out.items = <<Set(slot)>> /\ Key(e, slot) = Place(e, p[g], S[g], o)
    OBVIOUS
  <1>2. Good(e, p, g, S, a, I, U \cup {o}, Run(e, m, <<Set(slot)>>, v), Put(r, RefPlace(S[g], o), v))
    BY <1>1, PlainWriteStep
  <1> QED
    BY <1>1, <1>2

LEMMA ByrefStep ==
    ASSUME PlainNames, NEW e \in Engines, NEW p, NEW g, NEW S, Scene(p, g, S),
           NEW a, NEW I, NEW U, NEW m, NEW r, Good(e, p, g, S, a, I, U, m, r),
           NEW o \in Live(p[g]), NEW v, ~(Mixed(p[g], o.n) /\ IsText(o))
    PROVE  LET out == call_arg(a, o)
           IN  Good(e, p, g, S, out.an, I, U \cup {o}, Run(e, m, out.items, v),
                    Put(r, RefPlace(S[g], o), v))
  <1> DEFINE out == call_arg(a, o)
  <1>1. /\ FunctionOK(p[g]) /\ ParamsApart(p[g]) /\ S[g] \subseteq Live(p[g]) /\ o \in Scalar
        /\ TablesOK(a, p[g], S[g]) /\ SymbolsOK(a, p[g])
    BY SceneParts DEF Good, Tables
  <1>2. out.an = a /\ \E slot : out.items = <<Set(slot)>> /\ Means(slot, p[g], S[g], o)
    BY <1>1, ByrefResult
  <1> HIDE DEF out
  <1>3. \E slot : out.items = <<Set(slot)>> /\ Key(e, slot) = Place(e, p[g], S[g], o)
    BY <1>1, <1>2, MeansKey
  <1>4. Good(e, p, g, S, out.an, I, U \cup {o}, Run(e, m, out.items, v), Put(r, RefPlace(S[g], o), v))
    BY <1>2, <1>3, FoundStep
  <1> QED
    BY <1>4 DEF out

LEMMA IncStep ==
    ASSUME PlainNames, NEW e \in Engines, NEW p, NEW g, NEW S, Scene(p, g, S),
           NEW a, NEW I, NEW U, NEW m, NEW r, Good(e, p, g, S, a, I, U, m, r),
           NEW o \in Live(p[g]), NEW v, o.s = "", ~(e = "c" /\ Mixed(p[g], o.n))
    PROVE  LET out == inc_dec(a, o)
           IN  Good(e, p, g, S, out.an, I, U \cup {o}, Run(e, m, out.items, v),
                    Put(r, RefPlace(S[g], o), v))
  <1> DEFINE out == inc_dec(a, o)
  <1>1. /\ FunctionOK(p[g]) /\ ParamsApart(p[g]) /\ S[g] \subseteq Live(p[g]) /\ o \in Scalar
        /\ TablesOK(a, p[g], S[g]) /\ SymbolsOK(a, p[g]) /\ ~IsText(o)
    BY SceneParts, ScalarParts DEF Good, Tables
  <1>2. /\ out.an = a
        /\ \E slot : /\ out.items = <<Set(slot)>> /\ Named(slot, p[g], S[g], o)
                     /\ ~Mixed(p[g], o.n) => Means(slot, p[g], S[g], o)
    BY <1>1, IncNames
  <1> HIDE DEF out
  <1>3. \E slot : out.items = <<Set(slot)>> /\ Key(e, slot) = Place(e, p[g], S[g], o)
    <2>1. PICK slot : /\ out.items = <<Set(slot)>> /\ Named(slot, p[g], S[g], o)
                      /\ ~Mixed(p[g], o.n) => Means(slot, p[g], S[g], o)
      BY <1>2
    <2>2. ASSUME e = "interp" PROVE Key(e, slot) = Place(e, p[g], S[g], o)
      BY <1>1, <2>1, <2>2, NamesKey
    <2>3. ASSUME e = "c" PROVE Key(e, slot) = Place(e, p[g], S[g], o)
      <3>1. ~Mixed(p[g], o.n)
        BY <2>3
      <3>2. Means(slot, p[g], S[g], o)
        BY <2>1, <3>1
      <3> QED
        BY <1>1, <3>2, MeansKey
    <2>4. Key(e, slot) = Place(e, p[g], S[g], o)
      BY <2>2, <2>3 DEF Engines
    <2> QED
      BY ONLY <2>1, <2>4
  <1>4. Good(e, p, g, S, out.an, I, U \cup {o}, Run(e, m, out.items, v), Put(r, RefPlace(S[g], o), v))
    BY <1>1, <1>2, <1>3, FoundStep
  <1> QED
    BY <1>4 DEF out

LEMMA ForStep ==
    ASSUME PlainNames, NEW e \in Engines, NEW p, NEW g, NEW S, Scene(p, g, S),
           NEW a, NEW I, NEW U, NEW m, NEW r, Good(e, p, g, S, a, I, U, m, r),
           NEW o \in Live(p[g]), NEW v, o.s = "", o \notin S[g]
    PROVE  LET out == for_stmt(a, o)
           IN  Good(e, p, g, S, out.an, I, U \cup {o}, Run(e, m, out.items, v),
                    Put(r, RefPlace(S[g], o), v))
  <1> DEFINE out == for_stmt(a, o)
  <1>1. o \in Scalar /\ ~IsText(o)
    BY SceneParts, ScalarParts
  <1>2. out.an = a /\ \E slot : out.items = <<Set(slot)>> /\ Means(slot, p[g], S[g], o)
    BY <1>1, ForMeans
  <1> HIDE DEF out
  <1>3. \E slot : out.items = <<Set(slot)>> /\ Key(e, slot) = Place(e, p[g], S[g], o)
    <2>1. PICK slot : out.items = <<Set(slot)>> /\ Means(slot, p[g], S[g], o)
      BY <1>2
    <2>2. Key(e, slot) = Place(e, p[g], S[g], o)
      BY <1>1, <2>1, MeansKey
    <2> QED
      BY ONLY <2>1, <2>2
  <1>4. Good(e, p, g, S, out.an, I, U \cup {o}, Run(e, m, out.items, v), Put(r, RefPlace(S[g], o), v))
    BY <1>1, <1>2, <1>3, FoundStep
  <1> QED
    BY <1>4 DEF out

LEMMA BraceStep ==
    ASSUME PlainNames, NEW e \in Engines, NEW p, NEW g, NEW S, Scene(p, g, S),
           NEW a, NEW I, NEW U, NEW m, NEW r, Good(e, p, g, S, a, I, U, m, r),
           NEW o \in Live(p[g]), NEW v, o.s = "$", o \in I, ~Mixed(p[g], o.n)
    PROVE  LET out == brace_assignment(a, o)
           IN  Good(e, p, g, S, out.an, I, U \cup {o}, Run(e, m, out.items, v),
                    Put(r, RefPlace(S[g], o), v))
  <1> DEFINE out == brace_assignment(a, o)
  <1>1. /\ FunctionOK(p[g]) /\ ParamsApart(p[g]) /\ S[g] \subseteq Live(p[g]) /\ o \in Scalar
        /\ TablesOK(a, p[g], S[g]) /\ SymbolsOK(a, p[g]) /\ ArraysOK(a, p[g])
        /\ IntroducedOK(a, p[g], I, r)
    BY SceneParts DEF Good, Tables
  <1>2. out.an = a /\ \E slot : out.items = <<Set(slot)>> /\ Means(slot, p[g], S[g], o)
    BY <1>1, BraceMeans
  <1> HIDE DEF out
  <1>3. \E slot : out.items = <<Set(slot)>> /\ Key(e, slot) = Place(e, p[g], S[g], o)
    BY <1>1, <1>2, MeansKey
  <1>4. Good(e, p, g, S, out.an, I, U \cup {o}, Run(e, m, out.items, v), Put(r, RefPlace(S[g], o), v))
    BY <1>2, <1>3, FoundStep
  <1> QED
    BY <1>4 DEF out

\* An element is at one place in all the stores.
LEMMA ElementKey ==
    ASSUME PlainNames, NEW e \in Engines, NEW f, NEW D, NEW o \in Element
    PROVE  Key(e, array_access(o)) = Place(e, f, D, o)
  <1> DEFINE slot == array_access(o)
  <1>1. slot.st = "elem" /\ slot.n = o.n
    BY SlotParts DEF array_access
  <1> HIDE DEF slot
  <1>2. Key(e, slot) = <<"elem", o.n>>
    BY <1>1 DEF Key, SlotKey, CKey
  <1>3. Place(e, f, D, o) = <<"elem", o.n>>
    BY ElementParts DEF Place
  <1> QED
    BY <1>2, <1>3 DEF slot

LEMMA ElementStep ==
    ASSUME PlainNames, NEW e \in Engines, NEW p, NEW g, NEW S, Scene(p, g, S),
           NEW a, NEW I, NEW U, NEW m, NEW r, Good(e, p, g, S, a, I, U, m, r),
           NEW o \in Element, NEW v
    PROVE  LET out == array_assignment(a, o)
           IN  Good(e, p, g, S, out.an, I, U \cup {o}, Run(e, m, out.items, v),
                    Put(r, RefPlace(S[g], o), v))
  <1> DEFINE out == array_assignment(a, o)
             slot == array_access(o)
  <1>1. out.an = a /\ out.items = <<Set(slot)>>
    BY DEF array_assignment, Out
  <1>2. Key(e, slot) = Place(e, p[g], S[g], o)
    BY ElementKey
  <1>3. o \notin Live(p[g])
    BY ElementParts, LiveUsed
  <1> HIDE DEF out, slot
  <1>4. Good(e, p, g, S, a, I, U \cup {o}, Run(e, m, <<Set(slot)>>, v), Put(r, RefPlace(S[g], o), v))
    BY <1>2, <1>3, PlainWriteStep
  <1>5. Good(e, p, g, S, out.an, I, U \cup {o}, Run(e, m, out.items, v), Put(r, RefPlace(S[g], o), v))
    BY <1>1, <1>4
  <1> QED
    BY <1>5 DEF out

\* What PRINT and a byte read show.
Printed(e, m, out) ==
    IF Len(out.items) > 0 /\ out.items[1].k = "print" THEN ValueAt(m, Key(e, out.items[1].to)) ELSE 0

LEMMA ShowItem ==
    ASSUME NEW e, NEW m, NEW v, NEW out, NEW slot, out.items = <<Show(slot)>>
    PROVE  Run(e, m, out.items, v) = m /\ Printed(e, m, out) = ValueAt(m, Key(e, slot))
  <1> DEFINE it == Show(slot)
  <1>1. it.k = "print" /\ it.to = slot
    BY DEF Show
  <1>2. out.items = <<it>>
    OBVIOUS
  <1> HIDE DEF it
  <1>3. Len(<<it>>) = 1 /\ <<it>>[1] = it
    OBVIOUS
  <1>4. exec_item(m, it, v) = m /\ emit_item(m, it, v) = m
    BY <1>1 DEF exec_item, emit_item
  <1>5. Run(e, m, <<it>>, v) = m
    BY <1>4, RunOne
  <1> QED
    BY ONLY <1>1, <1>2, <1>3, <1>5 DEF Printed

LEMMA ShowNothing ==
    ASSUME NEW e, NEW m, NEW v, NEW out, out.items = <<>>
    PROVE  Run(e, m, out.items, v) = m /\ Printed(e, m, out) = 0
  <1>1. Len(<<>>) = 0
    OBVIOUS
  <1> QED
    BY <1>1 DEF Run, RunSlots, RunC, Printed

\* PRINT shows the reference's value.
LEMMA PrintStep ==
    ASSUME PlainNames, NEW e \in Engines, NEW p, NEW g, NEW S, Scene(p, g, S),
           NEW a, NEW I, NEW U, NEW m, NEW r, Good(e, p, g, S, a, I, U, m, r),
           NEW o \in Live(p[g]) \cup Element, NEW v
    PROVE  LET out == print_stmt(a, o)
           IN  /\ out.an = a /\ Run(e, m, out.items, v) = m
               /\ Printed(e, m, out) = ValueAt(r, RefPlace(S[g], o))
  <1> DEFINE out == print_stmt(a, o)
             slot == expr(a, o)
  <1>1. out.an = a /\ out.items = <<Show(slot)>>
    BY DEF print_stmt, Out, Show
  <1>2. Key(e, slot) = Place(e, p[g], S[g], o)
    <2>1. CASE o \in Element
      BY <2>1, ElementParts, ElementKey DEF expr
    <2>2. CASE o \in Live(p[g])
      <3>1. /\ FunctionOK(p[g]) /\ ParamsApart(p[g]) /\ S[g] \subseteq Live(p[g]) /\ o \in Scalar
            /\ TablesOK(a, p[g], S[g]) /\ SymbolsOK(a, p[g])
        BY <2>2, SceneParts DEF Good, Tables
      <3>2. slot = symbol(a, o.n, o.s)
        BY <3>1, ScalarParts DEF expr
      <3>3. Means(symbol(a, o.n, o.s), p[g], S[g], o)
        BY <2>2, <3>1, SymbolMeans
      <3> QED
        BY <3>1, <3>2, <3>3, MeansKey
    <2> QED
      BY <2>1, <2>2
  <1>3. ValueAt(m, Place(e, p[g], S[g], o)) = ValueAt(r, RefPlace(S[g], o))
    BY HoldsValue DEF Good
  <1> HIDE DEF out, slot
  <1>4. Run(e, m, out.items, v) = m /\ Printed(e, m, out) = ValueAt(m, Key(e, slot))
    BY <1>1, ShowItem
  <1> QED
    BY <1>1, <1>2, <1>3, <1>4 DEF out

\* A byte read too, of a string introduced.
LEMMA ByteStep ==
    ASSUME PlainNames, NEW e \in Engines, NEW p, NEW g, NEW S, Scene(p, g, S),
           NEW a, NEW I, NEW U, NEW m, NEW r, Good(e, p, g, S, a, I, U, m, r),
           NEW o \in Live(p[g]), NEW v, o.s = "$", o \in I, o \in S[g] => ~Mixed(p[g], o.n)
    PROVE  LET out == function_call(a, o)
           IN  /\ out.an = a /\ Run(e, m, out.items, v) = m
               /\ Printed(e, m, out) = ValueAt(r, RefPlace(S[g], o))
  <1> DEFINE out == function_call(a, o)
  <1>1. /\ FunctionOK(p[g]) /\ ParamsApart(p[g]) /\ S[g] \subseteq Live(p[g]) /\ o \in Scalar
        /\ TablesOK(a, p[g], S[g]) /\ SymbolsOK(a, p[g]) /\ ArraysOK(a, p[g])
        /\ IntroducedOK(a, p[g], I, r) /\ ~Elem(o)
    BY SceneParts, ScalarParts DEF Good, Tables
  <1>5. out.an = a /\ ByteFinds(out, p[g], S[g], o, r)
    BY <1>1, ByteMeans
  <1> HIDE DEF out
  <1>2. /\ out.an = a
        /\ \/ \E slot : out.items = <<Show(slot)>> /\ Means(slot, p[g], S[g], o)
           \/ /\ \/ out.items = <<>>
                 \/ \E slot : /\ out.items = <<Show(slot)>> /\ SlotKey(slot) = TextElement(o)
                              /\ CKey(slot) = TextElement(o)
              /\ o \notin S[g] /\ ValueAt(r, RefLocal(o)) = 0
    BY ONLY <1>5 DEF ByteFinds
  <1>3. CASE \E slot : out.items = <<Show(slot)>> /\ Means(slot, p[g], S[g], o)
    <2>1. PICK slot : out.items = <<Show(slot)>> /\ Means(slot, p[g], S[g], o)
      BY <1>3
    <2>2. Key(e, slot) = Place(e, p[g], S[g], o)
      BY <1>1, <2>1, MeansKey
    <2>3. ValueAt(m, Place(e, p[g], S[g], o)) = ValueAt(r, RefPlace(S[g], o))
      BY HoldsValue DEF Good
    <2>4. Run(e, m, out.items, v) = m /\ Printed(e, m, out) = ValueAt(m, Key(e, slot))
      BY <2>1, ShowItem
    <2> QED
      BY <1>2, <2>2, <2>3, <2>4 DEF out
  <1>4. CASE out.items = <<>> /\ o \notin S[g] /\ ValueAt(r, RefLocal(o)) = 0
    <2>1. RefPlace(S[g], o) = RefLocal(o)
      BY <1>1, <1>4 DEF RefPlace
    <2>2. Run(e, m, out.items, v) = m /\ Printed(e, m, out) = 0
      BY <1>4, ShowNothing
    <2> QED
      BY <1>2, <1>4, <2>1, <2>2 DEF out
  <1>6. CASE /\ \E slot : /\ out.items = <<Show(slot)>> /\ SlotKey(slot) = TextElement(o)
                          /\ CKey(slot) = TextElement(o)
             /\ o \notin S[g] /\ ValueAt(r, RefLocal(o)) = 0
    <2>1. PICK slot : out.items = <<Show(slot)>> /\ SlotKey(slot) = TextElement(o) /\ CKey(slot) = TextElement(o)
      BY <1>6
    <2>2. RefPlace(S[g], o) = RefLocal(o)
      BY <1>1, <1>6 DEF RefPlace
    <2>3. Key(e, slot) = TextElement(o) /\ ValueAt(m, TextElement(o)) = 0
      BY <1>1, <2>1 DEF Key, Good, Holds
    <2>4. Run(e, m, out.items, v) = m /\ Printed(e, m, out) = ValueAt(m, Key(e, slot))
      BY <2>1, ShowItem
    <2> QED
      BY <1>2, <1>6, <2>2, <2>3, <2>4 DEF out
  <1> QED
    BY <1>2, <1>3, <1>4, <1>6

LEMMA GoodMore ==
    ASSUME NEW e, NEW p, NEW g, NEW S, NEW a, NEW I, NEW U, NEW m, NEW r,
           Good(e, p, g, S, a, I, U, m, r), NEW W, U \subseteq W
    PROVE  Good(e, p, g, S, a, I, W, m, r)
BY UntouchedLess DEF Good, Tables

\* DIM: a local with no value yet is set to 0, in the interpreter.
LEMMA DimStep ==
    ASSUME PlainNames, NEW e \in Engines, NEW p, NEW g, NEW S, Scene(p, g, S),
           NEW a, NEW I, NEW U, NEW m, NEW r, Good(e, p, g, S, a, I, U, m, r),
           NEW o \in Live(p[g]), NEW v, o \notin S[g], o \notin U
    PROVE  LET out == DimOf(a, o)
           IN  Good(e, p, g, S, out.an, I \cup {o}, U \cup {o}, Run(e, m, out.items, v),
                    Put(r, RefPlace(S[g], o), 0))
  <1> DEFINE out == DimOf(a, o)
             it == [k |-> "dim", to |-> Slot("local", NameOf(p[g], o), from_suffix(o.s))]
             s == Put(r, RefPlace(S[g], o), 0)
             b == out.an
  <1>1. /\ FunctionOK(p[g]) /\ ParamsApart(p[g]) /\ S[g] \subseteq Live(p[g]) /\ o \in Scalar
        /\ TablesOK(a, p[g], S[g]) /\ SymbolsOK(a, p[g]) /\ ArraysOK(a, p[g])
        /\ IntroducedOK(a, p[g], I, r) /\ Untouched(U, r) /\ Holds(e, p, g, S, m, r) /\ ~Elem(o)
    BY SceneParts, ScalarParts DEF Good, Tables
  <1>13. /\ Declares(a, DimOf(a, o).an, p[g], o)
         /\ DimOf(a, o).an.shared_scalars = {NameOf(p[g], q) : q \in S[g]}
         /\ DimOf(a, o).items =
              <<[k |-> "dim", to |-> Slot("local", NameOf(p[g], o), from_suffix(o.s))]>>
    BY <1>1, DimDeclares
  <1>0. Declares(a, b, p[g], o) /\ b.shared_scalars = {NameOf(p[g], q) : q \in S[g]}
    BY <1>1, <1>13
  <1>2. /\ TablesOK(b, p[g], S[g]) /\ SymbolsOK(b, p[g]) /\ IntroducedOK(b, p[g], I \cup {o}, r)
        /\ ArraysOK(b, p[g])
    <2> HIDE DEF b
    <2>1. b.arrays = a.arrays /\ DOMAIN b.symbols = DOMAIN a.symbols \cup {NameOf(p[g], o)}
      BY <1>0 DEF Declares, Put
    <2> QED
      BY <1>0, <1>1, <2>1, DeclareTables, ArraysKept
  <1>3. out.items = <<it>>
    BY <1>13
  <1>4. RefPlace(S[g], o) = RefLocal(o) /\ Place(e, p[g], S[g], o) = LocalKey(e, p[g], o)
    BY <1>1 DEF RefPlace, Place
  <1>5. it.k = "dim" /\ it.to.st = "local" /\ it.to.n = NameOf(p[g], o)
    BY SlotParts
  <1> HIDE DEF out, it, s, b
  <1>6. Holds(e, p, g, S, Run(e, m, <<it>>, v), s)
    <2>1. CASE e = "interp"
      <3>1. SlotKey(it.to) = LocalKey(e, p[g], o)
        BY <1>5, <2>1 DEF SlotKey, LocalKey
      <3>2. exec_item(m, it, v) = Put(m, SlotKey(it.to), 0)
        BY <1>5 DEF exec_item
      <3>3. Run(e, m, <<it>>, v) = exec_item(m, it, v)
        BY <2>1, RunOne
      <3>4. Holds(e, p, g, S, Put(m, Place(e, p[g], S[g], o), 0), s)
        BY <1>1, HoldsWrite DEF s
      <3> QED
        BY <1>4, <3>1, <3>2, <3>3, <3>4
    <2>2. CASE e = "c"
      <3>1. Run(e, m, <<it>>, v) = m
        BY <1>5, <2>2, RunOne DEF emit_item
      <3>2. ValueAt(r, RefLocal(o)) = 0
        BY <1>1 DEF Untouched
      <3>3. Holds(e, p, g, S, m, s)
        BY <1>1, <1>4, <3>2, HoldsZero DEF s
      <3> QED
        BY <3>1, <3>3
    <2> QED
      BY <2>1, <2>2 DEF Engines
  <1>7. \A q \in Scalar : ValueAt(r, RefLocal(q)) = 0 => ValueAt(s, RefLocal(q)) = 0
    BY <1>4, PutValue DEF s
  <1>8. ValueAt(s, RefLocal(o)) = 0
    BY <1>4, PutValue DEF s
  <1>9. IntroducedOK(b, p[g], I \cup {o}, s)
    <2>1. \A q \in String : q \in Scalar
      BY DEF String
    <2> QED
      BY <1>2, <1>7, <2>1 DEF IntroducedOK
  <1>10. Untouched(U \cup {o}, s)
    BY <1>1, <1>7 DEF Untouched
  <1>12. Good(e, p, g, S, b, I \cup {o}, U \cup {o}, Run(e, m, out.items, v), s)
    BY <1>2, <1>3, <1>6, <1>9, <1>10 DEF Good, Tables
  <1> QED
    BY <1>12 DEF out, b, s

\* SHARED.
LEMMA DeclareStep ==
    ASSUME PlainNames, NEW e \in Engines, NEW p, NEW g, NEW S, Scene(p, g, S),
           NEW a, NEW I, NEW U, NEW m, NEW r, Good(e, p, g, S, a, I, U, m, r),
           NEW o \in Live(p[g]), NEW v,
           NEW T, \A h \in 1 .. g : T[h] = IF h = g THEN S[g] \cup {o} ELSE S[h],
           SharedApart(p, g, T)
    PROVE  LET out == SharedOf(a, o)
           IN  Good(e, p, g, T, out.an, I \cup {o}, U \cup {o}, Run(e, m, out.items, v), r)
  <1> DEFINE out == SharedOf(a, o)
             it == [k |-> "dim", to |-> Slot("shared", NameOf(p[g], o), from_suffix(o.s))]
             b == out.an
  <1>1. /\ FunctionOK(p[g]) /\ ParamsApart(p[g]) /\ S[g] \subseteq Live(p[g]) /\ o \in Scalar
        /\ TablesOK(a, p[g], S[g]) /\ SymbolsOK(a, p[g]) /\ ArraysOK(a, p[g])
        /\ IntroducedOK(a, p[g], I, r) /\ Untouched(U, r) /\ Holds(e, p, g, S, m, r)
        /\ T[g] = S[g] \cup {o}
    BY SceneParts DEF Good, Tables
  <1>13. /\ Declares(a, SharedOf(a, o).an, p[g], o)
         /\ SharedOf(a, o).an.shared_scalars = {NameOf(p[g], q) : q \in S[g] \cup {o}}
         /\ SharedOf(a, o).items =
              <<[k |-> "dim", to |-> Slot("shared", NameOf(p[g], o), from_suffix(o.s))]>>
    BY <1>1, SharedDeclares
  <1>0. Declares(a, b, p[g], o) /\ b.shared_scalars = {NameOf(p[g], q) : q \in T[g]}
    BY <1>1, <1>13
  <1>2. /\ TablesOK(b, p[g], T[g]) /\ SymbolsOK(b, p[g]) /\ IntroducedOK(b, p[g], I \cup {o}, r)
        /\ ArraysOK(b, p[g])
    <2> HIDE DEF b
    <2>1. b.arrays = a.arrays /\ DOMAIN b.symbols = DOMAIN a.symbols \cup {NameOf(p[g], o)}
      BY <1>0 DEF Declares, Put
    <2> QED
      BY <1>0, <1>1, <2>1, DeclareTables, ArraysKept
  <1>3. out.items = <<it>>
    BY <1>13
  <1>5. it.k = "dim" /\ it.to.st = "shared" /\ it.to.n = NameOf(p[g], o)
    BY SlotParts
  <1> HIDE DEF out, it, b
  <1>6. Run(e, m, <<it>>, v) = m \/ Run(e, m, <<it>>, v) = OrPut(m, SharedKey(p[g], o), 0)
    <2>1. CASE e = "interp"
      <3>1. SlotKey(it.to) = SharedKey(p[g], o)
        BY <1>5 DEF SlotKey, SharedKey
      <3>2. exec_item(m, it, v) = OrPut(m, SlotKey(it.to), 0)
        BY <1>5 DEF exec_item
      <3> QED
        BY <2>1, <3>1, <3>2, RunOne
    <2>2. CASE e = "c"
      BY <1>5, <2>2, RunOne DEF emit_item
    <2> QED
      BY <2>1, <2>2 DEF Engines
  <1>7. Holds(e, p, g, T, Run(e, m, <<it>>, v), r)
    <2> DEFINE n == Run(e, m, <<it>>, v)
    <2>1. n = m \/ n = OrPut(m, SharedKey(p[g], o), 0)
      BY <1>6
    <2> HIDE DEF n
    <2>2. Holds(e, p, g, T, n, r)
      BY <1>1, <2>1, HoldsShared
    <2> QED
      BY <2>2 DEF n
  <1>10. Untouched(U \cup {o}, r)
    BY <1>1, UntouchedLess
  <1>12. Good(e, p, g, T, b, I \cup {o}, U \cup {o}, Run(e, m, out.items, v), r)
    BY <1>2, <1>3, <1>7, <1>10 DEF Good, Tables
  <1> QED
    BY <1>12 DEF out, b

\* DIM of an array, whose base is no scalar of the function.
LEMMA ArrayStep ==
    ASSUME PlainNames, NEW e \in Engines, NEW p, NEW g, NEW S, Scene(p, g, S),
           NEW a, NEW I, NEW U, NEW m, NEW r, Good(e, p, g, S, a, I, U, m, r),
           NEW o \in Scalar, NEW v, \A q \in Uses(p[g]) : q.n # o.n
    PROVE  LET out == dimArray(a, o)
           IN  Good(e, p, g, S, out.an, I, U \cup {o}, Run(e, m, out.items, v), r)
  <1> DEFINE out == dimArray(a, o)
             x == full_name(o.n, o.s)
             it == [k |-> "dim_array", to |-> Local(x, from_suffix(o.s))]
             b == out.an
  <1>1. /\ TablesOK(a, p[g], S[g]) /\ SymbolsOK(a, p[g]) /\ ArraysOK(a, p[g])
        /\ IntroducedOK(a, p[g], I, r) /\ Untouched(U, r) /\ Holds(e, p, g, S, m, r)
    BY DEF Good, Tables
  <1>2. TablesOK(b, p[g], S[g]) /\ SymbolsOK(b, p[g]) /\ ArraysOK(b, p[g]) /\ IntroducedOK(b, p[g], I, r)
    BY <1>1, ArrayTables
  <1>3. out.items = <<it>>
    BY DEF dimArray, Out
  <1>4. it.k = "dim_array" /\ it.to.st = "local" /\ it.to.n = x
    BY SlotParts DEF Local
  <1>5. x[1] = o.n[1]
    BY FullName
  <1> HIDE DEF out, it, b, x
  <1>6. Holds(e, p, g, S, Run(e, m, <<it>>, v), r)
    <2>1. CASE e = "interp"
      <3> DEFINE k == SlotKey(it.to)
      <3>1. k = <<"local", x>>
        BY <1>4 DEF SlotKey
      <3>2. ASSUME NEW q \in Live(p[g])
            PROVE  k # LocalKey(e, p[g], q)
        <4>1. LocalKey(e, p[g], q) = <<"local", NameOf(p[g], q)>>
          BY <2>1 DEF LocalKey
        <4>2. NameOf(p[g], q)[1] = q.n[1] /\ q \in Scalar /\ q.n # o.n
          BY LiveUsed, NameParts
        <4>3. q.n[1] # o.n[1]
          BY <4>2, SameBase
        <4> HIDE DEF k
        <4> QED
          BY <1>5, <3>1, <4>1, <4>2, <4>3
      <3>3. k[1] = "local"
        BY <3>1
      <3>4. Run(e, m, <<it>>, v) = Put(m, k, 0)
        BY <1>4, <2>1, RunOne DEF exec_item
      <3> HIDE DEF k
      <3> QED
        BY <1>1, <3>2, <3>3, <3>4, HoldsAside
    <2>2. CASE e = "c"
      <3>1. Run(e, m, <<it>>, v) = m
        BY <1>4, <2>2, RunOne DEF emit_item
      <3> QED
        BY <1>1, <3>1
    <2> QED
      BY <2>1, <2>2 DEF Engines
  <1>7. Untouched(U \cup {o}, r)
    BY <1>1, UntouchedLess
  <1>8. Good(e, p, g, S, b, I, U \cup {o}, Run(e, m, out.items, v), r)
    BY <1>2, <1>3, <1>6, <1>7 DEF Good, Tables
  <1> QED
    BY <1>8 DEF out, b

\* The slot of a name that no function shares is not under the name of a shared one.
LEMMA NotShared ==
    ASSUME PlainNames, NEW e, NEW p, NEW g, NEW S, Scene(p, g, S), NEW m, NEW r, Holds(e, p, g, S, m, r),
           NEW x \in Scalar, \A h \in 1 .. g : \A q \in S[h] : q.n # x.n
    PROVE  <<"shared", x.n>> \notin DOMAIN m
  <1> DEFINE k == <<"shared", x.n>>
  <1> SUFFICES ASSUME k \in DOMAIN m PROVE FALSE
    OBVIOUS
  <1>1. k[1] = "shared" /\ k[2] = x.n
    OBVIOUS
  <1>2. PICK h \in 1 .. g : \E q \in S[h] : k = SharedKey(p[h], q)
    BY <1>1 DEF Holds
  <1>3. PICK q \in S[h] : k = SharedKey(p[h], q)
    BY <1>2
  <1>4. SharedKey(p[h], q)[2] = NameOf(p[h], q)
    BY DEF SharedKey
  <1>5. q \in Scalar
    BY SceneParts
  <1>6. NameOf(p[h], q)[1] = q.n[1]
    BY <1>5, NameParts
  <1>7. q.n[1] = x.n[1]
    BY <1>1, <1>3, <1>4, <1>6
  <1>8. q.n = x.n
    BY <1>5, <1>7, SameBase
  <1> QED
    BY <1>8

\* SWAP of two scalars: one item, two stores.
LEMMA SwapStep ==
    ASSUME PlainNames, NEW e \in Engines, NEW p, NEW g, NEW S, Scene(p, g, S),
           NEW a, NEW I, NEW U, NEW m, NEW r, Good(e, p, g, S, a, I, U, m, r),
           NEW x \in Live(p[g]), NEW y \in Live(p[g]), NEW v,
           \A o \in {x, y} : o \notin S[g] /\ ~Mixed(p[g], o.n) /\ (IsText(o) => o \in I),
           e = "interp" => \A h \in 1 .. g : \A q \in S[h] : q.n # x.n /\ q.n # y.n
    PROVE  LET out == swap_stmt(a, x, y)
               i == RefPlace(S[g], x)
               j == RefPlace(S[g], y)
           IN  Good(e, p, g, S, out.an, I, U \cup {x, y}, Run(e, m, out.items, v),
                    Put(Put(r, i, ValueAt(r, j)), j, ValueAt(r, i)))
  <1> DEFINE out == swap_stmt(a, x, y)
             i == RefPlace(S[g], x)
             j == RefPlace(S[g], y)
             k == Place(e, p[g], S[g], x)
             l == Place(e, p[g], S[g], y)
             c == auto_symbol(a, SwapName(x))
             d == auto_symbol(a, SwapName(y))
             it == [k |-> "swap", to |-> c, from |-> d]
             s == Put(r, i, ValueAt(r, j))
             t == Put(s, j, ValueAt(r, i))
             n == Put(Put(m, k, ValueAt(m, l)), l, ValueAt(m, k))
  <1>1. /\ FunctionOK(p[g]) /\ ParamsApart(p[g]) /\ S[g] \subseteq Live(p[g])
        /\ x \in Scalar /\ y \in Scalar
        /\ TablesOK(a, p[g], S[g]) /\ SymbolsOK(a, p[g]) /\ ArraysOK(a, p[g])
        /\ IntroducedOK(a, p[g], I, r) /\ Untouched(U, r) /\ Holds(e, p, g, S, m, r)
    BY SceneParts DEF Good, Tables
  <1>2. SwapName(x) \notin a.shared_scalars /\ Means(c, p[g], S[g], x)
    BY <1>1, SwapMeans
  <1>3. SwapName(y) \notin a.shared_scalars /\ Means(d, p[g], S[g], y)
    BY <1>1, SwapMeans
  <1>4. out.an = a /\ out.items = <<it>>
    <2>1. ~Elem(x) /\ ~Elem(y)
      BY <1>1, ScalarParts
    <2>2. out = Out(a, <<it>>)
      BY <1>2, <1>3, <2>1 DEF swap_stmt
    <2> HIDE DEF out, it
    <2> QED
      BY ONLY <2>2 DEF Out
  <1>5. Key(e, c) = k /\ Key(e, d) = l
    BY <1>1, <1>2, <1>3, MeansKey
  <1>6. it.k = "swap" /\ it.to = c /\ it.from = d
    OBVIOUS
  <1>7. x.n \notin Clashes(p[g]) /\ y.n \notin Clashes(p[g])
    BY <1>1, ScalarParts, ClashMixed
  <1>8. c.n = x.n /\ d.n = y.n
    BY <1>1, <1>2, <1>3, <1>7, NameParts DEF Means, Named
  <1>9. Run(e, m, <<it>>, v) = n
    <2> HIDE DEF it, c, d, k, l
    <2>1. CASE e = "interp"
      <3>1. <<"shared", x.n>> \notin DOMAIN m /\ <<"shared", y.n>> \notin DOMAIN m
        BY <1>1, <2>1, NotShared
      <3>2. SlotKey(c) = k /\ SlotKey(d) = l
        BY <1>5, <2>1 DEF Key
      <3>3. exec_swap(m, c, d) = n
        BY <1>8, <3>1, <3>2 DEF exec_swap
      <3>4. exec_item(m, it, v) = exec_swap(m, c, d)
        BY <1>6 DEF exec_item
      <3> HIDE DEF n
      <3> QED
        BY <2>1, <3>3, <3>4, RunOne
    <2>2. CASE e = "c"
      <3>1. CKey(c) = k /\ CKey(d) = l
        BY <1>5, <2>2 DEF Key
      <3>2. emit_swap(m, c, d) = n
        BY <3>1 DEF emit_swap
      <3>3. emit_item(m, it, v) = emit_swap(m, c, d)
        BY <1>6 DEF emit_item
      <3> HIDE DEF n
      <3> QED
        BY <2>2, <3>2, <3>3, RunOne
    <2> QED
      BY <2>1, <2>2 DEF Engines
  <1>10. Holds(e, p, g, S, n, t)
    <2>1. ValueAt(m, k) = ValueAt(r, i) /\ ValueAt(m, l) = ValueAt(r, j)
      BY <1>1, HoldsValue
    <2>2. Holds(e, p, g, S, Put(m, k, ValueAt(m, l)), Put(r, i, ValueAt(m, l)))
      BY <1>1, HoldsWrite
    <2>3. Holds(e, p, g, S, Put(m, k, ValueAt(m, l)), s)
      BY <2>1, <2>2
    <2> DEFINE w == Put(m, k, ValueAt(m, l))
               u == ValueAt(m, k)
    <2> HIDE DEF w, s, u
    <2>4. Holds(e, p, g, S, w, s)
      BY <2>3 DEF w
    <2>5. Holds(e, p, g, S, Put(w, l, u), Put(s, j, u))
      BY <2>4, HoldsWrite
    <2> QED
      BY <2>1, <2>5 DEF w, u
  <1>11. IntroducedOK(a, p[g], I, s)
    BY <1>1, <1>7, WriteIntroduced
  <1>12. Untouched(U \cup {x}, s)
    BY <1>1, WriteUntouched
  <1>13. IntroducedOK(a, p[g], I, t) /\ Untouched((U \cup {x}) \cup {y}, t)
    <2> HIDE DEF s
    <2>1. IntroducedOK(a, p[g], I, t)
      BY <1>1, <1>7, <1>11, WriteIntroduced
    <2>2. Untouched((U \cup {x}) \cup {y}, t)
      BY <1>1, <1>12, WriteUntouched
    <2> QED
      BY <2>1, <2>2
  <1> HIDE DEF out, it, n, s, t, i, j, k, l
  <1>14. Untouched(U \cup {x, y}, t)
    <2>1. (U \cup {x}) \cup {y} = U \cup {x, y}
      OBVIOUS
    <2> QED
      BY <1>13, <2>1
  <1>15. Good(e, p, g, S, out.an, I, U \cup {x, y}, Run(e, m, out.items, v), t)
    BY <1>1, <1>4, <1>9, <1>10, <1>13, <1>14 DEF Good, Tables
  <1> QED
    BY <1>15 DEF out, t, s, i, j

-----------------------------------------------------------------------------
(* Any statement but SHARED *)

\* The reference's store, and the spellings introduced.
RefAfter(D, r, st, v) ==
    CASE st.op = "dim" -> Put(r, RefPlace(D, st.l), 0)
      [] st.op \in Stores -> Put(r, RefPlace(D, st.l), v)
      [] st.op = "swap" -> Put(Put(r, RefPlace(D, st.l), ValueAt(r, RefPlace(D, st.r))),
                               RefPlace(D, st.r), ValueAt(r, RefPlace(D, st.l)))
      [] OTHER -> r
Introduces(st) == IF st.op \in {"assign", "dim", "shared"} THEN {st.l} \cap Scalar ELSE {}

\* No departure begins at the statement.
Allowed(e, p, g, S, I, U, st) ==
    /\ st.op # "dim_array" => Operands(st) \cap Scalar \subseteq Live(p[g])
    /\ st.op = "byref" => ~(Mixed(p[g], st.l.n) /\ IsText(st.l))
    /\ st.op = "read" => ~Mixed(p[g], st.l.n) /\ st.l \notin S[g]
    /\ st.op = "for" => st.l \notin S[g]
    /\ st.op = "inc" => ~(e = "c" /\ Mixed(p[g], st.l.n))
    /\ st.op = "brace" => ~Mixed(p[g], st.l.n) /\ st.l \in I
    /\ st.op = "byte" => st.l \in I /\ (st.l \in S[g] => ~Mixed(p[g], st.l.n))
    /\ st.op = "dim_array" => \A q \in Uses(p[g]) : q.n # st.l.n
    /\ st.op = "dim" => st.l \notin S[g] /\ st.l \notin U
    /\ st.op = "swap" =>
         /\ \A o \in {st.l, st.r} :
               o \in Scalar /\ o \notin S[g] /\ ~Mixed(p[g], o.n) /\ (IsText(o) => o \in I)
         /\ e = "interp" => \A h \in 1 .. g : \A q \in S[h] : q.n # st.l.n /\ q.n # st.r.n

\* Each is one of the above.
LEMMA StatementStep ==
    ASSUME PlainNames, NEW e \in Engines, NEW p, NEW g, NEW S, Scene(p, g, S),
           NEW a, NEW I, NEW U, NEW m, NEW r, Good(e, p, g, S, a, I, U, m, r),
           NEW st \in PlainStatement, st.op # "shared", Allowed(e, p, g, S, I, U, st), NEW v
    PROVE  LET out == statement(a, st)
           IN  Good(e, p, g, S, out.an, I \cup Introduces(st), U \cup Operands(st),
                    Run(e, m, out.items, v), RefAfter(S[g], r, st, v))
  <1> DEFINE out == statement(a, st)
             o == st.l
             W == Put(r, RefPlace(S[g], o), v)
             Goal == Good(e, p, g, S, out.an, I \cup Introduces(st), U \cup Operands(st),
                          Run(e, m, out.items, v), RefAfter(S[g], r, st, v))
  <1>0. /\ st.op # "swap" => Operands(st) = {o}
        /\ st.op \notin {"assign", "print", "swap"} => o \in Scalar
        /\ st.op \notin {"assign", "print", "swap", "dim_array"} => o \in Live(p[g])
        /\ o \in Scalar /\ st.op # "dim_array" => o \in Live(p[g])
        /\ o \in Scalar \cup Element
        /\ st.op \in Stores => RefAfter(S[g], r, st, v) = W
        /\ st.op \in Shows \cup {"dim_array"} => RefAfter(S[g], r, st, v) = r
        /\ st.op \notin {"assign", "dim"} => I \cup Introduces(st) = I
    <2>1. /\ st.op # "swap" => Operands(st) = {o}
          /\ st.op \notin {"assign", "print", "swap"} => o \in Scalar
          /\ o \in Scalar \cup Element /\ o \in Operands(st)
      BY StatementParts
    <2>2. o \in Scalar /\ st.op # "dim_array" => o \in Live(p[g])
      BY <2>1 DEF Allowed
    <2>3. st.op \in Stores => RefAfter(S[g], r, st, v) = W
      BY DEF RefAfter, Stores
    <2>4. st.op \in Shows \cup {"dim_array"} => RefAfter(S[g], r, st, v) = r
      BY DEF RefAfter, Stores, Shows
    <2>5. st.op \notin {"assign", "dim"} => I \cup Introduces(st) = I
      BY DEF Introduces
    <2> QED
      BY <2>1, <2>2, <2>3, <2>4, <2>5
  <1>1. CASE st.op = "assign" /\ o \in Scalar
    <2>1. out = assignment(a, o)
      BY <1>1, ScalarParts DEF statement
    <2>2. Introduces(st) = {o}
      BY <1>1 DEF Introduces
    <2>3. Good(e, p, g, S, assignment(a, o).an, I \cup {o}, U \cup {o},
               Run(e, m, assignment(a, o).items, v), W)
      BY <1>0, <1>1, AssignStep
    <2>4. Goal
      BY <1>0, <1>1, <2>1, <2>2, <2>3 DEF Stores
    <2> QED
      BY <2>4
  <1>2. CASE st.op = "assign" /\ o \in Element
    <2>1. out = array_assignment(a, o)
      BY <1>2, ElementParts DEF statement
    <2>2. Introduces(st) = {}
      BY <1>2, ElementParts DEF Introduces
    <2>3. Good(e, p, g, S, array_assignment(a, o).an, I, U \cup {o},
               Run(e, m, array_assignment(a, o).items, v), W)
      BY <1>2, ElementStep
    <2>4. Goal
      BY <1>0, <1>2, <2>1, <2>2, <2>3 DEF Stores
    <2> QED
      BY <2>4
  <1>3. CASE st.op = "byref"
    <2>1. out = call_arg(a, o)
      BY <1>3 DEF statement
    <2>3. Good(e, p, g, S, call_arg(a, o).an, I, U \cup {o}, Run(e, m, call_arg(a, o).items, v), W)
      BY <1>0, <1>3, ByrefStep DEF Allowed
    <2>4. Goal
      BY <1>0, <1>3, <2>1, <2>3 DEF Stores
    <2> QED
      BY <2>4
  <1>4. CASE st.op = "inc"
    <2>1. out = inc_dec(a, o)
      BY <1>4 DEF statement
    <2>2. o.s = ""
      BY <1>4, StatementParts DEF Number
    <2>3. ~(e = "c" /\ Mixed(p[g], o.n))
      BY <1>4 DEF Allowed
    <2>4. Good(e, p, g, S, inc_dec(a, o).an, I, U \cup {o}, Run(e, m, inc_dec(a, o).items, v), W)
      BY <1>0, <1>4, <2>2, <2>3, IncStep
    <2>5. Goal
      BY <1>0, <1>4, <2>1, <2>4 DEF Stores
    <2> QED
      BY <2>5
  <1>5. CASE st.op = "for"
    <2>1. out = for_stmt(a, o)
      BY <1>5 DEF statement
    <2>2. o.s = "" /\ o \notin S[g]
      BY <1>5, StatementParts DEF Number, Allowed
    <2>3. Good(e, p, g, S, for_stmt(a, o).an, I, U \cup {o}, Run(e, m, for_stmt(a, o).items, v), W)
      BY <1>0, <1>5, <2>2, ForStep
    <2>4. Goal
      BY <1>0, <1>5, <2>1, <2>3 DEF Stores
    <2> QED
      BY <2>4
  <1>6. CASE st.op = "read"
    <2>1. out = read_stmt(a, o)
      BY <1>6 DEF statement
    <2>3. Good(e, p, g, S, read_stmt(a, o).an, I, U \cup {o}, Run(e, m, read_stmt(a, o).items, v), W)
      BY <1>0, <1>6, ReadStep DEF Allowed
    <2>4. Goal
      BY <1>0, <1>6, <2>1, <2>3 DEF Stores
    <2> QED
      BY <2>4
  <1>7. CASE st.op = "brace"
    <2>1. out = brace_assignment(a, o)
      BY <1>7 DEF statement
    <2>2. o.s = "$"
      BY <1>7, StatementParts DEF String
    <2>3. Good(e, p, g, S, brace_assignment(a, o).an, I, U \cup {o},
               Run(e, m, brace_assignment(a, o).items, v), W)
      BY <1>0, <1>7, <2>2, BraceStep DEF Allowed
    <2>4. Goal
      BY <1>0, <1>7, <2>1, <2>3 DEF Stores
    <2> QED
      BY <2>4
  <1>8. CASE st.op = "byte"
    <2>1. out = function_call(a, o)
      BY <1>8 DEF statement
    <2>2. o.s = "$"
      BY <1>8, StatementParts DEF String
    <2>3. out.an = a /\ Run(e, m, out.items, v) = m
      BY <1>0, <1>8, <2>1, <2>2, ByteStep DEF Allowed
    <2>4. Good(e, p, g, S, a, I, U \cup {o}, m, r)
      BY GoodMore
    <2>5. Goal
      BY <1>0, <1>8, <2>3, <2>4 DEF Shows
    <2> QED
      BY <2>5
  <1>9. CASE st.op = "print"
    <2>1. out = print_stmt(a, o)
      BY <1>9 DEF statement
    <2>3. out.an = a /\ Run(e, m, out.items, v) = m
      BY <1>0, <1>9, <2>1, PrintStep
    <2>4. Good(e, p, g, S, a, I, U \cup {o}, m, r)
      BY GoodMore
    <2>5. Goal
      BY <1>0, <1>9, <2>3, <2>4 DEF Shows
    <2> QED
      BY <2>5
  <1>10. CASE st.op = "dim"
    <2>1. out = DimOf(a, o)
      BY <1>10 DEF statement, DimOf
    <2>2. Introduces(st) = {o}
      BY <1>0, <1>10 DEF Introduces
    <2>3. Good(e, p, g, S, DimOf(a, o).an, I \cup {o}, U \cup {o}, Run(e, m, DimOf(a, o).items, v),
               Put(r, RefPlace(S[g], o), 0))
      BY <1>0, <1>10, DimStep DEF Allowed
    <2>4. RefAfter(S[g], r, st, v) = Put(r, RefPlace(S[g], o), 0)
      BY <1>10 DEF RefAfter, Stores
    <2>5. Goal
      BY <1>0, <1>10, <2>1, <2>2, <2>3, <2>4
    <2> QED
      BY <2>5
  <1>11. CASE st.op = "dim_array"
    <2>1. out = dimArray(a, o)
      BY <1>11 DEF statement
    <2>3. Good(e, p, g, S, dimArray(a, o).an, I, U \cup {o}, Run(e, m, dimArray(a, o).items, v), r)
      BY <1>0, <1>11, ArrayStep DEF Allowed
    <2>4. Goal
      BY <1>0, <1>11, <2>1, <2>3
    <2> QED
      BY <2>4
  <1>12. CASE st.op = "swap"
    <2> DEFINE w == st.r
               i == RefPlace(S[g], o)
               j == RefPlace(S[g], w)
               R == Put(Put(r, i, ValueAt(r, j)), j, ValueAt(r, i))
    <2>1. out = swap_stmt(a, o, w)
      BY <1>12 DEF statement
    <2>2. Operands(st) = {o, w}
      BY <1>12, StatementParts
    <2>3. o \in Live(p[g]) /\ w \in Live(p[g])
      BY <1>12, <2>2 DEF Allowed
    <2>4. /\ \A q \in {o, w} : q \notin S[g] /\ ~Mixed(p[g], q.n) /\ (IsText(q) => q \in I)
          /\ e = "interp" => \A h \in 1 .. g : \A q \in S[h] : q.n # o.n /\ q.n # w.n
      BY <1>12 DEF Allowed
    <2>5. RefAfter(S[g], r, st, v) = R
      BY <1>12 DEF RefAfter, Stores
    <2>6. Good(e, p, g, S, swap_stmt(a, o, w).an, I, U \cup {o, w},
               Run(e, m, swap_stmt(a, o, w).items, v), R)
      BY <2>3, <2>4, SwapStep
    <2> HIDE DEF R
    <2>7. Goal
      BY <1>0, <1>12, <2>1, <2>2, <2>5, <2>6
    <2> QED
      BY <2>7
  <1> HIDE DEF out, W, Goal, o
  <1>13. st.op \in {"dim", "byref", "read", "dim_array", "assign", "print", "inc", "for", "brace", "byte",
                    "swap"}
    BY StatementParts
  <1>14. Goal
    BY <1>0, <1>1, <1>2, <1>3, <1>4, <1>5, <1>6, <1>7, <1>8, <1>9, <1>10, <1>11, <1>12, <1>13 DEF Goal, out
  <1> QED
    BY <1>14 DEF Goal, out

\* A statement that shows a value shows the reference's.
LEMMA ShowStep ==
    ASSUME PlainNames, NEW e \in Engines, NEW p, NEW g, NEW S, Scene(p, g, S),
           NEW a, NEW I, NEW U, NEW m, NEW r, Good(e, p, g, S, a, I, U, m, r),
           NEW st \in PlainStatement, st.op \in Shows, Allowed(e, p, g, S, I, U, st)
    PROVE  Printed(e, m, statement(a, st)) = ValueAt(r, RefPlace(S[g], st.l))
  <1> DEFINE o == st.l
  <1>1. o \in Operands(st) /\ o \in Scalar \cup Element /\ st.op \in {"print", "byte"}
    BY StatementParts DEF Shows
  <1>2. o \in Scalar => o \in Live(p[g])
    BY <1>1 DEF Allowed
  <1>3. CASE st.op = "print"
    <2>1. statement(a, st) = print_stmt(a, o)
      BY <1>3 DEF statement
    <2> QED
      BY <1>1, <1>2, <2>1, PrintStep
  <1>4. CASE st.op = "byte"
    <2>1. statement(a, st) = function_call(a, o)
      BY <1>4 DEF statement
    <2>2. o.s = "$" /\ o \in Scalar
      BY <1>4, StatementParts DEF String
    <2> QED
      BY <1>2, <1>4, <2>1, <2>2, ByteStep DEF Allowed
  <1> QED
    BY <1>1, <1>3, <1>4

-----------------------------------------------------------------------------
(* A function up to one of its statements *)

\* At its first and behind its last statement.
LEMMA BeforeFirst ==
    ASSUME NEW f, FunctionOK(f)
    PROVE  /\ SharedBefore(f, 1) = {}
           /\ IntroducedBefore(f, 1) = f.params
           /\ UsedBefore(f, 1) = f.params
  <1>1. 1 .. 1 - 1 = {}
    OBVIOUS
  <1>2. f.params \subseteq Scalar
    BY DEF FunctionOK
  <1> QED
    BY <1>1, <1>2 DEF SharedBefore, IntroducedBefore, UsedBefore

LEMMA BeforeLast ==
    ASSUME PlainNames, NEW f, FunctionOK(f)
    PROVE  SharedBefore(f, Len(f.body) + 1) = Shares(f)
  <1>1. 1 .. (Len(f.body) + 1) - 1 = DOMAIN f.body
    BY DEF FunctionOK
  <1>2. Shares(f) \subseteq Scalar
    BY SharesLive
  <1> QED
    BY <1>1, <1>2 DEF SharedBefore, Shares

\* The declarations before a statement are among all of them.
LEMMA BeforeParts ==
    ASSUME PlainNames, NEW f, FunctionOK(f), NEW n \in Nat \ {0}, n <= Len(f.body) + 1
    PROVE  /\ SharedBefore(f, n) \subseteq Shares(f)
           /\ SharedBefore(f, n) \subseteq Live(f)
           /\ SharedBefore(f, n) \subseteq Scalar
  <1>1. 1 .. n - 1 \subseteq DOMAIN f.body
    BY DEF FunctionOK
  <1>2. SharedBefore(f, n) \subseteq Shares(f)
    BY <1>1 DEF SharedBefore, Shares
  <1> QED
    BY <1>2, SharesLive

\* A statement further.
LEMMA BeforeNext ==
    ASSUME PlainNames, NEW f, FunctionOK(f), NEW n \in DOMAIN f.body, NEW st, st = f.body[n]
    PROVE  /\ SharedBefore(f, n + 1) = SharedBefore(f, n) \cup IF st.op = "shared" THEN {st.l} ELSE {}
           /\ IntroducedBefore(f, n + 1) = IntroducedBefore(f, n) \cup Introduces(st)
           /\ UsedBefore(f, n + 1) = UsedBefore(f, n) \cup Operands(st)
  <1>1. n \in Nat \ {0} /\ 1 .. (n + 1) - 1 = (1 .. n - 1) \cup {n}
    BY DEF FunctionOK
  <1>2. st \in PlainStatement
    BY BodyStatement
  <1>3. st.op = "shared" => st.l \in Scalar
    BY <1>2, StatementParts
  <1>4. SharedBefore(f, n + 1) = SharedBefore(f, n) \cup IF st.op = "shared" THEN {st.l} ELSE {}
    BY <1>1, <1>3 DEF SharedBefore
  <1>5. IntroducedBefore(f, n + 1) = IntroducedBefore(f, n) \cup Introduces(st)
    BY <1>1 DEF IntroducedBefore, Introduces
  <1>6. UsedBefore(f, n + 1) = UsedBefore(f, n) \cup Operands(st)
    BY <1>1 DEF UsedBefore
  <1> QED
    BY <1>4, <1>5, <1>6

\* A function's declarations up to a statement stay apart from the earlier functions'.
LEMMA SharedByParts ==
    ASSUME PlainNames, NEW p, NEW g \in Nat \ {0}, \A h \in 1 .. g : FunctionOK(p[h]),
           NEW n \in Nat \ {0}, n <= Len(p[g].body) + 1
    PROVE  LET S == SharedBy(p, g, n)
           IN  /\ S[g] = SharedBefore(p[g], n)
               /\ \A h \in 1 .. g - 1 : S[h] = Shares(p[h])
               /\ \A h \in 1 .. g : S[h] \subseteq Shares(p[h]) /\ S[h] \subseteq Scalar
               /\ S[g] \subseteq Live(p[g])
  <1> DEFINE S == SharedBy(p, g, n)
  <1>1. S[g] = SharedBefore(p[g], n) /\ \A h \in 1 .. g - 1 : S[h] = Shares(p[h])
    BY DEF SharedBy
  <1>2. FunctionOK(p[g]) /\ g \in 1 .. g
    OBVIOUS
  <1>3. S[g] \subseteq Shares(p[g]) /\ S[g] \subseteq Live(p[g]) /\ S[g] \subseteq Scalar
    BY <1>1, <1>2, BeforeParts
  <1>4. \A h \in 1 .. g : h = g \/ h \in 1 .. g - 1
    OBVIOUS
  <1>5. \A h \in 1 .. g - 1 : Shares(p[h]) \subseteq Scalar
    <2> TAKE h \in 1 .. g - 1
    <2>1. FunctionOK(p[h])
      OBVIOUS
    <2> QED
      BY <2>1, SharesLive
  <1> HIDE DEF S
  <1>6. \A h \in 1 .. g : S[h] \subseteq Shares(p[h]) /\ S[h] \subseteq Scalar
    BY <1>1, <1>3, <1>4, <1>5
  <1> QED
    BY <1>1, <1>3, <1>6 DEF S

-----------------------------------------------------------------------------
(* The statement that runs *)

\* The function that runs and its statement.
LEMMA StatementAt ==
    ASSUME PlainNames, ProgramOK, fn > 0, pc <= Len(prog[fn].body)
    PROVE  /\ fn \in {1, 2} /\ fn \in Nat \ {0} /\ pc \in Nat \ {0}
           /\ \A h \in 1 .. fn : FunctionOK(prog[h])
           /\ FunctionOK(prog[fn])
           /\ pc \in DOMAIN prog[fn].body
           /\ pc <= Len(prog[fn].body) + 1
           /\ Body = prog[fn].body /\ Body[pc] \in PlainStatement
  <1>1. fn \in {1, 2} /\ pc \in Nat \ {0}
    BY DEF ProgramOK
  <1>2. FunctionOK(prog[fn]) /\ \A h \in 1 .. fn : FunctionOK(prog[h])
    BY <1>1 DEF ProgramOK
  <1>3. prog[fn].body \in Seq(PlainStatement)
    BY <1>2 DEF FunctionOK
  <1>4. Len(prog[fn].body) \in Nat /\ DOMAIN prog[fn].body = 1 .. Len(prog[fn].body)
    BY <1>3
  <1>5. pc \in DOMAIN prog[fn].body
    BY <1>1, <1>4
  <1>6. Body = prog[fn].body /\ Body[pc] \in PlainStatement
    BY <1>2, <1>5, BodyStatement DEF Body
  <1> QED
    BY <1>1, <1>2, <1>4, <1>5, <1>6

\* What the code's predicates say of the operands.
LEMMA PredicatesNow ==
    ASSUME PlainNames, ProgramOK, fn > 0, pc <= Len(prog[fn].body), NEW o \in Scalar
    PROVE  /\ Declared(o) <=> o \in SharedBefore(prog[fn], pc)
           /\ Introduced(o) <=> o \in IntroducedBefore(prog[fn], pc)
           /\ Variable(o) = RefPlace(SharedBefore(prog[fn], pc), o)
  <1>1. Declared(o) <=> o \in SharedBefore(prog[fn], pc)
    BY DEF Declared, SharedBefore, Body
  <1>2. Introduced(o) <=> o \in IntroducedBefore(prog[fn], pc)
    BY DEF Introduced, IntroducedBefore, Body
  <1>3. ~Elem(o) /\ o.h = FALSE /\ (IsText(o) <=> o.s = "$")
    BY ScalarParts
  <1>4. Variable(o) = <<IF Declared(o) THEN "shared" ELSE "local", o.n[1], IsText(o), FALSE>>
    BY <1>3 DEF Variable
  <1>5. IsText(o) = (o.s = "$")
    BY <1>3 DEF IsText
  <1>6. Variable(o) = <<IF Declared(o) THEN "shared" ELSE "local", o.n[1], o.s = "$", FALSE>>
    BY <1>4, <1>5
  <1>7. ASSUME Declared(o) PROVE Variable(o) = RefPlace(SharedBefore(prog[fn], pc), o)
    BY <1>1, <1>3, <1>6, <1>7 DEF RefPlace, RefShared
  <1>8. ASSUME ~Declared(o) PROVE Variable(o) = RefPlace(SharedBefore(prog[fn], pc), o)
    BY <1>1, <1>3, <1>6, <1>8 DEF RefPlace, RefLocal
  <1>9. Variable(o) = RefPlace(SharedBefore(prog[fn], pc), o)
    BY <1>7, <1>8
  <1> QED
    BY <1>1, <1>2, <1>9

\* The reference stores where the proofs say.
LEMMA VariableNow ==
    ASSUME PlainNames, ProgramOK, fn > 0, pc <= Len(prog[fn].body), NEW o \in Scalar \cup Element
    PROVE  Variable(o) = RefPlace(SharedBefore(prog[fn], pc), o)
  <1>1. CASE o \in Scalar
    BY <1>1, PredicatesNow
  <1>2. CASE o \in Element
    BY <1>2, ElementParts DEF Variable, RefPlace
  <1> QED
    BY <1>1, <1>2

LEMMA RefNow ==
    ASSUME PlainNames, ProgramOK, fn > 0, pc <= Len(prog[fn].body), NEW v
    PROVE  RefStep(Body[pc], v) = RefAfter(SharedBefore(prog[fn], pc), ref, Body[pc], v)
  <1> DEFINE st == Body[pc]
             D == SharedBefore(prog[fn], pc)
             l == RefPlace(D, st.l)
             r == RefPlace(D, st.r)
  <1>1. st \in PlainStatement
    BY StatementAt
  <1>2. Variable(st.l) = l
    BY <1>1, StatementParts, VariableNow
  <1>3. st.op = "swap" => Variable(st.r) = r
    BY <1>1, StatementParts, VariableNow
  <1> HIDE DEF l, r, st
  <1>4. /\ st.op = "dim" => RefStep(st, v) = Put(ref, l, 0)
        /\ st.op \in Stores => RefStep(st, v) = Put(ref, l, v)
        /\ st.op = "swap" => RefStep(st, v) = Put(Put(ref, l, ValueAt(ref, r)), r, ValueAt(ref, l))
        /\ st.op \notin {"dim", "swap"} \cup Stores => RefStep(st, v) = ref
    <2>1. st.op = "dim" => RefStep(st, v) = Put(ref, l, 0)
      BY <1>2 DEF RefStep, Stores
    <2>2. st.op \in Stores => RefStep(st, v) = Put(ref, l, v)
      BY <1>2 DEF RefStep, Stores
    <2>3. st.op = "swap" => RefStep(st, v) = Put(Put(ref, l, ValueAt(ref, r)), r, ValueAt(ref, l))
      BY <1>2, <1>3 DEF RefStep, Stores
    <2>4. st.op \notin {"dim", "swap"} \cup Stores => RefStep(st, v) = ref
      BY DEF RefStep
    <2> QED
      BY <2>1, <2>2, <2>3, <2>4
  <1> DEFINE R == RefAfter(D, ref, st, v)
  <1>5. /\ st.op = "dim" => R = Put(ref, l, 0)
        /\ st.op \in Stores => R = Put(ref, l, v)
        /\ st.op = "swap" => R = Put(Put(ref, l, ValueAt(ref, r)), r, ValueAt(ref, l))
        /\ st.op \notin {"dim", "swap"} \cup Stores => R = ref
    <2>1. st.op = "dim" => R = Put(ref, l, 0)
      BY DEF RefAfter, Stores, l
    <2>2. st.op \in Stores => R = Put(ref, l, v)
      BY DEF RefAfter, Stores, l
    <2>3. st.op = "swap" => R = Put(Put(ref, l, ValueAt(ref, r)), r, ValueAt(ref, l))
      BY DEF RefAfter, Stores, l, r
    <2>4. st.op \notin {"dim", "swap"} \cup Stores => R = ref
      BY DEF RefAfter
    <2> QED
      BY <2>1, <2>2, <2>3, <2>4
  <1> HIDE DEF R
  <1>6. RefStep(st, v) = R
    BY <1>4, <1>5
  <1> QED
    BY <1>6 DEF R, st

-----------------------------------------------------------------------------
(* No departure begins: what its reasons say *)

\* Every reason that the names must excuse is absent.
LEMMA NoDeparture ==
    ASSUME PlainNames, NameExcuses, ProgramOK, fn > 0, pc <= Len(prog[fn].body), NEW e \in Engines,
           Departure(Body[pc], e) = {}
    PROVE  LET st == Body[pc]
               o == st.l
               mixed == \E x \in Operands(st) : Mixed(prog[fn], x.n)
               declared == \E x \in Operands(st) : Declared(x)
           IN  /\ st.op = "byref" => ~(mixed /\ IsText(o))
               /\ st.op = "read" => ~mixed /\ ~declared
               /\ st.op = "for" => ~declared
               /\ st.op = "inc" => ~(mixed /\ e = "c")
               /\ st.op = "brace" => ~mixed
               /\ st.op \in {"brace", "byte"} => Introduced(o)
               /\ st.op = "byte" => ~(mixed /\ declared)
               /\ st.op = "dim_array" => \A x \in Uses(prog[fn]) : x.n # o.n
               /\ st.op = "swap" => ~mixed /\ \A x \in Operands(st) : IsText(x) => Introduced(x)
               /\ st.op = "swap" => ~declared /\ \A x \in Operands(st) : ~Elem(x)
               /\ st.op = "swap" /\ e = "interp" => \A x \in Operands(st) : ~SharedSomewhere(x.n)
               /\ st.op = "shared" => ~SharedClash(o)
  <1> DEFINE st == Body[pc]
             o == st.l
             mixed == \E x \in Operands(st) : Mixed(prog[fn], x.n)
             declared == \E x \in Operands(st) : Declared(x)
             c1 == st.op = "byref" /\ mixed /\ IsText(o)
             c2 == st.op = "read" /\ (mixed \/ declared)
             c3 == st.op = "for" /\ declared
             c4 == st.op = "inc" /\ mixed /\ e = "c"
             c5 == st.op = "brace" /\ mixed
             c6 == st.op \in {"brace", "byte"} /\ ~Introduced(o)
             c7 == st.op = "byte" /\ mixed /\ declared
             c8 == st.op = "dim_array" /\ (\E x \in Uses(prog[fn]) : x.n = o.n)
             c9 == st.op = "swap" /\ (mixed \/ \E x \in Operands(st) : IsText(x) /\ ~Introduced(x))
             c10 == st.op = "swap" /\ (declared \/ \E x \in Operands(st) : Elem(x))
             c11 == st.op = "swap" /\ e = "interp" /\ \E x \in Operands(st) : SharedSomewhere(x.n)
             c12 == st.op = "shared" /\ SharedClash(o)
             c13 == \E x \in Operands(st) : ~x.h /\ x.n \in HashNames
  <1>1. Excused \cap UNION {Reason(c1, "byref"), Reason(c2, "read"), Reason(c3, "for"), Reason(c4, "inc"),
                            Reason(c5, "brace"), Reason(c6, "array"), Reason(c7, "array"),
                            Reason(c8, "array"), Reason(c9, "swap suffix"), Reason(c10, "swap"),
                            Reason(c11, "swap shared"), Reason(c12, "shared"), Reason(c13, "hash")} = {}
    BY DEF Departure
  <1> HIDE DEF c1, c2, c3, c4, c5, c6, c7, c8, c9, c10, c11, c12, c13
  <1>2. /\ {"byref", "read", "for", "inc", "brace", "array", "swap", "swap suffix", "swap shared",
            "shared"} \subseteq Excused
    BY DEF NameExcuses
  <1>3. /\ ~c1 /\ ~c2 /\ ~c3 /\ ~c4 /\ ~c5 /\ ~c6
        /\ ~c7 /\ ~c8 /\ ~c9 /\ ~c10 /\ ~c11 /\ ~c12
    <2>1. ~c1
      BY <1>1, <1>2 DEF Reason
    <2>2. ~c2
      BY <1>1, <1>2 DEF Reason
    <2>3. ~c3
      BY <1>1, <1>2 DEF Reason
    <2>4. ~c4
      BY <1>1, <1>2 DEF Reason
    <2>5. ~c5
      BY <1>1, <1>2 DEF Reason
    <2>6. ~c6
      BY <1>1, <1>2 DEF Reason
    <2>7. ~c7
      BY <1>1, <1>2 DEF Reason
    <2>8. ~c8
      BY <1>1, <1>2 DEF Reason
    <2>9. ~c9
      BY <1>1, <1>2 DEF Reason
    <2>10. ~c10
      BY <1>1, <1>2 DEF Reason
    <2>11. ~c11
      BY <1>1, <1>2 DEF Reason
    <2>12. ~c12
      BY <1>1, <1>2 DEF Reason
    <2> QED
      BY <2>1, <2>2, <2>3, <2>4, <2>5, <2>6, <2>7, <2>8, <2>9, <2>10, <2>11, <2>12
  <1> HIDE DEF mixed, declared
  <1>4. /\ st.op = "byref" => ~(mixed /\ IsText(o))
        /\ st.op = "read" => ~mixed /\ ~declared
        /\ st.op = "for" => ~declared
        /\ st.op = "inc" => ~(mixed /\ e = "c")
        /\ st.op = "brace" => ~mixed
        /\ st.op \in {"brace", "byte"} => Introduced(o)
        /\ st.op = "byte" => ~(mixed /\ declared)
    BY <1>3 DEF c1, c2, c3, c4, c5, c6, c7
  <1>5. st.op = "dim_array" => \A x \in Uses(prog[fn]) : x.n # o.n
    BY <1>3 DEF c8
  <1>6. st.op = "swap" => ~mixed /\ \A x \in Operands(st) : IsText(x) => Introduced(x)
    BY <1>3 DEF c9
  <1>7. st.op = "swap" => ~declared /\ \A x \in Operands(st) : ~Elem(x)
    BY <1>3 DEF c10
  <1>8. st.op = "swap" /\ e = "interp" => \A x \in Operands(st) : ~SharedSomewhere(x.n)
    BY <1>3 DEF c11
  <1>9. st.op = "shared" => ~SharedClash(o)
    BY <1>3 DEF c12
  <1> QED
    BY <1>4, <1>5, <1>6, <1>7, <1>8, <1>9 DEF mixed, declared

\* A spelling introduced is live.
LEMMA IntroducedLive ==
    ASSUME PlainNames, NEW f, FunctionOK(f), NEW n \in Nat \ {0}, n <= Len(f.body) + 1,
           NEW o \in IntroducedBefore(f, n)
    PROVE  o \in Live(f)
  <1>1. CASE o \in f.params
    BY <1>1 DEF Live, FunctionOK
  <1>2. ASSUME NEW i \in 1 .. n - 1, f.body[i].l = o, f.body[i].op \in {"assign", "dim", "shared"}
        PROVE  o \in Live(f)
    <2>1. i \in DOMAIN f.body
      BY DEF FunctionOK
    <2>2. o \in Operands(f.body[i])
      BY <1>2, <2>1, BodyStatement, StatementParts
    <2>3. o \in Scalar
      BY DEF IntroducedBefore
    <2> QED
      BY <1>2, <2>1, <2>2, <2>3 DEF Live, Seen
  <1> QED
    BY <1>1, <1>2 DEF IntroducedBefore

\* A scalar declared by DIM has not been used, nor shared.
LEMMA DimFirst ==
    ASSUME PlainNames, NEW f, FunctionOK(f), NEW n \in DOMAIN f.body, f.body[n].op \in {"dim", "shared"}
    PROVE  f.body[n].l \notin UsedBefore(f, n) /\ f.body[n].l \notin SharedBefore(f, n)
  <1>1. f.body[n].l \notin UsedBefore(f, n)
    BY DEF FunctionOK, DeclaredFirst, UsedBefore
  <1>2. ASSUME NEW i \in 1 .. n - 1
        PROVE  f.body[i].l \in Operands(f.body[i])
    <2>1. i \in DOMAIN f.body
      BY DEF FunctionOK
    <2> QED
      BY <2>1, BodyStatement, StatementParts
  <1>3. SharedBefore(f, n) \subseteq UsedBefore(f, n)
    BY <1>2 DEF SharedBefore, UsedBefore
  <1> QED
    BY <1>1, <1>3

\* So the statement is one of those that the lemmas above are about.
LEMMA AllowedNow ==
    ASSUME PlainNames, NameExcuses, ProgramOK, fn > 0, pc <= Len(prog[fn].body), NEW e \in Engines,
           Departure(Body[pc], e) = {}, NEW S, S = SharedBy(prog, fn, pc)
    PROVE  Allowed(e, prog, fn, S, IntroducedBefore(prog[fn], pc), UsedBefore(prog[fn], pc), Body[pc])
  <1> DEFINE f == prog[fn]
             st == Body[pc]
             o == st.l
             I == IntroducedBefore(f, pc)
             U == UsedBefore(f, pc)
  <1>1. /\ fn \in {1, 2} /\ fn \in Nat \ {0} /\ pc \in Nat \ {0}
        /\ \A h \in 1 .. fn : FunctionOK(prog[h])
        /\ FunctionOK(f) /\ pc \in DOMAIN f.body /\ pc <= Len(f.body) + 1
        /\ st = f.body[pc] /\ st \in PlainStatement
    BY StatementAt
  <1>2. /\ S[fn] = SharedBefore(f, pc)
        /\ \A h \in 1 .. fn : S[h] \subseteq Shares(prog[h]) /\ S[h] \subseteq Scalar
        /\ S[fn] \subseteq Live(f)
    BY <1>1, SharedByParts
  <1>3. /\ o \in Scalar \cup Element
        /\ st.op \in {"inc", "for"} => o \in Number
        /\ st.op \in {"brace", "byte"} => o \in String
        /\ st.op \notin {"assign", "print", "swap"} => o \in Scalar
        /\ st.op # "swap" => Operands(st) = {o}
        /\ st.op = "swap" => st.r \in Scalar \cup Element /\ Operands(st) = {o, st.r}
        /\ o \in Operands(st)
    BY <1>1, StatementParts
  <1>4. /\ st.op = "byref" => ~(Mixed(f, o.n) /\ IsText(o))
        /\ st.op = "read" => ~Mixed(f, o.n) /\ ~Declared(o)
        /\ st.op = "for" => ~Declared(o)
        /\ st.op = "inc" => ~(Mixed(f, o.n) /\ e = "c")
        /\ st.op = "brace" => ~Mixed(f, o.n)
        /\ st.op \in {"brace", "byte"} => Introduced(o)
        /\ st.op = "byte" => ~(Mixed(f, o.n) /\ Declared(o))
        /\ st.op = "dim_array" => \A x \in Uses(f) : x.n # o.n
        /\ st.op = "swap" => \A x \in Operands(st) : /\ ~Mixed(f, x.n) /\ ~Declared(x) /\ ~Elem(x)
                                                     /\ IsText(x) => Introduced(x)
        /\ st.op = "swap" /\ e = "interp" => \A x \in Operands(st) : ~SharedSomewhere(x.n)
    <2> HIDE DEF st, o
    <2> QED
      BY <1>3, NoDeparture DEF st, o
  <1>5. \A x \in Scalar : /\ Declared(x) <=> x \in S[fn]
                          /\ Introduced(x) <=> x \in I
    BY <1>2, PredicatesNow
  <1>6. st.op \in {"dim", "shared"} => o \notin U /\ o \notin S[fn]
    BY <1>1, <1>2, DimFirst
  <1> HIDE DEF f, st, o, I, U
  <1>7. st.op # "dim_array" => Operands(st) \cap Scalar \subseteq Live(f)
    <2>1. CASE st.op \in {"brace", "byte"}
      <3>1. o \in Scalar /\ o \in I
        BY <1>3, <1>4, <1>5, <2>1
      <3>2. o \in Live(f)
        BY <1>1, <3>1, IntroducedLive DEF I
      <3> QED
        BY <1>3, <2>1, <3>2
    <2>2. CASE st.op = "swap"
      <3> SUFFICES ASSUME NEW x \in Operands(st) \cap Scalar PROVE x \in Live(f)
        OBVIOUS
      <3>1. CASE x.s = "$"
        <4>1. x \in I
          BY <1>4, <1>5, <2>2, <3>1, ScalarParts
        <4> QED
          BY <1>1, <4>1, IntroducedLive DEF I
      <3>2. CASE x.s # "$"
        BY <1>1, <2>2, <3>2 DEF Live, Seen
      <3> QED
        BY <3>1, <3>2
    <2>3. CASE st.op \notin {"brace", "byte", "swap"}
      BY <1>1, <2>3 DEF Live, Seen
    <2> QED
      BY <2>1, <2>2, <2>3
  <1>8. st.op = "swap" => \A x \in Operands(st) :
            x \in Scalar /\ x \notin S[fn] /\ ~Mixed(f, x.n) /\ (IsText(x) => x \in I)
    <2> SUFFICES ASSUME st.op = "swap", NEW x \in Operands(st)
                 PROVE  x \in Scalar /\ x \notin S[fn] /\ ~Mixed(f, x.n) /\ (IsText(x) => x \in I)
      OBVIOUS
    <2>1. x \in Scalar \cup Element
      BY <1>3
    <2>2. ~Mixed(f, x.n) /\ ~Declared(x) /\ ~Elem(x) /\ (IsText(x) => Introduced(x))
      BY <1>4
    <2>3. x \in Scalar
      BY <2>1, <2>2, ElementParts
    <2> QED
      BY <1>5, <2>2, <2>3
  <1>9. st.op = "swap" /\ e = "interp" => \A h \in 1 .. fn : \A q \in S[h] : \A x \in Operands(st) : q.n # x.n
    <2> SUFFICES ASSUME st.op = "swap", e = "interp", NEW h \in 1 .. fn, NEW q \in S[h], NEW x \in Operands(st),
                        q.n = x.n
                 PROVE  FALSE
      OBVIOUS
    <2>1. h \in DOMAIN prog
      BY <1>1 DEF ProgramOK
    <2>2. q \in Shares(prog[h])
      BY <1>2
    <2>3. SharedSomewhere(x.n)
      BY <2>1, <2>2 DEF SharedSomewhere
    <2> QED
      BY <1>4, <2>3
  <1>10. /\ st.op = "byref" => ~(Mixed(f, o.n) /\ IsText(o))
         /\ st.op = "read" => ~Mixed(f, o.n) /\ o \notin S[fn]
         /\ st.op = "for" => o \notin S[fn]
         /\ st.op = "inc" => ~(e = "c" /\ Mixed(f, o.n))
         /\ st.op = "brace" => ~Mixed(f, o.n) /\ o \in I
         /\ st.op = "byte" => o \in I /\ (o \in S[fn] => ~Mixed(f, o.n))
    BY <1>3, <1>4, <1>5
  <1>11. st.op = "swap" => o \in Operands(st) /\ st.r \in Operands(st) /\ Operands(st) = {o, st.r}
    BY <1>3
  <1>12. Allowed(e, prog, fn, S, I, U, st)
    <2>1. st.op = "dim_array" => \A x \in Uses(prog[fn]) : x.n # st.l.n
      BY <1>4 DEF f, o
    <2>2. st.op = "dim" => st.l \notin S[fn] /\ st.l \notin U
      BY <1>6 DEF o
    <2>3. st.op = "swap" =>
            /\ \A x \in {st.l, st.r} :
                  x \in Scalar /\ x \notin S[fn] /\ ~Mixed(prog[fn], x.n) /\ (IsText(x) => x \in I)
            /\ e = "interp" => \A h \in 1 .. fn : \A q \in S[h] : q.n # st.l.n /\ q.n # st.r.n
      BY <1>8, <1>9, <1>11 DEF f, o
    <2>4. st.op # "dim_array" => Operands(st) \cap Scalar \subseteq Live(prog[fn])
      BY <1>7 DEF f
    <2> QED
      BY <1>10, <2>1, <2>2, <2>3, <2>4 DEF Allowed, f, o
  <1> QED
    BY <1>12 DEF f, st, I, U

LEMMA NoClashNow ==
    ASSUME PlainNames, NameExcuses, ProgramOK, fn > 0, pc <= Len(prog[fn].body), NEW e \in Engines,
           Departure(Body[pc], e) = {}, Body[pc].op = "shared"
    PROVE  NoClash(prog, fn, Body[pc].l)
  <1> DEFINE o == Body[pc].l
  <1>1. ~SharedClash(o)
    BY NoDeparture
  <1>2. fn \in {1, 2}
    BY StatementAt
  <1> HIDE DEF o
  <1> SUFFICES ASSUME NEW h \in 1 .. fn - 1, NEW q \in Shares(prog[h]), q.n = o.n
               PROVE  /\ q = o => ~(IsText(o) /\ Mixed(prog[h], o.n) # Mixed(prog[fn], o.n))
                      /\ q # o => /\ IsText(o) => Mixed(prog[fn], o.n)
                                  /\ IsText(q) => Mixed(prog[h], o.n)
    BY DEF NoClash, o
  <1> QED
    BY <1>1 DEF SharedClash

-----------------------------------------------------------------------------
(* The steps of the program *)

\* The shared names and the tables, as the statements need them.
LEMMA SceneNow ==
    ASSUME PlainNames, ProgramOK, fn > 0, pc <= Len(prog[fn].body), NEW e \in Engines, EngineInv(e),
           why[e] = {}, NEW S, S = SharedBy(prog, fn, pc)
    PROVE  /\ Scene(prog, fn, S)
           /\ Good(e, prog, fn, S, an, IntroducedBefore(prog[fn], pc), UsedBefore(prog[fn], pc),
                   StoreOf(e), ref)
           /\ \A h \in 1 .. fn - 1 : FunctionOK(prog[h]) /\ ParamsApart(prog[h]) /\ S[h] = Shares(prog[h])
           /\ S[fn] = SharedBefore(prog[fn], pc)
  <1>1. /\ fn \in Nat \ {0} /\ pc \in Nat \ {0}
        /\ \A h \in 1 .. fn : FunctionOK(prog[h])
        /\ FunctionOK(prog[fn]) /\ pc <= Len(prog[fn].body) + 1 /\ fn \in 1 .. fn
    BY StatementAt
  <1>2. /\ S[fn] = SharedBefore(prog[fn], pc)
        /\ \A h \in 1 .. fn - 1 : S[h] = Shares(prog[h])
        /\ \A h \in 1 .. fn : S[h] \subseteq Shares(prog[h]) /\ S[h] \subseteq Scalar
        /\ S[fn] \subseteq Live(prog[fn])
    BY <1>1, SharedByParts
  <1>3. /\ \A g \in 1 .. fn : ParamsApart(prog[g])
        /\ Tables(an, prog[fn], S[fn], IntroducedBefore(prog[fn], pc), UsedBefore(prog[fn], pc), ref)
        /\ SharedApart(prog, fn, S)
        /\ Holds(e, prog, fn, S, StoreOf(e), ref)
    BY <1>2 DEF EngineInv
  <1>4. Scene(prog, fn, S)
    BY <1>1, <1>2, <1>3 DEF Scene
  <1>5. \A h \in 1 .. fn - 1 : h \in 1 .. fn
    BY <1>1
  <1> QED
    BY <1>1, <1>2, <1>3, <1>4, <1>5 DEF Good

\* What is declared shared after the statement.
LEMMA SharedByNext ==
    ASSUME PlainNames, ProgramOK, fn > 0, pc <= Len(prog[fn].body), NEW S, S = SharedBy(prog, fn, pc)
    PROVE  LET st == Body[pc]
           IN  SharedBy(prog, fn, pc + 1) =
                 [h \in 1 .. fn |->
                    IF h = fn THEN S[fn] \cup IF st.op = "shared" THEN {st.l} ELSE {} ELSE S[h]]
  <1> DEFINE st == Body[pc]
             A == IF st.op = "shared" THEN {st.l} ELSE {}
             T == SharedBy(prog, fn, pc + 1)
             f == prog[fn]
  <1>1. FunctionOK(f) /\ pc \in DOMAIN f.body /\ st = f.body[pc] /\ fn \in Nat \ {0}
    BY StatementAt
  <1>2. SharedBefore(f, pc + 1) = SharedBefore(f, pc) \cup A
    BY <1>1, BeforeNext
  <1> HIDE DEF A
  <1>3. T = [h \in 1 .. fn |-> IF h = fn THEN S[fn] \cup A ELSE S[h]]
    <2>1. S[fn] = SharedBefore(f, pc) /\ \A h \in 1 .. fn : h # fn => S[h] = Shares(prog[h])
      BY <1>1 DEF SharedBy
    <2>2. T = [h \in 1 .. fn |-> IF h < fn THEN Shares(prog[h]) ELSE SharedBefore(f, pc) \cup A]
      BY <1>2 DEF SharedBy
    <2> HIDE DEF T, f
    <2> QED
      BY <1>1, <2>1, <2>2
  <1> QED
    BY <1>3 DEF T, A

\* The engine's store after a statement, and what it shows.
LEMMA AnalyseStores ==
    ASSUME Analyse, DOMAIN why = Engines, NEW e \in Engines
    PROVE  LET st == Body[pc]
               out == statement(an, st)
           IN  /\ StoreOf(e)' = Run(e, StoreOf(e), out.items, 10 * fn + pc)
               /\ an' = out.an /\ ref' = RefStep(st, 10 * fn + pc)
               /\ why'[e] = why[e] \cup Departure(st, e)
               /\ st.op \notin Shows => shown' = shown
               /\ st.op \in Shows => /\ shown'[e] = Printed(e, StoreOf(e), out)
                                     /\ shown'.ref = ValueAt(ref, Variable(st.l))
               /\ prog' = prog /\ fn' = fn /\ pc' = pc + 1
               /\ DOMAIN why' = Engines
  <1> DEFINE st == Body[pc]
             out == statement(an, st)
             v == 10 * fn + pc
             print == Len(out.items) > 0 /\ out.items[1].k = "print"
             i == IF print THEN ValueAt(slots, SlotKey(out.items[1].to)) ELSE 0
             c == IF print THEN ValueAt(cvars, CKey(out.items[1].to)) ELSE 0
             w == ValueAt(ref, Variable(st.l))
  <1>1. /\ slots' = RunSlots(slots, out.items, v) /\ cvars' = RunC(cvars, out.items, v)
        /\ an' = out.an /\ ref' = RefStep(st, v)
        /\ why' = [x \in DOMAIN why |-> why[x] \cup Departure(st, x)]
        /\ shown' = IF st.op \notin Shows THEN shown ELSE [interp |-> i, c |-> c, ref |-> w]
        /\ prog' = prog /\ fn' = fn /\ pc' = pc + 1
    BY DEF Analyse
  <1>2. /\ e = "interp" => Printed(e, StoreOf(e), out) = i
        /\ e = "c" => Printed(e, StoreOf(e), out) = c
    BY DEF Printed, StoreOf, Key
  <1> HIDE DEF st, out, v, print, i, c, w
  <1>3. StoreOf(e)' = Run(e, StoreOf(e), out.items, v)
    BY <1>1 DEF StoreOf, Run, Engines
  <1>4. why'[e] = why[e] \cup Departure(st, e) /\ DOMAIN why' = Engines
    BY <1>1
  <1>5. st.op \notin Shows => shown' = shown
    BY <1>1
  <1>6. st.op \in Shows => shown'[e] = Printed(e, StoreOf(e), out) /\ shown'.ref = w
    BY <1>1, <1>2 DEF Engines
  <1> QED
    BY <1>1, <1>3, <1>4, <1>5, <1>6 DEF st, out, v, w

\* A statement keeps the invariant of each engine.
LEMMA AnalyseEngine ==
    ASSUME PlainNames, NameExcuses, NamesInv, Analyse, NEW e \in Engines
    PROVE  EngineInv(e)'
  <1> SUFFICES ASSUME why'[e] = {}
               PROVE  /\ \A g \in 1 .. fn' : ParamsApart(prog'[g])
                      /\ fn' > 0 => Tables(an', prog'[fn'], SharedBefore(prog'[fn'], pc'),
                                           IntroducedBefore(prog'[fn'], pc'),
                                           UsedBefore(prog'[fn'], pc'), ref')
                      /\ SharedApart(prog', fn', SharedBy(prog', fn', pc'))
                      /\ Holds(e, prog', fn', SharedBy(prog', fn', pc'), StoreOf(e)', ref')
                      /\ shown'[e] = shown'.ref
    BY DEF EngineInv
  <1> DEFINE st == Body[pc]
             out == statement(an, st)
             v == 10 * fn + pc
             f == prog[fn]
             S == SharedBy(prog, fn, pc)
             T == SharedBy(prog, fn, pc + 1)
             I == IntroducedBefore(f, pc)
             U == UsedBefore(f, pc)
             m == StoreOf(e)
             n == Run(e, m, out.items, v)
             r == RefAfter(S[fn], ref, st, v)
  <1>1. ProgramOK /\ fn > 0 /\ pc <= Len(prog[fn].body) /\ EngineInv(e) /\ DOMAIN why = Engines
    BY DEF NamesInv, Analyse
  <1>2. /\ StoreOf(e)' = n /\ an' = out.an /\ ref' = RefStep(st, v)
        /\ why'[e] = why[e] \cup Departure(st, e)
        /\ st.op \notin Shows => shown' = shown
        /\ st.op \in Shows => shown'[e] = Printed(e, m, out) /\ shown'.ref = ValueAt(ref, Variable(st.l))
        /\ prog' = prog /\ fn' = fn /\ pc' = pc + 1
    BY <1>1, AnalyseStores
  <1>3. why[e] = {} /\ Departure(st, e) = {}
    BY <1>2
  <1>4. /\ Scene(prog, fn, S) /\ Good(e, prog, fn, S, an, I, U, m, ref)
        /\ \A h \in 1 .. fn - 1 : FunctionOK(prog[h]) /\ ParamsApart(prog[h]) /\ S[h] = Shares(prog[h])
        /\ S[fn] = SharedBefore(f, pc)
    BY <1>1, <1>3, SceneNow
  <1>5. Allowed(e, prog, fn, S, I, U, st)
    BY <1>1, <1>3, AllowedNow
  <1>6. /\ st \in PlainStatement /\ FunctionOK(f) /\ pc \in DOMAIN f.body /\ st = f.body[pc]
        /\ fn \in Nat \ {0} /\ fn \in 1 .. fn
    BY <1>1, StatementAt
  <1>7. /\ ref' = r
        /\ ValueAt(ref, Variable(st.l)) = ValueAt(ref, RefPlace(S[fn], st.l))
    <2>1. ref' = r
      BY <1>1, <1>2, <1>4, RefNow
    <2>2. st.l \in Scalar \cup Element
      BY <1>6, StatementParts
    <2>3. Variable(st.l) = RefPlace(S[fn], st.l)
      BY <1>1, <1>4, <2>2, VariableNow
    <2> QED
      BY <2>1, <2>3
  <1>8. /\ IntroducedBefore(f, pc + 1) = I \cup Introduces(st)
        /\ UsedBefore(f, pc + 1) = U \cup Operands(st)
    BY <1>6, BeforeNext
  <1>9. T = [h \in 1 .. fn |-> IF h = fn THEN S[fn] \cup IF st.op = "shared" THEN {st.l} ELSE {} ELSE S[h]]
    BY <1>1, SharedByNext
  <1>10. T[fn] = SharedBefore(f, pc + 1)
    BY <1>6 DEF SharedBy
  <1>11. shown'[e] = shown'.ref
    <2>1. CASE st.op \notin Shows
      BY <1>1, <1>2, <1>3, <2>1 DEF EngineInv
    <2>2. CASE st.op \in Shows
      <3> HIDE DEF st, S, I, U, m
      <3>1. Printed(e, m, statement(an, st)) = ValueAt(ref, RefPlace(S[fn], st.l))
        BY <1>4, <1>5, <1>6, <2>2, ShowStep
      <3> QED
        BY <1>2, <1>7, <2>2, <3>1
    <2> QED
      BY <2>1, <2>2
  <1> HIDE DEF st, out, v, S, T, I, U, m, n, r, f
  <1>12. SharedApart(prog, fn, T) /\ Good(e, prog, fn, T, out.an, I \cup Introduces(st), U \cup Operands(st), n, r)
    <2>1. CASE st.op # "shared"
      <3>1. Good(e, prog, fn, S, out.an, I \cup Introduces(st), U \cup Operands(st), n, r)
        BY <1>4, <1>5, <1>6, <2>1, StatementStep DEF out, n, r
      <3>2. T = S
        <4>1. S = [h \in 1 .. fn |-> S[h]]
          BY DEF S, SharedBy
        <4>2. T = [h \in 1 .. fn |-> S[h]]
          <5>1. \A h \in 1 .. fn : (IF h = fn THEN S[fn] \cup IF st.op = "shared" THEN {st.l} ELSE {}
                                                ELSE S[h]) = S[h]
            BY <2>1
          <5> QED
            BY <1>9, <5>1
        <4> QED
          BY <4>1, <4>2
      <3> QED
        BY <1>4, <3>1, <3>2 DEF Scene
    <2>2. CASE st.op = "shared"
      <3> DEFINE o == st.l
      <3>1. o \in Scalar /\ Operands(st) = {o} /\ Introduces(st) = {o}
        BY <1>6, <2>2, StatementParts DEF Introduces
      <3>2. o \in Live(f)
        BY <2>2, <3>1, <1>5 DEF Allowed, f
      <3>3. NoClash(prog, fn, o)
        BY <1>1, <1>3, <2>2, NoClashNow DEF st
      <3> HIDE DEF o
      <3>4. \A h \in 1 .. fn : T[h] = IF h = fn THEN S[fn] \cup {o} ELSE S[h]
        BY <1>9, <2>2 DEF o
      <3>5. SharedApart(prog, fn, T)
        BY <1>4, <3>2, <3>3, <3>4, SharedStep DEF f
      <3>6. statement(an, st) = SharedOf(an, o)
        BY <2>2 DEF statement, SharedOf, o
      <3>7. r = ref
        BY <2>2 DEF r, RefAfter, Stores
      <3>8. Good(e, prog, fn, T, SharedOf(an, o).an, I \cup {o}, U \cup {o},
                 Run(e, m, SharedOf(an, o).items, v), ref)
        BY <1>4, <3>2, <3>4, <3>5, DeclareStep DEF f
      <3> QED
        BY <3>1, <3>5, <3>6, <3>7, <3>8 DEF out, n
    <2> QED
      BY <2>1, <2>2
  <1>13. \A g \in 1 .. fn : ParamsApart(prog[g])
    BY <1>1, <1>3 DEF EngineInv
  <1>14. Tables(out.an, f, T[fn], I \cup Introduces(st), U \cup Operands(st), r) /\ Holds(e, prog, fn, T, n, r)
    BY <1>12 DEF Good, f
  <1>15. /\ prog' = prog /\ fn' = fn /\ pc' = pc + 1 /\ an' = out.an /\ ref' = r /\ StoreOf(e)' = n
    BY <1>2, <1>7
  <1>16. Tables(an', prog'[fn'], SharedBefore(prog'[fn'], pc'), IntroducedBefore(prog'[fn'], pc'),
                UsedBefore(prog'[fn'], pc'), ref')
    BY <1>8, <1>10, <1>14, <1>15 DEF f
  <1>17. SharedApart(prog', fn', SharedBy(prog', fn', pc'))
         /\ Holds(e, prog', fn', SharedBy(prog', fn', pc'), StoreOf(e)', ref')
    BY <1>12, <1>14, <1>15 DEF T
  <1> QED
    BY <1>11, <1>13, <1>15, <1>16, <1>17

\* The keys that the parameters of a function are bound to.
LEMMA ParameterKeys ==
    ASSUME PlainNames, NEW f, FunctionOK(f), ParamsApart(f)
    PROVE  /\ {<<"local", o.n>> : o \in f.params} = {LocalKey("interp", f, o) : o \in f.params}
           /\ {<<"local", o.n, IsText(o)>> : o \in f.params} = {LocalKey("c", f, o) : o \in f.params}
           /\ {<<"local", o.n[1], IsText(o), FALSE>> : o \in f.params} = {RefLocal(o) : o \in f.params}
  <1>1. \A o \in f.params : NameOf(f, o) = o.n /\ IsText(o) = (o.s = "$")
    <2> TAKE o \in f.params
    <2>1. o \in Scalar /\ ~Mixed(f, o.n)
      BY DEF FunctionOK, ParamsApart
    <2>2. o.n \notin Clashes(f)
      BY <2>1, ScalarParts, ClashMixed
    <2>3. IsText(o) <=> o.s = "$"
      BY <2>1, ScalarParts
    <2>4. IsText(o) = (o.s = "$")
      BY <2>3 DEF IsText
    <2> QED
      BY <2>1, <2>2, <2>4, NameParts
  <1>2. /\ \A o \in f.params : LocalKey("interp", f, o) = <<"local", o.n>>
        /\ \A o \in f.params : LocalKey("c", f, o) = <<"local", o.n, IsText(o)>>
        /\ \A o \in f.params : RefLocal(o) = <<"local", o.n[1], IsText(o), FALSE>>
    BY <1>1 DEF LocalKey, RefLocal
  <1> QED
    BY <1>2

\* No statement of the programs is one on a # name.
LEMMA NoSharedWrites ==
    ASSUME PlainNames, ProgramOK
    PROVE  scan_shared_writes(prog) = {}
  <1>1. ASSUME NEW h \in DOMAIN prog, NEW i \in DOMAIN prog[h].body
        PROVE  prog[h].body[i].op # "hash"
    <2>1. FunctionOK(prog[h])
      BY DEF ProgramOK
    <2> QED
      BY <2>1, BodyStatement, StatementParts
  <1> QED
    BY <1>1 DEF scan_shared_writes

\* The step into a function: the earlier one has declared all that it shares.
LEMMA SharedByEnter ==
    ASSUME PlainNames, ProgramOK, Enter
    PROVE  LET S == SharedBy(prog, fn, pc)
               T == SharedBy(prog, fn + 1, 1)
           IN  /\ \A h \in 1 .. fn : T[h] = S[h]
               /\ T[fn + 1] = {}
               /\ \A h \in 1 .. fn : S[h] \subseteq Scalar
               /\ SharedApart(prog, fn, S) => SharedApart(prog, fn + 1, T)
  <1> DEFINE S == SharedBy(prog, fn, pc)
             T == SharedBy(prog, fn + 1, 1)
  <1>1. /\ fn \in {0, 1} /\ fn + 1 \in DOMAIN prog /\ FunctionOK(prog[fn + 1]) /\ pc \in Nat \ {0}
        /\ \A h \in 1 .. fn : FunctionOK(prog[h])
        /\ fn > 0 => pc = Len(prog[fn].body) + 1
    <2>1. /\ fn \in {0, 1} /\ fn + 1 \in DOMAIN prog /\ FunctionOK(prog[fn + 1]) /\ pc \in Nat \ {0}
          /\ \A h \in 1 .. fn : FunctionOK(prog[h])
      BY DEF ProgramOK, Enter
    <2>2. fn > 0 => pc = Len(prog[fn].body) + 1
      <3> SUFFICES ASSUME fn > 0
                   PROVE  pc = Len(prog[fn].body) + 1
        OBVIOUS
      <3>1. prog[fn].body \in Seq(PlainStatement)
        BY <2>1 DEF FunctionOK
      <3>2. Len(prog[fn].body) \in Nat
        BY <3>1
      <3> QED
        BY <2>1, <3>2 DEF ProgramOK, Enter
    <2> QED
      BY <2>1, <2>2
  <1>2. T[fn + 1] = {}
    <2>1. T[fn + 1] = SharedBefore(prog[fn + 1], 1)
      BY <1>1 DEF SharedBy
    <2> QED
      BY <1>1, <2>1, BeforeFirst
  <1>3. \A h \in 1 .. fn : T[h] = Shares(prog[h])
    BY <1>1 DEF SharedBy
  <1>4. \A h \in 1 .. fn : S[h] = Shares(prog[h])
    <2> SUFFICES ASSUME NEW h \in 1 .. fn
                 PROVE  S[h] = Shares(prog[h])
      OBVIOUS
    <2>1. fn = 1 /\ h = 1 /\ S[h] = SharedBefore(prog[fn], pc)
      BY <1>1 DEF SharedBy
    <2> QED
      BY <1>1, <2>1, BeforeLast
  <1>5. \A h \in 1 .. fn : S[h] \subseteq Scalar
    <2> TAKE h \in 1 .. fn
    <2>1. FunctionOK(prog[h])
      BY <1>1
    <2> QED
      BY <1>4, <2>1, SharesLive
  <1>6. ASSUME SharedApart(prog, fn, S)
        PROVE  SharedApart(prog, fn + 1, T)
    <2> HIDE DEF S, T
    <2>1. \A h \in 1 .. fn + 1 : h \in 1 .. fn \/ (h = fn + 1 /\ T[h] = {})
      BY <1>1, <1>2
    <2> QED
      BY <1>3, <1>4, <1>6, <2>1 DEF SharedApart
  <1> HIDE DEF S, T
  <1>7. \A h \in 1 .. fn : T[h] = S[h]
    BY <1>3, <1>4
  <1> QED
    BY <1>2, <1>5, <1>6, <1>7 DEF S, T

\* So does the step into a function.
LEMMA EnterEngine ==
    ASSUME PlainNames, NameExcuses, NamesInv, Enter, NEW e \in Engines
    PROVE  EngineInv(e)'
  <1> SUFFICES ASSUME why'[e] = {}
               PROVE  /\ \A g \in 1 .. fn' : ParamsApart(prog'[g])
                      /\ fn' > 0 => Tables(an', prog'[fn'], SharedBefore(prog'[fn'], pc'),
                                           IntroducedBefore(prog'[fn'], pc'),
                                           UsedBefore(prog'[fn'], pc'), ref')
                      /\ SharedApart(prog', fn', SharedBy(prog', fn', pc'))
                      /\ Holds(e, prog', fn', SharedBy(prog', fn', pc'), StoreOf(e)', ref')
                      /\ shown'[e] = shown'.ref
    BY DEF EngineInv
  <1> DEFINE f == prog[fn + 1]
             S == SharedBy(prog, fn, pc)
             T == SharedBy(prog, fn + 1, 1)
             m == StoreOf(e)
  <1>1. /\ ProgramOK /\ EngineInv(e) /\ DOMAIN why = Engines
        /\ fn \in Nat /\ fn \in {0, 1} /\ FunctionOK(f)
    BY DEF NamesInv, ProgramOK, Enter
  <1>2. /\ an' = function(an, f, prog)
        /\ slots' = Bind(slots, {<<"local", o.n>> : o \in f.params})
        /\ cvars' = Bind(cvars, {<<"local", o.n, IsText(o)>> : o \in f.params})
        /\ ref' = Bind(ref, {<<"local", o.n[1], IsText(o), FALSE>> : o \in f.params})
        /\ why' = [x \in DOMAIN why |-> why[x] \cup ParamDeparture(f)]
        /\ fn' = fn + 1 /\ pc' = 1 /\ prog' = prog /\ shown' = shown
    BY DEF Enter
  <1> HIDE DEF f
  <1>3. why[e] = {} /\ ParamDeparture(f) = {}
    BY <1>1, <1>2
  <1>4. ParamsApart(f)
    BY <1>3 DEF ParamDeparture, NameExcuses, ParamsApart
  <1>5. /\ \A g \in 1 .. fn : ParamsApart(prog[g])
        /\ SharedApart(prog, fn, S) /\ Holds(e, prog, fn, S, m, ref) /\ shown[e] = shown.ref
    BY <1>1, <1>3 DEF EngineInv
  <1>6. /\ \A h \in 1 .. fn : T[h] = S[h]
        /\ T[fn + 1] = {}
        /\ \A h \in 1 .. fn : S[h] \subseteq Scalar
        /\ SharedApart(prog, fn + 1, T)
    BY <1>1, <1>5, SharedByEnter
  <1>7. StoreOf(e)' = Bind(m, {LocalKey(e, f, o) : o \in f.params})
    <2>1. CASE e = "interp"
      BY <1>1, <1>2, <1>4, <2>1, ParameterKeys DEF StoreOf
    <2>2. CASE e = "c"
      BY <1>1, <1>2, <1>4, <2>2, ParameterKeys DEF StoreOf
    <2> QED
      BY <2>1, <2>2 DEF Engines
  <1>8. ref' = Bind(ref, {RefLocal(o) : o \in f.params})
    BY <1>1, <1>2, <1>4, ParameterKeys
  <1> HIDE DEF S, T, m
  <1>9. /\ Holds(e, prog, fn + 1, T, StoreOf(e)', ref')
        /\ \A o \in Scalar \ f.params : ValueAt(ref', RefLocal(o)) = 0
    <2> DEFINE n == StoreOf(e)'
               s == ref'
               g == fn
               K == {LocalKey(e, f, o) : o \in f.params}
               J == {RefLocal(o) : o \in f.params}
    <2>1. n = Bind(m, K) /\ s = Bind(ref, J)
      BY <1>7, <1>8
    <2>5. /\ \A x : x \in K <=> \E o \in f.params : x = LocalKey(e, f, o)
          /\ \A x : x \in J <=> \E o \in f.params : x = RefLocal(o)
      OBVIOUS
    <2>2. /\ g \in Nat /\ f = prog[g + 1] /\ Holds(e, prog, g, S, m, ref)
          /\ \A h \in 1 .. g : S[h] \subseteq Scalar
          /\ \A h \in 1 .. g : T[h] = S[h]
          /\ T[g + 1] = {}
      BY <1>1, <1>5, <1>6 DEF f
    <2> HIDE DEF n, s, g, K, J
    <2>3. Holds(e, prog, g + 1, T, n, s) /\ \A o \in Scalar \ f.params : ValueAt(s, RefLocal(o)) = 0
      <3>1. FunctionOK(f) /\ ParamsApart(f)
        BY <1>1, <1>4
      <3> QED
        BY ONLY PlainNames, <2>1, <2>2, <2>5, <3>1, HoldsEnter
    <2> QED
      BY <2>3 DEF n, s, g
  <1>10. Tables(an', f, {}, f.params, f.params, ref')
    <2> DEFINE s == ref'
    <2>1. \A o \in Scalar \ f.params : ValueAt(s, RefLocal(o)) = 0
      BY <1>9
    <2> HIDE DEF s
    <2>2. scan_shared_writes(prog) = {}
      BY <1>1, NoSharedWrites
    <2>3. Tables(function(an, f, prog), f, {}, f.params, f.params, s)
      BY <1>1, <1>4, <2>1, <2>2, EnterTables DEF Tables
    <2> QED
      BY <1>2, <2>3 DEF s
  <1>11. /\ SharedBefore(f, 1) = {} /\ IntroducedBefore(f, 1) = f.params /\ UsedBefore(f, 1) = f.params
    BY <1>1, BeforeFirst
  <1>12. \A g \in 1 .. fn + 1 : ParamsApart(prog[g])
    <2>1. \A g \in 1 .. fn + 1 : g \in 1 .. fn \/ g = fn + 1
      BY <1>1
    <2> QED
      BY <1>4, <1>5, <2>1 DEF f
  <1>13. Tables(an', prog'[fn'], SharedBefore(prog'[fn'], pc'), IntroducedBefore(prog'[fn'], pc'),
                UsedBefore(prog'[fn'], pc'), ref')
    BY <1>2, <1>10, <1>11 DEF f
  <1>14. SharedApart(prog', fn', SharedBy(prog', fn', pc'))
         /\ Holds(e, prog', fn', SharedBy(prog', fn', pc'), StoreOf(e)', ref')
    BY <1>2, <1>6, <1>9 DEF T
  <1> QED
    BY <1>2, <1>5, <1>12, <1>13, <1>14

-----------------------------------------------------------------------------
(* The theorems *)

\* The invariant is inductive.
LEMMA NamesInit ==
    ASSUME PlainNames, PlainFamilies, Init
    PROVE  NamesInv
  <1>9. PICK fam \in Families : \E ps \in fam.params : \E k \in 1 .. fam.n :
          \E b \in [1 .. k -> fam.first] : \E l \in 0 .. fam.m : \E d \in [1 .. l -> fam.second] :
           /\ DeclaredFirst(ps, b) /\ DeclaredFirst({}, d)
           /\ prog = <<[params |-> ps, body |-> b], [params |-> {}, body |-> d]>>
    BY DEF Init
  <1>10. PICK ps \in fam.params, k \in 1 .. fam.n, l \in 0 .. fam.m :
          \E b \in [1 .. k -> fam.first] : \E d \in [1 .. l -> fam.second] :
           /\ DeclaredFirst(ps, b) /\ DeclaredFirst({}, d)
           /\ prog = <<[params |-> ps, body |-> b], [params |-> {}, body |-> d]>>
    BY <1>9
  <1>1. PICK b \in [1 .. k -> fam.first], d \in [1 .. l -> fam.second] :
           /\ DeclaredFirst(ps, b) /\ DeclaredFirst({}, d)
           /\ prog = <<[params |-> ps, body |-> b], [params |-> {}, body |-> d]>>
    BY <1>10
  <1>2. /\ fn = 0 /\ pc = 1 /\ slots = <<>> /\ cvars = <<>> /\ ref = <<>>
        /\ shown = [interp |-> 0, c |-> 0, ref |-> 0]
        /\ why = [interp |-> {}, c |-> {}]
    BY DEF Init
  <1>3. /\ k \in Nat /\ l \in Nat /\ fam.first \subseteq PlainStatement /\ fam.second \subseteq PlainStatement
        /\ ps \subseteq Scalar
    BY DEF PlainFamilies
  <1>4. b \in Seq(PlainStatement) /\ d \in Seq(PlainStatement)
    BY <1>3
  <1>5. FunctionOK([params |-> ps, body |-> b]) /\ FunctionOK([params |-> {}, body |-> d])
    BY <1>1, <1>3, <1>4 DEF FunctionOK
  <1>6. ProgramOK
    <2> DEFINE x == [params |-> ps, body |-> b]
               y == [params |-> {}, body |-> d]
    <2>1. prog = <<x, y>> /\ FunctionOK(x) /\ FunctionOK(y)
      BY <1>1, <1>5
    <2> HIDE DEF x, y
    <2>2. DOMAIN prog = 1 .. 2 /\ Len(prog) = 2 /\ prog[1] = x /\ prog[2] = y
      BY <2>1
    <2>3. \A g \in 1 .. 2 : g = 1 \/ g = 2
      OBVIOUS
    <2> QED
      BY <1>2, <2>1, <2>2, <2>3 DEF ProgramOK
  <1>7. DOMAIN why = Engines
    BY <1>2 DEF Engines
  <1>8. ASSUME NEW e \in Engines
        PROVE  EngineInv(e)
    <2>1. StoreOf(e) = <<>> /\ ref = <<>> /\ shown[e] = shown.ref
      BY <1>2 DEF StoreOf, Engines
    <2>2. 1 .. fn = {} /\ ~(fn > 0)
      BY <1>2
    <2>3. DOMAIN <<>> = {} /\ \A x : ValueAt(<<>>, x) = 0
      BY DEF ValueAt
    <2> DEFINE S == SharedBy(prog, fn, pc)
    <2> HIDE DEF S
    <2>4. SharedApart(prog, fn, S)
      BY <2>2 DEF SharedApart
    <2>5. Holds(e, prog, fn, S, StoreOf(e), ref)
      BY <2>1, <2>2, <2>3 DEF Holds
    <2> QED
      BY <2>1, <2>2, <2>4, <2>5 DEF EngineInv, S
  <1> QED
    BY <1>6, <1>7, <1>8 DEF NamesInv

LEMMA NamesNext ==
    ASSUME PlainNames, NameExcuses, NamesInv, [Next]_vars
    PROVE  NamesInv'
  <1>1. CASE Enter
    <2>1. ProgramOK'
      <3>1. prog' = prog /\ fn' = fn + 1 /\ pc' = 1 /\ fn < Len(prog)
        BY <1>1 DEF Enter
      <3>2. /\ DOMAIN prog = 1 .. 2 /\ Len(prog) = 2 /\ fn \in 0 .. 2
            /\ \A g \in 1 .. 2 : FunctionOK(prog[g])
        BY DEF NamesInv, ProgramOK
      <3>3. fn + 1 \in 1 .. 2 /\ fn + 1 \in 0 .. 2
        BY <3>1, <3>2
      <3>4. prog[fn + 1].body \in Seq(PlainStatement)
        BY <3>2, <3>3 DEF FunctionOK
      <3>5. 1 <= Len(prog[fn + 1].body) + 1
        BY <3>4
      <3> QED
        BY <3>1, <3>2, <3>3, <3>5 DEF ProgramOK
    <2>2. DOMAIN why' = Engines
      BY <1>1 DEF Enter, NamesInv
    <2>3. \A e \in Engines : EngineInv(e)'
      BY <1>1, EnterEngine
    <2> QED
      BY <2>1, <2>2, <2>3 DEF NamesInv
  <1>2. CASE Analyse
    <2>1. ProgramOK'
      <3>1. prog' = prog /\ fn' = fn /\ pc' = pc + 1 /\ fn > 0 /\ pc <= Len(prog[fn].body)
        BY <1>2 DEF Analyse
      <3>2. ProgramOK
        BY DEF NamesInv
      <3>3. Len(prog[fn].body) \in Nat
        <4>1. prog[fn].body \in Seq(PlainStatement)
          BY <3>1, <3>2, StatementAt DEF FunctionOK
        <4> QED
          BY <4>1
      <3> QED
        BY <3>1, <3>2, <3>3 DEF ProgramOK
    <2>2. DOMAIN why' = Engines
      BY <1>2 DEF Analyse, NamesInv
    <2>3. \A e \in Engines : EngineInv(e)'
      BY <1>2, AnalyseEngine
    <2> QED
      BY <2>1, <2>2, <2>3 DEF NamesInv
  <1>3. CASE UNCHANGED vars
    BY <1>3 DEF vars, NamesInv, ProgramOK, EngineInv, StoreOf
  <1> QED
    BY <1>1, <1>2, <1>3 DEF Next

\* Every program of plain statements keeps the invariant.
THEOREM NamesInvariant ==
    ASSUME PlainNames, PlainFamilies, NameExcuses
    PROVE  Spec => []NamesInv
  <1>1. Init => NamesInv
    BY NamesInit
  <1>2. NamesInv /\ [Next]_vars => NamesInv'
    BY NamesNext
  <1> QED
    BY <1>1, <1>2, PTL DEF Spec

\* In the interpreter every program of plain statements keeps its names apart: what a
\* PRINT or a byte read shows is what was last stored under that spelling, unless one
\* of the known departures has begun.
THEOREM InterpreterNames ==
    ASSUME PlainNames, PlainFamilies, NameExcuses
    PROVE  Spec => []InterpreterKeepsNames
  <1>1. NamesInv => InterpreterKeepsNames
    BY DEF NamesInv, EngineInv, InterpreterKeepsNames, Engines
  <1> QED
    BY <1>1, NamesInvariant, PTL

\* The C program does, too.
THEOREM CProgramNames ==
    ASSUME PlainNames, PlainFamilies, NameExcuses
    PROVE  Spec => []CProgramKeepsNames
  <1>1. NamesInv => CProgramKeepsNames
    BY DEF NamesInv, EngineInv, CProgramKeepsNames, Engines
  <1> QED
    BY <1>1, NamesInvariant, PTL

=============================================================================
