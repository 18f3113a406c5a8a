----------------------------- MODULE FilesProofs -----------------------------
(***************************************************************************)
(* Proofs about Files, for any names, modes, texts and bounds: the handle  *)
(* tables keep their types, and the interpreter and the compiled program   *)
(* stay in step (EnginesInStep).                                           *)
(***************************************************************************)
EXTENDS Files, WellFoundedInduction, TLAPS

-----------------------------------------------------------------------------
(***************************************************************************)
(* Options, sequences and lines.                                           *)
(***************************************************************************)
\* An option is None or Some.
LEMMA OptionCases ==
  ASSUME NEW S
  PROVE  /\ <<>> \in Option(S)
         /\ \A v \in S : <<v>> \in Option(S) /\ <<v>> # <<>>
         /\ \A f \in Option(S) : f # <<>> => f[1] \in S /\ f = <<f[1]>>
<1>1. <<>> \in [1..0 -> S]
  OBVIOUS
<1>2. ASSUME NEW v \in S PROVE <<v>> \in [1..1 -> S] /\ <<v>> # <<>>
  <2>1. <<v>> \in Seq(S) /\ Len(<<v>>) = 1
    OBVIOUS
  <2> QED BY <2>1
<1>3. ASSUME NEW f \in [1..0 -> S] PROVE f = <<>>
  OBVIOUS
<1>4. ASSUME NEW f \in [1..1 -> S] PROVE f[1] \in S /\ f = <<f[1]>>
  OBVIOUS
<1> QED BY <1>1, <1>2, <1>3, <1>4 DEF Option

\* The last element of a sequence, and what is in front of it.
LEMMA FrontLast ==
  ASSUME NEW S, NEW s \in Seq(S), s # <<>>
  PROVE  /\ Len(s) \in Nat \ {0} /\ Last(s) \in S /\ Last(s) = s[Len(s)]
         /\ Front(s) \in Seq(S) /\ Len(Front(s)) = Len(s) - 1
         /\ \A i \in 1..Len(s) - 1 : Front(s)[i] = s[i]
<1>1. Len(s) \in Nat \ {0} /\ s[Len(s)] \in S
  OBVIOUS
<1>2. \A n \in 0..Len(s) : /\ SubSeq(s, 1, n) \in Seq(S) /\ Len(SubSeq(s, 1, n)) = n
                           /\ \A i \in 1..n : SubSeq(s, 1, n)[i] = s[i]
  OBVIOUS
<1>3. Len(s) - 1 \in 0..Len(s)
  BY <1>1
<1> QED BY <1>1, <1>2, <1>3 DEF Front, Last

\* What a sequence holds.
LEMMA Element ==
  ASSUME NEW S, NEW s \in Seq(S)
  PROVE  /\ Len(s) \in Nat /\ DOMAIN s = 1..Len(s)
         /\ \A i \in DOMAIN s : s[i] \in S
OBVIOUS

\* A function on 1..n is a sequence.
LEMMA SeqOfFunction ==
  ASSUME NEW S, NEW n \in Nat, NEW f \in [1..n -> S]
  PROVE  f \in Seq(S)
OBVIOUS

\* Appending to a sequence.
LEMMA Appended ==
  ASSUME NEW S, NEW s \in Seq(S), NEW v \in S
  PROVE  /\ Append(s, v) \in Seq(S) /\ Len(Append(s, v)) = Len(s) + 1
         /\ Append(s, v)[Len(s) + 1] = v
         /\ \A i \in 1..Len(s) : Append(s, v)[i] = s[i]
OBVIOUS

\* Replacing one element of a sequence.
LEMMA Replaced ==
  ASSUME NEW S, NEW s \in Seq(S), NEW i \in DOMAIN s, NEW v \in S
  PROVE  /\ [s EXCEPT ![i] = v] \in Seq(S) /\ Len([s EXCEPT ![i] = v]) = Len(s)
         /\ DOMAIN [s EXCEPT ![i] = v] = DOMAIN s
         /\ \A j \in DOMAIN s : [s EXCEPT ![i] = v][j] = IF j = i THEN v ELSE s[j]
OBVIOUS

\* A set of positions of a sequence has a least one.
LEMMA LeastPosition ==
  ASSUME NEW is \in SUBSET Nat, is # {}
  PROVE  \E i \in is : \A j \in is : i <= j
<1> DEFINE R == OpToRel(<, Nat)
<1>1. PICK i \in is : \A j \in is : ~(<<j, i>> \in R)
  BY NatLessThanWellFounded, WFMin, Zenon
<1>2. \A j \in is : ~(j < i)
  BY <1>1 DEF OpToRel
<1> QED BY <1>2

\* The first line of c is c or what is in front of a position of it.
LEMMA LineType ==
  ASSUME NEW c \in Seq(Byte)
  PROVE  LineOf(c) \in Seq(Byte)
<1> DEFINE lfs == {i \in DOMAIN c : c[i] = "lf"}
<1>1. CASE lfs = {}
  BY <1>1 DEF LineOf
<1>2. CASE lfs # {}
  <2>1. lfs \in SUBSET Nat
    OBVIOUS
  <2> DEFINE first == CHOOSE i \in lfs : \A j \in lfs : i <= j
  <2>2. first \in lfs
    BY <1>2, <2>1, LeastPosition
  <2>3. first \in 1..Len(c)
    BY <2>2
  <2>4. LineOf(c) = SubSeq(c, 1, first)
    BY <1>2 DEF LineOf
  <2> HIDE DEF first
  <2> QED BY <2>3, <2>4
<1> QED BY <1>1, <1>2

\* What is left to read.
LEMMA RestType ==
  ASSUME NEW c \in Seq(Byte), NEW p \in Nat
  PROVE  Rest(c, p) \in Seq(Byte)
BY DEF Rest

\* A line without CR is read as it is.
LEMMA NothingDropped ==
  ASSUME NEW l \in Seq(Byte), \A i \in DOMAIN l : l[i] # "cr"
  PROVE  WithoutCrs(l) = l
<1> DEFINE n == Len(l)
           Kept(f) == [i \in 0..n |-> IF i = 0 THEN <<>>
                                      ELSE IF l[i] = "cr" THEN f[i - 1]
                                      ELSE Append(f[i - 1], l[i])]
           g == [i \in 0..n |-> SubSeq(l, 1, i)]
           kept == CHOOSE f : f = Kept(f)
<1>1. n \in Nat /\ DOMAIN l = 1..n
  OBVIOUS
<1>2. g = Kept(g)
  <2>1. ASSUME NEW i \in 0..n
        PROVE  SubSeq(l, 1, i) = IF i = 0 THEN <<>>
                                 ELSE IF l[i] = "cr" THEN g[i - 1]
                                 ELSE Append(g[i - 1], l[i])
    <3>1. CASE i = 0
      BY <3>1
    <3>2. CASE i # 0
      <4>1. i \in 1..n /\ i - 1 \in 0..n /\ l[i] # "cr" /\ l[i] \in Byte
        BY <1>1, <3>2
      <4>2. g[i - 1] = SubSeq(l, 1, i - 1)
        BY <4>1
      <4>3. SubSeq(l, 1, i) = Append(SubSeq(l, 1, i - 1), l[i])
        BY <1>1, <4>1
      <4> QED BY <3>2, <4>1, <4>2, <4>3
    <3> QED BY <3>1, <3>2
  <2> QED BY <2>1, Zenon
<1>3. kept = Kept(kept)
  BY <1>2, Zenon
<1>4. \A i \in 0..n : kept[i] = IF i = 0 THEN <<>>
                                ELSE IF l[i] = "cr" THEN kept[i - 1]
                                ELSE Append(kept[i - 1], l[i])
  BY <1>3, Zenon
<1> HIDE DEF kept
<1>5. \A i \in 0..n : kept[i] = g[i]
  <2> DEFINE bad == {i \in 0..n : kept[i] # g[i]}
  <2>1. SUFFICES ASSUME bad # {} PROVE FALSE
    OBVIOUS
  <2>2. bad \in SUBSET Nat
    BY <1>1
  <2>3. PICK i \in bad : \A j \in bad : i <= j
    BY <2>1, <2>2, LeastPosition, Zenon
  <2>4. i \in 0..n /\ kept[i] # g[i]
    BY <2>3
  <2>5. g[i] = IF i = 0 THEN <<>> ELSE IF l[i] = "cr" THEN g[i - 1]
               ELSE Append(g[i - 1], l[i])
    BY <1>2, <2>4, Zenon
  <2>6. i # 0
    BY <1>4, <2>4, <2>5
  <2>7. i - 1 \in 0..n /\ ~(i <= i - 1)
    BY <1>1, <2>4, <2>6
  <2>8. i - 1 \notin bad
    BY <2>3, <2>7
  <2>9. kept[i - 1] = g[i - 1]
    BY <2>7, <2>8
  <2> QED BY <1>4, <2>4, <2>5, <2>9
<1>6. WithoutCrs(l) = kept[n]
  BY DEF WithoutCrs, kept
<1>7. g[n] = l
  BY <1>1
<1> QED BY <1>1, <1>5, <1>6, <1>7

-----------------------------------------------------------------------------
(***************************************************************************)
(* The inductive invariant.  EnginesInStep speaks of the numbers in scope  *)
(* one by one, and an operation through one of them must not disturb       *)
(* another: so each names an entry there is (Placed), and two numbers name *)
(* one entry in the interpreter exactly if they do in the rival (Apart).   *)
(* What an open file holds is read off the disk (OnDisk).                  *)
(***************************************************************************)
\* The table of engine e a number in scope belongs to, and its entry there.
Tab(e, h)   == IF e = "interp" THEN h.home ELSE 1
Entry(e, h) == h.num[e] - 2

Layout == /\ Len(st["interp"].tabs) > 0
          /\ Len(st[rival].tabs) = 1

OnDisk == \A e \in Both : \A t \in DOMAIN st[e].tabs :
            \A j \in DOMAIN st[e].tabs[t] :
              st[e].tabs[t][j] # <<>> => st[e].disk[st[e].tabs[t][j][1].name] # <<>>

Placed == \A i \in DOMAIN held :
            /\ held[i].home <= Depth
            /\ held[i].home > 0 =>
                 \A e \in Both :
                   Entry(e, held[i]) \in DOMAIN st[e].tabs[Tab(e, held[i])]

Apart == \A i, j \in DOMAIN held :
           held[i].home > 0 /\ held[j].home > 0 =>
             (/\ held[i].home = held[j].home
              /\ held[i].num["interp"] = held[j].num["interp"])
             <=> held[i].num[rival] = held[j].num[rival]

InStep == /\ st[rival].disk = st["interp"].disk
          /\ \A i \in DOMAIN held :
               held[i].home > 0 => Named(rival, held[i]) = Named("interp", held[i])

FilesInv == /\ TypeOK /\ Layout /\ OnDisk /\ Placed /\ Apart /\ InStep
            /\ left = {} => same

Disk == [Name -> Option(Seq(Byte))]

\* The two engines, their tables and their disks.
LEMMA Tables ==
  ASSUME TypeOK, Layout
  PROVE  /\ "interp" \in Both /\ rival \in Both /\ rival # "interp"
         /\ Both \subseteq Engine /\ \A e \in Both : e = "interp" \/ e = rival
         /\ Depth \in Nat \ {0} /\ Depth = Len(st["interp"].tabs)
         /\ \A e \in Engine :
              /\ st[e] \in [disk : Disk, tabs : Seq(Seq(Option(Handle)))]
              /\ st[e] = [disk |-> st[e].disk, tabs |-> st[e].tabs]
              /\ st[e].disk \in Disk /\ st[e].tabs \in Seq(Seq(Option(Handle)))
         /\ \A e \in Both :
              /\ Len(st[e].tabs) \in Nat \ {0} /\ Len(st[e].tabs) \in DOMAIN st[e].tabs
              /\ Table(e) = st[e].tabs[Len(st[e].tabs)]
              /\ Table(e) \in Seq(Option(Handle))
<1>1. /\ "interp" \in Both /\ rival \in Both /\ rival # "interp"
      /\ Both \subseteq Engine /\ \A e \in Both : e = "interp" \/ e = rival
  BY DEF TypeOK, Both, Engine, Rivals
<1>2. \A e \in Engine : st[e] \in [disk : Disk, tabs : Seq(Seq(Option(Handle)))]
  BY DEF TypeOK, Disk
<1>3. \A e \in Engine :
        /\ st[e] = [disk |-> st[e].disk, tabs |-> st[e].tabs]
        /\ st[e].disk \in Disk /\ st[e].tabs \in Seq(Seq(Option(Handle)))
  BY <1>2
<1>4. \A e \in Both : Len(st[e].tabs) \in Nat \ {0}
  <2>1. Len(st["interp"].tabs) \in Nat
    BY <1>1, <1>3, Element
  <2> QED BY <1>1, <2>1 DEF Layout
<1>5. \A e \in Both : Len(st[e].tabs) \in DOMAIN st[e].tabs
  BY <1>1, <1>3, <1>4, Element
<1>6. \A e \in Both : Table(e) = st[e].tabs[Len(st[e].tabs)]
  BY DEF Table, Last
<1>7. ASSUME NEW e \in Both PROVE Table(e) \in Seq(Option(Handle))
  <2> DEFINE ts == st[e].tabs
  <2>1. ts \in Seq(Seq(Option(Handle))) /\ Len(ts) \in DOMAIN ts
    BY <1>1, <1>3, <1>5
  <2>2. Table(e) = ts[Len(ts)]
    BY <1>6
  <2> HIDE DEF ts
  <2>3. ts[Len(ts)] \in Seq(Option(Handle))
    BY <2>1, Element
  <2> QED BY <2>2, <2>3
<1> QED BY <1>1, <1>2, <1>3, <1>4, <1>5, <1>6, <1>7 DEF Depth

\* The types of the numbers the program keeps.
LEMMA HeldTypes ==
  ASSUME TypeOK
  PROVE  /\ Len(held) \in Nat /\ DOMAIN held = 1..Len(held)
         /\ \A i \in DOMAIN held :
              /\ held[i] \in [num : [Engine -> Int], home : Nat]
              /\ held[i].home \in Nat /\ held[i].num \in [Engine -> Int]
              /\ \A e \in Engine : held[i].num[e] \in Int
<1>1. held \in Seq([num : [Engine -> Int], home : Nat])
  BY DEF TypeOK
<1>2. \A i \in DOMAIN held : held[i] \in [num : [Engine -> Int], home : Nat]
  BY <1>1, Element
<1>3. \A h \in [num : [Engine -> Int], home : Nat] :
        h.home \in Nat /\ h.num \in [Engine -> Int] /\ \A e \in Engine : h.num[e] \in Int
  OBVIOUS
<1> QED BY <1>1, <1>2, <1>3, Element

\* A number of the running function finds no file in either engine or the
\* same one in both, and then it is one the program keeps.
LEMMA SameFile ==
  ASSUME FilesInv, NEW h \in Numbers, h.home = Depth
  PROVE  /\ File("interp", h.num["interp"]) = File(rival, h.num[rival])
         /\ File("interp", h.num["interp"]) \in Option(Handle)
         /\ \A e \in Both : h.num[e] \in Int
         /\ File("interp", h.num["interp"]) # <<>> =>
              /\ \E i \in DOMAIN held : h = held[i]
              /\ \A e \in Both : /\ Entry(e, h) \in DOMAIN Table(e)
                                 /\ Tab(e, h) = Len(st[e].tabs)
                                 /\ File(e, h.num[e]) = Table(e)[Entry(e, h)]
<1> USE DEF FilesInv
<1>1. CASE \E k \in {-1, 2} : h = Literal(k)
  <2>1. PICK k \in {-1, 2} : h = Literal(k)
    BY <1>1
  <2>2. \A e \in Both : h.num[e] = k
    BY <2>1, Tables DEF Literal
  <2>3. \A e \in Both : k - 2 \notin DOMAIN Table(e)
    BY Tables
  <2>4. \A e \in Both : File(e, h.num[e]) = <<>>
    BY <2>2, <2>3 DEF File
  <2> QED BY <2>2, <2>4, Tables, OptionCases
<1>2. CASE \E i \in DOMAIN held : h = held[i]
  <2>1. PICK i \in DOMAIN held : h = held[i]
    BY <1>2
  <2>2. h.home > 0 /\ \A e \in Both : h.num[e] \in Int
    BY <2>1, HeldTypes, Tables
  <2>3. \A e \in Both : Tab(e, h) = Len(st[e].tabs)
    BY Tables DEF Tab, Layout
  <2>4. \A e \in Both : Entry(e, h) \in DOMAIN Table(e)
    <3>1. \A e \in Both : Entry(e, h) \in DOMAIN st[e].tabs[Tab(e, h)]
      BY <2>1, <2>2 DEF Placed
    <3> QED BY <2>3, <3>1, Tables
  <2>5. \A e \in Both : File(e, h.num[e]) = Table(e)[Entry(e, h)]
    BY <2>4 DEF File, Entry
  <2>6. \A e \in Both : Named(e, h) = Table(e)[Entry(e, h)]
    BY <2>3, Tables DEF Named, Tab, Entry
  <2>7. Named(rival, h) = Named("interp", h)
    BY <2>1, <2>2 DEF InStep
  <2>8. Table("interp")[Entry("interp", h)] \in Option(Handle)
    BY <2>4, Tables
  <2> QED BY <2>1, <2>2, <2>3, <2>4, <2>5, <2>6, <2>7, <2>8, Tables
<1> QED BY <1>1, <1>2 DEF Numbers

-----------------------------------------------------------------------------
(***************************************************************************)
(* What an operation through a number does to both engines: the disk       *)
(* becomes d and the entry of the number g.                                *)
(***************************************************************************)
Change(e, k, g, d) ==
  [disk |-> d, tabs |-> [st[e].tabs EXCEPT ![Len(st[e].tabs)][k - 2] = g]]

LEMMA ChangeFacts ==
  ASSUME TypeOK, Layout, NEW e \in Both, NEW k, NEW i \in DOMAIN Table(e), i = k - 2,
         NEW g \in Option(Handle), NEW d \in Disk, NEW s, s = Change(e, k, g, d)
  PROVE  /\ s \in [disk : Disk, tabs : Seq(Seq(Option(Handle)))]
         /\ s.disk = d
         /\ Len(s.tabs) = Len(st[e].tabs) /\ DOMAIN s.tabs = DOMAIN st[e].tabs
         /\ \A t \in DOMAIN st[e].tabs :
              /\ DOMAIN s.tabs[t] = DOMAIN st[e].tabs[t]
              /\ \A j \in DOMAIN st[e].tabs[t] :
                   s.tabs[t][j] = IF t = Len(st[e].tabs) /\ j = i THEN g
                                  ELSE st[e].tabs[t][j]
<1> DEFINE ts == st[e].tabs
           n == Len(ts)
           tab == [ts[n] EXCEPT ![i] = g]
           new == [ts EXCEPT ![n] = tab]
<1>1. ts \in Seq(Seq(Option(Handle))) /\ n \in DOMAIN ts /\ i \in DOMAIN ts[n]
      /\ ts[n] \in Seq(Option(Handle))
  BY Tables
<1>2. Change(e, k, g, d) = [disk |-> d, tabs |-> new]
  BY DEF Change
<1> HIDE DEF ts
<1>3. /\ tab \in Seq(Option(Handle)) /\ DOMAIN tab = DOMAIN ts[n]
      /\ \A j \in DOMAIN ts[n] : tab[j] = IF j = i THEN g ELSE ts[n][j]
  BY <1>1, Replaced
<1> HIDE DEF tab
<1>4. /\ new \in Seq(Seq(Option(Handle))) /\ DOMAIN new = DOMAIN ts /\ Len(new) = n
      /\ \A t \in DOMAIN ts : new[t] = IF t = n THEN tab ELSE ts[t]
  BY <1>1, <1>3, Replaced
<1> HIDE DEF new
<1>5. \A t \in DOMAIN ts :
        /\ DOMAIN new[t] = DOMAIN ts[t]
        /\ \A j \in DOMAIN ts[t] :
             new[t][j] = IF t = n /\ j = i THEN g ELSE ts[t][j]
  BY <1>3, <1>4
<1> HIDE DEF n
<1>6. Change(e, k, g, d) \in [disk : Disk, tabs : Seq(Seq(Option(Handle)))]
  BY <1>2, <1>4
<1>7. s.tabs = new /\ s.disk = d
  BY <1>2
<1> QED BY <1>4, <1>5, <1>6, <1>7 DEF ts, n

\* Such a change of the file a number names keeps the engines in step.
LEMMA ChangeKeeps ==
  ASSUME FilesInv, NEW h \in Numbers, h.home = Depth,
         File("interp", h.num["interp"]) # <<>>,
         NEW g \in Option(Handle), NEW d \in Disk,
         \A n \in Name : st["interp"].disk[n] # <<>> => d[n] # <<>>,
         g # <<>> => d[g[1].name] # <<>>,
         rival' = rival, held' = held, left' = {}, same' = TRUE,
         st' = [e \in Engine |-> IF e \in Both THEN Change(e, h.num[e], g, d)
                                 ELSE st[e]]
  PROVE  FilesInv'
<1> USE DEF FilesInv
<1>1. /\ \A e \in Both : /\ h.num[e] \in Int
                         /\ Entry(e, h) \in DOMAIN Table(e)
                         /\ Entry(e, h) = h.num[e] - 2
                         /\ Tab(e, h) = Len(st[e].tabs)
      /\ \E i \in DOMAIN held : h = held[i]
  BY SameFile DEF Entry
<1>2. Both' = Both
  BY DEF Both
<1>3. /\ "interp" \in Both /\ rival \in Both /\ Both \subseteq Engine
      /\ \A e \in Both : e = "interp" \/ e = rival
  BY Tables
<1>4. \A e \in Both : st'[e] = Change(e, h.num[e], g, d)
  BY <1>3
<1>5. ASSUME NEW e \in Both
      PROVE  /\ st'[e] \in [disk : Disk, tabs : Seq(Seq(Option(Handle)))]
             /\ st'[e].disk = d
             /\ Len(st'[e].tabs) = Len(st[e].tabs)
             /\ DOMAIN st'[e].tabs = DOMAIN st[e].tabs
             /\ \A t \in DOMAIN st[e].tabs :
                  /\ DOMAIN st'[e].tabs[t] = DOMAIN st[e].tabs[t]
                  /\ \A j \in DOMAIN st[e].tabs[t] :
                       st'[e].tabs[t][j] =
                         IF t = Len(st[e].tabs) /\ j = Entry(e, h) THEN g
                         ELSE st[e].tabs[t][j]
  <2> DEFINE s == st'[e]
             i == Entry(e, h)
  <2>1. i \in DOMAIN Table(e) /\ i = h.num[e] - 2
    BY <1>1
  <2>2. s = Change(e, h.num[e], g, d)
    BY <1>4
  <2> HIDE DEF s, i
  <2>3. /\ s \in [disk : Disk, tabs : Seq(Seq(Option(Handle)))]
        /\ s.disk = d
        /\ Len(s.tabs) = Len(st[e].tabs) /\ DOMAIN s.tabs = DOMAIN st[e].tabs
        /\ \A t \in DOMAIN st[e].tabs :
             /\ DOMAIN s.tabs[t] = DOMAIN st[e].tabs[t]
             /\ \A j \in DOMAIN st[e].tabs[t] :
                  s.tabs[t][j] = IF t = Len(st[e].tabs) /\ j = i THEN g
                                 ELSE st[e].tabs[t][j]
    BY <2>1, <2>2, ChangeFacts
  <2> QED BY <2>3, Zenon DEF s, i
<1>6. TypeOK'
  <2>1. ASSUME NEW e \in Engine
        PROVE  st'[e] \in [disk : Disk, tabs : Seq(Seq(Option(Handle)))]
    <3>1. CASE e \in Both
      BY <1>5, <3>1
    <3>2. CASE e \notin Both
      BY <3>2, Tables
    <3> QED BY <3>1, <3>2
  <2>2. st' \in [Engine -> [disk : Disk, tabs : Seq(Seq(Option(Handle)))]]
    BY <2>1
  <2> QED BY <2>2 DEF TypeOK, Disk
<1>7. Layout'
  BY <1>3, <1>5 DEF Layout
<1>8. Depth' = Depth
  BY <1>3, <1>5 DEF Depth
<1>9. OnDisk'
  <2> SUFFICES ASSUME NEW e \in Both, NEW t \in DOMAIN st'[e].tabs,
                      NEW j \in DOMAIN st'[e].tabs[t], st'[e].tabs[t][j] # <<>>
               PROVE  st'[e].disk[st'[e].tabs[t][j][1].name] # <<>>
    BY <1>2, Zenon DEF OnDisk
  <2>1. t \in DOMAIN st[e].tabs /\ j \in DOMAIN st[e].tabs[t]
    BY <1>5
  <2>2. st'[e].disk = d
    BY <1>5
  <2>3. CASE st'[e].tabs[t][j] = g
    BY <2>2, <2>3
  <2>4. CASE st'[e].tabs[t][j] = st[e].tabs[t][j]
    <3>1. st[e].tabs[t] \in Seq(Option(Handle))
      BY <1>3, <2>1, Tables, Element
    <3>2. st[e].tabs[t][j] \in Option(Handle)
      BY <2>1, <3>1, Element
    <3>3. st[e].tabs[t][j][1] \in Handle
      BY <2>4, <3>2, OptionCases
    <3>4. st[e].tabs[t][j][1].name \in Name
      BY <3>3 DEF Handle
    <3>5. st[e].disk[st[e].tabs[t][j][1].name] # <<>>
      BY <2>4, <2>1 DEF OnDisk
    <3>6. st[e].disk = st["interp"].disk
      BY <1>3 DEF InStep
    <3> QED BY <2>2, <2>4, <3>4, <3>5, <3>6
  <2>5. st'[e].tabs[t][j] = g \/ st'[e].tabs[t][j] = st[e].tabs[t][j]
    <3>1. st'[e].tabs[t][j] = IF t = Len(st[e].tabs) /\ j = Entry(e, h) THEN g
                              ELSE st[e].tabs[t][j]
      BY <1>5, <2>1
    <3> QED BY <3>1
  <2> QED BY <2>3, <2>4, <2>5
<1>10. Placed'
  <2> SUFFICES ASSUME NEW i \in DOMAIN held
               PROVE  /\ held[i].home <= Depth
                      /\ held[i].home > 0 => \A e \in Both :
                           Entry(e, held[i]) \in DOMAIN st'[e].tabs[Tab(e, held[i])]
    BY <1>2, <1>8 DEF Placed, Entry, Tab
  <2>1. /\ held[i].home <= Depth
        /\ held[i].home > 0 => \A e \in Both :
             Entry(e, held[i]) \in DOMAIN st[e].tabs[Tab(e, held[i])]
    BY DEF Placed
  <2>2. ASSUME NEW e \in Both, held[i].home > 0
        PROVE  Tab(e, held[i]) \in DOMAIN st[e].tabs
    <3>1. held[i].home \in 1..Len(st["interp"].tabs)
      BY <2>1, <2>2, HeldTypes, Tables
    <3>2. Len(st[rival].tabs) = 1
      BY DEF Layout
    <3> QED BY <1>3, <3>1, <3>2, Tables, Element DEF Tab
  <2> QED BY <1>5, <2>1, <2>2
<1>11. Apart'
  BY DEF Apart
<1>12. InStep'
  <2>1. st'[rival].disk = st'["interp"].disk
    BY <1>3, <1>5
  <2>2. ASSUME NEW i \in DOMAIN held, held[i].home > 0
        PROVE  Named(rival, held[i])' = Named("interp", held[i])'
    <3>1. \A e \in Both : /\ Tab(e, held[i]) \in DOMAIN st[e].tabs
                          /\ Entry(e, held[i]) \in DOMAIN st[e].tabs[Tab(e, held[i])]
      <4>1. held[i].home \in 1..Len(st["interp"].tabs)
        BY <2>2, HeldTypes, Tables DEF Placed
      <4>2. Len(st[rival].tabs) = 1
        BY DEF Layout
      <4> QED BY <1>3, <2>2, <4>1, <4>2, Tables, Element DEF Tab, Placed
    <3>2. ASSUME NEW e \in Both
          PROVE  Named(e, held[i])' =
                   IF Tab(e, held[i]) = Tab(e, h) /\ Entry(e, held[i]) = Entry(e, h)
                   THEN g ELSE Named(e, held[i])
      <4> DEFINE t == Tab(e, held[i])
                 j == Entry(e, held[i])
      <4>1. Named(e, held[i])' = st'[e].tabs[t][j] /\ Named(e, held[i]) = st[e].tabs[t][j]
        BY DEF Named, Tab, Entry
      <4>2. t \in DOMAIN st[e].tabs /\ j \in DOMAIN st[e].tabs[t]
        BY <3>1
      <4>3. Tab(e, h) = Len(st[e].tabs)
        BY <1>1
      <4> HIDE DEF t, j
      <4>4. st'[e].tabs[t][j] = IF t = Len(st[e].tabs) /\ j = Entry(e, h) THEN g
                                ELSE st[e].tabs[t][j]
        BY <1>5, <4>2
      <4> QED BY <4>1, <4>3, <4>4 DEF t, j
    <3>3. Named(rival, held[i]) = Named("interp", held[i])
      BY <2>2 DEF InStep
    <3>4. (Tab("interp", held[i]) = Tab("interp", h)
             /\ Entry("interp", held[i]) = Entry("interp", h))
          <=> (Tab(rival, held[i]) = Tab(rival, h)
                 /\ Entry(rival, held[i]) = Entry(rival, h))
      <4>1. PICK m \in DOMAIN held : h = held[m]
        BY <1>1
      <4>2. /\ held[i].num["interp"] \in Int /\ held[i].num[rival] \in Int
            /\ h.num["interp"] \in Int /\ h.num[rival] \in Int
        BY <1>1, <1>3, HeldTypes
      <4>3. (held[i].home = h.home /\ held[i].num["interp"] = h.num["interp"])
            <=> held[i].num[rival] = h.num[rival]
        BY <2>2, <4>1, Tables DEF Apart
      <4>4. (Entry("interp", held[i]) = Entry("interp", h)
               <=> held[i].num["interp"] = h.num["interp"])
            /\ (Entry(rival, held[i]) = Entry(rival, h)
               <=> held[i].num[rival] = h.num[rival])
        BY <4>2 DEF Entry
      <4>5. /\ Tab("interp", held[i]) = held[i].home /\ Tab("interp", h) = h.home
            /\ Tab(rival, held[i]) = 1 /\ Tab(rival, h) = 1
        BY Tables DEF Tab
      <4> QED BY <4>3, <4>4, <4>5
    <3> QED BY <1>3, <3>2, <3>3, <3>4
  <2> QED BY <2>1, <2>2 DEF InStep
<1> QED BY <1>6, <1>7, <1>9, <1>10, <1>11, <1>12

\* A comparison that has ended.
LEMMA OverKeeps ==
  ASSUME FilesInv, st' = Over, rival' = rival, held' = <<>>,
         left' \in SUBSET Reason, left' # {}, same' \in BOOLEAN
  PROVE  FilesInv'
<1> USE DEF FilesInv
<1>1. /\ "interp" \in Engine /\ rival \in Engine /\ Both' = Both /\ Both \subseteq Engine
  BY Tables DEF Both
<1>2. \A e \in Engine : /\ Over[e].disk = [n \in Name |-> <<>>]
                        /\ Over[e].tabs = << <<>> >>
                        /\ Over[e] = [disk |-> [n \in Name |-> <<>>], tabs |-> << <<>> >>]
  BY DEF Over
<1>3. [n \in Name |-> <<>>] \in Disk
  BY OptionCases DEF Disk
<1>4. << <<>> >> \in Seq(Seq(Option(Handle)))
  OBVIOUS
<1>5. held' \in Seq([num : [Engine -> Int], home : Nat])
  OBVIOUS
<1>6. Over \in [Engine -> [disk : Disk, tabs : Seq(Seq(Option(Handle)))]]
  BY <1>3, <1>4 DEF Over
<1>7. TypeOK'
  BY <1>5, <1>6 DEF TypeOK, Disk
<1>8. Len(<< <<>> >>) = 1 /\ DOMAIN << <<>> >> = {1} /\ << <<>> >>[1] = <<>>
      /\ DOMAIN <<>> = {}
  OBVIOUS
<1>9. Layout'
  <2>1. st'["interp"].tabs = << <<>> >> /\ st'[rival'].tabs = << <<>> >>
    BY <1>1, <1>2
  <2> QED BY <1>8, <2>1 DEF Layout
<1>10. OnDisk'
  BY <1>1, <1>2, <1>8 DEF OnDisk
<1>11. Placed' /\ Apart'
  BY <1>8 DEF Placed, Apart
<1>12. InStep'
  BY <1>1, <1>2, <1>8 DEF InStep
<1> QED BY <1>7, <1>9, <1>10, <1>11, <1>12

\* Nothing of the files changes.
LEMMA SameKeeps ==
  ASSUME FilesInv, st' = st, rival' = rival, held' = held,
         left' \subseteq Reason, same' \in BOOLEAN, left' = {} => same'
  PROVE  FilesInv'
<1>1. /\ Both' = Both /\ Depth' = Depth
      /\ \A e, h : Tab(e, h)' = Tab(e, h)
      /\ \A e, h : Entry(e, h)' = Entry(e, h)
  BY DEF Both, Depth, Tab, Entry
<1>2. TypeOK'
  BY DEF FilesInv, TypeOK
<1>3. Layout' /\ OnDisk'
  BY <1>1 DEF FilesInv, Layout, OnDisk
<1>4. Placed' /\ Apart'
  BY <1>1 DEF FilesInv, Placed, Apart, Tab, Entry
<1>5. InStep'
  BY <1>1 DEF FilesInv, InStep, Named
<1> QED BY <1>2, <1>3, <1>4, <1>5 DEF FilesInv

\* The answers r of an operation through number h agree, and it leaves both
\* engines as they were or changes the file the number names in both.
Agreeing(h, r) ==
  /\ r["interp"].ans = r[rival].ans
  /\ \/ \A e \in Both : r[e].st = st[e]
     \/ /\ File("interp", h.num["interp"]) # <<>>
        /\ \E g \in Option(Handle), d \in Disk :
             /\ \A n \in Name : st["interp"].disk[n] # <<>> => d[n] # <<>>
             /\ g # <<>> => d[g[1].name] # <<>>
             /\ \A e \in Both : r[e].st = Change(e, h.num[e], g, d)

\* A statement through a number whose results are r.
Statement(r, ends) ==
  /\ left = {} /\ rival' = rival /\ left' = ends
  /\ held' = IF ends = {} THEN held ELSE <<>>
  /\ st' = IF ends # {} THEN Over
           ELSE [e \in Engine |-> IF e \in Both THEN r[e].st ELSE st[e]]
  /\ same' = (r["interp"].ans = r[rival].ans)

LEMMA NumberKeeps ==
  ASSUME FilesInv, NEW h \in Numbers, NEW r, NEW ends \in SUBSET Reason,
         Statement(r, ends),
         ends = {} => h.home = Depth /\ Agreeing(h, r)
  PROVE  FilesInv'
<1> USE DEF Statement
<1>1. CASE ends # {}
  <2>1. same' \in BOOLEAN
    OBVIOUS
  <2> QED BY <1>1, <2>1, OverKeeps
<1>2. CASE ends = {}
  <2>1. /\ h.home = Depth /\ same' = TRUE /\ held' = held /\ left' = {}
        /\ rival' = rival
        /\ r["interp"].ans = r[rival].ans
    BY <1>2 DEF Agreeing
  <2>2. CASE \A e \in Both : r[e].st = st[e]
    <3>1. st' = [e \in Engine |-> st[e]]
      BY <1>2, <2>2
    <3>2. st' = st
      BY <3>1 DEF FilesInv, TypeOK
    <3> QED BY <2>1, <3>2, SameKeeps
  <2>3. CASE /\ File("interp", h.num["interp"]) # <<>>
             /\ \E g \in Option(Handle), d \in Disk :
                  /\ \A n \in Name : st["interp"].disk[n] # <<>> => d[n] # <<>>
                  /\ g # <<>> => d[g[1].name] # <<>>
                  /\ \A e \in Both : r[e].st = Change(e, h.num[e], g, d)
    <3>1. PICK g \in Option(Handle), d \in Disk :
            /\ \A n \in Name : st["interp"].disk[n] # <<>> => d[n] # <<>>
            /\ g # <<>> => d[g[1].name] # <<>>
            /\ \A e \in Both : r[e].st = Change(e, h.num[e], g, d)
      BY <2>3
    <3>2. st' = [e \in Engine |-> IF e \in Both THEN Change(e, h.num[e], g, d)
                                  ELSE st[e]]
      BY <1>2, <3>1
    <3> QED BY ZenonT(60), <2>1, <2>3, <3>1, <3>2, ChangeKeeps
  <2> QED BY <1>2, <2>2, <2>3 DEF Agreeing
<1> QED BY <1>1, <1>2

-----------------------------------------------------------------------------
(***************************************************************************)
(* The operations through a number, on a file both engines agree on.       *)
(***************************************************************************)
\* The file f a number of the running function names, and its contents.
LEMMA OpenFile ==
  ASSUME FilesInv, NEW h \in Numbers, h.home = Depth,
         NEW f, f = File("interp", h.num["interp"]), f # <<>>
  PROVE  /\ f[1] \in Handle /\ f[1].name \in Name /\ f[1].pos \in Nat
         /\ \A e \in Both :
              /\ File(e, h.num[e]) = f
              /\ Content(e, h.num[e]) = st["interp"].disk[f[1].name][1]
         /\ st["interp"].disk \in Disk
         /\ st["interp"].disk[f[1].name] # <<>>
         /\ st["interp"].disk[f[1].name][1] \in Seq(Byte)
<1> USE DEF FilesInv
<1>1. /\ f \in Option(Handle)
      /\ \A e \in Both : File(e, h.num[e]) = f
      /\ Entry("interp", h) \in DOMAIN Table("interp")
      /\ f = Table("interp")[Entry("interp", h)]
  BY SameFile, Tables
<1>2. f[1] \in Handle
  BY <1>1, OptionCases
<1>3. f[1].name \in Name /\ f[1].pos \in Nat
  BY <1>2 DEF Handle
<1>4. \A e \in Both : st[e].disk = st["interp"].disk
  BY Tables DEF InStep
<1>5. \A e \in Both : Content(e, h.num[e]) = st["interp"].disk[f[1].name][1]
  BY <1>1, <1>4 DEF Content
<1>6. st["interp"].disk[f[1].name] # <<>>
  BY <1>1, Tables DEF OnDisk
<1>7. st["interp"].disk \in Disk
  BY Tables
<1>8. st["interp"].disk[f[1].name] \in Option(Seq(Byte))
  BY <1>3, <1>7 DEF Disk
<1> QED BY <1>1, <1>2, <1>3, <1>5, <1>6, <1>7, <1>8, OptionCases

\* Assigning to a part of the disk or of the tables of a state.
LEMMA FieldAssigned ==
  ASSUME NEW d, NEW t, NEW s, s = [disk |-> d, tabs |-> t], NEW i, NEW v
  PROVE  /\ [s EXCEPT !.disk[i] = v] = [disk |-> [d EXCEPT ![i] = v], tabs |-> t]
         /\ [s EXCEPT !.tabs[i] = v] = [disk |-> d, tabs |-> [t EXCEPT ![i] = v]]
         /\ [s EXCEPT !.tabs = v] = [disk |-> d, tabs |-> v]
<1>1. [s EXCEPT !.disk[i] = v] = [disk |-> [d EXCEPT ![i] = v], tabs |-> t]
  OBVIOUS
<1>2. [s EXCEPT !.tabs[i] = v] = [disk |-> d, tabs |-> [t EXCEPT ![i] = v]]
  OBVIOUS
<1>3. [s EXCEPT !.tabs = v] = [disk |-> d, tabs |-> v]
  OBVIOUS
<1> QED BY <1>1, <1>2, <1>3

LEMMA EntryAssigned ==
  ASSUME NEW d, NEW t, NEW s, s = [disk |-> d, tabs |-> t], NEW i, NEW j, NEW v
  PROVE  [s EXCEPT !.tabs[i][j] = v] = [disk |-> d, tabs |-> [t EXCEPT ![i][j] = v]]
OBVIOUS

\* Storing an entry, and writing to the disk as well, as a change.
LEMMA StoreIsChange ==
  ASSUME FilesInv, NEW e \in Both, NEW k, NEW g
  PROVE  /\ Store(e, k, g) = Change(e, k, g, st["interp"].disk)
         /\ \A n, c :
              [Store(e, k, g) EXCEPT !.disk[n] = c] =
                Change(e, k, g, [st["interp"].disk EXCEPT ![n] = c])
<1> DEFINE d == st["interp"].disk
           t == st[e].tabs
           s == st[e]
           i == Len(t)
           j == k - 2
<1>1. s = [disk |-> d, tabs |-> t]
  <2>1. st[e] = [disk |-> st[e].disk, tabs |-> st[e].tabs]
    BY Tables DEF FilesInv
  <2>2. st[e].disk = d
    BY Tables DEF FilesInv, InStep
  <2> QED BY <2>1, <2>2
<1>2. Store(e, k, g) = [s EXCEPT !.tabs[i][j] = g]
  BY DEF Store
<1>3. \A x : Change(e, k, g, x) = [disk |-> x, tabs |-> [t EXCEPT ![i][j] = g]]
  BY DEF Change
<1> HIDE DEF d, t, s, i, j
<1>4. Store(e, k, g) = [disk |-> d, tabs |-> [t EXCEPT ![i][j] = g]]
  BY <1>1, <1>2, EntryAssigned
<1>5. ASSUME NEW n, NEW c
      PROVE  [Store(e, k, g) EXCEPT !.disk[n] = c] =
               Change(e, k, g, [d EXCEPT ![n] = c])
  <2> DEFINE u == Store(e, k, g)
             v == [t EXCEPT ![i][j] = g]
  <2>1. u = [disk |-> d, tabs |-> v]
    BY <1>4
  <2>2. Change(e, k, g, [d EXCEPT ![n] = c]) = [disk |-> [d EXCEPT ![n] = c], tabs |-> v]
    BY <1>3
  <2> HIDE DEF u, v
  <2>3. [u EXCEPT !.disk[n] = c] = [disk |-> [d EXCEPT ![n] = c], tabs |-> v]
    BY <2>1, FieldAssigned
  <2> QED BY <2>2, <2>3, Zenon DEF u
<1> QED BY <1>3, <1>4, <1>5 DEF d

\* A handle moved to p.
LEMMA MovedHandle ==
  ASSUME NEW f \in Handle, NEW p \in Nat, NEW in \in BOOLEAN
  PROVE  /\ [f EXCEPT !.pos = p, !.input = in] \in Handle
         /\ [f EXCEPT !.pos = p, !.input = in].name = f.name
BY DEF Handle

LEMMA ResultFields ==
  \A x, s, a : x = Result(s, a) => x.st = s /\ x.ans = a
BY DEF Result

\* An operation that moves the same file to the same place in both.
LEMMA MoveAgrees ==
  ASSUME FilesInv, NEW h \in Numbers, h.home = Depth,
         NEW f, f = File("interp", h.num["interp"]), f # <<>>,
         NEW p \in Nat, NEW in \in BOOLEAN, NEW r, NEW a,
         \A e \in Both : r[e] = Result(Moved(e, h.num[e], p, in), a)
  PROVE  Agreeing(h, r)
<1> DEFINE g == <<[f[1] EXCEPT !.pos = p, !.input = in]>>
           d == st["interp"].disk
<1>1. \A e \in Both : r[e] = Result(Store(e, h.num[e], g), a)
  BY OpenFile DEF Moved
<1>2. \A e \in Both : r[e].st = Change(e, h.num[e], g, d) /\ r[e].ans = a
  BY <1>1, StoreIsChange, ResultFields
<1>3. "interp" \in Both /\ rival \in Both
  BY Tables DEF FilesInv
<1>4. f[1] \in Handle /\ d \in Disk /\ d[f[1].name] # <<>>
  BY OpenFile
<1>5. g \in Option(Handle) /\ g[1].name = f[1].name
  <2> DEFINE m == [f[1] EXCEPT !.pos = p, !.input = in]
  <2>1. m \in Handle /\ m.name = f[1].name
    BY <1>4, MovedHandle
  <2>2. g = <<m>>
    BY DEF g
  <2> HIDE DEF m, g
  <2> QED BY <2>1, <2>2, OptionCases
<1> HIDE DEF g, d
<1> QED
  <2>1. d = st["interp"].disk
    BY DEF d
  <2> QED BY <1>2, <1>4, <1>5, <1>3, <2>1 DEF Agreeing

\* An operation that changes nothing.
LEMMA NothingAgrees ==
  ASSUME NEW h, NEW r, \A e \in Both : r[e].st = st[e],
         r["interp"].ans = r[rival].ans
  PROVE  Agreeing(h, r)
BY DEF Agreeing

-----------------------------------------------------------------------------
(***************************************************************************)
(* Each statement keeps the invariant.                                     *)
(***************************************************************************)
LEMMA EndsAreReasons ==
  ASSUME NEW h, NEW c
  PROVE  /\ Stray(h) \in SUBSET Reason /\ Invalid(h, c) \in SUBSET Reason
         /\ Missing \in SUBSET Reason /\ Turn(h) \in SUBSET Reason
         /\ Denied(h, c) \in SUBSET Reason /\ NotPlain(h) \in SUBSET Reason
         /\ Shared(h) \in SUBSET Reason
         /\ Stray(h) = {} => h.home = Depth
         /\ Missing = {} => rival # "llvm"
BY DEF Stray, Invalid, Missing, Turn, Denied, NotPlain, Shared, Reason

LEMMA CloseKeeps == FilesInv /\ DoClose => FilesInv'
<1> SUFFICES ASSUME FilesInv, DoClose PROVE FilesInv'
  OBVIOUS
<1>0. PICK h \in Numbers : WithNumber(h, Close, Invalid(h, 0))
  BY Zenon DEF DoClose
<1>1.
        Statement([e \in Engine |-> Close(e, h.num[e])], Stray(h) \cup Invalid(h, 0))
  BY <1>0, Tables DEF WithNumber, Step, Statement, FilesInv
<1> DEFINE r == [e \in Engine |-> Close(e, h.num[e])]
           ends == Stray(h) \cup Invalid(h, 0)
<1>2. ends \in SUBSET Reason
  BY EndsAreReasons
<1>3. ASSUME ends = {} PROVE h.home = Depth /\ Agreeing(h, r)
  <2>1. h.home = Depth
    BY <1>3, EndsAreReasons
  <2>2. "interp" \in Both /\ rival \in Both /\ Both \subseteq Engine
    BY Tables DEF FilesInv
  <2>3. \A e \in Both : r[e] = Close(e, h.num[e])
    BY <2>2
  <2> HIDE DEF r
  <2> DEFINE f == File("interp", h.num["interp"])
  <2>4. CASE f = <<>>
    <3>1. \A e \in Both : r[e] = Result(st[e], -1)
      BY <2>1, <2>2, <2>3, <2>4, SameFile, Tables DEF Close, FilesInv
    <3>2. \A e \in Both : r[e].st = st[e] /\ r[e].ans = -1
      BY <3>1, ResultFields
    <3> QED BY <2>1, <2>2, <3>2, NothingAgrees
  <2>5. CASE f # <<>>
    <3>1. \A e \in Both : r[e] = Result(Store(e, h.num[e], <<>>), 0)
      BY <2>1, <2>2, <2>3, <2>5, OpenFile DEF Close
    <3>2. \A e \in Both : r[e].st = Change(e, h.num[e], <<>>, st["interp"].disk)
                          /\ r[e].ans = 0
      BY <3>1, StoreIsChange, ResultFields
    <3>3. st["interp"].disk \in Disk /\ <<>> \in Option(Handle)
      BY <2>2, Tables, OptionCases DEF FilesInv
    <3>4. Agreeing(h, r)
      BY <2>2, <2>5, <3>2, <3>3, Zenon DEF Agreeing
    <3> QED BY <2>1, <3>4
  <2> QED BY <2>4, <2>5
<1> HIDE DEF r, ends
<1> QED BY <1>1, <1>2, <1>3, NumberKeeps DEF r, ends

LEMMA PofKeeps == FilesInv /\ DoPof => FilesInv'
<1> SUFFICES ASSUME FilesInv, DoPof PROVE FilesInv'
  OBVIOUS
<1>0. PICK h \in Numbers : WithNumber(h, Pof, Missing)
  BY Zenon DEF DoPof
<1>1.
        Statement([e \in Engine |-> Pof(e, h.num[e])], Stray(h) \cup Missing)
  BY <1>0, Tables DEF WithNumber, Step, Statement, FilesInv
<1> DEFINE r == [e \in Engine |-> Pof(e, h.num[e])]
           ends == Stray(h) \cup Missing
<1>2. ends \in SUBSET Reason
  BY EndsAreReasons
<1>3. ASSUME ends = {} PROVE h.home = Depth /\ Agreeing(h, r)
  <2>1. h.home = Depth
    BY <1>3, EndsAreReasons
  <2>2. "interp" \in Both /\ rival \in Both /\ Both \subseteq Engine
    BY Tables DEF FilesInv
  <2>3. \A e \in Both : r[e] = Pof(e, h.num[e])
    BY <2>2
  <2> HIDE DEF r
  <2> DEFINE f == File("interp", h.num["interp"])
  <2>4. ASSUME NEW e \in Both PROVE File(e, h.num[e]) = f
    BY <2>1, SameFile, Tables DEF FilesInv
  <2>5. \A e \in Both : r[e] = Result(st[e], IF f = <<>> THEN -1 ELSE f[1].pos)
    BY <2>3, <2>4 DEF Pof
  <2> HIDE DEF f
  <2>6. \A e \in Both : r[e].st = st[e]
                        /\ r[e].ans = IF f = <<>> THEN -1 ELSE f[1].pos
    BY <2>5, ResultFields
  <2> QED BY <2>1, <2>2, <2>6, NothingAgrees
<1> HIDE DEF r, ends
<1> QED BY <1>1, <1>2, <1>3, NumberKeeps DEF r, ends

LEMMA LofKeeps == FilesInv /\ DoLof => FilesInv'
<1> SUFFICES ASSUME FilesInv, DoLof PROVE FilesInv'
  OBVIOUS
<1>0. PICK h \in Numbers : WithNumber(h, Lof, Invalid(h, 0))
  BY Zenon DEF DoLof
<1>1.
        Statement([e \in Engine |-> Lof(e, h.num[e])], Stray(h) \cup Invalid(h, 0))
  BY <1>0, Tables DEF WithNumber, Step, Statement, FilesInv
<1> DEFINE r == [e \in Engine |-> Lof(e, h.num[e])]
           ends == Stray(h) \cup Invalid(h, 0)
<1>2. ends \in SUBSET Reason
  BY EndsAreReasons
<1>3. ASSUME ends = {} PROVE h.home = Depth /\ Agreeing(h, r)
  <2>1. h.home = Depth
    BY <1>3, EndsAreReasons
  <2>2. "interp" \in Both /\ rival \in Both /\ Both \subseteq Engine
    BY Tables DEF FilesInv
  <2>3. \A e \in Both : r[e] = Lof(e, h.num[e])
    BY <2>2
  <2> HIDE DEF r
  <2> DEFINE f == File("interp", h.num["interp"])
  <2>4. CASE f = <<>>
    <3>1. \A e \in Both : r[e] = Result(st[e], -1)
      BY <2>1, <2>2, <2>3, <2>4, SameFile, Tables DEF Lof, FilesInv
    <3>2. \A e \in Both : r[e].st = st[e] /\ r[e].ans = -1
      BY <3>1, ResultFields
    <3> QED BY <2>1, <2>2, <3>2, NothingAgrees
  <2>5. CASE f # <<>>
    <3> DEFINE len == Len(st["interp"].disk[f[1].name][1])
    <3>1. f[1].pos \in Nat /\ FALSE \in BOOLEAN
      BY <2>1, <2>5, OpenFile
    <3>2. \A e \in Both : r[e] = Result(Moved(e, h.num[e], f[1].pos, FALSE), len)
      BY <2>1, <2>3, <2>5, OpenFile DEF Lof
    <3> HIDE DEF len
    <3> QED BY <2>1, <2>5, <3>1, <3>2, MoveAgrees
  <2> QED BY <2>4, <2>5
<1> HIDE DEF r, ends
<1> QED BY <1>1, <1>2, <1>3, NumberKeeps DEF r, ends

LEMMA SeekKeeps == FilesInv /\ DoSeek => FilesInv'
<1> SUFFICES ASSUME FilesInv, DoSeek PROVE FilesInv'
  OBVIOUS
<1>1. PICK h \in Numbers, p \in Offsets :
        Statement([e \in Engine |-> Seek(e, h.num[e], p)], Stray(h) \cup Missing)
  <2>1. PICK h \in Numbers, p \in Offsets :
          WithNumber(h, LAMBDA e, k : Seek(e, k, p), Missing)
    BY DEF DoSeek
  <2>2. Statement([e \in Engine |-> Seek(e, h.num[e], p)], Stray(h) \cup Missing)
    BY <2>1, Tables DEF WithNumber, Step, Statement, FilesInv
  <2> QED BY <2>2
<1> DEFINE r == [e \in Engine |-> Seek(e, h.num[e], p)]
           ends == Stray(h) \cup Missing
<1>2. ends \in SUBSET Reason
  BY EndsAreReasons
<1>3. ASSUME ends = {} PROVE h.home = Depth /\ Agreeing(h, r)
  <2>1. h.home = Depth
    BY <1>3, EndsAreReasons
  <2>2. "interp" \in Both /\ rival \in Both /\ Both \subseteq Engine
    BY Tables DEF FilesInv
  <2>3. \A e \in Both : r[e] = Seek(e, h.num[e], p)
    BY <2>2
  <2> HIDE DEF r
  <2> DEFINE f == File("interp", h.num["interp"])
  <2>4. CASE f = <<>> \/ p < 0
    <3>1. \A e \in Both : r[e] = Result(st[e], -1)
      BY <2>1, <2>2, <2>3, <2>4, SameFile, Tables DEF Seek, FilesInv
    <3>2. \A e \in Both : r[e].st = st[e] /\ r[e].ans = -1
      BY <3>1, ResultFields
    <3> QED BY <2>1, <2>2, <3>2, NothingAgrees
  <2>5. CASE ~(f = <<>> \/ p < 0)
    <3>1. p \in Nat /\ FALSE \in BOOLEAN /\ f # <<>>
      BY <2>5, BoundsAssumption
    <3>2. \A e \in Both : r[e] = Result(Moved(e, h.num[e], p, FALSE), p)
      BY <2>1, <2>3, <2>5, OpenFile DEF Seek
    <3> QED BY <2>1, <3>1, <3>2, MoveAgrees
  <2> QED BY <2>4, <2>5
<1> HIDE DEF r, ends
<1> QED BY <1>1, <1>2, <1>3, NumberKeeps DEF r, ends

LEMMA ReadRecordKeeps == FilesInv /\ DoReadRecord => FilesInv'
<1> SUFFICES ASSUME FilesInv, DoReadRecord PROVE FilesInv'
  OBVIOUS
<1>0. PICK h \in Numbers, count \in Counts :
        WithNumber(h, LAMBDA e, k : ReadRecord(e, k, count), Invalid(h, count))
  BY Zenon DEF DoReadRecord
<1>1. Statement([e \in Engine |-> ReadRecord(e, h.num[e], count)],
                Stray(h) \cup Invalid(h, count))
  BY <1>0, Tables DEF WithNumber, Step, Statement, FilesInv
<1> DEFINE r == [e \in Engine |-> ReadRecord(e, h.num[e], count)]
           ends == Stray(h) \cup Invalid(h, count)
<1>2. ends \in SUBSET Reason
  BY EndsAreReasons
<1>3. ASSUME ends = {} PROVE h.home = Depth /\ Agreeing(h, r)
  <2>1. h.home = Depth
    BY <1>3, EndsAreReasons
  <2>2. "interp" \in Both /\ rival \in Both /\ Both \subseteq Engine
    BY Tables DEF FilesInv
  <2>3. \A e \in Both : r[e] = ReadRecord(e, h.num[e], count)
    BY <2>2
  <2> HIDE DEF r
  <2> DEFINE f == File("interp", h.num["interp"])
  <2>4. CASE f = <<>> \/ count < 0
    <3>1. \A e \in Both : r[e] = Result(st[e], -1)
      BY <2>1, <2>2, <2>3, <2>4, SameFile, Tables DEF ReadRecord, FilesInv
    <3>2. \A e \in Both : r[e].st = st[e] /\ r[e].ans = -1
      BY <3>1, ResultFields
    <3> QED BY <2>1, <2>2, <3>2, NothingAgrees
  <2>5. CASE ~(f = <<>> \/ count < 0) /\ ~f[1].read
    <3>1. \A e \in Both : File(e, h.num[e]) = f
      BY <2>1, <2>5, OpenFile
    <3>2. \A e \in Both : r[e] = Result(st[e], 0)
      BY <2>3, <2>5, <3>1 DEF ReadRecord
    <3>3. \A e \in Both : r[e].st = st[e] /\ r[e].ans = 0
      BY <3>2, ResultFields
    <3> QED BY <2>1, <2>2, <3>3, NothingAgrees
  <2>6. CASE ~(f = <<>> \/ count < 0) /\ f[1].read
    <3> DEFINE c == st["interp"].disk[f[1].name][1]
               got == Min2(count, Len(Rest(c, f[1].pos)))
               p == f[1].pos + got
    <3>1. f[1].pos \in Nat /\ c \in Seq(Byte) /\ count \in Nat /\ f # <<>>
      BY <2>1, <2>6, OpenFile, BoundsAssumption
    <3>2. \A e \in Both : r[e] = Result(Moved(e, h.num[e], p, TRUE), got)
      <4> SUFFICES ASSUME NEW e \in Both
                   PROVE  r[e] = Result(Moved(e, h.num[e], p, TRUE), got)
        OBVIOUS
      <4>1. File(e, h.num[e]) = f /\ Content(e, h.num[e]) = c
        BY <2>1, <2>6, OpenFile DEF Content
      <4>2. r[e] = ReadRecord(e, h.num[e], count)
        BY <2>3
      <4> QED BY <2>6, <4>1, <4>2 DEF ReadRecord
    <3> HIDE DEF c
    <3>3. Rest(c, f[1].pos) \in Seq(Byte)
      BY <3>1, RestType
    <3>4. got \in Nat
      BY <3>1, <3>3, Element DEF Min2
    <3>5. p \in Nat /\ TRUE \in BOOLEAN
      BY <3>1, <3>4
    <3> DEFINE in == TRUE
    <3>6. \A e \in Both : r[e] = Result(Moved(e, h.num[e], p, in), got)
      BY <3>2
    <3>7. in \in BOOLEAN
      OBVIOUS
    <3>8. f = File("interp", h.num["interp"]) /\ p \in Nat /\ f # <<>>
      BY <3>1, <3>5
    <3> HIDE DEF got, p, in, r, f
    <3>9. Agreeing(h, r)
      BY <2>1, <3>6, <3>7, <3>8, MoveAgrees, ZenonT(60)
    <3> QED BY <2>1, <3>9
  <2> QED BY <2>4, <2>5, <2>6
<1> HIDE DEF r, ends
<1> QED BY <1>1, <1>2, <1>3, NumberKeeps DEF r, ends

\* What a record leaves of the contents of a file.
LEMMA OverwrittenType ==
  ASSUME NEW c \in Seq(Byte), NEW p \in Nat, NEW n \in Nat
  PROVE  Overwritten(c, p, n) \in Seq(Byte)
<1>1. CASE n = 0
  BY <1>1 DEF Overwritten
<1>2. CASE n # 0
  <2> DEFINE len == IF p + n > Len(c) THEN p + n ELSE Len(c)
             new == [i \in 1..len |-> IF i \in DOMAIN c /\ i \notin (p+1)..(p+n)
                                      THEN c[i] ELSE "nul"]
  <2>1. len \in Nat
    BY Element
  <2>2. \A i \in 1..len : new[i] \in Byte
    BY Element DEF Byte
  <2>3. Overwritten(c, p, n) = new
    BY <1>2 DEF Overwritten
  <2> HIDE DEF len
  <2>4. new \in [1..len -> Byte]
    BY <2>2
  <2> HIDE DEF new
  <2>5. new \in Seq(Byte)
    BY <2>1, <2>4
  <2> QED BY <2>3, <2>5
<1> QED BY <1>1, <1>2

LEMMA WriteRecordKeeps == FilesInv /\ DoWriteRecord => FilesInv'
<1> SUFFICES ASSUME FilesInv, DoWriteRecord PROVE FilesInv'
  OBVIOUS
<1>1. PICK h \in Numbers, count \in Counts :
        Statement([e \in Engine |-> WriteRecord(e, h.num[e], count)],
                  Stray(h) \cup (Invalid(h, count) \cup Denied(h, count)
                                 \cup Turn(h)))
  <2>1. PICK h \in Numbers, count \in Counts :
          WithNumber(h, LAMBDA e, k : WriteRecord(e, k, count),
                     Invalid(h, count) \cup Denied(h, count) \cup Turn(h))
    BY DEF DoWriteRecord
  <2> DEFINE why == Invalid(h, count) \cup Denied(h, count) \cup Turn(h)
  <2>2. Statement([e \in Engine |-> WriteRecord(e, h.num[e], count)],
                  Stray(h) \cup why)
    BY <2>1, Tables DEF WithNumber, Step, Statement, FilesInv
  <2> QED BY <2>2
<1> DEFINE r == [e \in Engine |-> WriteRecord(e, h.num[e], count)]
           ends == Stray(h) \cup (Invalid(h, count) \cup Denied(h, count)
                                 \cup Turn(h))
<1>2. ends \in SUBSET Reason
  BY EndsAreReasons
<1>3. ASSUME ends = {} PROVE h.home = Depth /\ Agreeing(h, r)
  <2>1. h.home = Depth
    BY <1>3, EndsAreReasons
  <2>2. "interp" \in Both /\ rival \in Both /\ Both \subseteq Engine
    BY Tables DEF FilesInv
  <2>3. \A e \in Both : r[e] = WriteRecord(e, h.num[e], count)
    BY <2>2
  <2> HIDE DEF r
  <2> DEFINE f == File("interp", h.num["interp"])
  <2>4. CASE f = <<>> \/ count < 0
    <3>1. \A e \in Both : r[e] = Result(st[e], -1)
      BY <2>1, <2>2, <2>3, <2>4, SameFile, Tables DEF WriteRecord, FilesInv
    <3>2. \A e \in Both : r[e].st = st[e] /\ r[e].ans = -1
      BY <3>1, ResultFields
    <3> QED BY <2>1, <2>2, <3>2, NothingAgrees
  <2>5. CASE ~(f = <<>> \/ count < 0) /\ ~f[1].write
    <3>1. \A e \in Both : File(e, h.num[e]) = f
      BY <2>1, <2>5, OpenFile
    <3>2. ~(count > 0)
      BY <1>3, <2>2, <2>5, <3>1 DEF Denied
    <3>3. \A e \in Both : r[e] = Result(st[e], count)
      BY <2>3, <2>5, <3>1, <3>2 DEF WriteRecord
    <3>4. \A e \in Both : r[e].st = st[e] /\ r[e].ans = count
      BY <3>3, ResultFields
    <3> QED BY <2>1, <2>2, <3>4, NothingAgrees
  <2>6. CASE ~(f = <<>> \/ count < 0) /\ f[1].write
    <3> DEFINE n == f[1].name
               old == st["interp"].disk
               p == f[1].pos + count
               c == Overwritten(old[n][1], f[1].pos, count)
               m == [f[1] EXCEPT !.pos = p, !.input = FALSE]
               g == <<m>>
               d == [old EXCEPT ![n] = <<c>>]
    <3>1. /\ f[1] \in Handle /\ n \in Name /\ f[1].pos \in Nat
          /\ old[n][1] \in Seq(Byte) /\ count \in Nat /\ f # <<>> /\ old \in Disk
      BY <2>1, <2>6, OpenFile, BoundsAssumption
    <3>2. \A e \in Both : File(e, h.num[e]) = f /\ Content(e, h.num[e]) = old[n][1]
      BY <2>1, <2>6, OpenFile
    <3>3. \A e \in Both :
            r[e] = Result([Moved(e, h.num[e], p, FALSE) EXCEPT !.disk[n] = <<c>>], count)
      BY <2>3, <2>6, <3>2 DEF WriteRecord
    <3>4. \A e \in Both : Moved(e, h.num[e], p, FALSE) = Store(e, h.num[e], g)
      BY <3>2 DEF Moved
    <3>5. ASSUME NEW e \in Both
          PROVE  [Store(e, h.num[e], g) EXCEPT !.disk[n] = <<c>>]
                   = Change(e, h.num[e], g, d)
      <4> DEFINE k == h.num[e]
                 v == <<c>>
      <4> HIDE DEF k, v, g, n
      <4>1. [Store(e, k, g) EXCEPT !.disk[n] = v] =
              Change(e, k, g, [st["interp"].disk EXCEPT ![n] = v])
        BY StoreIsChange
      <4> QED BY <4>1, Zenon DEF k, v
    <3>6. c \in Seq(Byte)
      BY <3>1, OverwrittenType
    <3>7. m \in Handle /\ m.name = n
      <4>1. p \in Nat /\ FALSE \in BOOLEAN
        BY <3>1
      <4> HIDE DEF p
      <4> QED BY <3>1, <4>1, MovedHandle
    <3> HIDE DEF c, m
    <3>8. <<c>> \in Option(Seq(Byte)) /\ <<c>> # <<>>
          /\ g \in Option(Handle) /\ g[1].name = n
      BY <3>6, <3>7, OptionCases
    <3> HIDE DEF n, old, g
    <3>9. d \in Disk /\ d[n] # <<>> /\ \A x \in Name : old[x] # <<>> => d[x] # <<>>
      BY <3>1, <3>8 DEF Disk
    <3> HIDE DEF d
    <3>10. ASSUME NEW e \in Both
           PROVE  r[e].st = Change(e, h.num[e], g, d) /\ r[e].ans = count
      <4>1. r[e] = Result(Change(e, h.num[e], g, d), count)
        BY <3>3, <3>4, <3>5, Zenon
      <4> QED BY <4>1, ResultFields
    <3>11. Agreeing(h, r)
      BY <2>2, <3>1, <3>8, <3>9, <3>10 DEF Agreeing, old
    <3> QED BY <2>1, <3>11
  <2> QED BY <2>4, <2>5, <2>6
<1> HIDE DEF r, ends
<1> QED BY <1>1, <1>2, <1>3, NumberKeeps DEF r, ends

\* A short line without CR and NUL is the same line to fgets and strlen.
LEMMA PlainLine ==
  ASSUME NEW l \in Seq(Byte), \A i \in DOMAIN l : l[i] \notin {"cr", "nul"},
         ~(Len(l) >= LineMax)
  PROVE  /\ SubSeq(l, 1, Min2(Len(l), LineMax - 1)) = l
         /\ UpToNul(l) = l
         /\ WithoutCrs(WithoutLf(l)) = WithoutLf(l)
<1>1. Len(l) \in Nat /\ LineMax \in Nat
  BY BoundsAssumption
<1>2. Min2(Len(l), LineMax - 1) = Len(l)
  BY <1>1 DEF Min2
<1>3. SubSeq(l, 1, Len(l)) = l
  BY <1>1
<1>4. UpToNul(l) = l
  <2>1. {i \in DOMAIN l : l[i] = "nul"} = {}
    OBVIOUS
  <2> QED BY <2>1 DEF UpToNul
<1>5. WithoutLf(l) \in Seq(Byte) /\ \A i \in DOMAIN WithoutLf(l) : WithoutLf(l)[i] # "cr"
  <2>1. CASE l # <<>> /\ Last(l) = "lf"
    <3>1. /\ Front(l) \in Seq(Byte) /\ Len(Front(l)) = Len(l) - 1
          /\ \A i \in 1..Len(l) - 1 : Front(l)[i] = l[i]
      BY <2>1, FrontLast
    <3>2. \A i \in 1..Len(l) - 1 : i \in DOMAIN l
      BY <1>1, Element
    <3>3. DOMAIN Front(l) = 1..Len(l) - 1
      BY <3>1, Element
    <3>4. WithoutLf(l) = Front(l)
      BY <2>1 DEF WithoutLf
    <3> QED BY <3>1, <3>2, <3>3, <3>4
  <2>2. CASE ~(l # <<>> /\ Last(l) = "lf")
    BY <2>2 DEF WithoutLf
  <2> QED BY <2>1, <2>2
<1> QED BY <1>2, <1>3, <1>4, <1>5, NothingDropped

LEMMA InFileKeeps == FilesInv /\ DoInFile => FilesInv'
<1> SUFFICES ASSUME FilesInv, DoInFile PROVE FilesInv'
  OBVIOUS
<1>0. PICK h \in Numbers : WithNumber(h, InFile, Missing \cup NotPlain(h))
  BY Zenon DEF DoInFile
<1>1.
        Statement([e \in Engine |-> InFile(e, h.num[e])],
                  Stray(h) \cup (Missing \cup NotPlain(h)))
  BY <1>0, Tables DEF WithNumber, Step, Statement, FilesInv
<1> DEFINE r == [e \in Engine |-> InFile(e, h.num[e])]
           ends == Stray(h) \cup (Missing \cup NotPlain(h))
<1>2. ends \in SUBSET Reason
  BY EndsAreReasons
<1>3. ASSUME ends = {} PROVE h.home = Depth /\ Agreeing(h, r)
  <2>1. h.home = Depth
    BY <1>3, EndsAreReasons
  <2>2. "interp" \in Both /\ rival \in Both /\ Both \subseteq Engine
    BY Tables DEF FilesInv
  <2>3. \A e \in Both : r[e] = InFile(e, h.num[e])
    BY <2>2
  <2> HIDE DEF r
  <2> DEFINE f == File("interp", h.num["interp"])
  <2>4. CASE f = <<>>
    <3>1. \A e \in Both : r[e] = Result(st[e], <<>>)
      BY <2>1, <2>2, <2>3, <2>4, SameFile, Tables DEF InFile, FilesInv
    <3>2. \A e \in Both : r[e].st = st[e] /\ r[e].ans = <<>>
      BY <3>1, ResultFields
    <3> QED BY <2>1, <2>2, <3>2, NothingAgrees
  <2>5. CASE f # <<>> /\ ~f[1].read
    <3>1. \A e \in Both : File(e, h.num[e]) = f
      BY <2>1, <2>5, OpenFile
    <3>2. \A e \in Both : r[e] = Result(st[e], <<>>)
      BY <2>3, <2>5, <3>1 DEF InFile
    <3>3. \A e \in Both : r[e].st = st[e] /\ r[e].ans = <<>>
      BY <3>2, ResultFields
    <3> QED BY <2>1, <2>2, <3>3, NothingAgrees
  <2>6. CASE f # <<>> /\ f[1].read
    <3> DEFINE c == st["interp"].disk[f[1].name][1]
               line == LineOf(Rest(c, f[1].pos))
               p == f[1].pos + Len(line)
    <3>1. f[1].pos \in Nat /\ c \in Seq(Byte)
      BY <2>1, <2>6, OpenFile
    <3>2. \A e \in Both : File(e, h.num[e]) = f /\ Content(e, h.num[e]) = c
      BY <2>1, <2>6, OpenFile
    <3>3. line \in Seq(Byte)
      BY <3>1, RestType, LineType
    <3>4. /\ \A i \in DOMAIN line : line[i] \notin {"cr", "nul"}
          /\ ~(Len(line) >= LineMax)
      <4>1. NotPlain(h) = {} /\ File(rival, h.num[rival]) = f
            /\ Content(rival, h.num[rival]) = c
        BY <1>3, <2>2, <3>2
      <4> QED BY <2>6, <4>1 DEF NotPlain
    <3> HIDE DEF line, c
    <3>5. /\ SubSeq(line, 1, Min2(Len(line), LineMax - 1)) = line
          /\ UpToNul(line) = line
          /\ WithoutCrs(WithoutLf(line)) = WithoutLf(line)
      BY <3>3, <3>4, PlainLine
    <3>6. \A e \in Both : r[e] = Result(Moved(e, h.num[e], p, TRUE), WithoutLf(line))
      <4>1. \A e \in Both : LineOf(Rest(Content(e, h.num[e]), f[1].pos)) = line
        BY <3>2 DEF line
      <4> QED BY <2>3, <2>6, <3>2, <3>5, <4>1 DEF InFile
    <3>7. p \in Nat /\ TRUE \in BOOLEAN
      BY <3>1, <3>3, Element
    <3> HIDE DEF p
    <3> QED BY <2>1, <2>6, <3>6, <3>7, MoveAgrees
  <2> QED BY <2>4, <2>5, <2>6
<1> HIDE DEF r, ends
<1> QED BY <1>1, <1>2, <1>3, NumberKeeps DEF r, ends

-----------------------------------------------------------------------------
(***************************************************************************)
(* OPEN: a new entry at the end of the running function's table.           *)
(***************************************************************************)
\* The three decodings of a mode are one.
LEMMA DecodingsAgree ==
  ASSUME NEW mode
  PROVE  \E r, w, c, t \in BOOLEAN : /\ decode_open_mode(mode) = Access(r, w, c, t)
                                     /\ xb_open_flags(mode) = Access(r, w, c, t)
                                     /\ xb_file_open_mode(mode) = Access(r, w, c, t)
<1> DEFINE b           == Base(mode)
           flags       == CASE b \in {0, 16} -> {"rd"}
                            [] b \in {1, 3}  -> {"wr", "creat", "trunc"}
                            [] b = 2         -> {"rd", "wr", "creat"}
                            [] b = 4         -> {"rd", "wr", "creat", "trunc"}
                            [] b = 32        -> {"wr", "creat"}
                            [] b = 48        -> {"rd", "wr", "creat"}
                            [] OTHER         -> {"rd"}
           wr_trunc    == b \in {1, 3}
           rw_preserve == b \in {2, 48}
           valid       == \/ b \in {0, 16} \/ wr_trunc \/ rw_preserve
                          \/ b = 4 \/ b = 32
           read_only   == b \in {0, 16} \/ ~valid
           rdwr        == rw_preserve \/ b = 4
           trunc       == wr_trunc \/ b = 4
           create      == trunc \/ rw_preserve \/ b = 32
<1>1. xb_open_flags(mode) =
        Access("rd" \in flags, "wr" \in flags, "creat" \in flags, "trunc" \in flags)
  BY DEF xb_open_flags
<1>2. xb_file_open_mode(mode) = Access(read_only \/ rdwr, ~read_only, create, trunc)
  BY DEF xb_file_open_mode
<1>3. CASE b \in {0, 16}
  <2>1. decode_open_mode(mode) = Access(TRUE, FALSE, FALSE, FALSE)
    BY <1>3 DEF decode_open_mode, Access
  <2>2. flags = {"rd"}
    BY <1>3
  <2>3. /\ ("rd" \in flags) = TRUE /\ ("wr" \in flags) = FALSE
        /\ ("creat" \in flags) = FALSE /\ ("trunc" \in flags) = FALSE
    BY <2>2
  <2>4. /\ (read_only \/ rdwr) = TRUE /\ (~read_only) = FALSE
        /\ create = FALSE /\ trunc = FALSE
    BY <1>3
  <2> QED BY <1>1, <1>2, <2>1, <2>3, <2>4, Zenon
<1>4. CASE b \in {1, 3}
  <2>1. decode_open_mode(mode) = Access(FALSE, TRUE, TRUE, TRUE)
    BY <1>4 DEF decode_open_mode, Access
  <2>2. flags = {"wr", "creat", "trunc"}
    BY <1>4
  <2>3. /\ ("rd" \in flags) = FALSE /\ ("wr" \in flags) = TRUE
        /\ ("creat" \in flags) = TRUE /\ ("trunc" \in flags) = TRUE
    BY <2>2
  <2>4. /\ (read_only \/ rdwr) = FALSE /\ (~read_only) = TRUE
        /\ create = TRUE /\ trunc = TRUE
    BY <1>4
  <2> QED BY <1>1, <1>2, <2>1, <2>3, <2>4, Zenon
<1>5. CASE b \in {2, 48}
  <2>1. decode_open_mode(mode) = Access(TRUE, TRUE, TRUE, FALSE)
    BY <1>5 DEF decode_open_mode, Access
  <2>2. flags = {"rd", "wr", "creat"}
    BY <1>5
  <2>3. /\ ("rd" \in flags) = TRUE /\ ("wr" \in flags) = TRUE
        /\ ("creat" \in flags) = TRUE /\ ("trunc" \in flags) = FALSE
    BY <2>2
  <2>4. /\ (read_only \/ rdwr) = TRUE /\ (~read_only) = TRUE
        /\ create = TRUE /\ trunc = FALSE
    BY <1>5
  <2> QED BY <1>1, <1>2, <2>1, <2>3, <2>4, Zenon
<1>6. CASE b = 4
  <2>1. decode_open_mode(mode) = Access(TRUE, TRUE, TRUE, TRUE)
    BY <1>6 DEF decode_open_mode, Access
  <2>2. flags = {"rd", "wr", "creat", "trunc"}
    BY <1>6
  <2>3. /\ ("rd" \in flags) = TRUE /\ ("wr" \in flags) = TRUE
        /\ ("creat" \in flags) = TRUE /\ ("trunc" \in flags) = TRUE
    BY <2>2
  <2>4. /\ (read_only \/ rdwr) = TRUE /\ (~read_only) = TRUE
        /\ create = TRUE /\ trunc = TRUE
    BY <1>6
  <2> QED BY <1>1, <1>2, <2>1, <2>3, <2>4, Zenon
<1>7. CASE b = 32
  <2>1. decode_open_mode(mode) = Access(FALSE, TRUE, TRUE, FALSE)
    BY <1>7 DEF decode_open_mode, Access
  <2>2. flags = {"wr", "creat"}
    BY <1>7
  <2>3. /\ ("rd" \in flags) = FALSE /\ ("wr" \in flags) = TRUE
        /\ ("creat" \in flags) = TRUE /\ ("trunc" \in flags) = FALSE
    BY <2>2
  <2>4. /\ (read_only \/ rdwr) = FALSE /\ (~read_only) = TRUE
        /\ create = TRUE /\ trunc = FALSE
    BY <1>7
  <2> QED BY <1>1, <1>2, <2>1, <2>3, <2>4, Zenon
<1>8. CASE b \notin {0, 16, 1, 3, 2, 48, 4, 32}
  <2>1. decode_open_mode(mode) = Access(TRUE, FALSE, FALSE, FALSE)
    BY <1>8 DEF decode_open_mode, Access
  <2>2. flags = {"rd"}
    BY <1>8
  <2>3. /\ ("rd" \in flags) = TRUE /\ ("wr" \in flags) = FALSE
        /\ ("creat" \in flags) = FALSE /\ ("trunc" \in flags) = FALSE
    BY <2>2
  <2>4. /\ (read_only \/ rdwr) = TRUE /\ (~read_only) = FALSE
        /\ create = FALSE /\ trunc = FALSE
    BY <1>8
  <2> QED BY <1>1, <1>2, <2>1, <2>3, <2>4, Zenon
<1> QED BY <1>3, <1>4, <1>5, <1>6, <1>7, <1>8

LEMMA SameMode ==
  ASSUME NEW mode, NEW e \in Engine
  PROVE  /\ Decode(e, mode) = decode_open_mode(mode)
         /\ decode_open_mode(mode).read \in BOOLEAN
         /\ decode_open_mode(mode).write \in BOOLEAN
<1>1. PICK r, w, c, t \in BOOLEAN : /\ decode_open_mode(mode) = Access(r, w, c, t)
                                    /\ xb_open_flags(mode) = Access(r, w, c, t)
                                    /\ xb_file_open_mode(mode) = Access(r, w, c, t)
  BY DecodingsAgree
<1>2. Access(r, w, c, t).read \in BOOLEAN /\ Access(r, w, c, t).write \in BOOLEAN
  BY DEF Access
<1> QED BY <1>1, <1>2 DEF Decode, Engine, Rivals

Added(e, file, d) ==
  [disk |-> d, tabs |-> [st[e].tabs EXCEPT ![Len(st[e].tabs)] = Append(@, <<file>>)]]

LEMMA AddedFacts ==
  ASSUME TypeOK, Layout, NEW e \in Both, NEW file \in Handle, NEW d \in Disk,
         NEW s, s = Added(e, file, d), NEW n, n = Len(st[e].tabs),
         NEW f, f = <<file>>
  PROVE  /\ s \in [disk : Disk, tabs : Seq(Seq(Option(Handle)))]
         /\ s.disk = d /\ Len(s.tabs) = n /\ DOMAIN s.tabs = DOMAIN st[e].tabs
         /\ \A t \in DOMAIN st[e].tabs : t # n => s.tabs[t] = st[e].tabs[t]
         /\ DOMAIN s.tabs[n] = 1..Len(Table(e)) + 1
         /\ \A j \in 1..Len(Table(e)) : s.tabs[n][j] = st[e].tabs[n][j]
         /\ s.tabs[n][Len(Table(e)) + 1] = f
<1> DEFINE ts == st[e].tabs
           tab == Append(ts[n], f)
           new == [ts EXCEPT ![n] = tab]
<1>1. /\ ts \in Seq(Seq(Option(Handle))) /\ n \in DOMAIN ts
      /\ ts[n] \in Seq(Option(Handle)) /\ Table(e) = ts[n] /\ n = Len(ts)
  BY Tables
<1>2. s = [disk |-> d, tabs |-> new]
  BY DEF Added
<1>3. f \in Option(Handle)
  BY OptionCases
<1> HIDE DEF ts
<1>4. /\ tab \in Seq(Option(Handle)) /\ Len(tab) = Len(ts[n]) + 1
      /\ tab[Len(ts[n]) + 1] = f /\ \A j \in 1..Len(ts[n]) : tab[j] = ts[n][j]
  BY <1>1, <1>3, Appended
<1>5. DOMAIN tab = 1..Len(ts[n]) + 1
  BY <1>1, <1>4, Element
<1> HIDE DEF tab
<1>6. /\ new \in Seq(Seq(Option(Handle))) /\ DOMAIN new = DOMAIN ts /\ Len(new) = n
      /\ \A t \in DOMAIN ts : t # n => new[t] = ts[t]
      /\ new[n] = tab
  BY <1>1, <1>4, Replaced
<1> HIDE DEF new
<1>7. s \in [disk : Disk, tabs : Seq(Seq(Option(Handle)))] /\ s.tabs = new /\ s.disk = d
  BY <1>2, <1>6
<1> QED BY <1>1, <1>4, <1>5, <1>6, <1>7, Zenon DEF ts

\* The tables of the callers stay.
LEMMA AddedElsewhere ==
  ASSUME TypeOK, Layout, NEW e \in Both, NEW file \in Handle, NEW d \in Disk,
         NEW t \in DOMAIN st[e].tabs, t # Len(st[e].tabs)
  PROVE  Added(e, file, d).tabs[t] = st[e].tabs[t]
BY DEF Added

\* A new file, open at its start in both engines, and its number kept.
LEMMA AddKeeps ==
  ASSUME FilesInv, NEW file \in Handle, NEW d \in Disk,
         \A n \in Name : st["interp"].disk[n] # <<>> => d[n] # <<>>,
         d[file.name] # <<>>,
         NEW h \in [num : [Engine -> Int], home : Nat], h.home = Depth,
         \A e \in Both : h.num[e] = Len(Table(e)) + 3,
         rival' = rival, held' = Append(held, h), left' = {}, same' = TRUE,
         st' = [e \in Engine |-> IF e \in Both THEN Added(e, file, d) ELSE st[e]]
  PROVE  FilesInv'
<1> USE DEF FilesInv
<1>1. Both' = Both
  BY DEF Both
<1>2. /\ "interp" \in Both /\ rival \in Both /\ Both \subseteq Engine
      /\ \A e \in Both : e = "interp" \/ e = rival
      /\ Depth \in Nat \ {0} /\ Len(st[rival].tabs) = 1
  BY Tables DEF Layout
<1>3. \A e \in Both : /\ Table(e) = st[e].tabs[Len(st[e].tabs)]
                      /\ Len(st[e].tabs) \in DOMAIN st[e].tabs
                      /\ Len(Table(e)) \in Nat /\ DOMAIN Table(e) = 1..Len(Table(e))
  BY Tables, Element
<1>4. ASSUME NEW e \in Both
      PROVE  LET n == Len(st[e].tabs)
             IN  /\ st'[e] \in [disk : Disk, tabs : Seq(Seq(Option(Handle)))]
                 /\ st'[e].disk = d /\ Len(st'[e].tabs) = n
                 /\ DOMAIN st'[e].tabs = DOMAIN st[e].tabs
                 /\ \A t \in DOMAIN st[e].tabs : t # n => st'[e].tabs[t] = st[e].tabs[t]
                 /\ DOMAIN st'[e].tabs[n] = 1..Len(Table(e)) + 1
                 /\ \A j \in 1..Len(Table(e)) : st'[e].tabs[n][j] = st[e].tabs[n][j]
                 /\ st'[e].tabs[n][Len(Table(e)) + 1] = <<file>>
  <2> DEFINE s == st'[e]
             n == Len(st[e].tabs)
             f == <<file>>
  <2>1. s = Added(e, file, d)
    BY <1>2
  <2>2. n = Len(st[e].tabs) /\ f = <<file>> /\ TypeOK /\ Layout
    OBVIOUS
  <2> HIDE DEF s, n, f, FilesInv
  <2>3. s \in [disk : Disk, tabs : Seq(Seq(Option(Handle)))]
    BY <2>1, <2>2, AddedFacts
  <2>4. s.disk = d /\ Len(s.tabs) = n /\ DOMAIN s.tabs = DOMAIN st[e].tabs
    BY <2>1, <2>2, AddedFacts
  <2>5. ASSUME NEW t \in DOMAIN st[e].tabs, t # n PROVE s.tabs[t] = st[e].tabs[t]
    BY <2>1, <2>2, <2>5, AddedElsewhere
  <2>6. DOMAIN s.tabs[n] = 1..Len(Table(e)) + 1
    BY <2>1, <2>2, AddedFacts
  <2>7. \A j \in 1..Len(Table(e)) : s.tabs[n][j] = st[e].tabs[n][j]
    BY <2>1, <2>2, AddedFacts
  <2>8. s.tabs[n][Len(Table(e)) + 1] = f
    BY <2>1, <2>2, AddedFacts
  <2> QED BY <2>3, <2>4, <2>5, <2>6, <2>7, <2>8, Zenon DEF s, n, f
<1>5. /\ held' \in Seq([num : [Engine -> Int], home : Nat])
      /\ Len(held') = Len(held) + 1 /\ held'[Len(held) + 1] = h
      /\ \A i \in DOMAIN held : held'[i] = held[i]
      /\ DOMAIN held' = 1..Len(held) + 1 /\ DOMAIN held = 1..Len(held)
      /\ Len(held) \in Nat
  <2>1. held \in Seq([num : [Engine -> Int], home : Nat])
    BY DEF TypeOK
  <2> QED BY <2>1, Appended, Element
<1>6. \A i \in DOMAIN held' : i \in DOMAIN held \/ i = Len(held) + 1
  BY <1>5
<1>7. Depth' = Depth
  BY <1>2, <1>4 DEF Depth
<1>8. ASSUME NEW i \in DOMAIN held, held[i].home > 0, NEW e \in Both
      PROVE  /\ Tab(e, held[i]) \in DOMAIN st[e].tabs
             /\ Entry(e, held[i]) \in DOMAIN st[e].tabs[Tab(e, held[i])]
             /\ Entry(e, held[i]) = held[i].num[e] - 2 /\ held[i].num[e] \in Int
  <2>1. held[i].home \in 1..Len(st["interp"].tabs)
    <3>1. held[i].home \in Nat /\ held[i].home > 0 /\ held[i].home <= Depth
      BY <1>8, HeldTypes DEF Placed
    <3>2. Depth = Len(st["interp"].tabs) /\ Depth \in Nat
      BY Tables
    <3> QED BY <3>1, <3>2
  <2>2. Tab(e, held[i]) \in DOMAIN st[e].tabs
    BY <1>2, <2>1, Tables, Element DEF Tab
  <2>3. Entry(e, held[i]) \in DOMAIN st[e].tabs[Tab(e, held[i])]
    BY <1>8 DEF Placed
  <2> QED BY <1>2, <2>2, <2>3, HeldTypes DEF Entry
<1>9. \A e \in Both : /\ Tab(e, h) = Len(st[e].tabs)
                      /\ Entry(e, h) = Len(Table(e)) + 1
                      /\ h.num[e] = Len(Table(e)) + 3
  BY <1>2, <1>3, Tables DEF Tab, Entry
<1>10. ASSUME NEW e \in Both, NEW t \in DOMAIN st[e].tabs,
              NEW j \in DOMAIN st[e].tabs[t]
       PROVE  j \in DOMAIN st'[e].tabs[t] /\ st'[e].tabs[t][j] = st[e].tabs[t][j]
  <2>1. CASE t # Len(st[e].tabs)
    <3>1. st'[e].tabs[t] = st[e].tabs[t]
      BY <1>4, <2>1
    <3> QED BY <3>1
  <2>2. CASE t = Len(st[e].tabs)
    <3>1. j \in 1..Len(Table(e)) /\ Len(Table(e)) \in Nat
      BY <1>3, <2>2
    <3>2. DOMAIN st'[e].tabs[t] = 1..Len(Table(e)) + 1
      BY <1>4, <2>2
    <3>3. st'[e].tabs[t][j] = st[e].tabs[t][j]
      <4>1. \A i \in 1..Len(Table(e)) :
              st'[e].tabs[Len(st[e].tabs)][i] = st[e].tabs[Len(st[e].tabs)][i]
        BY <1>4
      <4> QED BY <2>2, <3>1, <4>1, Zenon
    <3> QED BY <3>1, <3>2, <3>3
  <2> QED BY <2>1, <2>2
<1>11. ASSUME NEW e \in Both, NEW t \in DOMAIN st[e].tabs,
              NEW j \in DOMAIN st'[e].tabs[t], j \notin DOMAIN st[e].tabs[t]
       PROVE  st'[e].tabs[t][j] = <<file>>
  <2>1. t = Len(st[e].tabs)
    <3>1. t # Len(st[e].tabs) => st'[e].tabs[t] = st[e].tabs[t]
      BY <1>4
    <3> QED BY <1>11, <3>1
  <2>2. j \in 1..Len(Table(e)) + 1 /\ j \notin 1..Len(Table(e))
    <3>1. DOMAIN st'[e].tabs[t] = 1..Len(Table(e)) + 1
      BY <1>4, <2>1
    <3>2. DOMAIN st[e].tabs[t] = 1..Len(Table(e))
      BY <1>3, <2>1 DEF Table
    <3> QED BY <1>11, <3>1, <3>2
  <2>3. j = Len(Table(e)) + 1
    BY <1>3, <2>2
  <2> QED BY <1>4, <2>1, <2>3
<1>12. \A e \in Both : /\ Entry(e, h) \in DOMAIN st'[e].tabs[Tab(e, h)]
                       /\ st'[e].tabs[Tab(e, h)][Entry(e, h)] = <<file>>
  <2> SUFFICES ASSUME NEW e \in Both
               PROVE  /\ Entry(e, h) \in DOMAIN st'[e].tabs[Tab(e, h)]
                      /\ st'[e].tabs[Tab(e, h)][Entry(e, h)] = <<file>>
    OBVIOUS
  <2>1. Tab(e, h) = Len(st[e].tabs) /\ Entry(e, h) = Len(Table(e)) + 1
    BY <1>9
  <2>2. Entry(e, h) \in 1..Len(Table(e)) + 1
    BY <1>3, <2>1
  <2> QED BY <1>4, <2>1, <2>2
<1>13. TypeOK'
  <2>1. ASSUME NEW e \in Engine
        PROVE  st'[e] \in [disk : Disk, tabs : Seq(Seq(Option(Handle)))]
    <3>1. CASE e \in Both
      BY <1>4, <3>1
    <3>2. CASE e \notin Both
      BY <3>2, Tables
    <3> QED BY <3>1, <3>2
  <2>2. st' \in [Engine -> [disk : Disk, tabs : Seq(Seq(Option(Handle)))]]
    BY <2>1
  <2> QED BY <1>5, <2>2 DEF TypeOK, Disk
<1>14. Layout'
  BY <1>2, <1>4 DEF Layout
<1>15. OnDisk'
  <2> SUFFICES ASSUME NEW e \in Both, NEW t \in DOMAIN st'[e].tabs,
                      NEW j \in DOMAIN st'[e].tabs[t], st'[e].tabs[t][j] # <<>>
               PROVE  st'[e].disk[st'[e].tabs[t][j][1].name] # <<>>
    BY <1>1, Zenon DEF OnDisk
  <2>1. t \in DOMAIN st[e].tabs /\ st'[e].disk = d
    BY <1>4
  <2>2. CASE j \in DOMAIN st[e].tabs[t]
    <3>1. st'[e].tabs[t][j] = st[e].tabs[t][j]
      BY <1>10, <2>1, <2>2
    <3>2. st[e].tabs[t] \in Seq(Option(Handle))
      BY <1>2, <2>1, Tables, Element
    <3>3. st[e].tabs[t][j] \in Option(Handle)
      BY <2>2, <3>2, Element
    <3>4. st[e].tabs[t][j][1] \in Handle
      BY <3>1, <3>3, OptionCases
    <3>5. st[e].tabs[t][j][1].name \in Name
      BY <3>4 DEF Handle
    <3>6. st[e].disk[st[e].tabs[t][j][1].name] # <<>>
      BY <2>1, <2>2, <3>1 DEF OnDisk
    <3>7. st[e].disk = st["interp"].disk
      BY <1>2 DEF InStep
    <3> QED BY <2>1, <3>1, <3>5, <3>6, <3>7
  <2>3. CASE j \notin DOMAIN st[e].tabs[t]
    <3>1. st'[e].tabs[t][j] = <<file>>
      BY <1>11, <2>1, <2>3
    <3>2. <<file>>[1] = file
      OBVIOUS
    <3> QED BY <2>1, <3>1, <3>2
  <2> QED BY <2>2, <2>3
<1>16. Placed'
  <2> SUFFICES ASSUME NEW i \in DOMAIN held'
               PROVE  /\ held'[i].home <= Depth
                      /\ held'[i].home > 0 => \A e \in Both :
                           Entry(e, held'[i]) \in DOMAIN st'[e].tabs[Tab(e, held'[i])]
    BY <1>1, <1>7 DEF Placed, Entry, Tab
  <2>1. CASE i \in DOMAIN held
    <3>1. held'[i] = held[i] /\ held[i].home <= Depth
      BY <1>5, <2>1 DEF Placed
    <3>2. ASSUME held[i].home > 0, NEW e \in Both
          PROVE  Entry(e, held[i]) \in DOMAIN st'[e].tabs[Tab(e, held[i])]
      <4> DEFINE t == Tab(e, held[i])
                 j == Entry(e, held[i])
      <4>1. t \in DOMAIN st[e].tabs /\ j \in DOMAIN st[e].tabs[t]
        BY <1>8, <2>1, <3>2
      <4> HIDE DEF t, j
      <4>2. j \in DOMAIN st'[e].tabs[t]
        BY <1>10, <4>1
      <4> QED BY <4>2 DEF t, j
    <3> QED BY <3>1, <3>2
  <2>2. CASE i = Len(held) + 1
    <3>1. held'[i] = h /\ h.home <= Depth
      BY <1>2, <1>5, <2>2
    <3>2. \A e \in Both : Entry(e, h) \in DOMAIN st'[e].tabs[Tab(e, h)]
      BY <1>12
    <3> QED BY <3>1, <3>2
  <2> QED BY <1>6, <2>1, <2>2
<1>17. ASSUME NEW i \in DOMAIN held, held[i].home > 0
       PROVE  /\ ~(held[i].home = h.home /\ held[i].num["interp"] = h.num["interp"])
              /\ held[i].num[rival] # h.num[rival]
  <2>1. ~(held[i].home = h.home /\ held[i].num["interp"] = h.num["interp"])
    <3>1. SUFFICES ASSUME held[i].home = Depth,
                          held[i].num["interp"] = Len(Table("interp")) + 3
                   PROVE  FALSE
      BY <1>2
    <3>2. Tab("interp", held[i]) = Len(st["interp"].tabs)
      BY <3>1, Tables DEF Tab
    <3>3. Entry("interp", held[i]) \in 1..Len(Table("interp"))
      BY <1>2, <1>3, <1>8, <1>17, <3>2
    <3> QED BY <1>2, <1>3, <1>8, <1>17, <3>1, <3>3
  <2>2. held[i].num[rival] # h.num[rival]
    <3>1. Tab(rival, held[i]) = Len(st[rival].tabs)
      BY <1>2, Tables DEF Tab
    <3>2. Entry(rival, held[i]) \in 1..Len(Table(rival))
      BY <1>2, <1>3, <1>8, <1>17, <3>1
    <3> QED BY <1>2, <1>3, <1>8, <1>9, <1>17, <3>2
  <2> QED BY <2>1, <2>2
<1>18. Apart'
  <2> SUFFICES ASSUME NEW i \in DOMAIN held', NEW j \in DOMAIN held',
                      held'[i].home > 0, held'[j].home > 0
               PROVE  (/\ held'[i].home = held'[j].home
                       /\ held'[i].num["interp"] = held'[j].num["interp"])
                      <=> held'[i].num[rival] = held'[j].num[rival]
    BY DEF Apart
  <2>1. CASE i \in DOMAIN held /\ j \in DOMAIN held
    <3>1. held'[i] = held[i] /\ held'[j] = held[j]
      BY <1>5, <2>1
    <3> QED BY <2>1, <3>1 DEF Apart
  <2>2. CASE i \in DOMAIN held /\ j = Len(held) + 1
    <3>1. held'[i] = held[i] /\ held'[j] = h
      BY <1>5, <2>2
    <3> QED BY <1>17, <2>2, <3>1
  <2>3. CASE i = Len(held) + 1 /\ j \in DOMAIN held
    <3>1. held'[i] = h /\ held'[j] = held[j]
      BY <1>5, <2>3
    <3> QED BY <1>17, <2>3, <3>1
  <2>4. CASE i = Len(held) + 1 /\ j = Len(held) + 1
    BY <2>4
  <2> QED BY <1>6, <2>1, <2>2, <2>3, <2>4
<1>19. InStep'
  <2>1. st'[rival].disk = st'["interp"].disk
    BY <1>2, <1>4
  <2>2. ASSUME NEW i \in DOMAIN held', held'[i].home > 0
        PROVE  \A e \in Both :
                 st'[e].tabs[Tab(e, held'[i])][Entry(e, held'[i])] =
                   st'["interp"].tabs[Tab("interp", held'[i])][Entry("interp", held'[i])]
    <3>1. CASE i \in DOMAIN held
      <4>1. held'[i] = held[i]
        BY <1>5, <3>1
      <4>2. ASSUME NEW e \in Both
            PROVE  st'[e].tabs[Tab(e, held[i])][Entry(e, held[i])] = Named(e, held[i])
        <5> DEFINE t == Tab(e, held[i])
                   j == Entry(e, held[i])
        <5>1. t \in DOMAIN st[e].tabs /\ j \in DOMAIN st[e].tabs[t]
          BY <1>8, <2>2, <3>1, <4>1
        <5>2. Named(e, held[i]) = st[e].tabs[t][j]
          BY DEF Named, Tab, Entry
        <5> HIDE DEF t, j
        <5>3. st'[e].tabs[t][j] = st[e].tabs[t][j]
          BY <1>10, <5>1
        <5> QED BY <5>2, <5>3 DEF t, j
      <4>3. Named(rival, held[i]) = Named("interp", held[i])
        BY <2>2, <3>1, <4>1 DEF InStep
      <4> QED BY <1>2, <4>1, <4>2, <4>3
    <3>2. CASE i = Len(held) + 1
      <4>1. held'[i] = h
        BY <1>5, <3>2
      <4>2. \A e \in Both : st'[e].tabs[Tab(e, h)][Entry(e, h)] = <<file>>
        BY <1>12
      <4> QED BY <1>2, <4>1, <4>2
    <3> QED BY <1>6, <3>1, <3>2
  <2>3. ASSUME NEW i \in DOMAIN held', held'[i].home > 0
        PROVE  Named(rival, held[i])' = Named("interp", held[i])'
    BY <1>2, <2>2, <2>3 DEF Named, Tab, Entry
  <2> QED BY <2>1, <2>3 DEF InStep
<1> QED BY <1>13, <1>14, <1>15, <1>16, <1>18, <1>19

\* What OPEN leaves of the disk, and the handle it makes.
OpenDisk(n, m) == [st["interp"].disk EXCEPT ![n] = IF @ # <<>> /\ ~m.truncate THEN @
                                                   ELSE << <<>> >>]
OpenHandle(n, m) == [name |-> n, pos |-> 0, read |-> m.read, write |-> m.write,
                     input |-> FALSE]

LEMMA OpenRefused ==
  ASSUME FilesInv, NEW n \in Name, NEW mode, NEW e \in Both,
         st["interp"].disk[n] = <<>>, ~decode_open_mode(mode).create
  PROVE  Open(e, n, mode) = Result(st[e], -1)
<1>1. e \in Engine /\ st[e].disk = st["interp"].disk
  BY Tables DEF FilesInv, InStep
<1>2. Decode(e, mode) = decode_open_mode(mode)
  BY <1>1, SameMode
<1> QED BY <1>1, <1>2 DEF Open

LEMMA OpenAdds ==
  ASSUME FilesInv, NEW n \in Name, NEW mode, NEW e \in Both,
         NEW m, m = decode_open_mode(mode),
         st["interp"].disk[n] # <<>> \/ m.create, ~Full(e)
  PROVE  Open(e, n, mode) = Result(Added(e, OpenHandle(n, m), OpenDisk(n, m)),
                                   Len(Table(e)) + 3)
<1> DEFINE d == st["interp"].disk
           t == st[e].tabs
           s == st[e]
           f == OpenHandle(n, m)
           c == IF d[n] # <<>> /\ ~m.truncate THEN d[n] ELSE << <<>> >>
           opened == [s EXCEPT !.disk[n] = c]
           d2 == [d EXCEPT ![n] = c]
           new == [t EXCEPT ![Len(t)] = Append(t[Len(t)], <<f>>)]
<1>1. e \in Engine /\ s = [disk |-> d, tabs |-> t] /\ s.disk = d /\ n \in DOMAIN d
  <2>1. e \in Engine /\ st[e] = [disk |-> st[e].disk, tabs |-> st[e].tabs]
        /\ st[e].disk \in Disk
    BY Tables DEF FilesInv
  <2>2. st[e].disk = d
    BY Tables DEF FilesInv, InStep
  <2> QED BY <2>1, <2>2 DEF Disk
<1>2. Decode(e, mode) = m
  BY <1>1, SameMode
<1>3. Open(e, n, mode) =
        Result([opened EXCEPT !.tabs[Len(opened.tabs)] =
                  Append(opened.tabs[Len(opened.tabs)], <<f>>)], Len(Table(e)) + 3)
  BY <1>1, <1>2, Zenon DEF Open, OpenHandle
<1>4. OpenDisk(n, m) = d2
  BY <1>1 DEF OpenDisk
<1>5. Added(e, f, d2) = [disk |-> d2, tabs |-> new]
  BY DEF Added
<1> HIDE DEF s, d, t, c, f
<1>6. opened = [disk |-> d2, tabs |-> t]
  BY <1>1, FieldAssigned
<1>7. opened.tabs = t
  BY <1>6
<1> HIDE DEF opened, d2
<1>8. [opened EXCEPT !.tabs[Len(t)] = Append(t[Len(t)], <<f>>)]
        = [disk |-> d2, tabs |-> new]
  <2> DEFINE k == Len(t)
             v == Append(t[Len(t)], <<f>>)
  <2>1. new = [t EXCEPT ![k] = v]
    OBVIOUS
  <2> HIDE DEF k, v, new
  <2>2. [opened EXCEPT !.tabs[k] = v] = [disk |-> d2, tabs |-> [t EXCEPT ![k] = v]]
    BY <1>6, FieldAssigned
  <2> QED BY <2>1, <2>2, Zenon DEF k, v
<1> HIDE DEF new
<1>9. Open(e, n, mode) = Result([disk |-> d2, tabs |-> new], Len(Table(e)) + 3)
  BY <1>3, <1>7, <1>8, Zenon
<1> QED BY <1>4, <1>5, <1>9, Zenon DEF f

LEMMA OpenKeeps == FilesInv /\ DoOpen => FilesInv'
<1> SUFFICES ASSUME FilesInv, NEW n \in Name, NEW mode \in Modes,
                    LET R(e)   == Open(e, n, mode)
                        opened == R("interp").ans >= 0
                        why    == Shared(n) \cup
                                    IF opened /\ Full(rival) THEN {"full"} ELSE {}
                    IN  /\ Len(held) < MaxOpens
                        /\ Step(R, opened = (R(rival).ans >= 0), why)
                        /\ held' = IF opened /\ why = {}
                                   THEN Append(held, [num  |-> [e \in Engine |->
                                          IF e \in Both THEN R(e).ans ELSE -1],
                                                      home |-> Depth])
                                   ELSE IF why = {} THEN held ELSE <<>>
             PROVE  FilesInv'
  BY DEF DoOpen
<1> DEFINE ai == Open("interp", n, mode).ans
           ar == Open(rival, n, mode).ans
           opened == ai >= 0
           why == Shared(n) \cup IF opened /\ Full(rival) THEN {"full"} ELSE {}
           h == [num  |-> [e \in Engine |-> IF e \in Both THEN Open(e, n, mode).ans
                                            ELSE -1],
                 home |-> Depth]
           m == decode_open_mode(mode)
           d == st["interp"].disk
<1>1. /\ rival' = rival /\ left' = why /\ same' = (opened = (ar >= 0))
      /\ st' = IF why # {} THEN Over
               ELSE [e \in Engine |-> IF e \in Both THEN Open(e, n, mode).st
                                      ELSE st[e]]
      /\ held' = IF opened /\ why = {} THEN Append(held, h)
                 ELSE IF why = {} THEN held ELSE <<>>
  BY DEF Step
<1>2. /\ "interp" \in Both /\ rival \in Both /\ Both \subseteq Engine
      /\ \A e \in Both : e = "interp" \/ e = rival
      /\ Depth \in Nat /\ d \in Disk
      /\ \A e \in Both : Len(Table(e)) \in Nat
  BY Tables, Element DEF FilesInv
<1>3. CASE why # {}
  <2>1. why \in SUBSET Reason
    BY DEF Shared, Reason
  <2>2. same' \in BOOLEAN /\ held' = <<>> /\ st' = Over
    BY <1>1, <1>3
  <2> QED BY <1>1, <1>3, <2>1, <2>2, OverKeeps
<1>4. CASE why = {} /\ d[n] = <<>> /\ ~m.create
  <2>1. \A e \in Both : Open(e, n, mode) = Result(st[e], -1)
    BY <1>4, OpenRefused
  <2>2. \A e \in Both : Open(e, n, mode).st = st[e] /\ Open(e, n, mode).ans = -1
    BY <2>1, ResultFields
  <2>3. ai = -1 /\ ar = -1
    BY <1>2, <2>2
  <2>4. ~opened /\ ~(ar >= 0)
    BY <2>3
  <2>5. held' = held /\ left' = {}
    BY <1>1, <1>4, <2>4
  <2>6. same' = TRUE
    <3> DEFINE b == ar >= 0
    <3>1. opened = FALSE /\ b = FALSE
      BY <2>4
    <3>2. same' = (opened = b)
      BY <1>1
    <3> HIDE DEF opened, b
    <3> QED BY <3>1, <3>2
  <2>7. held' = held /\ same' = TRUE /\ left' = {}
    BY <2>5, <2>6
  <2>8. st' = [e \in Engine |-> st[e]]
    BY <1>1, <1>4, <2>2
  <2>9. st' = st
    BY <2>8 DEF FilesInv, TypeOK
  <2> QED BY <1>1, <2>7, <2>9, SameKeeps
<1>5. CASE why = {} /\ (d[n] # <<>> \/ m.create)
  <2> DEFINE file == OpenHandle(n, m)
             d2 == OpenDisk(n, m)
  <2>1. ~Full("interp")
    BY DEF Full
  <2>2. Open("interp", n, mode) =
          Result(Added("interp", file, d2), Len(Table("interp")) + 3)
    BY <1>2, <1>5, <2>1, OpenAdds
  <2>3. ai = Len(Table("interp")) + 3
    BY <2>2, ResultFields
  <2>4. opened
    BY <1>2, <2>3
  <2>5. ~Full(rival)
    BY <1>5, <2>4
  <2>6. \A e \in Both : Open(e, n, mode) = Result(Added(e, file, d2), Len(Table(e)) + 3)
    BY <1>2, <1>5, <2>1, <2>5, OpenAdds
  <2>7. \A e \in Both : /\ Open(e, n, mode).st = Added(e, file, d2)
                        /\ Open(e, n, mode).ans = Len(Table(e)) + 3
    BY <2>6, ResultFields
  <2>8. file \in Handle /\ file.name = n
    <3>1. m.read \in BOOLEAN /\ m.write \in BOOLEAN
      BY <1>2, SameMode
    <3> QED BY <3>1 DEF OpenHandle, Handle
  <2>9. /\ d2 \in Disk /\ d2[n] # <<>>
        /\ \A x \in Name : d[x] # <<>> => d2[x] # <<>>
    <3>1. << <<>> >> \in Option(Seq(Byte)) /\ << <<>> >> # <<>>
      <4>1. <<>> \in Seq(Byte)
        OBVIOUS
      <4> QED BY <4>1, OptionCases
    <3> QED BY <1>2, <3>1 DEF OpenDisk, Disk
  <2>10. \A e \in Both : h.num[e] = Len(Table(e)) + 3
    BY <1>2, <2>7
  <2>11. h \in [num : [Engine -> Int], home : Nat] /\ h.home = Depth
    BY <1>2, <2>7
  <2>12. ar >= 0
    BY <1>2, <2>7
  <2>13. held' = Append(held, h) /\ left' = {} /\ same' = TRUE
    BY <1>1, <1>5, <2>4, <2>12
  <2>14. st' = [e \in Engine |-> IF e \in Both THEN Added(e, file, d2) ELSE st[e]]
    BY <1>1, <1>5, <2>7
  <2>15. /\ rival' = rival
         /\ \A x \in Name : st["interp"].disk[x] # <<>> => d2[x] # <<>>
         /\ d2[file.name] # <<>>
    BY <1>1, <2>8, <2>9
  <2> HIDE DEF file, d2, h, d, m
  <2> QED BY <2>15, <2>8, <2>9, <2>10, <2>11, <2>13, <2>14, AddKeeps
<1> QED BY <1>3, <1>4, <1>5

-----------------------------------------------------------------------------
(***************************************************************************)
(* Calls: the interpreter's tables come and go, the rival's stays.         *)
(***************************************************************************)
\* An open file is on the disk.
LEMMA FileOnDisk ==
  ASSUME OnDisk, NEW e \in Both, NEW t \in DOMAIN st[e].tabs,
         NEW j \in DOMAIN st[e].tabs[t], st[e].tabs[t][j] # <<>>
  PROVE  st[e].disk[st[e].tabs[t][j][1].name] # <<>>
BY DEF OnDisk

LEMMA CallKeeps == FilesInv /\ DoCall => FilesInv'
<1> SUFFICES ASSUME FilesInv, DoCall PROVE FilesInv'
  OBVIOUS
<1> USE DEF FilesInv
<1> DEFINE ts == st["interp"].tabs
<1>1. /\ rival' = rival /\ held' = held /\ left' = left /\ same' = same
      /\ st' = [st EXCEPT !["interp"].tabs = Append(@, <<>>)]
  BY DEF DoCall
<1>2. /\ "interp" \in Engine /\ rival \in Engine /\ rival # "interp"
      /\ "interp" \in Both /\ rival \in Both
      /\ \A e \in Both : e = "interp" \/ e = rival
      /\ ts \in Seq(Seq(Option(Handle))) /\ Len(ts) \in Nat \ {0} /\ Depth = Len(ts)
      /\ st["interp"] \in [disk : Disk, tabs : Seq(Seq(Option(Handle)))]
      /\ \A e \in Engine : st[e] \in [disk : Disk, tabs : Seq(Seq(Option(Handle)))]
  BY Tables
<1>3. /\ \A e \in Engine : e # "interp" => st'[e] = st[e]
      /\ st'["interp"].disk = st["interp"].disk
      /\ st'["interp"].tabs = Append(ts, <<>>)
      /\ st'["interp"] \in [disk : Disk, tabs : Seq(Seq(Option(Handle)))]
  <2>1. st'["interp"] = [st["interp"] EXCEPT !.tabs = Append(ts, <<>>)]
        /\ \A e \in Engine : e # "interp" => st'[e] = st[e]
    BY <1>1, <1>2 DEF TypeOK
  <2>2. Append(ts, <<>>) \in Seq(Seq(Option(Handle)))
    <3>1. <<>> \in Seq(Option(Handle))
      OBVIOUS
    <3> QED BY <1>2, <3>1, Appended
  <2> QED BY <1>2, <2>1, <2>2
<1>4. /\ Len(Append(ts, <<>>)) = Len(ts) + 1 /\ Append(ts, <<>>)[Len(ts) + 1] = <<>>
      /\ \A i \in 1..Len(ts) : Append(ts, <<>>)[i] = ts[i]
      /\ DOMAIN Append(ts, <<>>) = 1..Len(ts) + 1 /\ DOMAIN ts = 1..Len(ts)
  <2>1. <<>> \in Seq(Option(Handle))
    OBVIOUS
  <2> HIDE DEF ts
  <2>2. /\ Append(ts, <<>>) \in Seq(Seq(Option(Handle)))
        /\ Len(Append(ts, <<>>)) = Len(ts) + 1 /\ Append(ts, <<>>)[Len(ts) + 1] = <<>>
        /\ \A i \in 1..Len(ts) : Append(ts, <<>>)[i] = ts[i]
    BY <1>2, <2>1, Appended
  <2> QED BY <1>2, <2>2, Element
<1> HIDE DEF ts
<1>5. Both' = Both /\ Depth' = Depth + 1
  BY <1>1, <1>2, <1>3, <1>4 DEF Both, Depth
<1>6. TypeOK'
  <2>1. st' \in [Engine -> [disk : Disk, tabs : Seq(Seq(Option(Handle)))]]
    <3>1. \A e \in Engine : st'[e] \in [disk : Disk, tabs : Seq(Seq(Option(Handle)))]
      BY <1>2, <1>3
    <3>2. DOMAIN st' = Engine /\ st' = [e \in Engine |-> st'[e]]
      BY <1>1 DEF TypeOK
    <3> QED BY <3>1, <3>2
  <2> QED BY <1>1, <2>1 DEF TypeOK, Disk
<1>7. Layout'
  BY <1>1, <1>2, <1>3, <1>4 DEF Layout
<1>8. OnDisk'
  <2> SUFFICES ASSUME NEW e \in Both, NEW t \in DOMAIN st'[e].tabs,
                      NEW j \in DOMAIN st'[e].tabs[t], st'[e].tabs[t][j] # <<>>
               PROVE  st'[e].disk[st'[e].tabs[t][j][1].name] # <<>>
    BY <1>5, Zenon DEF OnDisk
  <2>1. CASE e = rival
    <3>1. st'[e] = st[e] /\ t \in DOMAIN st[e].tabs /\ j \in DOMAIN st[e].tabs[t]
          /\ st[e].tabs[t][j] # <<>>
      BY <1>2, <1>3, <2>1
    <3> QED BY <3>1, FileOnDisk
  <2>2. CASE e = "interp" /\ t \in 1..Len(ts)
    <3>1. st'[e].tabs[t] = st[e].tabs[t] /\ t \in DOMAIN st[e].tabs
      BY <1>3, <1>4, <2>2 DEF ts
    <3>2. st'[e].disk = st[e].disk
      BY <1>3, <2>2
    <3>3. j \in DOMAIN st[e].tabs[t] /\ st[e].tabs[t][j] # <<>>
      BY <3>1
    <3>4. st[e].disk[st[e].tabs[t][j][1].name] # <<>>
      BY <3>1, <3>3, FileOnDisk
    <3> QED BY <3>1, <3>2, <3>4, Zenon
  <2>3. CASE e = "interp" /\ t \notin 1..Len(ts)
    <3>1. t = Len(ts) + 1
      BY SMTT(60), <1>2, <1>3, <1>4, <2>3
    <3>2. st'[e].tabs[t] = <<>>
      BY <1>3, <1>4, <2>3, <3>1
    <3> QED BY <3>2
  <2> QED BY <1>2, <2>1, <2>2, <2>3
<1>9. ASSUME NEW i \in DOMAIN held, held[i].home > 0, NEW e \in Both
      PROVE  /\ Tab(e, held[i]) \in DOMAIN st[e].tabs
             /\ st'[e].tabs[Tab(e, held[i])] = st[e].tabs[Tab(e, held[i])]
  <2>1. held[i].home \in 1..Len(ts)
    BY <1>2, <1>9, HeldTypes DEF Placed
  <2>2. CASE e = "interp"
    BY <1>3, <1>4, <2>1, <2>2 DEF Tab, ts
  <2>3. CASE e = rival
    <3>1. Tab(e, held[i]) = 1 /\ st'[e] = st[e]
      BY <1>2, <1>3, <2>3 DEF Tab
    <3>2. 1 \in DOMAIN st[e].tabs
      <4>1. Len(st[e].tabs) = 1 /\ Len(st[e].tabs) \in DOMAIN st[e].tabs
        BY <2>3, Tables DEF Layout
      <4> QED BY <4>1
    <3> QED BY <3>1, <3>2
  <2> QED BY <1>2, <2>2, <2>3
<1>10. Placed'
  <2> SUFFICES ASSUME NEW i \in DOMAIN held
               PROVE  /\ held[i].home <= Depth + 1
                      /\ held[i].home > 0 => \A e \in Both :
                           Entry(e, held[i]) \in DOMAIN st'[e].tabs[Tab(e, held[i])]
    BY <1>1, <1>5 DEF Placed, Entry, Tab
  <2>1. held[i].home <= Depth + 1
    BY <1>2, HeldTypes DEF Placed
  <2>2. ASSUME held[i].home > 0, NEW e \in Both
        PROVE  Entry(e, held[i]) \in DOMAIN st'[e].tabs[Tab(e, held[i])]
    BY <1>9, <2>2 DEF Placed
  <2> QED BY <2>1, <2>2
<1>11. Apart'
  BY <1>1 DEF Apart
<1>12. InStep'
  <2>1. st'[rival'].disk = st'["interp"].disk
    BY <1>1, <1>2, <1>3 DEF InStep
  <2>2. ASSUME NEW i \in DOMAIN held, held[i].home > 0
        PROVE  Named(rival, held[i])' = Named("interp", held[i])'
    <3>1. \A e \in Both :
            st'[e].tabs[Tab(e, held[i])][Entry(e, held[i])] =
              st[e].tabs[Tab(e, held[i])][Entry(e, held[i])]
      BY <1>9, <2>2
    <3>2. Named(rival, held[i]) = Named("interp", held[i])
      BY <2>2 DEF InStep
    <3> QED BY <1>1, <1>2, <3>1, <3>2 DEF Named, Tab, Entry
  <2> QED BY <1>1, <2>1, <2>2 DEF InStep
<1> QED BY <1>1, <1>6, <1>7, <1>8, <1>10, <1>11, <1>12

LEMMA ReturnKeeps == FilesInv /\ DoReturn => FilesInv'
<1> SUFFICES ASSUME FilesInv, DoReturn PROVE FilesInv'
  OBVIOUS
<1> USE DEF FilesInv
<1> DEFINE ts == st["interp"].tabs
           left_(i) == IF held[i].home = Depth THEN [held[i] EXCEPT !.home = 0]
                       ELSE held[i]
<1>1. /\ rival' = rival /\ left' = left /\ same' = same /\ Depth > 1
      /\ st' = [st EXCEPT !["interp"].tabs = Front(@)]
      /\ held' = [i \in DOMAIN held |-> left_(i)]
  BY DEF DoReturn
<1>2. /\ "interp" \in Engine /\ rival \in Engine /\ rival # "interp"
      /\ "interp" \in Both /\ rival \in Both
      /\ \A e \in Both : e = "interp" \/ e = rival
      /\ ts \in Seq(Seq(Option(Handle))) /\ Len(ts) \in Nat \ {0} /\ Depth = Len(ts)
      /\ st["interp"] \in [disk : Disk, tabs : Seq(Seq(Option(Handle)))]
      /\ \A e \in Engine : st[e] \in [disk : Disk, tabs : Seq(Seq(Option(Handle)))]
  BY Tables
<1>3. /\ Front(ts) \in Seq(Seq(Option(Handle))) /\ Len(Front(ts)) = Len(ts) - 1
      /\ \A i \in 1..Len(ts) - 1 : Front(ts)[i] = ts[i]
      /\ DOMAIN Front(ts) = 1..Len(ts) - 1 /\ DOMAIN ts = 1..Len(ts)
  <2> HIDE DEF ts
  <2>1. ts # <<>>
    BY <1>2
  <2>2. /\ Front(ts) \in Seq(Seq(Option(Handle))) /\ Len(Front(ts)) = Len(ts) - 1
        /\ \A i \in 1..Len(ts) - 1 : Front(ts)[i] = ts[i]
    BY <1>2, <2>1, FrontLast
  <2> QED BY <1>2, <2>2, Element
<1>4. /\ \A e \in Engine : e # "interp" => st'[e] = st[e]
      /\ st'["interp"].disk = st["interp"].disk
      /\ st'["interp"].tabs = Front(ts)
      /\ st'["interp"] \in [disk : Disk, tabs : Seq(Seq(Option(Handle)))]
  <2>1. st'["interp"] = [st["interp"] EXCEPT !.tabs = Front(ts)]
        /\ \A e \in Engine : e # "interp" => st'[e] = st[e]
    BY <1>1, <1>2 DEF TypeOK
  <2> QED BY <1>2, <1>3, <2>1
<1> HIDE DEF ts
<1>5. Both' = Both /\ Depth' = Depth - 1
  BY <1>1, <1>2, <1>3, <1>4 DEF Both, Depth
<1>6. /\ held' \in Seq([num : [Engine -> Int], home : Nat]) /\ DOMAIN held' = DOMAIN held
      /\ \A i \in DOMAIN held :
           /\ held'[i].num = held[i].num
           /\ held'[i].home = IF held[i].home = Depth THEN 0 ELSE held[i].home
  <2>1. ASSUME NEW i \in DOMAIN held
        PROVE  /\ left_(i) \in [num : [Engine -> Int], home : Nat]
               /\ left_(i).num = held[i].num
               /\ left_(i).home = IF held[i].home = Depth THEN 0 ELSE held[i].home
    BY HeldTypes
  <2> HIDE DEF left_
  <2>2. held' \in [1..Len(held) -> [num : [Engine -> Int], home : Nat]]
    BY <1>1, <2>1, HeldTypes
  <2>3. Len(held) \in Nat
    BY HeldTypes
  <2>4. held' \in Seq([num : [Engine -> Int], home : Nat])
    BY <2>2, <2>3, SeqOfFunction
  <2> QED BY <1>1, <2>1, <2>4
<1>7. TypeOK'
  <2>1. st' \in [Engine -> [disk : Disk, tabs : Seq(Seq(Option(Handle)))]]
    <3>1. \A e \in Engine : st'[e] \in [disk : Disk, tabs : Seq(Seq(Option(Handle)))]
      BY <1>2, <1>4
    <3>2. DOMAIN st' = Engine /\ st' = [e \in Engine |-> st'[e]]
      BY <1>1 DEF TypeOK
    <3> QED BY <3>1, <3>2
  <2> QED BY <1>1, <1>6, <2>1 DEF TypeOK, Disk
<1>8. Layout'
  BY <1>1, <1>2, <1>3, <1>4 DEF Layout
<1>9. OnDisk'
  <2> SUFFICES ASSUME NEW e \in Both, NEW t \in DOMAIN st'[e].tabs,
                      NEW j \in DOMAIN st'[e].tabs[t], st'[e].tabs[t][j] # <<>>
               PROVE  st'[e].disk[st'[e].tabs[t][j][1].name] # <<>>
    BY <1>5, Zenon DEF OnDisk
  <2>1. CASE e = rival
    <3>1. st'[e] = st[e] /\ t \in DOMAIN st[e].tabs /\ j \in DOMAIN st[e].tabs[t]
          /\ st[e].tabs[t][j] # <<>>
      BY <1>2, <1>4, <2>1
    <3> QED BY <3>1, FileOnDisk
  <2>2. CASE e = "interp"
    <3>1. st'[e].tabs[t] = st[e].tabs[t] /\ t \in DOMAIN st[e].tabs
      <4>1. st'[e].tabs = Front(ts) /\ st[e].tabs = ts
        BY <1>4, <2>2 DEF ts
      <4>2. t \in 1..Len(ts) - 1 /\ t \in DOMAIN ts
        BY <1>2, <1>3, <4>1
      <4>3. Front(ts)[t] = ts[t]
        BY <1>3, <4>2
      <4> QED BY <4>1, <4>2, <4>3
    <3>2. st'[e].disk = st[e].disk
      BY <1>4, <2>2
    <3>3. j \in DOMAIN st[e].tabs[t] /\ st[e].tabs[t][j] # <<>>
      BY <3>1
    <3>4. st[e].disk[st[e].tabs[t][j][1].name] # <<>>
      BY <3>1, <3>3, FileOnDisk
    <3> QED BY <3>1, <3>2, <3>4, Zenon
  <2> QED BY <1>2, <2>1, <2>2
<1>10. ASSUME NEW i \in DOMAIN held, held'[i].home > 0
       PROVE  /\ held'[i].home = held[i].home /\ held[i].home \in 1..Len(ts) - 1
              /\ \A e \in Both : /\ Tab(e, held'[i]) = Tab(e, held[i])
                                 /\ Entry(e, held'[i]) = Entry(e, held[i])
                                 /\ st'[e].tabs[Tab(e, held[i])] =
                                      st[e].tabs[Tab(e, held[i])]
  <2>1. held'[i].home = held[i].home /\ held[i].home # Depth
    BY <1>6, <1>10
  <2>2. held[i].home \in 1..Len(ts) - 1
    BY <1>2, <1>10, <2>1, HeldTypes DEF Placed
  <2>3. \A e \in Both : /\ Tab(e, held'[i]) = Tab(e, held[i])
                        /\ Entry(e, held'[i]) = Entry(e, held[i])
    BY <1>6, <2>1 DEF Tab, Entry
  <2>4. st'["interp"].tabs[Tab("interp", held[i])] = st["interp"].tabs[Tab("interp", held[i])]
    <3>1. Front(ts)[held[i].home] = ts[held[i].home]
      BY <1>3, <2>2
    <3>2. Tab("interp", held[i]) = held[i].home
      BY DEF Tab
    <3> QED BY <1>4, <3>1, <3>2 DEF ts
  <2>5. st'[rival] = st[rival]
    BY <1>2, <1>4
  <2> QED BY <1>2, <2>1, <2>2, <2>3, <2>4, <2>5
<1>11. Placed'
  <2> SUFFICES ASSUME NEW i \in DOMAIN held
               PROVE  /\ held'[i].home <= Depth - 1
                      /\ held'[i].home > 0 => \A e \in Both :
                           Entry(e, held'[i]) \in DOMAIN st'[e].tabs[Tab(e, held'[i])]
    BY <1>5, <1>6 DEF Placed, Entry, Tab
  <2>1. held'[i].home <= Depth - 1
    <3>1. held[i].home \in Nat /\ held[i].home <= Depth
      BY HeldTypes DEF Placed
    <3> QED BY SMTT(60), <1>1, <1>2, <1>6, <3>1
  <2>2. ASSUME held'[i].home > 0, NEW e \in Both
        PROVE  Entry(e, held'[i]) \in DOMAIN st'[e].tabs[Tab(e, held'[i])]
    <3>1. Entry(e, held[i]) \in DOMAIN st[e].tabs[Tab(e, held[i])]
      BY <1>10, <2>2 DEF Placed
    <3> QED BY <1>10, <2>2, <3>1
  <2> QED BY <2>1, <2>2
<1>12. Apart'
  <2> SUFFICES ASSUME NEW i \in DOMAIN held, NEW j \in DOMAIN held,
                      held'[i].home > 0, held'[j].home > 0
               PROVE  (/\ held'[i].home = held'[j].home
                       /\ held'[i].num["interp"] = held'[j].num["interp"])
                      <=> held'[i].num[rival] = held'[j].num[rival]
    BY <1>1, <1>6 DEF Apart
  <2>1. /\ held'[i].home = held[i].home /\ held[i].home > 0 /\ held'[i].num = held[i].num
        /\ held'[j].home = held[j].home /\ held[j].home > 0 /\ held'[j].num = held[j].num
    BY <1>6, <1>10
  <2> QED BY <2>1 DEF Apart
<1>13. InStep'
  <2>1. st'[rival'].disk = st'["interp"].disk
    BY <1>1, <1>2, <1>4 DEF InStep
  <2>2. ASSUME NEW i \in DOMAIN held, held'[i].home > 0
        PROVE  st'[rival].tabs[Tab(rival, held'[i])][Entry(rival, held'[i])] =
                 st'["interp"].tabs[Tab("interp", held'[i])][Entry("interp", held'[i])]
    <3>1. \A e \in Both :
            st'[e].tabs[Tab(e, held'[i])][Entry(e, held'[i])] =
              st[e].tabs[Tab(e, held[i])][Entry(e, held[i])]
      BY <1>10, <2>2
    <3>2. Named(rival, held[i]) = Named("interp", held[i])
      BY <1>10, <2>2 DEF InStep
    <3>3. \A e \in Both :
            Named(e, held[i]) = st[e].tabs[Tab(e, held[i])][Entry(e, held[i])]
      BY DEF Named, Tab, Entry
    <3> QED BY <1>2, <3>1, <3>2, <3>3
  <2>3. \A i \in DOMAIN held : held'[i].home > 0 =>
          Named(rival, held[i])' = Named("interp", held[i])'
    BY <1>1, <1>2, <2>2 DEF Named, Tab, Entry
  <2> QED BY <1>1, <1>6, <2>1, <2>3 DEF InStep
<1> QED BY <1>1, <1>7, <1>8, <1>9, <1>11, <1>12, <1>13

-----------------------------------------------------------------------------
(***************************************************************************)
(* The theorems.                                                           *)
(***************************************************************************)
LEMMA InitHolds == Init => FilesInv
<1> SUFFICES ASSUME Init PROVE FilesInv
  OBVIOUS
<1>1. PICK d \in [Name -> Option(Text)] :
        st = [e \in Engine |-> IF e \in Both THEN [Over[e] EXCEPT !.disk = d] ELSE Over[e]]
  BY DEF Init
<1>2. rival \in Rivals /\ held = <<>> /\ left = {} /\ same = TRUE
  BY DEF Init
<1>3. /\ "interp" \in Engine /\ rival \in Engine
      /\ "interp" \in Both /\ rival \in Both /\ Both \subseteq Engine
  BY <1>2 DEF Both, Engine, Rivals
<1>4. d \in Disk
  <2>1. \A f \in Option(Text) : f \in Option(Seq(Byte))
    <3> SUFFICES ASSUME NEW f \in Option(Text) PROVE f \in Option(Seq(Byte))
      OBVIOUS
    <3>1. CASE f = <<>>
      BY <3>1, OptionCases
    <3>2. CASE f # <<>>
      <4>1. f[1] \in Text /\ f = <<f[1]>>
        BY <3>2, OptionCases
      <4>2. f[1] \in Seq(Byte)
        BY <4>1, TextAssumption
      <4> QED BY <4>1, <4>2, OptionCases
    <3> QED BY <3>1, <3>2
  <2> QED BY <2>1 DEF Disk
<1>5. [n \in Name |-> <<>>] \in Disk
  BY OptionCases DEF Disk
<1>6. << <<>> >> \in Seq(Seq(Option(Handle)))
  OBVIOUS
<1>7. \A e \in Engine : Over[e] = [disk |-> [n \in Name |-> <<>>], tabs |-> << <<>> >>]
  BY DEF Over
<1>8. \A e \in Both : st[e] = [disk |-> d, tabs |-> << <<>> >>]
  BY <1>1, <1>3, <1>7
<1>9. \A e \in Engine : e \notin Both => st[e] = Over[e]
  BY <1>1
<1>10. \A e \in Engine : st[e] \in [disk : Disk, tabs : Seq(Seq(Option(Handle)))]
  <2> SUFFICES ASSUME NEW e \in Engine
               PROVE  st[e] \in [disk : Disk, tabs : Seq(Seq(Option(Handle)))]
    OBVIOUS
  <2> DEFINE t == << <<>> >>
  <2>1. t \in Seq(Seq(Option(Handle)))
    BY <1>6
  <2>2. CASE e \in Both
    <3>1. st[e] = [disk |-> d, tabs |-> t]
      BY <1>8, <2>2
    <3> HIDE DEF t
    <3> QED BY <1>4, <2>1, <3>1
  <2>3. CASE e \notin Both
    <3>1. st[e] = [disk |-> [n \in Name |-> <<>>], tabs |-> t]
      BY <1>7, <1>9, <2>3
    <3> HIDE DEF t
    <3> QED BY <1>5, <2>1, <3>1
  <2> QED BY <2>2, <2>3
<1>11. st \in [Engine -> [disk : Disk, tabs : Seq(Seq(Option(Handle)))]]
  BY <1>1, <1>10
<1>12. TypeOK
  <2>1. held \in Seq([num : [Engine -> Int], home : Nat])
    BY <1>2
  <2> QED BY <1>2, <1>11, <2>1 DEF TypeOK, Disk
<1>13. Len(<< <<>> >>) = 1 /\ DOMAIN << <<>> >> = {1} /\ << <<>> >>[1] = <<>>
       /\ DOMAIN <<>> = {}
  OBVIOUS
<1>14. \A e \in Both : st[e].tabs = << <<>> >> /\ st[e].disk = d
  BY <1>8
<1>15. Layout
  <2>1. st["interp"].tabs = << <<>> >> /\ st[rival].tabs = << <<>> >>
    BY <1>3, <1>14
  <2> QED BY <1>13, <2>1 DEF Layout
<1>16. OnDisk
  BY <1>13, <1>14 DEF OnDisk
<1>17. Placed /\ Apart
  BY <1>2, <1>13 DEF Placed, Apart
<1>18. InStep
  BY <1>2, <1>3, <1>13, <1>14 DEF InStep
<1> QED BY <1>2, <1>12, <1>15, <1>16, <1>17, <1>18 DEF FilesInv

LEMMA FilesInvHolds == Spec => []FilesInv
<1>1. FilesInv /\ [Next]_vars => FilesInv'
  <2>1. FilesInv /\ UNCHANGED vars => FilesInv'
    BY SameKeeps DEF vars, FilesInv, TypeOK
  <2> QED BY <2>1, OpenKeeps, CloseKeeps, WriteRecordKeeps, ReadRecordKeeps, LofKeeps,
             PofKeeps, SeekKeeps, InFileKeeps, CallKeeps, ReturnKeeps DEF Next
<1> QED BY <1>1, InitHolds, PTL DEF Spec

(***************************************************************************)
(* For any names, texts, modes, record sizes and offsets, and however deep *)
(* the calls: tables hold no handle or one with a name and a position that *)
(* is never negative, and the disks sequences of bytes.                    *)
(***************************************************************************)
THEOREM FilesTyped == Spec => []TypeOK
<1>1. FilesInv => TypeOK
  BY DEF FilesInv
<1> QED BY <1>1, FilesInvHolds, PTL

(***************************************************************************)
(* For any number of opens and calls, and tables of any size: as long as   *)
(* the program keeps to what the compiled back end supports, each answer   *)
(* is the interpreter's, the disks are the same, and every number in scope *)
(* names the same file at the same position.                               *)
(***************************************************************************)
THEOREM FilesStayInStep == Spec => []EnginesInStep
<1>1. FilesInv => EnginesInStep
  BY DEF FilesInv, InStep, EnginesInStep
<1> QED BY <1>1, FilesInvHolds, PTL
=============================================================================
