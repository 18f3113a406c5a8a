------------------------------- MODULE Arrays -------------------------------
(***************************************************************************)
(* Arrays in the three engines: DIM, REDIM, SHARED, element assignment,    *)
(* ATTACH and SWAP, statement by statement in a straight-line program,     *)
(* beside the reference `ref` that says what each name holds.              *)
(*                                                                         *)
(*   slot  the interpreter's TypedSlots and state.dyn_arrays               *)
(*         (xb-runtime: slot.rs, interpreter.rs, interpreter_attach.rs)    *)
(*   c     the variables of the emitted C program                          *)
(*         (c_emit_stmt.rs, c_emit_attach.rs, c_emit_select.rs)            *)
(*   llvm  the holders and count slots of the LLVM code (lib.rs)           *)
(*                                                                         *)
(* How a name is stored is decided once per program by what the text does  *)
(* with it, so every program has a `kind` for each of its names:           *)
(*   vec     one dimension, DIM x[] or REDIM: the heap in C                *)
(*   shared  the same, declared SHARED                                     *)
(*   fixed   one dimension, one sized DIM                                  *)
(*   node    two dimensions, one DIM, operand of a row ATTACH: rows in C   *)
(*   flat    two dimensions and a REDIM somewhere: contiguous in C         *)
(*   text    a string scalar                                               *)
(* All elements are strings, 0 is the empty one.  An optional value is     *)
(* <<>> or <<value>>; -1 is a byte pattern nobody wrote.                   *)
(***************************************************************************)
EXTENDS Integers, Sequences, SequencesExt

CONSTANTS Kinds,      \* the programs: functions from names to kinds
          Sizes,      \* upper bounds given to DIM and REDIM
          Inner,      \* the last bound of two-dimensional arrays in the text
          Excused,    \* known departures of an engine that end its comparison
          MaxIndex, MaxSteps

AllKinds == {"vec", "shared", "fixed", "node", "flat", "text"}

ASSUME ArraysAssumption ==
    /\ \A k \in Kinds : \A x \in DOMAIN k : k[x] \in AllKinds
    /\ Sizes \subseteq -1 .. MaxIndex
    /\ Inner \in Nat /\ MaxIndex \in Nat /\ MaxSteps \in Nat

VARIABLES kind, slot, dyn, c, llvm, ref, err, why, steps

vars == <<kind, slot, dyn, c, llvm, ref, err, why, steps>>

Names == DOMAIN kind
Of(K) == {x \in Names : kind[x] \in K}
Heap == Of({"vec", "shared"})
Lines == Of({"vec", "shared", "fixed"})
Tables == Of({"node", "flat"})
Texts == Of({"text"})

Junk == -1
Zeros(n) == [i \in 1 .. n |-> 0]
Grown(s, n, fill) == [i \in 1 .. n |-> IF i <= Len(s) THEN s[i] ELSE fill]
Count(ds) == IF ds = <<>> THEN 0 ELSE IF Len(ds) = 1 THEN ds[1] ELSE ds[1] * ds[2]
Slice(s, from, n) == [i \in 1 .. n |-> s[from + i]]
AtLeast0(n) == IF n < 0 THEN 0 ELSE n

-----------------------------------------------------------------------------
(* The interpreter: TypedSlot *)

new_array_nd(ds) == [val |-> 0, arr |-> <<Zeros(Count(ds))>>, dims |-> ds, rows |-> <<>>]
NewText == [val |-> 0, arr |-> <<>>, dims |-> <<>>, rows |-> <<>>]

\* The rows of an array that has rows stay as they are.
array_reshape(s, ds) ==
    [s EXCEPT !.arr = <<Grown(IF @ = <<>> THEN <<>> ELSE @[1], Count(ds), 0)>>, !.dims = ds]

NoElements(s) == s.arr \in {<<>>, <<<<>>>>}
is_empty_array(s) ==
    IF s.rows = <<>> THEN NoElements(s)
    ELSE \A r \in DOMAIN s.rows[1] : NoElements(s.rows[1][r])

NoRow == [arr |-> <<>>, dims |-> <<0>>]

\* Two dimensions: the flat store is cut into rows.  One dimension: as many empty
\* rows as elements, and the elements stay behind them.
ensure_node_rows(s) ==
    LET n == s.dims[1]
    IN  IF s.rows # <<>> \/ s.dims = <<>> THEN s
        ELSE IF Len(s.dims) = 1 THEN [s EXCEPT !.rows = <<[r \in 1 .. n |-> NoRow]>>]
        ELSE [s EXCEPT
               !.arr = <<>>,
               !.rows = <<[r \in 1 .. n |->
                   IF s.arr = <<>> THEN NoRow
                   ELSE [arr |-> <<Slice(s.arr[1], (r - 1) * s.dims[2], s.dims[2])>>,
                         dims |-> <<s.dims[2]>>]]>>]

\* The offset of an element, from 0, or -1.  A missing subscript is 0.
array_offset(s, ix) ==
    LET At(k) == IF k <= Len(ix) THEN ix[k] ELSE 0
        off == IF Len(s.dims) = 2 THEN At(1) * s.dims[2] + At(2) ELSE At(1)
    IN  IF /\ s.arr # <<>>
           /\ \A k \in DOMAIN s.dims : At(k) < s.dims[k]
           /\ off < Len(s.arr[1])
        THEN off ELSE -1

\* ArrayAssignment: the row grows, the element is set, the array grows, or nothing.
WriteSlot(s, ix, v, grow) ==
    LET off == array_offset(s, ix)
        row == s.rows[1][ix[1] + 1]
        grown == Grown(row.arr[1], IF ix[2] < Len(row.arr[1]) THEN Len(row.arr[1]) ELSE ix[2] + 1, 0)
    IN  IF s.rows # <<>>
        THEN IF Len(ix) < 2 \/ ix[1] >= Len(s.rows[1]) \/ row.arr = <<>> THEN s
             ELSE [s EXCEPT !.rows[1][ix[1] + 1] =
                     [arr |-> <<[grown EXCEPT ![ix[2] + 1] = v]>>,
                      dims |-> IF ix[2] < Len(row.arr[1]) THEN row.dims ELSE <<ix[2] + 1>>]]
        ELSE IF off >= 0 THEN [s EXCEPT !.arr[1][off + 1] = v]
        ELSE IF grow THEN [array_reshape(s, <<ix[1] + 1>>) EXCEPT !.arr[1][ix[1] + 1] = v]
        ELSE s

\* ArrayAccess with as many subscripts as dimensions, and ArrayUBound.
ReadSlot(s, ix) ==
    LET off == array_offset(s, ix)
        row == s.rows[1][ix[1] + 1]
    IN  IF s.rows # <<>>
        THEN IF Len(ix) = 2 /\ ix[1] < Len(s.rows[1]) /\ row.arr # <<>>
                /\ ix[2] < Len(row.arr[1]) THEN row.arr[1][ix[2] + 1] ELSE 0
        ELSE IF off >= 0 THEN s.arr[1][off + 1] ELSE 0
UBoundSlot(s) ==
    IF s.rows # <<>> THEN Len(s.rows[1]) - 1
    ELSE IF s.arr # <<>> THEN Len(s.arr[1]) - 1 ELSE -1

\* The Dim arm: bounds are inclusive and negative ones count as 0.
DimSlot(s, bounds, redim, shared) ==
    LET ds == [k \in DOMAIN bounds |-> AtLeast0(bounds[k]) + 1]
    IN  CASE redim -> array_reshape(s, ds)
          [] ~redim /\ shared ->
                IF ds = <<>> THEN [s EXCEPT !.rows = <<>>]
                ELSE array_reshape([s EXCEPT !.rows = <<>>], ds)
          [] OTHER -> new_array_nd(ds)

Emptied(s) == [s EXCEPT !.arr = <<>>, !.dims = <<0>>]

\* exec_attach: <<slots', failed>>.
AttachRowToArray(st, x, r, y) ==
    LET src == ensure_node_rows(st[x])
        row == src.rows[1][r + 1]
    IN  IF ~is_empty_array(st[y]) THEN <<st, TRUE>>
        ELSE <<[st EXCEPT ![x] = [src EXCEPT !.rows[1][r + 1] = NoRow],
                          ![y] = [@ EXCEPT !.arr = row.arr, !.dims = row.dims, !.rows = <<>>]],
               FALSE>>

\* Mutant: the source keeps its elements.
AttachArrayToRowCopies(st, x, y, r) ==
    LET dst == ensure_node_rows(st[y])
    IN  IF ~NoElements(dst.rows[1][r + 1]) THEN <<[st EXCEPT ![y] = dst], TRUE>>
        ELSE <<[st EXCEPT ![y] = [dst EXCEPT !.rows[1][r + 1] =
                                   [arr |-> st[x].arr, dims |-> st[x].dims]]], FALSE>>

AttachArrayToRow(st, x, y, r) ==
    LET dst == ensure_node_rows(st[y])
    IN  IF ~NoElements(dst.rows[1][r + 1]) THEN <<[st EXCEPT ![y] = dst], TRUE>>
        ELSE <<[st EXCEPT ![x] = Emptied(@),
                          ![y] = [dst EXCEPT !.rows[1][r + 1] =
                                   [arr |-> st[x].arr, dims |-> st[x].dims]]], FALSE>>

\* Whole arrays, or scalars; an array without a store passes for a scalar.
AttachWhole(st, x, y) ==
    LET src == st[x]
    IN  IF src.arr = <<>> /\ src.rows = <<>>
        THEN IF st[y].val # 0 THEN <<st, TRUE>>
             ELSE <<[st EXCEPT ![x].val = 0, ![y].val = src.val], FALSE>>
        ELSE IF ~is_empty_array(st[y]) THEN <<st, TRUE>>
        ELSE <<[st EXCEPT ![x] = [Emptied(@) EXCEPT !.rows = <<>>],
                          ![y] = [src EXCEPT !.val = st[y].val]], FALSE>>

AttachTextToElement(st, x, y, k) ==
    IF st[y].arr = <<>> \/ k >= Len(st[y].arr[1]) THEN <<st, TRUE>>
    ELSE IF st[y].arr[1][k + 1] # 0 THEN <<st, TRUE>>
    ELSE <<[st EXCEPT ![x].val = 0, ![y].arr[1][k + 1] = st[x].val], FALSE>>

AttachElementToText(st, x, k, y) ==
    IF st[y].val # 0 \/ st[x].arr = <<>> THEN <<st, TRUE>>
    ELSE IF k >= Len(st[x].arr[1]) THEN <<st, TRUE>>
    ELSE <<[st EXCEPT ![x].arr[1][k + 1] = 0, ![y].val = st[x].arr[1][k + 1]], FALSE>>

exec_swap(st, x, y) == [st EXCEPT ![x] = st[y], ![y] = st[x]]

-----------------------------------------------------------------------------
(* The emitted C: a pointer with an upper bound (mem, ub), a table of rows, *)
(* the xb_dim_ variables, a char*.  <<>> is the null pointer.               *)

CNew == [mem |-> <<>>, ub |-> -1, rows |-> <<>>, inner |-> -1, val |-> 0]
CBlock(v, s) == [v EXCEPT !.mem = <<s>>, !.ub = Len(s) - 1]
CNull(v) == [v EXCEPT !.mem = <<>>, !.ub = -1]
Block(p) == IF p.mem = <<>> THEN <<>> ELSE p.mem[1]

\* REDIM.  The code resizes the block of the first name of an ATTACH group and
\* repoints the names that share it; every ATTACH clears its source, so a block
\* has one name and the two arms resize that name's block alike.
emit_group_redim(v, n) == CBlock(v, Grown(Block(v), n + 1, 0))

\* DIM and REDIM of one dimension on the heap; bare SHARED x[] does nothing.
CDim(v, bounds, redim, shared) ==
    CASE bounds = <<>> -> IF shared THEN v ELSE CNull(v)
      [] bounds # <<>> /\ redim -> emit_group_redim(v, bounds[1])
      [] OTHER -> CBlock(v, Zeros(bounds[1] + 1))

\* Two dimensions, contiguous.  REDIM reads _oldub after it has assigned the new
\* bound: the loop that fills the grown tail runs no pass.
CDimFlat(v, bounds, redim) ==
    LET n == Count([k \in DOMAIN bounds |-> bounds[k] + 1])
        s == IF redim THEN Grown(Block(v), n, Junk) ELSE Zeros(n)
    IN  [CBlock(v, s) EXCEPT !.inner = bounds[2]]

\* Two dimensions, one block per row.
CDimNode(v, bounds) ==
    [v EXCEPT !.inner = bounds[2],
              !.rows = [r \in 1 .. bounds[1] + 1 |->
                          [mem |-> <<Zeros(bounds[2] + 1)>>, ub |-> bounds[2]]]]

\* Mutant: the bound is raised only when it is passed by two.
CWriteLate(v, i, e) ==
    LET s == IF i > v.ub + 1 THEN Grown(Block(v), i + 1, 0) ELSE Block(v)
    IN  IF i < Len(s) THEN CBlock(v, [s EXCEPT ![i + 1] = e]) ELSE v

\* x[i] = e on the heap: a write past the bound grows the block.
CWrite(v, i, e) ==
    LET s == IF i > v.ub THEN Grown(Block(v), i + 1, 0) ELSE Block(v)
    IN  CBlock(v, [s EXCEPT ![i + 1] = e])

\* x[i, j]: the subscript has the bound of the text's last DIM in it.
CFlatOffset(ix) == ix[1] * (Inner + 1) + ix[2]

\* emit_attach: row to array, array to row, arrays, and the string forms.
CAttachRowToArray(m, x, r, y) ==
    LET row == m[x].rows[r + 1]
        from == r * (m[x].inner + 1)
    IN  IF kind[x] = "node"
        THEN [m EXCEPT ![y].mem = row.mem, ![y].ub = row.ub,
                       ![x].rows[r + 1] = [mem |-> <<>>, ub |-> -1]]
        ELSE [m EXCEPT ![y] = CBlock(@, Slice(Block(m[x]), from, m[x].inner + 1))]

CAttachArrayToRow(m, x, y, r) ==
    LET s == Block(m[x])
        from == r * (m[y].inner + 1)
        to == Block(m[y])
    IN  IF kind[y] = "node"
        THEN [m EXCEPT ![y].rows[r + 1] = [mem |-> m[x].mem, ub |-> m[x].ub],
                       ![x] = CNull(@)]
        ELSE [m EXCEPT ![x] = CNull(@),
                       ![y].mem = <<[i \in DOMAIN to |-> IF i - from \in DOMAIN s THEN s[i - from]
                                                         ELSE to[i]]>>]

\* Heap to heap: the pointer moves.  Fixed to fixed: the common prefix is copied.
CAttachWhole(m, x, y) ==
    LET s == Block(m[x])
    IN  CASE {x, y} \subseteq Heap ->
                [m EXCEPT ![y].mem = m[x].mem, ![y].ub = m[x].ub, ![x] = CNull(@)]
          [] {x, y} \subseteq Of({"fixed"}) ->
                [m EXCEPT ![y].mem = <<[i \in DOMAIN @[1] |-> IF i \in DOMAIN s THEN s[i]
                                                              ELSE @[1][i]]>>]
          [] OTHER -> m
CAttachTexts(m, x, y) == [m EXCEPT ![y].val = m[x].val, ![x].val = 0]
CAttachTextToElement(m, x, y, k) == [m EXCEPT ![y].mem[1][k + 1] = m[x].val, ![x].val = 0]
CAttachElementToText(m, x, k, y) ==
    [m EXCEPT ![y].val = Block(m[x])[k + 1], ![x].mem[1][k + 1] = 0]

\* emit_swap: pointers and bounds, or strings.
emit_swap(m, x, y) ==
    [m EXCEPT ![x] = [@ EXCEPT !.mem = m[y].mem, !.ub = m[y].ub, !.val = m[y].val],
              ![y] = [@ EXCEPT !.mem = m[x].mem, !.ub = m[x].ub, !.val = m[x].val]]

-----------------------------------------------------------------------------
(* The LLVM code: a holder (buf), one count per dimension, a string slot   *)

LNew == [buf |-> <<>>, cnt |-> <<>>, val |-> 0]

\* xb_dyn_resize on the buffer.
dyn_resize(s, n) == Grown(s, n, 0)

LCounts(bounds) == [k \in DOMAIN bounds |-> AtLeast0(bounds[k]) + 1]

\* Dim of a SHARED array: allocates unless it is a REDIM, one element without a
\* bound, and stores counts for the bounds it is given.
LDimShared(h, bounds, redim) ==
    LET total == IF bounds = <<>> THEN 1 ELSE Count(LCounts(bounds))
    IN  [h EXCEPT !.buf = IF redim THEN dyn_resize(@, total) ELSE Zeros(total),
                  !.cnt = IF bounds = <<>> THEN @ ELSE LCounts(bounds)]

\* Dim of any other array; DIM x[] has one count, 0.
LDim(h, bounds, redim) ==
    LET total == Count(LCounts(bounds))
    IN  [h EXCEPT !.buf = IF redim THEN dyn_resize(@, total) ELSE Zeros(total),
                  !.cnt = IF bounds = <<>> THEN <<0>> ELSE LCounts(bounds)]

\* array_elem_ptr: the row-major offset from the counts, unchecked.
array_elem_ptr(h, ix) == IF Len(h.cnt) = 2 THEN ix[1] * h.cnt[2] + ix[2] ELSE ix[1]

\* Mutant: the buffer grows and the count does not.
LWriteNoCount(h, ix, e, heap) ==
    LET n == IF h.cnt[1] > ix[1] + 1 THEN h.cnt[1] ELSE ix[1] + 1
    IN  [h EXCEPT !.buf = [(IF Len(ix) = 1 /\ heap THEN dyn_resize(@, n) ELSE @)
                           EXCEPT ![array_elem_ptr(h, ix) + 1] = e]]

LWrite(h, ix, e, heap) ==
    LET n == IF h.cnt[1] > ix[1] + 1 THEN h.cnt[1] ELSE ix[1] + 1
        g == IF Len(ix) = 1 /\ heap THEN [h EXCEPT !.buf = dyn_resize(@, n), !.cnt[1] = n] ELSE h
    IN  [g EXCEPT !.buf[array_elem_ptr(g, ix) + 1] = e]

\* emit_copy_loop: n elements of s from offset j on, into d from offset i on.
emit_copy_loop(d, i, s, j, n) ==
    [k \in DOMAIN d |-> IF k - i \in 1 .. n THEN s[k - i + j] ELSE d[k]]

\* emit_attach.  Each case copies from the right operand to the left one.
\* The row is copied through a pointer loaded before the array is resized, so the
\* copy may go to the old block (landed = FALSE).
LAttachArrayToRow(m, x, y, r, landed) ==
    LET len == m[y].cnt[2]
        s == dyn_resize(m[x].buf, len)
    IN  [m EXCEPT ![x].cnt = <<len>>,
                  ![x].buf = IF landed THEN emit_copy_loop(s, 0, m[y].buf, r * len, len) ELSE s]
LAttachRowToArray(m, x, r, y) ==
    LET len == m[x].cnt[2]
        n == IF Len(m[y].buf) < len THEN Len(m[y].buf) ELSE len
    IN  [m EXCEPT ![x].buf = emit_copy_loop(@, r * len, m[y].buf, 0, n)]
LAttachWhole(m, x, y) ==
    LET n == Count(m[y].cnt)
    IN  [m EXCEPT ![x].cnt = m[y].cnt,
                  ![x].buf = emit_copy_loop(dyn_resize(@, n), 0, m[y].buf, 0, n)]
LAttachTextToElement(m, x, y, k) == [m EXCEPT ![x].val = m[y].buf[k + 1]]
LAttachElementToText(m, x, k, y) == [m EXCEPT ![x].buf[k + 1] = m[y].val]

-----------------------------------------------------------------------------
(* The program: its declarations, then one statement per step *)

Wide == Inner + 1
Table(n, v) == [r \in 1 .. n + 1 |-> [j \in 1 .. Wide |-> v]]

\* The declarations: DIM x[] or SHARED x[], DIM x[1], DIM x[1, Inner].
Init ==
    /\ kind \in Kinds
    /\ slot = [x \in Names |-> CASE x \in Heap -> new_array_nd(<<>>)
                                [] x \in Tables -> new_array_nd(<<2, Wide>>)
                                [] x \in Texts -> NewText
                                [] OTHER -> new_array_nd(<<2>>)]
    /\ dyn = Heap
    /\ c = [x \in Names |-> CASE kind[x] = "fixed" -> CBlock(CNew, Zeros(2))
                             [] kind[x] = "node" -> CDimNode(CNew, <<1, Inner>>)
                             [] kind[x] = "flat" -> CDimFlat(CNew, <<1, Inner>>, FALSE)
                             [] OTHER -> CNew]
    /\ llvm = [x \in Names |-> CASE kind[x] = "fixed" -> LDim(LNew, <<1>>, FALSE)
                                [] x \in Tables -> LDim(LNew, <<1, Inner>>, FALSE)
                                [] x \in Texts -> LNew
                                [] OTHER -> [LNew EXCEPT !.cnt = <<0>>]]
    /\ ref = [x \in Names |-> CASE kind[x] = "fixed" -> <<0, 0>>
                               [] x \in Tables -> Table(1, 0)
                               [] x \in Texts -> 0
                               [] OTHER -> <<>>]
    /\ err = [ref |-> FALSE, interp |-> FALSE]
    /\ why = [interp |-> "", c |-> "", llvm |-> ""]
    /\ steps = 0

Excuse(e, reason) ==
    IF why[e] = "" /\ reason \in Excused \cup {"undefined"} THEN reason ELSE why[e]

\* One statement: r and i are <<state', failed>>, cm and lm the states of the
\* compiled programs, ri, rc and rl why an engine is not compared from here on.
Statement(r, i, ri, cm, rc, lm, rl) ==
    /\ steps < MaxSteps /\ ~err.ref /\ steps' = steps + 1
    /\ ref' = r[1]
    /\ why' = [interp |-> Excuse("interp", ri), c |-> Excuse("c", rc), llvm |-> Excuse("llvm", rl)]
    /\ slot' = IF why'.interp = "" THEN i[1] ELSE slot
    /\ err' = [ref |-> r[2], interp |-> IF why'.interp = "" THEN i[2] ELSE err.interp]
    /\ c' = IF why'.c = "" /\ ~r[2] THEN cm ELSE c
    /\ llvm' = IF why'.llvm = "" /\ ~r[2] THEN lm ELSE llvm
    /\ UNCHANGED kind

Fails == <<ref, TRUE>>
Fresh == steps + 1
Reason(cond, text) == IF cond THEN text ELSE ""

\* DIM x[n], REDIM x[n], SHARED x[n] and the forms without a bound.
DimLine(x, bounds, redim) ==
    LET shared == kind[x] = "shared"
        n == AtLeast0(bounds[1]) + 1
        next == IF shared /\ ~redim /\ bounds = <<>> THEN ref[x]
                ELSE IF bounds = <<>> THEN <<>>
                ELSE IF redim \/ shared THEN Grown(ref[x], n, 0) ELSE Zeros(n)
        negative == bounds # <<>> /\ (bounds # <<>> => bounds[1] < 0)
    IN  /\ Statement(<<[ref EXCEPT ![x] = next], FALSE>>,
                     <<[slot EXCEPT ![x] = DimSlot(@, bounds, redim, shared)], FALSE>>, "",
                     [c EXCEPT ![x] = CDim(@, bounds, redim, shared)],
                     IF negative THEN "undefined"
                     ELSE Reason(shared /\ (bounds = <<>>) = redim, "shared"),
                     [llvm EXCEPT ![x] = IF shared THEN LDimShared(@, bounds, redim)
                                        ELSE LDim(@, bounds, redim)],
                     Reason(shared /\ (~redim \/ bounds = <<>>), "shared"))
        /\ dyn' = dyn \cup {x}

\* DIM x[n, Inner] and, in programs that have one, REDIM x[n, Inner].
DimTable(x, n, redim) ==
    LET next == Grown(IF redim THEN ref[x] ELSE <<>>, n + 1, Zeros(Wide))
    IN  /\ redim => \A r \in DOMAIN ref[x] : Len(ref[x][r]) = Wide
        /\ Statement(<<[ref EXCEPT ![x] = next], FALSE>>,
                     <<[slot EXCEPT ![x] = DimSlot(@, <<n, Inner>>, redim, FALSE)], FALSE>>,
                     Reason(redim /\ slot[x].rows # <<>>, "rows"),
                     [c EXCEPT ![x] = CDimFlat(@, <<n, Inner>>, redim)],
                     Reason(redim /\ n + 1 > Len(ref[x]), "tail"),
                     [llvm EXCEPT ![x] = LDim(@, <<n, Inner>>, redim)], "")
        /\ dyn' = IF redim THEN dyn \cup {x} ELSE dyn

\* x[i] = e.  Arrays on the heap grow.
SetLine(x, i) ==
    /\ x \in Heap \/ i < Len(ref[x])
    /\ Statement(<<[ref EXCEPT ![x] = [Grown(@, IF i < Len(@) THEN Len(@) ELSE i + 1, 0)
                                        EXCEPT ![i + 1] = Fresh]], FALSE>>,
                 <<[slot EXCEPT ![x] = WriteSlot(@, <<i>>, Fresh, x \in dyn)], FALSE>>, "",
                 IF x \in Heap THEN [c EXCEPT ![x] = CWrite(@, i, Fresh)]
                 ELSE [c EXCEPT ![x].mem[1][i + 1] = Fresh], "",
                 [llvm EXCEPT ![x] = LWrite(@, <<i>>, Fresh, x \in Heap)], "")
    /\ UNCHANGED dyn

\* x[i, j] = e.
SetTable(x, i, j) ==
    /\ i < Len(ref[x]) /\ j < Len(ref[x][i + 1])
    /\ Statement(<<[ref EXCEPT ![x][i + 1][j + 1] = Fresh], FALSE>>,
                 <<[slot EXCEPT ![x] = WriteSlot(@, <<i, j>>, Fresh, x \in dyn)], FALSE>>, "",
                 IF kind[x] = "node" THEN [c EXCEPT ![x].rows[i + 1].mem[1][j + 1] = Fresh]
                 ELSE [c EXCEPT ![x].mem[1][CFlatOffset(<<i, j>>) + 1] = Fresh], "",
                 [llvm EXCEPT ![x] = LWrite(@, <<i, j>>, Fresh, FALSE)], "")
    /\ UNCHANGED dyn

SetText(x) ==
    /\ Statement(<<[ref EXCEPT ![x] = Fresh], FALSE>>, <<[slot EXCEPT ![x].val = Fresh], FALSE>>, "",
                 [c EXCEPT ![x].val = Fresh], "", [llvm EXCEPT ![x].val = Fresh], "")
    /\ UNCHANGED dyn

\* ATTACH x[r,] TO y[].
RowToArray(x, r, y) ==
    /\ r < Len(ref[x])
    /\ Statement(IF ref[y] # <<>> THEN Fails
                 ELSE <<[ref EXCEPT ![y] = ref[x][r + 1], ![x][r + 1] = <<>>], FALSE>>,
                 AttachRowToArray(slot, x, r, y), "",
                 CAttachRowToArray(c, x, r, y), Reason(kind[x] = "flat", "flat"),
                 LAttachRowToArray(llvm, x, r, y), "attach")
    /\ UNCHANGED dyn

\* ATTACH x[] TO y[r,].
ArrayToRow(x, y, r) ==
    /\ r < Len(ref[y])
    /\ \E landed \in BOOLEAN :
          Statement(IF ref[y][r + 1] # <<>> THEN Fails
                    ELSE <<[ref EXCEPT ![y][r + 1] = ref[x], ![x] = <<>>], FALSE>>,
                    AttachArrayToRow(slot, x, y, r), "",
                    CAttachArrayToRow(c, x, y, r), Reason(kind[y] = "flat", "flat"),
                    LAttachArrayToRow(llvm, x, y, r, landed), "attach")
    /\ UNCHANGED dyn

\* ATTACH x[] TO y[].
ArrayToArray(x, y) ==
    /\ Statement(IF ref[y] # <<>> THEN Fails
                 ELSE <<[ref EXCEPT ![y] = ref[x], ![x] = <<>>], FALSE>>,
                 AttachWhole(slot, x, y), Reason(slot[x].arr = <<>> /\ ref[y] # <<>>, "scalar"),
                 CAttachWhole(c, x, y), Reason(~({x, y} \subseteq Heap), "fixed"),
                 LAttachWhole(llvm, x, y), "attach")
    /\ UNCHANGED dyn

\* ATTACH x$ TO y$, ATTACH x$ TO y$[k], ATTACH x$[k] TO y$.
TextToText(x, y) ==
    /\ Statement(IF ref[y] # 0 THEN Fails ELSE <<[ref EXCEPT ![y] = ref[x], ![x] = 0], FALSE>>,
                 AttachWhole(slot, x, y), "", CAttachTexts(c, x, y), "",
                 [llvm EXCEPT ![x].val = llvm[y].val], "attach")
    /\ UNCHANGED dyn

TextToElement(x, y, k) ==
    /\ Statement(IF k >= Len(ref[y]) THEN Fails
                 ELSE IF ref[y][k + 1] # 0 THEN Fails
                 ELSE <<[ref EXCEPT ![y][k + 1] = ref[x], ![x] = 0], FALSE>>,
                 AttachTextToElement(slot, x, y, k), "",
                 CAttachTextToElement(c, x, y, k), "",
                 LAttachTextToElement(llvm, x, y, k), "attach")
    /\ UNCHANGED dyn

ElementToText(x, k, y) ==
    /\ Statement(IF ref[y] # 0 \/ k >= Len(ref[x]) THEN Fails
                 ELSE <<[ref EXCEPT ![y] = ref[x][k + 1], ![x][k + 1] = 0], FALSE>>,
                 AttachElementToText(slot, x, k, y), "",
                 CAttachElementToText(c, x, k, y), "",
                 LAttachElementToText(llvm, x, k, y), "attach")
    /\ UNCHANGED dyn

\* SWAP of arrays on the heap or of strings; the LLVM code has none.
Swap(x, y) ==
    /\ Statement(<<[ref EXCEPT ![x] = ref[y], ![y] = ref[x]], FALSE>>,
                 <<exec_swap(slot, x, y), FALSE>>, "", emit_swap(c, x, y), "", llvm, "swap")
    /\ UNCHANGED dyn

Next ==
    \/ \E x \in Heap, redim \in BOOLEAN, b \in {<<>>} \cup {<<n>> : n \in Sizes} : DimLine(x, b, redim)
    \/ \E x \in Of({"flat"}), n \in Sizes \ {-1}, redim \in BOOLEAN : DimTable(x, n, redim)
    \/ \E x \in Lines, i \in 0 .. MaxIndex : SetLine(x, i)
    \/ \E x \in Tables, i \in 0 .. MaxIndex, j \in 0 .. MaxIndex : SetTable(x, i, j)
    \/ \E x \in Texts : SetText(x)
    \/ \E x \in Tables, r \in 0 .. MaxIndex, y \in Heap : RowToArray(x, r, y) \/ ArrayToRow(y, x, r)
    \/ \E x, y \in Lines : x # y /\ ArrayToArray(x, y)
    \/ \E x, y \in Texts : x # y /\ TextToText(x, y)
    \/ \E x \in Texts, y \in Lines, k \in 0 .. MaxIndex : TextToElement(x, y, k) \/ ElementToText(y, k, x)
    \/ \E x, y \in Heap : x # y /\ Swap(x, y)
    \/ \E x, y \in Texts : x # y /\ Swap(x, y)

Spec == Init /\ [][Next]_vars

-----------------------------------------------------------------------------
(* What a program can see of its variables *)

SlotLine(s) == [i \in 1 .. UBoundSlot(s) + 1 |-> ReadSlot(s, <<i - 1>>)]
SlotTable(s, t) == [r \in DOMAIN t |-> [j \in DOMAIN t[r] |-> ReadSlot(s, <<r - 1, j - 1>>)]]
CTable(v, k, t) ==
    [r \in DOMAIN t |-> [j \in DOMAIN t[r] |->
        IF k = "node" THEN v.rows[r].mem[1][j] ELSE v.mem[1][CFlatOffset(<<r - 1, j - 1>>) + 1]]]
LTable(h, t) ==
    [r \in DOMAIN t |-> [j \in DOMAIN t[r] |-> h.buf[array_elem_ptr(h, <<r - 1, j - 1>>) + 1]]]

\* Under a move, what is read is what was last put there: the interpreter's arrays,
\* rows and strings are the reference's, and an ATTACH fails exactly when its
\* destination is occupied, whatever moves, swaps and resizings came before.
InterpreterKeepsArrays ==
    why.interp = "" =>
      /\ err.interp = err.ref
      /\ ~err.ref => \A x \in Names :
            CASE x \in Lines -> SlotLine(slot[x]) = ref[x]
              [] x \in Tables -> SlotTable(slot[x], ref[x]) = ref[x]
              [] x \in Texts -> slot[x].val = ref[x]

\* The emitted C program holds the same elements under the same bounds, although it
\* moves pointers, keeps bounds in separate variables and never checks a destination.
CProgramKeepsArrays ==
    why.c = "" /\ ~err.ref =>
      \A x \in Names :
        CASE x \in Lines -> /\ Block(c[x]) = ref[x] /\ c[x].ub = Len(ref[x]) - 1
          [] x \in Tables -> CTable(c[x], kind[x], ref[x]) = ref[x]
          [] x \in Texts -> c[x].val = ref[x]

\* The LLVM code does for DIM, REDIM and element assignment: its count slots and its
\* buffer stay in step.
LlvmKeepsArrays ==
    why.llvm = "" /\ ~err.ref =>
      \A x \in Names :
        CASE x \in Lines -> Slice(llvm[x].buf, 0, llvm[x].cnt[1]) = ref[x]
          [] x \in Tables -> LTable(llvm[x], ref[x]) = ref[x]
          [] x \in Texts -> llvm[x].val = ref[x]
=============================================================================
