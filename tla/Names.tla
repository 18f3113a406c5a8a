-------------------------------- MODULE Names --------------------------------
(***************************************************************************)
(* Semantic analysis: which storage a name stands for.                     *)
(*                                                                         *)
(* xb-compiler/src/semantics*.rs turn every occurrence of a variable into  *)
(* a slot: a local or a shared one, with a name and a type.  The symbol    *)
(* table is keyed by the name without its type suffix, so `x` and `x$`     *)
(* compete for one entry; a scan before the analysis of a function finds   *)
(* the bases used both ways, and their strings keep the suffix in the      *)
(* slot's name.  Each statement resolves its names by a path of its own    *)
(* (dim, assignment, symbol, byref_symbol, inc_dec, swap_stmt, ...).       *)
(*                                                                         *)
(* A step analyses one statement, lowers it to items and runs the items    *)
(* twice: on the slots of the interpreter (keyed by name) and on the       *)
(* variables of the C program (a local's C name also says string or not).  *)
(* A third store, keyed by what the programmer wrote, is the reference.    *)
(* Programs are straight lines of statements in one or two functions, run  *)
(* in order; a statement stores its own number as the value (INC too), of  *)
(* the type of the name it is stored under.                                *)
(*                                                                         *)
(* A name is a pair <<base, suffix in the name>>; `x$` is the name         *)
(* <<"x", "">> with the suffix "$", and `#x$`, whose suffix the lexer      *)
(* leaves in the name, is <<"x", "$">> with none.  Composite members,      *)
(* constants, builtins and strict mode are left out.                       *)
(***************************************************************************)
EXTENDS Naturals, Sequences

CONSTANTS Families,   \* the programs: [params, first, n, second, m]
          Excused     \* known departures that end an engine's comparison

VARIABLES prog, fn, pc, an, slots, cvars, ref, shown, why

vars == <<prog, fn, pc, an, slots, cvars, ref, shown, why>>

None == <<>>
Body == prog[fn].body

\* An operand: a scalar's name and suffix, with h set when it is written with a #
\* (which the parser drops), or an element of an array with a name of its own.
Elem(o) == o.s = "[]"
IsText(o) == o.s = "$" \/ o.n[2] = "$"
Operands(st) == {st.l, st.r} \ {None}

-----------------------------------------------------------------------------
(* Names, suffixes and types *)

from_suffix(s) == IF s = "$" THEN "string" ELSE "integer"
ref_value_type(n, s) == from_suffix(IF s # "" THEN s ELSE n[2])
full_name(n, s) == IF s = "" THEN n ELSE <<n[1], s>>

slot_nameBare(a, n, s) == n

slot_name(a, n, s) ==
    IF from_suffix(s) # "string" \/ n \notin a.collisions THEN n ELSE full_name(n, s)

\* SWAP's operands have their suffix in the name: to the scan, `x$` there is not `x`.
SwapName(o) == IF Elem(o) THEN o.n ELSE full_name(o.n, o.s)

\* What note_var is called with, for each statement of a body.
Noted(st) ==
    CASE st.op \in {"dim", "shared", "assign", "print", "byref", "inc", "read"} ->
            {[n |-> o.n, t |-> from_suffix(o.s)] : o \in Operands(st)}
      [] st.op = "swap" -> {[n |-> SwapName(o), t |-> from_suffix(o.s)] : o \in Operands(st)}
      [] st.op = "for" -> {[n |-> st.l.n, t |-> "integer"]}
      [] OTHER -> {}

scan_body_collisions(body) ==
    LET kinds == UNION {Noted(body[i]) : i \in DOMAIN body}
    IN  {k.n : k \in {m \in kinds : \E o \in kinds : /\ o.n = m.n
                                                     /\ o.t = "string" /\ m.t # "string"}}

scan_shared_writes(p) ==
    {st.l.n : st \in {s \in UNION {{p[f].body[i] : i \in DOMAIN p[f].body} : f \in DOMAIN p} :
                        s.op = "hash"}}

-----------------------------------------------------------------------------
(* The slot of an occurrence *)

Put(f, k, v) == [x \in DOMAIN f \cup {k} |-> IF x = k THEN v ELSE f[x]]
OrPut(f, k, v) == IF k \in DOMAIN f THEN f ELSE Put(f, k, v)
Known(a, n) == n \in DOMAIN a.symbols

Slot(st, n, t) == [st |-> st, n |-> n, t |-> t]
Local(n, t) == Slot("local", n, t)
checked_symbol(a, n) == Local(n, a.symbols[n])

shared_variable(a, n) ==
    Slot("shared", n, IF n \in DOMAIN a.shared THEN a.shared[n] ELSE "integer")

\* A bare name that is written as `#name` somewhere and has no entry here.
shared_read_symbol(a, n, s) ==
    s = "" /\ n \in a.shared_writes /\ ~Known(a, n) /\ n \notin DOMAIN a.arrays

symbol(a, n, s) ==
    LET vt == ref_value_type(n, s)
    IN  IF slot_name(a, n, s) \in a.shared_scalars THEN shared_variable(a, slot_name(a, n, s))
        ELSE IF shared_read_symbol(a, n, s) THEN shared_variable(a, n)
        ELSE IF n \in a.collisions THEN Local(slot_name(a, n, s), vt)
        ELSE IF ~Known(a, n) THEN Local(n, vt)
        ELSE IF s = "" \/ a.symbols[n] = vt THEN checked_symbol(a, n)
        ELSE Local(full_name(n, s), vt)

\* No test of the collisions, unlike symbol().
byref_symbol(a, n, s) ==
    LET vt == ref_value_type(n, s)
    IN  IF slot_name(a, n, s) \in a.shared_scalars THEN shared_variable(a, slot_name(a, n, s))
        ELSE IF ~Known(a, n) THEN Local(n, vt)
        ELSE IF a.symbols[n] = vt THEN checked_symbol(a, n)
        ELSE Local(full_name(n, s), vt)

\* A name with its suffix in it: its own entry, else the bare name's if that is a string.
auto_symbol(a, n) ==
    LET base == <<n[1], "">>
    IN  IF Known(a, n) THEN checked_symbol(a, n)
        ELSE IF n[2] = "$" /\ Known(a, base) /\ a.symbols[base] = "string"
        THEN checked_symbol(a, base)
        ELSE Local(n, from_suffix(n[2]))

array_access(o) == Slot("elem", o.n, "integer")
expr(a, o) == IF Elem(o) THEN array_access(o) ELSE symbol(a, o.n, o.s)

-----------------------------------------------------------------------------
(* Statements: the tables after it, and the items it becomes *)

Set(slot) == [k |-> "set", to |-> slot, from |-> None]
Copy(slot, from) == [k |-> "set", to |-> slot, from |-> from]
Out(a, items) == [an |-> a, items |-> items]

dimScalar(a, o, isShared) ==
    LET vt == from_suffix(o.s)
        sym_name == slot_name(a, o.n, o.s)
        b == [a EXCEPT !.symbols = Put(@, sym_name, vt),
                       !.shared_scalars = IF isShared THEN @ \cup {sym_name} ELSE @,
                       !.shared = IF isShared THEN Put(@, sym_name, vt) ELSE @]
    IN  Out(b, <<[k |-> "dim", to |-> Slot(IF isShared THEN "shared" ELSE "local", sym_name, vt)]>>)

\* The entry of an array is its full name, in both tables.
dimArray(a, o) ==
    LET n == full_name(o.n, o.s)
        vt == from_suffix(o.s)
    IN  Out([a EXCEPT !.arrays = Put(@, n, vt), !.symbols = Put(@, n, vt)],
            <<[k |-> "dim_array", to |-> Local(n, vt)]>>)

assignment(a, o) ==
    LET vt == from_suffix(o.s)
        b == [a EXCEPT !.symbols = OrPut(@, o.n, vt)]
        slot == slot_name(a, o.n, o.s)
        target == IF slot \in a.shared_scalars THEN Slot("shared", slot, vt)
                  ELSE IF o.n \in a.collisions THEN Local(slot, vt)
                  ELSE IF o.s = "" \/ b.symbols[o.n] = vt THEN checked_symbol(b, o.n)
                  ELSE Local(full_name(o.n, o.s), vt)
    IN  Out(b, <<Set(target)>>)

array_assignment(a, o) == Out(a, <<Set(array_access(o))>>)

\* x${i} = v: MID$ of the scalar x when the base is known as a string, else an
\* element of an array x$.
brace_assignment(a, o) ==
    LET slot == slot_name(a, o.n, o.s)
    IN  IF full_name(o.n, o.s) \in DOMAIN a.arrays \/ ~Known(a, o.n) THEN Out(a, <<>>)
        ELSE IF a.symbols[o.n] # "string" THEN Out(a, <<>>)
        ELSE Out(a, <<Set(IF slot \in a.shared_scalars THEN Slot("shared", slot, "string")
                          ELSE checked_symbol(a, o.n))>>)

\* x${i} read: ASC of MID$ of the scalar, resolved as x$ is.
string_byte_read(a, o) == Out(a, <<[k |-> "print", to |-> symbol(a, o.n, "$")]>>)

\* It is parsed as a call of x$: a scalar's byte if the base has an entry, a byte of an
\* array's element if only x$ has one, a call of nothing otherwise.
function_call(a, o) ==
    LET n == full_name(o.n, o.s)
    IN  IF n \notin DOMAIN a.arrays /\ Known(a, o.n) THEN string_byte_read(a, o)
        ELSE IF Known(a, n) /\ a.symbols[n] = "string"
        THEN Out(a, <<[k |-> "print", to |-> Slot("elem", n, "string")]>>)
        ELSE Out(a, <<>>)

shared_assignment(a, o) ==
    LET b == [a EXCEPT !.shared = OrPut(@, o.n, ref_value_type(o.n, o.s))]
    IN  Out(b, <<Set(Slot("shared", o.n, b.shared[o.n]))>>)

inc_dec(a, o) ==
    LET slot == slot_name(a, o.n, o.s)
        target == IF Known(a, o.n) THEN checked_symbol(a, o.n) ELSE Local(o.n, from_suffix(o.s))
    IN  Out(a, <<Set(IF slot \in a.shared_scalars THEN Slot("shared", slot, target.t) ELSE target)>>)

for_stmt(a, o) == Out(a, <<Set(Local(o.n, "integer"))>>)

read_stmt(a, o) ==
    LET b == [a EXCEPT !.symbols = OrPut(@, o.n, from_suffix(o.s))]
    IN  Out(b, <<Set(checked_symbol(b, o.n))>>)

call_arg(a, o) == Out(a, <<Set(byref_symbol(a, o.n, o.s))>>)
print_stmt(a, o) == Out(a, <<[k |-> "print", to |-> expr(a, o)]>>)

SwapSide(a, o) ==
    IF Elem(o) THEN array_access(o)
    ELSE IF SwapName(o) \in a.shared_scalars
    THEN Slot("shared", slot_name(a, SwapName(o), ""), from_suffix(o.s))
    ELSE auto_symbol(a, SwapName(o))

\* The temporary is read and never written: no item stores the left side in it.
SwapTemp == Local(<<"__swap_tmp", "">>, "integer")

swap_stmt(a, l, r) ==
    IF \A o \in {l, r} : ~Elem(o) /\ SwapName(o) \notin a.shared_scalars
    THEN Out(a, <<[k |-> "swap", to |-> auto_symbol(a, SwapName(l)),
                                 from |-> auto_symbol(a, SwapName(r))]>>)
    ELSE LET right_read == IF Elem(r) THEN array_access(r) ELSE symbol(a, SwapName(r), "")
         IN  Out(a, <<Copy(SwapSide(a, l), right_read), Copy(SwapSide(a, r), SwapTemp)>>)

statement(a, st) ==
    CASE st.op = "dim" -> dimScalar(a, st.l, FALSE)
      [] st.op = "shared" -> dimScalar(a, st.l, TRUE)
      [] st.op = "dim_array" -> dimArray(a, st.l)
      [] st.op = "assign" -> IF Elem(st.l) THEN array_assignment(a, st.l) ELSE assignment(a, st.l)
      [] st.op = "brace" -> brace_assignment(a, st.l)
      [] st.op = "byte" -> function_call(a, st.l)
      [] st.op = "hash" -> shared_assignment(a, st.l)
      [] st.op = "inc" -> inc_dec(a, st.l)
      [] st.op = "for" -> for_stmt(a, st.l)
      [] st.op = "read" -> read_stmt(a, st.l)
      [] st.op = "byref" -> call_arg(a, st.l)
      [] st.op = "swap" -> swap_stmt(a, st.l, st.r)
      [] st.op = "print" -> print_stmt(a, st.l)

\* A function starts with its parameters, the program's shared names, and the
\* collisions of its body (which the parameters do not count for).
function(a, f, p) ==
    [symbols |-> [n \in {o.n : o \in f.params} |->
                    from_suffix((CHOOSE o \in f.params : o.n = n).s)],
     arrays |-> <<>>,
     shared |-> a.shared,
     collisions |-> scan_body_collisions(f.body),
     shared_writes |-> scan_shared_writes(p),
     shared_scalars |-> {}]

-----------------------------------------------------------------------------
(* The items on the two engines' stores *)

ValueAt(store, key) == IF key \in DOMAIN store THEN store[key] ELSE 0
SlotKey(s) == <<s.st, s.n>>
CKey(s) == IF s.st = "local" THEN <<s.st, s.n, s.t = "string">> ELSE <<s.st, s.n>>

\* The interpreter swaps the shared slot of a name whenever there is one.
exec_swap(m, l, r) ==
    LET key(s) == IF <<"shared", s.n>> \in DOMAIN m THEN <<"shared", s.n>> ELSE SlotKey(s)
    IN  Put(Put(m, key(l), ValueAt(m, key(r))), key(r), ValueAt(m, key(l)))

exec_item(m, it, v) ==
    CASE it.k = "set" ->
            Put(m, SlotKey(it.to), IF it.from = None THEN v ELSE ValueAt(m, SlotKey(it.from)))
      [] it.k = "dim" -> IF it.to.st = "shared" THEN OrPut(m, SlotKey(it.to), 0)
                         ELSE Put(m, SlotKey(it.to), 0)
      [] it.k = "dim_array" -> Put(m, SlotKey(it.to), 0)
      [] it.k = "swap" -> exec_swap(m, it.to, it.from)
      [] OTHER -> m

emit_swapNoTemp(m, l, r) == Put(m, CKey(l), ValueAt(m, CKey(r)))

emit_swap(m, l, r) ==
    Put(Put(m, CKey(l), ValueAt(m, CKey(r))), CKey(r), ValueAt(m, CKey(l)))

\* A C declaration is hoisted: DIM stores nothing.
emit_item(m, it, v) ==
    CASE it.k = "set" ->
            Put(m, CKey(it.to), IF it.from = None THEN v ELSE ValueAt(m, CKey(it.from)))
      [] it.k = "swap" -> emit_swap(m, it.to, it.from)
      [] OTHER -> m

\* A statement is two items at most.
RunSlots(m, items, v) ==
    CASE Len(items) = 0 -> m
      [] Len(items) = 1 -> exec_item(m, items[1], v)
      [] OTHER -> exec_item(exec_item(m, items[1], v), items[2], v)

RunC(m, items, v) ==
    CASE Len(items) = 0 -> m
      [] Len(items) = 1 -> emit_item(m, items[1], v)
      [] OTHER -> emit_item(emit_item(m, items[1], v), items[2], v)

-----------------------------------------------------------------------------
(* The reference: one variable per spelling, shared if the function says so *)

Declared(o) == \E i \in 1 .. pc - 1 : Body[i].op = "shared" /\ Body[i].l = o

Variable(o) ==
    IF Elem(o) THEN <<"elem", o.n>>
    ELSE <<IF o.h \/ Declared(o) THEN "shared" ELSE "local", o.n[1], IsText(o), o.h>>

Stores == {"assign", "brace", "hash", "inc", "for", "read", "byref"}
Shows == {"print", "byte"}

RefStep(st, v) ==
    LET l == Variable(st.l)
    IN  CASE st.op = "dim" -> Put(ref, l, 0)
          [] st.op \in Stores -> Put(ref, l, v)
          [] st.op = "swap" -> LET r == Variable(st.r)
                               IN  Put(Put(ref, l, ValueAt(ref, r)), r, ValueAt(ref, l))
          [] OTHER -> ref

-----------------------------------------------------------------------------
(* Known departures, at the statement where they begin *)

Uses(f) ==
    f.params \cup UNION {Operands(f.body[i]) : i \in {j \in DOMAIN f.body : f.body[j].op # "dim_array"}}

\* The base is used both as a string and as a number.
Mixed(f, n) == \E o, p \in Uses(f) : o.n = n /\ p.n = n /\ o.s = "$" /\ p.s = ""

Shares(f) == {f.body[i].l : i \in {j \in DOMAIN f.body : f.body[j].op = "shared"}}

\* One shared spelling with two slots, or two spellings with one.
SharedClash(o) ==
    \E f \in 1 .. fn - 1 : \E p \in Shares(prog[f]) :
        /\ p.n = o.n
        /\ IF p = o THEN IsText(o) /\ Mixed(prog[f], o.n) # Mixed(prog[fn], o.n)
           ELSE (IsText(o) /\ ~Mixed(prog[fn], o.n)) \/ (IsText(p) /\ ~Mixed(prog[f], o.n))

\* The spelling has had a value or a declaration in this function.
Introduced(o) ==
    \/ o \in prog[fn].params
    \/ \E i \in 1 .. pc - 1 : Body[i].l = o /\ Body[i].op \in {"assign", "dim", "shared"}

HashNames == {o.n : o \in {u \in UNION {Uses(prog[f]) : f \in DOMAIN prog} : u.h}}

SharedSomewhere(n) ==
    n \in HashNames \/ \E f \in DOMAIN prog : \E o \in Shares(prog[f]) : o.n = n

Reason(on, r) == IF on THEN {r} ELSE {}

Departure(st, engine) ==
    LET o == st.l
        mixed == \E x \in Operands(st) : Mixed(prog[fn], x.n)
        declared == \E x \in Operands(st) : Declared(x)
    IN  Excused \cap UNION
          {Reason(st.op = "byref" /\ mixed /\ IsText(o), "byref"),
           Reason(st.op = "read" /\ (mixed \/ declared), "read"),
           Reason(st.op = "for" /\ declared, "for"),
           Reason(st.op = "inc" /\ mixed /\ engine = "c", "inc"),
           Reason(st.op = "brace" /\ mixed, "brace"),
           Reason(st.op \in {"brace", "byte"} /\ ~Introduced(o), "array"),
           Reason(st.op = "byte" /\ mixed /\ declared, "array"),
           Reason(st.op = "dim_array" /\ (\E x \in Uses(prog[fn]) : x.n = o.n), "array"),
           Reason(st.op = "swap" /\ (mixed \/ \E x \in Operands(st) : IsText(x) /\ ~Introduced(x)),
                  "swap suffix"),
           Reason(st.op = "swap" /\ (declared \/ \E x \in Operands(st) : Elem(x)), "swap"),
           Reason(st.op = "swap" /\ engine = "interp" /\ \E x \in Operands(st) : SharedSomewhere(x.n),
                  "swap shared"),
           Reason(st.op = "shared" /\ SharedClash(o), "shared"),
           Reason(\E x \in Operands(st) : ~x.h /\ x.n \in HashNames, "hash")}

ParamDeparture(f) == IF \E o \in f.params : Mixed(f, o.n) THEN {"param"} \cap Excused ELSE {}

-----------------------------------------------------------------------------
NoAnalysis == [symbols |-> <<>>, arrays |-> <<>>, shared |-> <<>>, collisions |-> {},
               shared_writes |-> {}, shared_scalars |-> {}]

\* A parameter's slot has the parameter's name without its suffix; the caller
\* passes a value of its own, here 99.
Argument == 99
Bind(store, keys) ==
    [k \in keys \cup {j \in DOMAIN store : j[1] = "shared"} |->
        IF k \in keys THEN Argument ELSE store[k]]

\* A scalar is declared once in a function, as a parameter or before its other uses.
DeclaredFirst(ps, body) ==
    \A j \in DOMAIN body :
        body[j].op \in {"dim", "shared"} =>
            /\ body[j].l \notin ps
            /\ \A i \in 1 .. j - 1 : body[j].l \notin Operands(body[i])

\* A family's programs: a function of at most n statements out of first with one of
\* the parameter sets and, if m > 0, another of at most m statements out of second.
Init ==
    /\ \E fam \in Families : \E ps \in fam.params : \E k \in 1 .. fam.n :
       \E b \in [1 .. k -> fam.first] : \E l \in 0 .. fam.m : \E d \in [1 .. l -> fam.second] :
          /\ DeclaredFirst(ps, b) /\ DeclaredFirst({}, d)
          /\ prog = <<[params |-> ps, body |-> b], [params |-> {}, body |-> d]>>
    /\ fn = 0 /\ pc = 1
    /\ an = NoAnalysis
    /\ slots = <<>> /\ cvars = <<>> /\ ref = <<>>
    /\ shown = [interp |-> 0, c |-> 0, ref |-> 0]
    /\ why = [interp |-> {}, c |-> {}]

\* The entry calls the functions one after the other.
Enter ==
    /\ fn < Len(prog)
    /\ fn > 0 => pc > Len(prog[fn].body)
    /\ LET f == prog[fn + 1]
       IN  /\ an' = function(an, f, prog)
           /\ slots' = Bind(slots, {<<"local", o.n>> : o \in f.params})
           /\ cvars' = Bind(cvars, {<<"local", o.n, IsText(o)>> : o \in f.params})
           /\ ref' = Bind(ref, {<<"local", o.n[1], IsText(o), FALSE>> : o \in f.params})
           /\ why' = [e \in DOMAIN why |-> why[e] \cup ParamDeparture(f)]
    /\ fn' = fn + 1 /\ pc' = 1
    /\ UNCHANGED <<prog, shown>>

Analyse ==
    /\ fn > 0 /\ pc <= Len(prog[fn].body)
    /\ LET st == Body[pc]
           out == statement(an, st)
           v == 10 * fn + pc
           print == Len(out.items) > 0 /\ out.items[1].k = "print"
       IN  /\ an' = out.an
           /\ slots' = RunSlots(slots, out.items, v)
           /\ cvars' = RunC(cvars, out.items, v)
           /\ ref' = RefStep(st, v)
           /\ shown' = IF st.op \notin Shows THEN shown
                       ELSE [interp |-> IF print THEN ValueAt(slots, SlotKey(out.items[1].to)) ELSE 0,
                             c |-> IF print THEN ValueAt(cvars, CKey(out.items[1].to)) ELSE 0,
                             ref |-> ValueAt(ref, Variable(st.l))]
           /\ why' = [e \in DOMAIN why |-> why[e] \cup Departure(st, e)]
    /\ pc' = pc + 1
    /\ UNCHANGED <<prog, fn>>

Next == Enter \/ Analyse

Spec == Init /\ [][Next]_vars

-----------------------------------------------------------------------------
\* In the interpreter a name shows the value last stored under the same spelling,
\* by whatever statement (assignment, READ, FOR, INC, SWAP, a by-reference call, a
\* SHARED name in another function), and no other spelling disturbs it.
InterpreterKeepsNames == why.interp = {} => shown.interp = shown.ref

\* The same of the C program, whose variables are told apart by name and by string or
\* number.
CProgramKeepsNames == why.c = {} => shown.c = shown.ref

=============================================================================
