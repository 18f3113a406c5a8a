------------------------------- MODULE MCNames -------------------------------
(* Programs for Names: every sequence, up to a length, of a family of            *)
(* statements, in one function with or without a parameter, or in two functions. *)
EXTENDS Names

Num(b) == [n |-> <<b, "">>, s |-> "", h |-> FALSE]
Text(b) == [n |-> <<b, "">>, s |-> "$", h |-> FALSE]
HashNum(b) == [n |-> <<b, "">>, s |-> "", h |-> TRUE]
HashText(b) == [n |-> <<b, "$">>, s |-> "", h |-> TRUE]
Element == [n |-> <<"a", "">>, s |-> "[]", h |-> FALSE]

Do(op, o) == [op |-> op, l |-> o, r |-> None]
Swap(o, p) == [op |-> "swap", l |-> o, r |-> p]
All(ops, os) == {Do(op, o) : op \in ops, o \in os}

Mixes == All({"assign", "print", "byref"}, {Num("x"), Text("x")}) \cup
         {Do("read", Num("x")), Do("for", Num("x")), Do("inc", Num("x")),
          Do("brace", Text("x")), Do("byte", Text("x"))}
Heads == All({"dim"}, {Num("x"), Text("x")}) \cup All({"dim_array"}, {Num("x"), Text("x")})
Swaps == All({"assign", "print"}, {Num("x"), Text("x"), Num("y"), Text("y"), Element}) \cup
         {Swap(Num("x"), Num("y")), Swap(Text("x"), Text("y")), Swap(Num("x"), Element)}
Globals == All({"shared", "assign", "print"}, {Num("x"), Text("x")})
GlobalUses == All({"shared", "print"}, {Num("x")}) \cup
              {Do("inc", Num("x")), Do("read", Num("x")), Do("for", Num("x")), Do("byref", Num("x")),
               Swap(Num("x"), Num("y")), Do("print", Num("y"))}
Hashes == All({"hash", "print"}, {HashNum("x"), HashText("x")}) \cup
          All({"assign", "print"}, {Num("x"), Text("x")})

Family(ps, first, n, second, m) == [params |-> ps, first |-> first, n |-> n, second |-> second, m |-> m]

MCFamilies ==
    {Family({{}}, Mixes \cup Heads, 4, {}, 0),
     Family({{Num("x")}, {Text("x")}}, Mixes, 3, {}, 0),
     Family({{}}, Swaps, 4, {}, 0),
     Family({{}}, Globals, 2, Globals, 4),
     Family({{}}, Globals, 2, GlobalUses, 3),
     Family({{}}, Hashes, 2, Hashes, 2)}

Everything == {"byref", "read", "for", "inc", "brace", "array", "swap", "swap suffix",
               "swap shared", "shared", "hash", "param"}
AllButSwap == Everything \ {"swap"}
=============================================================================
