------------------------------ MODULE MCTextIr ------------------------------
(***************************************************************************)
(* The text IR on every kind of expression, with string literals that hold *)
(* the separators of the lines they stand in, and on blocks nested in      *)
(* blocks.                                                                 *)
(***************************************************************************)
EXTENDS TextIr

Strings == {<<>>, <<"hi">>, <<"(">>, <<")">>, <<",">>, <<";">>, <<Q>>, <<BS>>, <<BS, Q, ")">>, <<"NL">>,
            <<" ", "=", " ">>, <<"]", " ", "=", " ">>, <<" ", "|", " ">>, <<" ", "to", " ">>,
            <<" ", "TO", " ">>}

Atoms == {StringLiteral(v) : v \in Strings}
         \cup {Symbol("x", t) : t \in {"integer", "giant", "float", "string"}}
         \cup {IntegerLiteral("1", FALSE), IntegerLiteral("3000000000", TRUE), FloatLiteral("1.5"),
               SharedVariable("g", "string"), Constant("K", <<"7">>, "integer"),
               Constant("K$", <<"(", Q>>, "string"), OfSymbol("array_ubound", "v", "float"),
               OfSymbol("size_of", "x", "string"), OfName("funcaddr", "F"), OfName("label_addr", "L"),
               SizeOfType("float")}

Leaves == {Symbol("x", t) : t \in {"integer", "giant", "float", "string"}}
          \cup {StringLiteral(<<")">>), IntegerLiteral("1", FALSE)}

Pairs(l, r) == {arithmetic(op, l, r) : op \in Range(arith_ops)}
               \cup {comparison(op, l, r) : op \in Range(cmp_ops)}
               \cup {boolean(op, l, r) : op \in {"and", "or", "xor", "land", "lor", "lxor"}}

Compound(e) == {type_conversion(n, e) : n \in conversions}
               \cup {not_expr(e), unary("neg", e), unary("pos", e), function_call("F", <<e, e>>, "integer"),
                function_call("F", <<>>, "string"), ArrayAccess("v", "string", <<e>>),
                ArrayAccess("v", "float", <<IntegerLiteral("1", FALSE), e>>)}
               \cup {builtin_call("LEN", <<e>>), builtin_call("SQRT", <<e>>),
                      builtin_call("LEFT$", <<e, IntegerLiteral("1", FALSE)>>)}
               \cup (IF e.k = "symbol" THEN {ByRef(e)} ELSE {})

Two == UNION {Pairs(l, r) : l, r \in Leaves} \cup UNION {Compound(e) : e \in Atoms}
Three == UNION {Pairs(arithmetic(<<"+">>, l, l), r) \cup Pairs(l, ArrayAccess("v", "float", <<r, r>>))
                : l, r \in Leaves}
         \cup UNION {Compound(arithmetic(<<"/">>, l, l)) : l \in Leaves}

MCExprs == Atoms \cup Two \cup Three
MCFew == {IntegerLiteral("1", FALSE), StringLiteral(<<",">>)}

Lone(k, x) == Item(k, x, <<>>, <<>>, {}, <<>>)
MCBodies ==
    {<<>>,
     <<Lone("version", <<"0.1">>), Lone("program_name", <<"p">>)>>,
     <<Lone("version", <<>>), Lone("print", <<>>), Lone("restore", <<>>), Lone("restore", <<"L">>)>>,
     <<Lone("gosub", <<"L">>), Lone("label", <<"L">>), Lone("goto", <<"L">>), Lone("gosub_return", <<>>)>>,
     <<Lone("exit_loop", <<>>), Lone("exit_select", <<>>), Lone("stop", <<>>), Lone("return", <<>>)>>,
     <<Item("dim", <<>>, <<Sym("v", "giant")>>, <<>>, {"shared"}, <<>>),
       Item("dim", <<>>, <<Sym("v", "giant")>>, <<>>, {"array"}, <<>>),
       Item("swap", <<>>, <<Sym("v", "giant"), Sym("w", "string")>>, <<>>, {}, <<>>),
       Item("read", <<>>, <<Sym("v", "giant"), Sym("w", "string")>>, <<>>, {}, <<>>)>>,
     <<Item("const", <<")", Q, " ", "=", " ">>, <<Sym("K$", "string")>>, <<>>, {}, <<>>),
       Item("const", <<"7">>, <<Sym("K", "integer")>>, <<>>, {}, <<>>),
       Item("return", <<>>, <<>>, <<IntegerLiteral("1", FALSE)>>, {}, <<>>)>>}

MCDataLists == {<<>>, <<[tag |-> "i", val |-> <<"1">>], [tag |-> "s", val |-> <<"a", ":", "b">>]>>,
                <<[tag |-> "s", val |-> <<"a", " ", "b">>]>>}

=============================================================================
