----------------------------- MODULE MCSearch ------------------------------
(* Model checking Search: four printings of three cards, two of them tied in name and number. *)
EXTENDS Search, TLC

MCRegistry ==
    (<<"x">> :> <<"energy_type">>) @@ (<<"is">> :> <<"is_flag">>)
    @@ [k \in {<<w>> : w \in {"energy_type", "supertype", "price", "qty", "status", "is_flag",
                             "order", "direction"}} |-> k]
MCLetters == {"x", "y", "or", "and", "is"} \cup {k[1] : k \in DOMAIN MCRegistry}
             \cup {"missing", "owned", "dupe", "sold", "asc", "desc", "name", "number", "set"}

MCCard == <<
    [name |-> <<"x">>, rank |-> 1, types |-> <<"x">>, supertype |-> <<"y">>, number |-> 1, release |-> 1, set |-> 1],
    [name |-> <<"x">>, rank |-> 1, types |-> <<"x">>, supertype |-> <<"y">>, number |-> 1, release |-> 1, set |-> 1],
    [name |-> <<"x", "y">>, rank |-> 2, types |-> Null, supertype |-> Null, number |-> 1, release |-> 1, set |-> 2],
    [name |-> <<"y">>, rank |-> 3, types |-> <<"y">>, supertype |-> <<"y">>, number |-> 2, release |-> 2, set |-> 3]>>

MCTypeable == {<<c>> : c \in {"x", "1", "or", "-", ":", " ", "(", ")", "!", Quote}}
              \cup {<<" ", "or", " ">>, <<" ", "and", " ">>}

MCNumerals == (<<"1">> :> 1) @@ (<<"2">> :> 2)

MCStocks == {
    [listed |-> 1..4, price |-> <<1, Null, 2, Null>>,
     copies |-> <<{"owned"}, {"owned", "sold"}, {"owned"}, {}>>],
    [listed |-> 1..3, price |-> <<1, 1, Null, Null>>,
     copies |-> <<{"sold"}, {"owned"}, {}, {}>>]}

Asks(query, sort, dir, wide) == [query |-> query, sort |-> sort, dir |-> dir, wide |-> wide]
Cmp(k, r, v) == Compare(<<k>>, r, <<v>>)

MCRequests == {
    Asks(Null, Null, Null, FALSE),
    Asks(Null, <<"price">>, <<"desc">>, TRUE),
    Asks(And(<<NameSearch(<<"x">>), Cmp("order", ":", "price")>>), Null, Null, TRUE),
    Asks(And(<<Cmp("order", ":", "qty"), Cmp("direction", ":", "desc")>>), Null, Null, TRUE),
    Asks(Or(<<Cmp("is_flag", ":", "missing"), Cmp("supertype", "!=", "y")>>), <<"set">>, <<"desc">>, FALSE),
    Asks(Not(Cmp("energy_type", ":", "y")), <<"number">>, Null, TRUE),
    Asks(Cmp("status", "!=", "sold"), Null, Null, FALSE),
    Asks(And(<<Cmp("price", ">=", "1"), ExactName(<<"x">>)>>), Null, <<"desc">>, FALSE)}
=============================================================================
