------------------------------- MODULE Search -------------------------------
(***************************************************************************)
(* pkdump-db/src/search.rs: a query compiled to a WHERE clause and an      *)
(* ORDER BY.  Its result is read as Walk says: Written, Compile and Holds  *)
(* there stand for typed, compile and compile_node here.                   *)
(***************************************************************************)
EXTENDS Query, Walk

CONSTANT Numerals   \* the texts that are numbers

-----------------------------------------------------------------------------
(* Compilation.  Truth is SQL's: 0 false, 1 NULL, 2 true.                   *)

Bool(b) == IF b THEN 2 ELSE 0
Known(v, b) == IF v = Null THEN 1 ELSE Bool(b)
Negated(t) == 2 - t

Occurs(t, s) == \E i \in 0..(Len(s) - Len(t)) : SubSeq(s, i + 1, i + Len(t)) = t

Rel(r, x, y) ==
    CASE r \in {":", "="} -> x = y
      [] r = "!=" -> x # y
      [] r = "<"  -> x < y
      [] r = ">"  -> x > y
      [] r = "<=" -> x <= y
      [] r = ">=" -> x >= y

numeric(r, v, t) ==
    IF t \notin DOMAIN Numerals THEN 0 ELSE IF v = Null THEN 1 ELSE Bool(Rel(r, v, Numerals[t]))

exists_copy(row, S) == Bool(row.copies \cap S # {})

is_flag(row, t) ==
    CASE t = <<"missing">> -> Bool(owned_count(row) = 0)
      [] t = <<"owned">>   -> Bool(owned_count(row) > 0)
      [] t = <<"dupe">>    -> Bool(owned_count(row) >= 2)
      [] OTHER             -> 0

\* Three ways a column is compared: with its NULLs, without them, and through the copies.
compile_comparison(c, row) ==
    LET card == Card[row.printing]
        equal == Known(card.types, card.types = c.value)
    IN  CASE c.keyword = <<"energy_type">> -> IF c.rel = "!=" THEN Negated(equal) ELSE equal
          [] c.keyword = <<"supertype">> ->
                IF c.rel = "!=" THEN Bool(card.supertype # c.value)
                ELSE Known(card.supertype, card.supertype = c.value)
          [] c.keyword = <<"price">>  -> numeric(c.rel, row.price, c.value)
          [] c.keyword = <<"qty">>    -> numeric(c.rel, owned_count(row), c.value)
          [] c.keyword = <<"status">> ->
                exists_copy(row, {s \in CopyStatuses : (<<s>> = c.value) # (c.rel = "!=")})
          [] c.keyword = <<"is_flag">> -> is_flag(row, c.value)
          [] OTHER -> 0

RECURSIVE compile_node(_, _)
compile_node(a, row) ==
    CASE a.op = "name"  -> Bool(Occurs(a.text, Card[row.printing].name))
      [] a.op = "exact" -> Bool(Card[row.printing].name = a.text)
      [] a.op = "cmp"   -> compile_comparison(a, row)
      [] a.op = "not"   -> Negated(compile_node(a.arg, row))
      [] a.op = "and"   -> Min({compile_node(a.args[i], row) : i \in DOMAIN a.args})
      [] a.op = "or"    -> Max({compile_node(a.args[i], row) : i \in DOMAIN a.args})

\* The comparisons of a tree, wherever they stand.
RECURSIVE Comparisons(_)
Comparisons(a) ==
    CASE a.op = "cmp" -> {a}
      [] a.op = "not" -> Comparisons(a.arg)
      [] a.op \in {"and", "or"} -> UNION {Comparisons(a.args[i]) : i \in DOMAIN a.args}
      [] OTHER -> {}

IsModifier(a) == a.op = "cmp" /\ a.keyword \in {<<"order">>, <<"direction">>}

\* order: and direction: are taken out of a conjunction, and of nothing else.
RECURSIVE Modifiers(_), Stripped(_)
Modifiers(a) ==
    IF IsModifier(a) THEN <<a>>
    ELSE IF a.op = "and" THEN FlattenSeq([i \in DOMAIN a.args |-> Modifiers(a.args[i])])
    ELSE <<>>

Stripped(a) ==
    IF IsModifier(a) THEN <<>>
    ELSE IF a.op # "and" THEN <<a>>
    ELSE LET kept == FlattenSeq([i \in DOMAIN a.args |-> Stripped(a.args[i])])
         IN  IF kept = <<>> THEN <<>> ELSE <<Together(kept)>>

LastOf(mods, keyword, default) ==
    LET own == SelectSeq(mods, LAMBDA m : m.keyword = keyword)
    IN  IF own = <<>> THEN default ELSE Last(own).value

Mentioned(where) == UNION {Comparisons(where[i]) : i \in DOMAIN where}

Compiled(r, where, mods) ==
    [where |-> where,
     catalog_wide |-> r.wide \/ \E c \in Mentioned(where) :
                                  c.keyword = <<"is_flag">> /\ c.value \in {<<"missing">>, <<"owned">>},
     has_status_filter |-> \E c \in Mentioned(where) : c.keyword = <<"status">>,
     order_by |-> IF r.sort = Null THEN LastOf(mods, <<"order">>, <<"name">>) ELSE r.sort,
     desc |-> (IF r.dir = Null THEN LastOf(mods, <<"direction">>, <<"asc">>) ELSE r.dir) = <<"desc">>]

\* The tree of a request, if its query is not empty, compiled; a sort the request names outranks order:.
compile_tree(r, tree) ==
    Compiled(r, FlattenSeq([i \in DOMAIN tree |-> Stripped(tree[i])]),
                FlattenSeq([i \in DOMAIN tree |-> Modifiers(tree[i])]))

compile(r) == compile_tree(r, IF r.query = Null THEN <<>> ELSE <<parse(Write(r.query)).ast>>)

\* What the query box holds when a request is sent.
typed(r) == IF r.query = Null THEN <<>> ELSE <<Write(r.query)>>

-----------------------------------------------------------------------------
(* Properties. *)

\* The parser accepts what the grammar can read and nothing else, reads it in the only way there is, and
\* reads every tree back from its fully quoted and grouped form (lexer.rs, parser.rs).
Understood ==
    LET read(ts, got, again) ==
            /\ Lexes(ts) => AsQuery(ts) = IF got.ok THEN {got.ast} ELSE {}
            /\ got.ok => again.ok /\ again.ast = got.ast
        from(got) == read(tokenize(FlattenSeq(text)), got, parse(Write(got.ast)))
    IN  from(parse(FlattenSeq(text)))

=============================================================================
