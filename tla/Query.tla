------------------------------- MODULE Query -------------------------------
(***************************************************************************)
(* The search language: what pkdump-core/src/query makes of a line of      *)
(* text, and the grammar it is meant to accept (SEARCH_QUERY_LANGUAGE.md,  *)
(* section 3).  A text is a sequence of characters; a run of letters that  *)
(* is never split is one of them, so "or" is a character here.  Positions  *)
(* of errors are left out.                                                 *)
(***************************************************************************)
EXTENDS Integers, Sequences, SequencesExt

CONSTANTS Letters,   \* what begins an identifier; "or" and "and" among them
          Digits,    \* what may stand in it after that
          Ops,       \* the comparison operators
          Registry   \* the keyword a word stands for: KeywordRegistry::resolve

Quote == "\""

-----------------------------------------------------------------------------
(* The lexer. *)

Upto(s, Stops(_)) ==
    LET i == SelectInSeq(s, Stops) IN IF i = 0 THEN s ELSE SubSeq(s, 1, i - 1)

EndsWord(c) == c \in {" ", "(", ")"}
EndsValue(c) == c \in {" ", ")"}
EndsIdent(c) == c \notin Letters \cup Digits
Closes(c) == c = Quote

\* A piece of text that has been read: what it says, and how many characters it took.
Run(text) == [closed |-> TRUE, text |-> text, len |-> Len(text)]

read_quoted(s) ==
    LET text == Upto(Tail(s), Closes)
    IN  [closed |-> Len(text) + 1 < Len(s), text |-> text, len |-> Len(text) + 2]

read_until_break(s) == Run(Upto(s, EndsWord))

AtQuote(s) == s # <<>> /\ Head(s) = Quote

read_value(s) == IF AtQuote(s) THEN read_quoted(s) ELSE Run(Upto(s, EndsValue))

read_ident(s) == Upto(s, EndsIdent)

\* The word at the head of s is followed by an operator, with nothing between.
StartsKeyword(s) ==
    /\ Head(s) \in Letters
    /\ LET n == Len(read_ident(s)) IN n < Len(s) /\ s[n + 1] \in Ops

\* Mutant: a dash before a group is a word.
LeadsNoGroup(s) == s # <<>> /\ Head(s) \in Letters \cup {Quote}

\* A dash negates what it leads: a word, a keyword, a quoted word or a group.
Leads(s) == s # <<>> /\ Head(s) \in Letters \cup {"(", Quote}

Token(kind, run) ==
    [toks |-> <<[kind |-> IF run.closed THEN kind ELSE "unterminated", text |-> run.text]>>,
     len |-> run.len]
Mark(kind) == [toks |-> <<[kind |-> kind, text |-> <<>>]>>, len |-> 1]

Compared(name, rel, value) ==
    [toks |-> <<[kind |-> "keyword", text |-> name, rel |-> rel]>> \o Token("value", value).toks,
     len |-> Len(name) + 1 + value.len]

Comparison(s) ==
    LET n == Len(read_ident(s)) + 1
    IN  Compared(SubSeq(s, 1, n - 1), s[n], read_value(SubSeq(s, n + 1, Len(s))))

Exact(s) ==
    [Token("exact", IF AtQuote(Tail(s)) THEN read_quoted(Tail(s)) ELSE read_until_break(Tail(s)))
        EXCEPT !.len = @ + 1]

\* The tokens at the head of a text that does not begin with a space.
Lexeme(s) ==
    CASE Head(s) \in {"(", ")"}               -> Mark(Head(s))
      [] Head(s) = "!"                        -> Exact(s)
      [] Head(s) = "-" /\ Leads(Tail(s))      -> Mark("negate")
      [] AtQuote(s)                           -> Token("word", read_quoted(s))
      [] StartsKeyword(s)                     -> Comparison(s)
      [] OTHER                                -> Token("word", read_until_break(s))

RECURSIVE tokenize(_), Lexed(_, _)
tokenize(s) ==
    IF s = <<>> THEN <<>>
    ELSE IF Head(s) = " " THEN tokenize(Tail(s))
    ELSE Lexed(Lexeme(s), s)

Lexed(next, s) == next.toks \o tokenize(SubSeq(s, next.len + 1, Len(s)))

Lexes(ts) == \A i \in DOMAIN ts : ts[i].kind # "unterminated"

-----------------------------------------------------------------------------
(* Trees. *)

NameSearch(t) == [op |-> "name", text |-> t]
ExactName(t) == [op |-> "exact", text |-> t]
Compare(k, r, v) == [op |-> "cmp", keyword |-> k, rel |-> r, value |-> v]
Not(a) == [op |-> "not", arg |-> a]
And(as) == [op |-> "and", args |-> as]
Or(as) == [op |-> "or", args |-> as]

\* Alternatives after a first one; a first one that is a group of alternatives is taken apart.
OrElse(a, b) == Or((IF a.op = "or" THEN a.args ELSE <<a>>) \o <<b>>)
Together(as) == IF Len(as) = 1 THEN as[1] ELSE And(as)

Leaf(t) ==
    IF t.kind = "exact" THEN ExactName(t.text) ELSE NameSearch(t.text)

-----------------------------------------------------------------------------
(* The parser: what is left of the tokens, and the tree so far. *)

is_word(ts, w) == ts # <<>> /\ Head(ts).kind = "word" /\ Head(ts).text = <<w>>
Is(ts, kind) == ts # <<>> /\ Head(ts).kind = kind

Fails == [ok |-> FALSE]
Got(ast, rest) == [ok |-> TRUE, ast |-> ast, rest |-> rest]

parse_comparison(ts) ==
    IF Is(Tail(ts), "value") /\ Head(ts).text \in DOMAIN Registry
    THEN Got(Compare(Registry[Head(ts).text], Head(ts).rel, ts[2].text), SubSeq(ts, 3, Len(ts)))
    ELSE Fails

Negation(a) == IF a.ok THEN Got(Not(a.ast), a.rest) ELSE a
Group(a) == IF a.ok /\ Is(a.rest, ")") THEN Got(a.ast, Tail(a.rest)) ELSE Fails

RECURSIVE parse_or(_), or_rest(_), or_next(_, _), parse_and(_), and_rest(_, _), and_next(_, _), parse_atom(_)

parse_or(ts) == or_rest(parse_and(ts))

or_rest(left) ==
    IF ~left.ok \/ ~is_word(left.rest, "or") THEN left
    ELSE or_next(left, parse_and(Tail(left.rest)))

or_next(left, right) ==
    IF right.ok THEN or_rest(Got(OrElse(left.ast, right.ast), right.rest)) ELSE right

parse_and(ts) == and_next(<<>>, parse_atom(ts))

and_next(children, next) ==
    IF next.ok THEN and_rest(Append(children, next.ast), next.rest) ELSE next

and_rest(children, ts) ==
    IF ts = <<>> \/ Is(ts, ")") \/ is_word(ts, "or") THEN Got(Together(children), ts)
    ELSE IF is_word(ts, "and") THEN and_rest(children, Tail(ts))
    ELSE and_next(children, parse_atom(ts))

parse_atom(ts) ==
    CASE Is(ts, "negate")  -> Negation(parse_atom(Tail(ts)))
      [] Is(ts, "(")       -> Group(parse_or(Tail(ts)))
      [] Is(ts, "keyword") -> parse_comparison(ts)
      [] ts = <<>> \/ Is(ts, ")") -> Fails
      [] OTHER             -> Got(Leaf(Head(ts)), Tail(ts))

\* The whole text, and nothing left of it.
Whole(a) == IF a.ok /\ a.rest = <<>> THEN a ELSE Fails
parse_tokens(ts) == IF ts # <<>> /\ Lexes(ts) THEN Whole(parse_or(ts)) ELSE Fails
parse(s) == parse_tokens(tokenize(s))

-----------------------------------------------------------------------------
(* The grammar, as the set of trees a sequence of tokens can be read as.  Beside what section 3   *)
(* says, connectors may stand idle: "and" twice, or at the end of a clause.                        *)

Connects(t, w) == t.kind = "word" /\ t.text = <<w>>

RECURSIVE AsAtom(_), AsFactors(_), AsClause(_), AsQuery(_)

AsAtom(ts) ==
    LET n == Len(ts)
    IN  (IF n = 1 /\ ts[1].kind \in {"word", "exact"} THEN {Leaf(ts[1])} ELSE {})
        \cup (IF n = 2 /\ ts[1].kind = "keyword" /\ ts[1].text \in DOMAIN Registry
              THEN {Compare(Registry[ts[1].text], ts[1].rel, ts[2].text)} ELSE {})
        \cup (IF n > 1 /\ ts[1].kind = "negate" THEN {Not(a) : a \in AsAtom(Tail(ts))} ELSE {})
        \cup (IF n > 2 /\ ts[1].kind = "(" /\ ts[n].kind = ")" THEN AsQuery(SubSeq(ts, 2, n - 1)) ELSE {})

\* The atoms that follow the first: none of them begins with a connector.
AsFactors(ts) ==
    IF ts = <<>> THEN {<<>>}
    ELSE IF Connects(ts[1], "and") THEN AsFactors(Tail(ts))
    ELSE IF Connects(ts[1], "or") THEN {}
    ELSE UNION {{<<a>> \o as : a \in AsAtom(SubSeq(ts, 1, k)), as \in AsFactors(SubSeq(ts, k + 1, Len(ts)))} :
                k \in 1..Len(ts)}

AsClause(ts) ==
    UNION {{Together(<<a>> \o as) : a \in AsAtom(SubSeq(ts, 1, k)), as \in AsFactors(SubSeq(ts, k + 1, Len(ts)))} :
           k \in 1..Len(ts)}

AsQuery(ts) ==
    AsClause(ts)
    \cup UNION {{OrElse(a, b) : a \in AsQuery(SubSeq(ts, 1, k - 1)), b \in AsClause(SubSeq(ts, k + 1, Len(ts)))} :
                k \in {i \in 2..(Len(ts) - 1) : Connects(ts[i], "or")}}

-----------------------------------------------------------------------------
(* A tree written out, everything quoted and grouped. *)

InQuotes(t) == IF Quote \in Range(t) THEN t ELSE <<Quote>> \o t \o <<Quote>>
InGroup(s) == <<"(">> \o s \o <<")">>

RECURSIVE Write(_)
Write(a) ==
    CASE a.op = "name"  -> IF a.text \in {<<"or">>, <<"and">>} THEN InGroup(a.text) ELSE InQuotes(a.text)
      [] a.op = "exact" -> <<"!">> \o InQuotes(a.text)
      [] a.op = "cmp"   -> a.keyword \o <<a.rel>> \o InQuotes(a.value)
      [] a.op = "not"   -> <<"-">> \o InGroup(Write(a.arg))
      [] a.op = "and"   -> FlattenSeq([i \in DOMAIN a.args |-> InGroup(Write(a.args[i]))])
      [] a.op = "or"    -> FlattenSeq([i \in DOMAIN a.args |->
                               (IF i = 1 THEN <<>> ELSE <<" ", "or", " ">>) \o InGroup(Write(a.args[i]))])

=============================================================================
