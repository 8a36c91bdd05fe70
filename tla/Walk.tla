-------------------------------- MODULE Walk --------------------------------
(***************************************************************************)
(* The result of a compiled query read page by page while other processes  *)
(* change the catalog and the collection under it (pkdump-db/src/search.rs,*)
(* search_page and search_page_after).  A walk goes by offset (what GET    *)
(* /api/collection/search serves) or by cursor (from its first page as the *)
(* tests begin it).  The totals, the rows and the copies of a page are one *)
(* step: only numbers that no property speaks of could tell them apart.    *)
(* What a query says and how it is compiled is Search's; here it is any    *)
(* condition on a row.                                                     *)
(***************************************************************************)
EXTENDS Integers, Sequences, FiniteSets, Functions

CONSTANTS Card,          \* what a printing's card says: a function of the printing
          UserMade,      \* the printings their owner has defined
          Prices, CopyStatuses,
          Stocks,        \* what the catalog and the collection hold at the start
          Requests,      \* what may be asked
          Written(_),    \* a request's query as text
          Compile(_),    \* a request compiled
          Holds(_, _),   \* what a condition says of a row: 0 false, 1 NULL, 2 true
          Typeable, MaxText,    \* bound: texts of so many of these pieces
          Limits, MaxChanges,   \* bounds: rows of a page; changes of other processes
          Null

Printings == DOMAIN Card

ASSUME WalkIsBounded == MaxText \in Nat /\ MaxChanges \in Nat
ASSUME PagesAreCounted == Limits \subseteq Nat
ASSUME CatalogIsFinite == IsFiniteSet(Printings) /\ IsFiniteSet(CopyStatuses)

\* A column that is ordered by holds an amount or NULL; only their order is told apart.
ASSUME ColumnsCompare ==
    /\ Null \notin Int /\ Printings \subseteq Int /\ Prices \subseteq Int
    /\ \A p \in Printings : \A c \in {"rank", "number", "release", "set"} : Card[p][c] \in Int \cup {Null}
ASSUME StocksFit ==
    \A s \in Stocks : /\ s.listed \subseteq Printings
                      /\ s.price \in [Printings -> Prices \cup {Null}]
                      /\ s.copies \in [Printings -> SUBSET CopyStatuses]
ASSUME RequestsSayWhichWay == \A r \in Requests : Compile(r).desc \in BOOLEAN

VARIABLES text,     \* the pieces of the query as typed
          listed,   \* the printings the catalog has
          price,    \* their market prices, or Null
          copies,   \* the statuses of their copies in the collection
          asked,    \* the compiled request, or Null
          walk,     \* the walk over its result, or Null
          touched,  \* the printings that have changed since the walk began
          changes

stock == <<listed, price, copies>>
walkVars == <<text, listed, price, copies, asked, walk, touched, changes>>

-----------------------------------------------------------------------------
(* A printing as the query sees it, and the WHERE clause. *)

Row(p) == [printing |-> p, price |-> price[p], copies |-> copies[p]]

owned_count(row) == Cardinality(row.copies)

OwnedOnly(r) == ~r.catalog_wide /\ ~r.has_status_filter

where_clause(r, row) ==
    /\ OwnedOnly(r) => row.copies \cap {"owned", "ordered"} # {}
    /\ \A i \in DOMAIN r.where : Holds(r.where[i], row) = 2

Matching(r) == {p \in listed : where_clause(r, Row(p))}

-----------------------------------------------------------------------------
(* The ORDER BY, and the place of a row in it. *)

Column(order_by) ==
    IF order_by \in {<<"price">>, <<"qty">>, <<"number">>} THEN order_by[1] ELSE "rank"

order_keys(r) ==
    IF r.order_by = <<"set">>
    THEN <<<<"release", r.desc>>, <<"set", r.desc>>, <<"number", FALSE>>, <<"printing", FALSE>>>>
    ELSE <<<<Column(r.order_by), r.desc>>, <<"number", FALSE>>, <<"printing", FALSE>>>>

Value(column, row) ==
    CASE column = "price"    -> row.price
      [] column = "qty"      -> owned_count(row)
      [] column = "printing" -> row.printing
      [] OTHER               -> Card[row.printing][column]

RowKeys(r, row) == [i \in DOMAIN order_keys(r) |-> Value(order_keys(r)[i][1], row)]

\* NULL comes first ascending and last descending.
Precedes(x, y, desc) ==
    /\ x # y
    /\ IF desc THEN y = Null \/ (x # Null /\ x > y) ELSE x = Null \/ (y # Null /\ x < y)

Before(r, p, q) ==
    \E i \in DOMAIN order_keys(r) :
        /\ \A j \in 1..(i - 1) : RowKeys(r, Row(p))[j] = RowKeys(r, Row(q))[j]
        /\ Precedes(RowKeys(r, Row(p))[i], RowKeys(r, Row(q))[i], order_keys(r)[i][2])

\* Rows that tie in every term may come in any order.
Ordered(r, S) ==
    {s \in Injection(1..Cardinality(S), S) : \A i, j \in DOMAIN s : i < j => ~Before(r, s[j], s[i])}

\* Mutant: descending, the rows without a value are forgotten.
BeyondValues(v, after, desc) ==
    /\ v # Null
    /\ IF after = Null THEN ~desc ELSE IF desc THEN v < after ELSE v > after

\* One term of the chain, as SQL compares: with a NULL on either side nothing is greater.
Beyond(v, after, desc) ==
    CASE after = Null /\ ~desc -> v # Null
      [] after = Null /\ desc  -> FALSE
      [] after # Null /\ ~desc -> v # Null /\ v > after
      [] after # Null /\ desc  -> v = Null \/ v < after

seek_predicate(r, after, p) ==
    LET k == RowKeys(r, Row(p))
        leads == after[1] # Null /\ ~order_keys(r)[1][2]
    IN  /\ leads => k[1] # Null /\ k[1] >= after[1]
        /\ \E i \in DOMAIN k : /\ \A j \in 1..(i - 1) : k[j] = after[j]
                               /\ Beyond(k[i], after[i], order_keys(r)[i][2])

fingerprint(r) == <<r.where, OwnedOnly(r), order_keys(r)>>

-----------------------------------------------------------------------------
(* Walks. *)

WalkInit ==
    /\ text = <<>>
    /\ \E s \in Stocks : listed = s.listed /\ price = s.price /\ copies = s.copies
    /\ asked = Null
    /\ walk = Null
    /\ touched = {}
    /\ changes = 0

Type(c) ==
    /\ asked = Null /\ Len(text) < MaxText
    /\ text' = Append(text, c)
    /\ UNCHANGED <<stock, asked, walk, touched, changes>>

Walking == walk # Null /\ ~walk.over

\* A request is made; while a walk goes on, another may be sent with its cursor.
Ask(r) ==
    /\ IF walk = Null THEN text = <<>> /\ asked = Null ELSE Walking /\ walk.by = "cursor"
    /\ text' = Written(r)
    /\ asked' = Compile(r)
    /\ UNCHANGED <<stock, walk, touched, changes>>

Page(rows, limit) == SubSeq(rows, 1, IF Len(rows) < limit THEN Len(rows) ELSE limit)

\* search_page_after: one row past the page says whether there is a next one.  A limit of 0 asks for the
\* count alone: no rows, and no cursor to go on with whatever is left.
NextByCursor(req, limit, served, rows, total) ==
    LET page == Page(rows, limit)
        more == limit > 0 /\ Len(rows) > limit
    IN  [by |-> "cursor", req |-> req, at |-> total, served |-> served \o page,
         over |-> ~more, counted |-> limit = 0,
         after |-> IF more THEN <<fingerprint(asked), RowKeys(asked, Row(page[Len(page)]))>> ELSE <<>>]

BeginByCursor(limit) ==
    /\ asked # Null /\ walk = Null
    /\ \E rows \in Ordered(asked, Matching(asked)) :
          walk' = NextByCursor(asked, limit, <<>>, rows, Matching(asked))
    /\ UNCHANGED <<text, stock, asked, touched, changes>>

\* A cursor issued for another query, filter or order is refused.
TurnByCursor(limit) ==
    /\ Walking /\ walk.by = "cursor"
    /\ walk.after[1] = fingerprint(asked)
    /\ LET rest == {p \in Matching(asked) : seek_predicate(asked, walk.after[2], p)}
       IN  \E rows \in Ordered(asked, rest) :
              walk' = NextByCursor(walk.req, limit, walk.served, rows, walk.at)
    /\ UNCHANGED <<text, stock, asked, touched, changes>>

\* search_page: LIMIT and OFFSET, with the total of the whole result beside each page.
TurnByOffset(limit) ==
    /\ asked # Null
    /\ walk # Null => Walking /\ walk.by = "offset"
    /\ LET served == IF walk = Null THEN <<>> ELSE walk.served
           at == IF walk = Null THEN Matching(asked) ELSE walk.at
           rest(rows) == SubSeq(rows, Len(served) + 1, Len(rows))
       IN  \E rows \in Ordered(asked, Matching(asked)) :
              walk' = [by |-> "offset", req |-> asked, at |-> at,
                       served |-> served \o Page(rest(rows), limit),
                       over |-> Len(rest(rows)) <= limit, counted |-> FALSE, after |-> <<>>]
    /\ UNCHANGED <<text, stock, asked, touched, changes>>

\* Other processes: a derivation loads prices and printings, a handler adds and removes copies.
Changes(p) ==
    /\ Walking /\ changes < MaxChanges /\ changes' = changes + 1
    /\ touched' = touched \cup {p}
    /\ UNCHANGED <<text, asked, walk>>

Reprice(p, v) ==
    /\ price[p] # v /\ price' = [price EXCEPT ![p] = v]
    /\ Changes(p) /\ UNCHANGED <<listed, copies>>

AddCopy(p, s) ==
    /\ p \in listed /\ s \notin copies[p] /\ copies' = [copies EXCEPT ![p] = @ \cup {s}]
    /\ Changes(p) /\ UNCHANGED <<listed, price>>

RemoveCopy(p, s) ==
    /\ s \in copies[p] /\ copies' = [copies EXCEPT ![p] = @ \ {s}]
    /\ Changes(p) /\ UNCHANGED <<listed, price>>

Publish(p) ==
    /\ p \notin listed /\ listed' = listed \cup {p}
    /\ Changes(p) /\ UNCHANGED <<price, copies>>

\* A printing the user has defined goes with its price, once no copy refers to it.
Withdraw(p) ==
    /\ p \in UserMade \cap listed /\ copies[p] = {}
    /\ listed' = listed \ {p} /\ price' = [price EXCEPT ![p] = Null]
    /\ Changes(p) /\ UNCHANGED copies

WalkNext ==
    \/ \E c \in Typeable : Type(c)
    \/ \E r \in Requests : Ask(r)
    \/ \E limit \in Limits : BeginByCursor(limit) \/ TurnByCursor(limit) \/ TurnByOffset(limit)
    \/ \E p \in Printings : \/ \E v \in Prices \cup {Null} : Reprice(p, v)
                            \/ \E s \in CopyStatuses : AddCopy(p, s) \/ RemoveCopy(p, s)
                            \/ Publish(p) \/ Withdraw(p)

WalkSpec == WalkInit /\ [][WalkNext]_walkVars

-----------------------------------------------------------------------------
(* Properties. *)

\* Whatever other processes change between the pages, a cursor serves every row that matched when it was
\* issued and has not changed since exactly once, in the order asked for, and only such rows beside the
\* changed ones, unless a page of none ended it (a count takes the cursor away with rows left); a walk by
\* offset does where nothing changes (search.rs, search_page_after).
WalkIsWhole ==
    walk # Null /\ (walk.by = "offset" => touched = {}) =>
        LET row == walk.served
            shown == {i \in DOMAIN row : row[i] \notin touched}
        IN  /\ \A i, j \in shown : i < j => Before(walk.req, row[i], row[j])
            /\ \A i \in shown : row[i] \in walk.at
            /\ walk.over /\ ~walk.counted => \A p \in walk.at \ touched : \E i \in shown : row[i] = p

=============================================================================
