-------------------------- MODULE CollectionProofs --------------------------
(***************************************************************************)
(* What Collection promises for any number of copies, containers, orders   *)
(* and interruptions: the two logs of a copy lead, without a break, to the *)
(* status and the place it has, and no deck's deletion is ever refused.    *)
(*                                                                         *)
(* Deleting a deck takes three statements and may end after any of them.   *)
(* The invariant therefore speaks of the log as the finished deletion will *)
(* leave it (Settled), and of how far the statements in progress have      *)
(* cleared it (Cleared).                                                   *)
(*                                                                         *)
(* The last section is about Walk: a search of the collection and the      *)
(* catalog, read page by page, is whole.                                   *)
(***************************************************************************)
EXTENDS Collection, Walk, SequenceTheorems, FiniteSetTheorems, WellFoundedInduction, TLAPS

StatusEntry == [from : Statuses \cup {None}, to : Statuses,
                note : {"added", "set", "received"}]
MoveEntry == [from : Places, to : Places]

-----------------------------------------------------------------------------
(* Types. *)

\* What a handler in progress holds.
HandlerOK ==
    /\ op.cmd = "idle" => op = Idle
    /\ (op.at \in {"to", "drop"}) <=> (op.deck # None)
    /\ op.deck # None => op.cmd \in {"deck", "group"}
    /\ op.cmd = "group" => op.on \in Groups /\ op.todo \subseteq Decks
    /\ op.cmd = "receive" => \A c \in op.todo : c \in Live /\ copy[c].status = "ordered"
    /\ op.cmd = "resolve" => op.on \in Tickets /\ op.todo \subseteq Copies

\* A copy that is not there has no log, and its id was given out if it is.
LogsOfLive ==
    /\ Live \subseteq issued
    /\ \A c \in Copies \ Live : mlog[c] = <<>>

TypeInv == TypeOK /\ HandlerOK /\ LogsOfLive

\* Taking an entry on keeps the entries there were.
LEMMA Appended ==
  ASSUME NEW S, NEW s \in Seq(S), NEW e \in S
  PROVE  /\ Append(s, e) \in Seq(S) /\ Append(s, e) # <<>>
         /\ Len(Append(s, e)) = Len(s) + 1
         /\ Append(s, e)[Len(s) + 1] = e
         /\ \A i \in 1..Len(s) : Append(s, e)[i] = s[i]
  OBVIOUS

LEMMA StatusSetType ==
  ASSUME TypeOK, NEW c \in Live, NEW s \in Statuses, NEW note \in {"set", "received"},
         StatusSet(c, s, note)
  PROVE  /\ copy' \in [Copies -> Rows \cup {None}]
         /\ slog' \in [Copies -> Seq(StatusEntry)]
         /\ Live' = Live
         /\ \A d \in Live : copy'[d].place = copy[d].place /\ copy'[d].order = copy[d].order
         /\ copy'[c].status = s
         /\ \A d \in Copies \ {c} : copy'[d] = copy[d]
<1>1. c \in Copies /\ copy[c] \in Rows /\ copy \in [Copies -> Rows \cup {None}]
  BY DEF TypeOK, Live
<1>2. copy' = [copy EXCEPT ![c].status = s]
  BY DEF StatusSet
<1>3. /\ copy'[c] \in Rows /\ copy'[c].status = s
      /\ copy'[c].place = copy[c].place /\ copy'[c].order = copy[c].order
  BY <1>1, <1>2 DEF Rows
<1>4. \A d \in Copies \ {c} : copy'[d] = copy[d]
  BY <1>1, <1>2
<1>5. copy' \in [Copies -> Rows \cup {None}]
  BY <1>1, <1>2, <1>3, <1>4
<1>6. slog' \in [Copies -> Seq(StatusEntry)]
  <2>1. slog \in [Copies -> Seq(StatusEntry)] /\ slog[c] \in Seq(StatusEntry)
    BY <1>1 DEF TypeOK, StatusEntry
  <2>2. [from |-> copy[c].status, to |-> s, note |-> note] \in StatusEntry
    BY <1>1 DEF Rows, StatusEntry
  <2>3. Append(slog[c], [from |-> copy[c].status, to |-> s, note |-> note]) \in Seq(StatusEntry)
    BY <2>1, <2>2, Appended
  <2> QED BY <1>1, <2>1, <2>3 DEF StatusSet
<1>7. Live' = Live
  BY <1>1, <1>3, <1>4, KindsAreDistinct DEF Live
<1> QED BY <1>3, <1>4, <1>5, <1>6, <1>7, <1>1 DEF Live

LEMMA InsertedType ==
  ASSUME TypeOK, NEW S \in SUBSET Copies, NEW row \in Rows, Inserted(S, row)
  PROVE  /\ copy' \in [Copies -> Rows \cup {None}]
         /\ slog' \in [Copies -> Seq(StatusEntry)]
         /\ Live' = Live \cup S
         /\ \A c \in S : copy'[c] = row
         /\ \A c \in Copies \ S : copy'[c] = copy[c] /\ slog'[c] = slog[c]
<1>1. /\ copy \in [Copies -> Rows \cup {None}]
      /\ slog \in [Copies -> Seq(StatusEntry)]
  BY DEF TypeOK, StatusEntry
<1> DEFINE e == [from |-> None, to |-> row.status, note |-> "added"]
<1>2. e \in StatusEntry
  BY DEF Rows, StatusEntry
<1>3. <<e>> \in Seq(StatusEntry)
  BY <1>2
<1>4. slog' \in [Copies -> Seq(StatusEntry)]
  BY <1>1, <1>3 DEF Inserted
<1> QED BY <1>1, <1>4, KindsAreDistinct DEF Inserted, Live

LEMMA ForgottenType ==
  ASSUME TypeOK, NEW side \in {"from", "to"}, NEW d \in Decks
  PROVE  /\ Forgotten(side, d) \in [Copies -> Seq(MoveEntry)]
         /\ \A c \in Copies : /\ Len(Forgotten(side, d)[c]) = Len(mlog[c])
                              /\ DOMAIN Forgotten(side, d)[c] = DOMAIN mlog[c]
         /\ \A c \in Copies : \A i \in DOMAIN mlog[c] :
               Forgotten(side, d)[c][i] = IF mlog[c][i][side] = d
                                          THEN [mlog[c][i] EXCEPT ![side] = None]
                                          ELSE mlog[c][i]
<1>1. \A c \in Copies : mlog[c] \in Seq(MoveEntry)
  BY DEF TypeOK, MoveEntry
<1> SUFFICES ASSUME NEW c \in Copies
             PROVE  /\ Forgotten(side, d)[c] \in Seq(MoveEntry)
                    /\ Len(Forgotten(side, d)[c]) = Len(mlog[c])
                    /\ DOMAIN Forgotten(side, d)[c] = DOMAIN mlog[c]
                    /\ \A i \in DOMAIN mlog[c] :
                          Forgotten(side, d)[c][i] = IF mlog[c][i][side] = d
                                                     THEN [mlog[c][i] EXCEPT ![side] = None]
                                                     ELSE mlog[c][i]
  BY DEF Forgotten
<1> DEFINE n == Len(mlog[c])
           new(i) == IF mlog[c][i][side] = d THEN [mlog[c][i] EXCEPT ![side] = None]
                     ELSE mlog[c][i]
           f == [i \in 1..n |-> new(i)]
<1>2. DOMAIN mlog[c] = 1..n /\ n \in Nat
  BY <1>1
<1>3. Forgotten(side, d)[c] = f
  BY <1>2 DEF Forgotten
<1>4. \A i \in 1..n : new(i) \in MoveEntry
  <2> SUFFICES ASSUME NEW i \in 1..n PROVE new(i) \in MoveEntry
    OBVIOUS
  <2>1. mlog[c][i] \in MoveEntry
    BY <1>1, <1>2
  <2>2. CASE side = "from"
    BY <2>1, <2>2 DEF MoveEntry, Places
  <2>3. CASE side = "to"
    BY <2>1, <2>3 DEF MoveEntry, Places
  <2> QED BY <2>2, <2>3
<1> HIDE DEF new
<1>5. f \in Seq(MoveEntry) /\ Len(f) = n /\ DOMAIN f = 1..n
  <2>1. f \in [1..n -> MoveEntry]
    BY <1>4
  <2> QED BY <2>1, <1>2
<1> QED BY <1>2, <1>3, <1>5 DEF new

-----------------------------------------------------------------------------
(* Every action keeps the types. *)

LEMMA TypeInit == Init => TypeInv
<1> SUFFICES ASSUME Init PROVE TypeInv
  OBVIOUS
<1>1. Live = {} /\ op.deck = None /\ op.cmd = "idle" /\ op.at = "-"
  BY DEF Init, Live, Idle
<1>2. slog \in [Copies -> Seq(StatusEntry)] /\ mlog \in [Copies -> Seq(MoveEntry)]
  BY DEF Init
<1>3. /\ copy \in [Copies -> Rows \cup {None}] /\ ticket = [t \in Tickets |-> None]
      /\ group = [d \in Decks |-> None] /\ replays = [t \in Tickets |-> {}]
      /\ made = Binders \cup Groups /\ issued = made /\ half = {} /\ interrupts = 0
  BY DEF Init
<1>4. op = [cmd |-> "idle", at |-> "-", on |-> None, deck |-> None, todo |-> {}]
  BY DEF Init, Idle
<1>5. TypeOK
  <2>1. group \in [Decks -> (Groups \cap made) \cup {None}] /\ replays \in [Tickets -> SUBSET Copies]
    BY <1>3
  <2>2. ticket \in [Tickets -> Parked \cup {None}]
    BY <1>3
  <2>3. /\ made \subseteq Containers \cup Groups \cup Orders
        /\ issued \subseteq UNION {Copies, Containers, Groups, Orders}
    BY <1>3 DEF Containers
  <2>4. op \in [cmd : {"idle", "deck", "group", "receive", "resolve"},
                at : {"-", "to", "drop", "next"},
                on : UNION {Groups, Orders, Tickets, {None}},
                deck : Decks \cup {None}, todo : SUBSET (Copies \cup Decks)]
    BY <1>4
  <2>5. half \subseteq Decks /\ interrupts \in 0..MaxInterrupts
    BY <1>3, BoundsAreNat
  <2>6. copy \in [Copies -> Rows \cup {None}]
    BY <1>3
  <2>7. \A c \in Live : copy[c].place \in made \cup {None}
    BY <1>1
  <2> QED BY <1>2, <2>1, <2>2, <2>3, <2>4, <2>5, <2>6, <2>7 DEF TypeOK, Parked, StatusEntry, MoveEntry
<1> QED BY <1>5, <1>1, <1>2, NoneIsNoId DEF Init, TypeInv, HandlerOK, LogsOfLive, Idle

\* A request is taken only when no handler runs.
LEMMA IdleFacts ==
  ASSUME TypeInv, op = Idle
  PROVE  op.deck = None /\ op.cmd = "idle" /\ op.at = "-" /\ op.todo = {} /\ op.on = None
  BY DEF Idle

LEMMA CopyRequestsType ==
  ASSUME TypeInv, CopyRequests
  PROVE  TypeInv'
<1> PICK c \in Copies : \/ \E s \in Statuses : SetStatus(c, s)
                        \/ \E p \in Places : MoveTo(c, p)
                        \/ \E s \in Statuses, p \in Places : Add(c, s, p)
                        \/ Delete(c)
  BY DEF CopyRequests
<1> USE DEF TypeInv, history
<1>1. ASSUME NEW s \in Statuses, SetStatus(c, s) PROVE TypeInv'
  <2>1. /\ op' = op /\ op = Idle /\ mlog' = mlog /\ issued' = issued /\ made' = made
        /\ UNCHANGED <<group, ticket, half, replays, interrupts>>
        /\ c \in Live /\ StatusSet(c, s, "set")
    BY <1>1 DEF SetStatus
  <2>2. /\ copy' \in [Copies -> Rows \cup {None}] /\ slog' \in [Copies -> Seq(StatusEntry)]
        /\ Live' = Live /\ \A d \in Live : copy'[d].place = copy[d].place
    BY <2>1, StatusSetType
  <2>3. TypeOK'
    BY <2>1, <2>2 DEF TypeOK, StatusEntry
  <2>4. HandlerOK' /\ LogsOfLive'
    BY <2>1, <2>2, IdleFacts DEF HandlerOK, LogsOfLive
  <2> QED BY <2>3, <2>4
<1>2. ASSUME NEW p \in Places, MoveTo(c, p) PROVE TypeInv'
  <2>1. /\ op' = op /\ op = Idle /\ slog' = slog /\ issued' = issued /\ made' = made
        /\ UNCHANGED <<group, ticket, half, replays, interrupts>>
        /\ c \in Live /\ c \in Copies /\ p \in made \cup {None}
        /\ copy' = [copy EXCEPT ![c].place = p]
        /\ mlog' = [mlog EXCEPT ![c] = Append(@, [from |-> copy[c].place, to |-> p])]
    BY <1>2 DEF MoveTo
  <2>2. /\ copy' \in [Copies -> Rows \cup {None}] /\ copy'[c] \in Rows /\ copy'[c].place = p
        /\ \A d \in Copies \ {c} : copy'[d] = copy[d]
    <3>1. copy \in [Copies -> Rows \cup {None}] /\ copy[c] \in Rows /\ p \in Places
      BY <2>1 DEF TypeOK, Live
    <3>2. [copy[c] EXCEPT !.place = p] \in Rows /\ [copy[c] EXCEPT !.place = p].place = p
      BY <3>1 DEF Rows
    <3>3. copy' = [copy EXCEPT ![c] = [copy[c] EXCEPT !.place = p]]
      BY <2>1, <3>1
    <3> QED BY <2>1, <3>1, <3>2, <3>3
  <2>3. Live' = Live
    BY <2>1, <2>2, KindsAreDistinct DEF Live
  <2>4. mlog' \in [Copies -> Seq(MoveEntry)]
    <3>1. mlog \in [Copies -> Seq(MoveEntry)] /\ mlog[c] \in Seq(MoveEntry)
      BY <2>1 DEF TypeOK, MoveEntry
    <3>2. [from |-> copy[c].place, to |-> p] \in MoveEntry
      BY <2>1 DEF TypeOK, Rows, MoveEntry, Live
    <3>3. Append(mlog[c], [from |-> copy[c].place, to |-> p]) \in Seq(MoveEntry)
      BY <3>1, <3>2, Appended
    <3> QED BY <2>1, <3>1, <3>3
  <2>5. \A d \in Live : copy'[d].place \in made \cup {None}
    BY <2>1, <2>2 DEF TypeOK, Live
  <2>6. TypeOK'
    BY <2>1, <2>2, <2>3, <2>4, <2>5 DEF TypeOK, MoveEntry
  <2>7. HandlerOK'
    BY <2>1, IdleFacts DEF HandlerOK
  <2>8. LogsOfLive'
    BY <2>1, <2>3 DEF LogsOfLive, TypeOK
  <2> QED BY <2>6, <2>7, <2>8
<1>3. ASSUME NEW s \in Statuses, NEW p \in Places, Add(c, s, p) PROVE TypeInv'
  <2> DEFINE row == [status |-> s, place |-> p, order |-> None]
  <2>1. /\ op' = op /\ op = Idle /\ mlog' = mlog /\ issued' = issued \cup {c} /\ made' = made
        /\ UNCHANGED <<group, ticket, half, replays, interrupts>>
        /\ p \in made \cup {None} /\ Inserted({c}, row)
    BY <1>3 DEF Add
  <2>2. row \in Rows /\ row.place = p /\ {c} \in SUBSET Copies
    BY DEF Rows
  <2> HIDE DEF row
  <2>3. /\ copy' \in [Copies -> Rows \cup {None}] /\ slog' \in [Copies -> Seq(StatusEntry)]
        /\ Live' = Live \cup {c} /\ copy'[c] = row
        /\ \A d \in Copies \ {c} : copy'[d] = copy[d]
    <3>1. TypeOK /\ {c} \in SUBSET Copies /\ row \in Rows /\ Inserted({c}, row)
      BY <2>1, <2>2
    <3>2. /\ copy' \in [Copies -> Rows \cup {None}] /\ slog' \in [Copies -> Seq(StatusEntry)]
          /\ Live' = Live \cup {c} /\ \A e \in {c} : copy'[e] = row
          /\ \A e \in Copies \ {c} : copy'[e] = copy[e] /\ slog'[e] = slog[e]
      BY <3>1, InsertedType
    <3> QED BY <3>2
  <2>4. \A d \in Live' : copy'[d].place \in made \cup {None}
    <3>1. \A d \in Live : d \in Copies /\ copy[d].place \in made \cup {None}
      BY DEF TypeOK, Live
    <3> QED BY <3>1, <2>1, <2>2, <2>3
  <2>5. TypeOK'
    BY <2>1, <2>3, <2>4 DEF TypeOK, StatusEntry
  <2>6. HandlerOK' /\ LogsOfLive'
    BY <2>1, <2>3, IdleFacts DEF HandlerOK, LogsOfLive
  <2> QED BY <2>5, <2>6
<1>4. ASSUME Delete(c) PROVE TypeInv'
  <2>1. /\ op' = op /\ op = Idle /\ issued' = issued /\ made' = made
        /\ UNCHANGED <<group, ticket, half, replays, interrupts>>
        /\ copy' = [copy EXCEPT ![c] = None]
        /\ slog' = [slog EXCEPT ![c] = <<>>]
        /\ mlog' = [mlog EXCEPT ![c] = <<>>]
    BY <1>4 DEF Delete
  <2>2. /\ copy' \in [Copies -> Rows \cup {None}] /\ copy'[c] = None
        /\ \A d \in Copies \ {c} : copy'[d] = copy[d]
    BY <2>1 DEF TypeOK
  <2>3. Live' = Live \ {c}
    BY <2>2 DEF Live
  <2>4. slog' \in [Copies -> Seq(StatusEntry)] /\ mlog' \in [Copies -> Seq(MoveEntry)]
    <3>1. <<>> \in Seq(StatusEntry) /\ <<>> \in Seq(MoveEntry)
      OBVIOUS
    <3> QED BY <2>1, <3>1 DEF TypeOK, StatusEntry, MoveEntry
  <2>5. \A d \in Live' : copy'[d].place \in made \cup {None}
    BY <2>2, <2>3 DEF TypeOK, Live
  <2>6. TypeOK'
    BY <2>1, <2>2, <2>4, <2>5 DEF TypeOK, StatusEntry, MoveEntry
  <2>7. HandlerOK'
    BY <2>1, IdleFacts DEF HandlerOK
  <2>8. LogsOfLive'
    BY <2>1, <2>3 DEF LogsOfLive, TypeOK
  <2> QED BY <2>6, <2>7, <2>8
<1> QED BY <1>1, <1>2, <1>3, <1>4

LEMMA DropType ==
  ASSUME TypeOK, NEW k \in Containers, Drop(k)
  PROVE  /\ copy' \in [Copies -> Rows \cup {None}] /\ Live' = Live
         /\ \A c \in Live : /\ copy'[c].status = copy[c].status
                            /\ copy'[c].place \in made' \cup {None}
                            /\ copy'[c].place = (IF copy[c].place = k /\ ~Mentioned(k)
                                                 THEN None ELSE copy[c].place)
         /\ made' \subseteq made /\ made \ {k} \subseteq made'
         /\ ~Mentioned(k) => k \notin made'
<1>1. copy \in [Copies -> Rows \cup {None}] /\ \A c \in Live : copy[c].place \in made \cup {None}
  BY DEF TypeOK
<1>2. CASE Mentioned(k)
  <2>1. copy' = copy /\ made' = made
    BY <1>2 DEF Drop
  <2> QED BY <1>1, <1>2, <2>1 DEF Live
<1>3. CASE ~Mentioned(k)
  <2>1. made' = made \ {k} /\ copy' = Unplaced(k)
    BY <1>3 DEF Drop
  <2>2. \A c \in Copies : copy'[c] = IF c \in Live /\ copy[c].place = k
                                     THEN [copy[c] EXCEPT !.place = None] ELSE copy[c]
    BY <2>1 DEF Unplaced
  <2>3. ASSUME NEW c \in Copies
        PROVE  /\ copy'[c] \in Rows \cup {None} /\ (copy'[c] # None <=> copy[c] # None)
               /\ c \in Live => /\ copy'[c].status = copy[c].status
                                /\ copy'[c].place = IF copy[c].place = k THEN None ELSE copy[c].place
    <3>1. CASE c \in Live
      <4>1. copy[c] \in Rows
        BY <1>1, <3>1 DEF Live
      <4>2. copy'[c] \in Rows
        BY <2>2, <4>1 DEF Rows, Places
      <4>3. copy'[c].status = copy[c].status
        BY <2>2, <4>1 DEF Rows
      <4>4. copy'[c].place = IF copy[c].place = k THEN None ELSE copy[c].place
        BY <2>2, <3>1, <4>1 DEF Rows
      <4> QED BY <4>1, <4>2, <4>3, <4>4, KindsAreDistinct
    <3>2. CASE c \notin Live
      BY <2>2, <3>2, <1>1 DEF Live
    <3> QED BY <3>1, <3>2
  <2>4. copy' \in [Copies -> Rows \cup {None}]
    <3>1. copy' = [c \in Copies |-> copy'[c]]
      BY <2>1 DEF Unplaced
    <3> QED BY <2>3, <3>1
  <2>5. Live' = Live
    BY <2>3 DEF Live
  <2>6. Live \subseteq Copies
    BY DEF Live
  <2> QED BY <1>1, <1>3, <2>1, <2>3, <2>4, <2>5, <2>6
<1> QED BY <1>2, <1>3

LEMMA ContainersAreNoGroups == \A k \in Containers : k \notin Groups /\ k # None
BY KindsAreDistinct, NoneIsNoId DEF Containers

\* What the first statement of a deck's deletion starts from.
LEMMA ForgetSourceType ==
  ASSUME TypeInv, op.deck = None, NEW d \in Decks, NEW cmd, NEW on, NEW todo,
         \/ cmd = "deck" /\ on = None /\ todo = {}
         \/ cmd = "group" /\ on \in Groups /\ todo \subseteq Decks,
         ForgetSource(cmd, on, d, todo)
  PROVE  TypeInv'
<1>1. /\ mlog' = Forgotten("from", d)
      /\ op' = [cmd |-> cmd, at |-> "to", on |-> on, deck |-> d, todo |-> todo]
      /\ UNCHANGED <<copy, slog, made, group, ticket, issued, half, replays, interrupts>>
  BY DEF ForgetSource, history
<1>2. mlog' \in [Copies -> Seq(MoveEntry)] /\ Live' = Live
  BY <1>1, ForgottenType DEF Live, TypeInv
<1>3. op' \in [cmd : {"idle", "deck", "group", "receive", "resolve"},
               at : {"-", "to", "drop", "next"},
               on : UNION {Groups, Orders, Tickets, {None}},
               deck : Decks \cup {None}, todo : SUBSET (Copies \cup Decks)]
  BY <1>1
<1>4. TypeOK'
  BY <1>1, <1>2, <1>3 DEF TypeOK, TypeInv, MoveEntry
<1>5. HandlerOK'
  BY <1>1, NoneIsNoId DEF HandlerOK
<1>6. LogsOfLive'
  <2>1. \A c \in Copies \ Live : mlog'[c] = <<>>
    <3> SUFFICES ASSUME NEW c \in Copies \ Live PROVE mlog'[c] = <<>>
      OBVIOUS
    <3>1. mlog[c] = <<>> /\ Len(mlog'[c]) = 0 /\ mlog'[c] \in Seq(MoveEntry)
      BY <1>1, <1>2, ForgottenType DEF TypeInv, LogsOfLive
    <3> QED BY <3>1
  <2> QED BY <1>1, <1>2, <2>1 DEF LogsOfLive, TypeInv
<1> QED BY <1>4, <1>5, <1>6 DEF TypeInv

LEMMA ReleaseAllType ==
  ASSUME TypeInv, NEW g \in Groups, NEW then, ReleaseAll(g, then),
         \/ then = Idle
         \/ then = [Idle EXCEPT !.cmd = "group", !.at = "next", !.on = g, !.todo = DecksOf(g)]
  PROVE  TypeInv'
<1>1. /\ Released(g) /\ op' = then /\ op = Idle
      /\ UNCHANGED <<slog, made, group, ticket, issued, half, replays, interrupts>>
  BY DEF ReleaseAll, history
<1>0. \/ op' = [cmd |-> "idle", at |-> "-", on |-> None, deck |-> None, todo |-> {}]
      \/ op' = [cmd |-> "group", at |-> "next", on |-> g, deck |-> None, todo |-> DecksOf(g)]
  BY <1>1 DEF Idle
<1>2. ASSUME NEW c \in Copies
      PROVE  /\ copy'[c] \in Rows \cup {None} /\ (copy'[c] # None <=> copy[c] # None)
             /\ c \in Live => copy'[c].place \in made \cup {None}
             /\ mlog'[c] \in Seq(MoveEntry)
             /\ c \notin Live => mlog'[c] = mlog[c]
  <2>1. copy[c] \in Rows \cup {None} /\ mlog[c] \in Seq(MoveEntry)
    BY DEF TypeInv, TypeOK, MoveEntry
  <2>2. CASE InGroup(c, g)
    <3>1. c \in Live /\ copy[c] \in Rows
      BY <2>1, <2>2 DEF InGroup, Live
    <3>2. copy'[c] = [copy[c] EXCEPT !.place = None]
          /\ mlog'[c] = Append(mlog[c], [from |-> copy[c].place, to |-> None])
      BY <1>1, <2>2 DEF Released
    <3>3. copy'[c] \in Rows /\ copy'[c].place = None
      BY <3>1, <3>2 DEF Rows, Places
    <3>4. [from |-> copy[c].place, to |-> None] \in MoveEntry
      BY <3>1 DEF Rows, MoveEntry, Places
    <3>5. mlog'[c] \in Seq(MoveEntry)
      BY <2>1, <3>2, <3>4, Appended
    <3> QED BY <3>1, <3>3, <3>5, KindsAreDistinct
  <2>3. CASE ~InGroup(c, g)
    BY <1>1, <2>1, <2>3 DEF Released, TypeInv, TypeOK
  <2> QED BY <2>2, <2>3
<1>3. copy' = [c \in Copies |-> copy'[c]] /\ mlog' = [c \in Copies |-> mlog'[c]]
  BY <1>1 DEF Released
<1>4. copy' \in [Copies -> Rows \cup {None}] /\ mlog' \in [Copies -> Seq(MoveEntry)]
  BY <1>2, <1>3
<1>5. Live' = Live /\ Live \subseteq Copies
  BY <1>2 DEF Live
<1>6. op' \in [cmd : {"idle", "deck", "group", "receive", "resolve"},
               at : {"-", "to", "drop", "next"},
               on : UNION {Groups, Orders, Tickets, {None}},
               deck : Decks \cup {None}, todo : SUBSET (Copies \cup Decks)]
  <2>1. DecksOf(g) \in SUBSET (Copies \cup Decks)
    BY DEF DecksOf
  <2> QED BY <1>0, <2>1
<1>7. \A c \in Live' : copy'[c].place \in made' \cup {None}
  BY <1>1, <1>2, <1>5
<1>8. TypeOK'
  BY <1>1, <1>4, <1>6, <1>7 DEF TypeOK, TypeInv, MoveEntry
<1>9. HandlerOK'
  <2>1. DecksOf(g) \subseteq Decks
    BY DEF DecksOf
  <2> QED BY <1>0, <2>1 DEF HandlerOK, Idle
<1>10. LogsOfLive'
  BY <1>1, <1>2, <1>5 DEF LogsOfLive, TypeInv
<1> QED BY <1>8, <1>9, <1>10 DEF TypeInv

LEMMA DropGroupType ==
  ASSUME TypeInv, NEW g \in Groups, DropGroup(g)
  PROVE  TypeInv'
<1>1. /\ made' = made \ {g} /\ op' = Idle
      /\ group' = [d \in Decks |-> IF group[d] = g THEN None ELSE group[d]]
      /\ UNCHANGED <<copy, slog, mlog, ticket, issued, half, replays, interrupts>>
  BY DEF DropGroup, history
<1>2. group' \in [Decks -> (Groups \cap made') \cup {None}]
  BY <1>1 DEF TypeInv, TypeOK
<1>3. Live' = Live /\ \A c \in Live : copy'[c].place \in made' \cup {None}
  <2>1. \A c \in Live : copy[c].place \in made \cup {None} /\ copy[c].place \in Places
    BY DEF TypeInv, TypeOK, Live, Rows
  <2> QED BY <1>1, <2>1, ContainersAreNoGroups DEF Places, Live
<1>4. op' \in [cmd : {"idle", "deck", "group", "receive", "resolve"},
               at : {"-", "to", "drop", "next"},
               on : UNION {Groups, Orders, Tickets, {None}},
               deck : Decks \cup {None}, todo : SUBSET (Copies \cup Decks)]
  BY <1>1 DEF Idle
<1>5. TypeOK'
  BY <1>1, <1>2, <1>3, <1>4 DEF TypeOK, TypeInv
<1>6. HandlerOK' /\ LogsOfLive'
  BY <1>1, <1>3 DEF HandlerOK, LogsOfLive, TypeInv, Idle
<1> QED BY <1>5, <1>6 DEF TypeInv

LEMMA ContainerRequestsType ==
  ASSUME TypeInv, ContainerRequests
  PROVE  TypeInv'
<1> USE DEF TypeInv, history
<1>1. ASSUME NEW k \in Containers \cup Groups, Make(k) PROVE TypeInv'
  <2>1. /\ op = Idle /\ made' = made \cup {k} /\ issued' = issued \cup {k}
        /\ UNCHANGED <<copy, slog, mlog, group, ticket, op, half, replays, interrupts>>
    BY <1>1 DEF Make
  <2>2. TypeOK'
    BY <2>1 DEF TypeOK, Live
  <2>3. HandlerOK' /\ LogsOfLive'
    BY <2>1 DEF HandlerOK, LogsOfLive, Live
  <2> QED BY <2>2, <2>3
<1>2. ASSUME NEW b \in Binders, DeleteBinder(b) PROVE TypeInv'
  <2>1. /\ op = Idle /\ Drop(b) /\ b \in Containers
        /\ UNCHANGED <<slog, mlog, group, ticket, issued, op, half, replays, interrupts>>
    BY <1>2 DEF DeleteBinder, Containers
  <2>2. /\ copy' \in [Copies -> Rows \cup {None}] /\ Live' = Live
        /\ \A c \in Live : copy'[c].place \in made' \cup {None}
        /\ made' \subseteq made /\ made \ {b} \subseteq made' /\ b \notin Groups
    BY <2>1, DropType, ContainersAreNoGroups
  <2>3. group' \in [Decks -> (Groups \cap made') \cup {None}]
    BY <2>1, <2>2 DEF TypeOK
  <2>4. TypeOK'
    BY <2>1, <2>2, <2>3 DEF TypeOK
  <2>5. HandlerOK' /\ LogsOfLive'
    BY <2>1, <2>2, IdleFacts DEF HandlerOK, LogsOfLive
  <2> QED BY <2>4, <2>5
<1>3. ASSUME NEW d \in Decks, DeleteDeck(d) PROVE TypeInv'
  BY <1>3, IdleFacts, ForgetSourceType DEF DeleteDeck
<1>4. ASSUME NEW d \in Decks, NEW g \in Groups \cup {None}, SetGroup(d, g) PROVE TypeInv'
  <2>1. /\ g \in (Groups \cap made) \cup {None} /\ group' = [group EXCEPT ![d] = g]
        /\ UNCHANGED <<copy, slog, mlog, made, ticket, issued, op, half, replays, interrupts>>
    BY <1>4 DEF SetGroup
  <2>2. TypeOK'
    BY <2>1 DEF TypeOK, Live
  <2>3. HandlerOK' /\ LogsOfLive'
    BY <2>1 DEF HandlerOK, LogsOfLive, Live
  <2> QED BY <2>2, <2>3
<1>5. ASSUME NEW g \in Groups, ReleaseAll(g, Idle) PROVE TypeInv'
  BY <1>5, ReleaseAllType
<1>6. ASSUME NEW g \in Groups, Ungroup(g) PROVE TypeInv'
  BY <1>6, DropGroupType DEF Ungroup
<1>7. ASSUME NEW g \in Groups, DeleteGroup(g) PROVE TypeInv'
  BY <1>7, ReleaseAllType DEF DeleteGroup
<1> QED BY <1>1, <1>2, <1>3, <1>4, <1>5, <1>6, <1>7 DEF ContainerRequests

LEMMA IntakeRequestsType ==
  ASSUME TypeInv, IntakeRequests
  PROVE  TypeInv'
<1> USE DEF TypeInv, history
<1> DEFINE OpType(o) == o \in [cmd : {"idle", "deck", "group", "receive", "resolve"},
                               at : {"-", "to", "drop", "next"},
                               on : UNION {Groups, Orders, Tickets, {None}},
                               deck : Decks \cup {None}, todo : SUBSET (Copies \cup Decks)]
<1>1. ASSUME NEW o \in Orders, Receive(o) PROVE TypeInv'
  <2>1. /\ op' = [cmd |-> "receive", at |-> "-", on |-> o, deck |-> None, todo |-> StillOrdered(o)]
        /\ UNCHANGED <<copy, slog, mlog, made, group, ticket, issued, half, replays, interrupts>>
    BY <1>1 DEF Receive, Idle
  <2>2. StillOrdered(o) \subseteq Copies
    BY DEF StillOrdered, Live
  <2>3. OpType(op')
    BY <2>1, <2>2
  <2>4. TypeOK'
    BY <2>1, <2>3 DEF TypeOK, Live
  <2>5. HandlerOK'
    BY <2>1 DEF HandlerOK, StillOrdered, Live
  <2>6. LogsOfLive'
    BY <2>1 DEF LogsOfLive, Live
  <2> QED BY <2>4, <2>5, <2>6
<1>2. ASSUME NEW o \in Orders, NEW S \in SUBSET Copies, Order(o, S) PROVE TypeInv'
  <2> DEFINE row == [status |-> "ordered", place |-> None, order |-> o]
  <2>1. /\ op = Idle /\ made' = made \cup {o} /\ issued' = issued \cup S \cup {o}
        /\ UNCHANGED <<mlog, group, ticket, op, half, replays, interrupts>>
        /\ Inserted(S, row)
    BY <1>2 DEF Order
  <2>2. row \in Rows /\ row.place = None
    BY OrdersAreReceived DEF Rows, Places
  <2> HIDE DEF row
  <2>3. /\ copy' \in [Copies -> Rows \cup {None}] /\ slog' \in [Copies -> Seq(StatusEntry)]
        /\ Live' = Live \cup S /\ \A c \in S : copy'[c] = row
        /\ \A c \in Copies \ S : copy'[c] = copy[c]
    BY <2>1, <2>2, InsertedType
  <2>4. \A c \in Live' : copy'[c].place \in made' \cup {None}
    <3>1. \A c \in Live : c \in Copies /\ copy[c].place \in made \cup {None}
      BY DEF TypeOK, Live
    <3> QED BY <3>1, <2>1, <2>2, <2>3
  <2>5. TypeOK'
    BY <2>1, <2>3, <2>4 DEF TypeOK, StatusEntry
  <2>6. HandlerOK' /\ LogsOfLive'
    BY <2>1, <2>3, IdleFacts DEF HandlerOK, LogsOfLive
  <2> QED BY <2>5, <2>6
<1>3. ASSUME NEW t \in Tickets, Park(t) \/ Dismiss(t) PROVE TypeInv'
  <2>1. /\ op = Idle
        /\ UNCHANGED <<copy, slog, mlog, made, group, issued, op, half, replays, interrupts>>
    BY <1>3 DEF Park, Dismiss
  <2>2. ticket' \in [Tickets -> Parked \cup {None}]
    <3>1. CASE Park(t)
      BY <3>1 DEF Park, TypeOK, Parked
    <3>2. CASE Dismiss(t)
      <4>1. ticket[t] \in Parked
        BY <3>2 DEF Dismiss, ExpectOpen, TypeOK, Parked
      <4> QED BY <3>2, <4>1 DEF Dismiss, TypeOK, Parked
    <3> QED BY <1>3, <3>1, <3>2
  <2>3. TypeOK'
    BY <2>1, <2>2 DEF TypeOK, Live
  <2>4. HandlerOK' /\ LogsOfLive'
    BY <2>1 DEF HandlerOK, LogsOfLive, Live
  <2> QED BY <2>3, <2>4
<1>4. ASSUME NEW t \in Tickets, NEW c \in Copies, Resolve(t, c) PROVE TypeInv'
  <2> DEFINE row == [status |-> "owned", place |-> None, order |-> None]
  <2>1. /\ op' = [cmd |-> "resolve", at |-> "-", on |-> t, deck |-> None, todo |-> {c}]
        /\ issued' = issued \cup {c} /\ replays' = [replays EXCEPT ![t] = @ \cup {c}]
        /\ UNCHANGED <<mlog, made, group, ticket, half, interrupts>>
        /\ Inserted({c}, row) /\ {c} \in SUBSET Copies
    BY <1>4 DEF Resolve, Idle
  <2>2. row \in Rows /\ row.place = None
    BY OrdersAreReceived DEF Rows, Places
  <2> HIDE DEF row
  <2>3. /\ copy' \in [Copies -> Rows \cup {None}] /\ slog' \in [Copies -> Seq(StatusEntry)]
        /\ Live' = Live \cup {c} /\ copy'[c] = row
        /\ \A d \in Copies \ {c} : copy'[d] = copy[d]
    <3>1. TypeOK /\ {c} \in SUBSET Copies /\ row \in Rows /\ Inserted({c}, row)
      BY <2>1, <2>2
    <3>2. /\ copy' \in [Copies -> Rows \cup {None}] /\ slog' \in [Copies -> Seq(StatusEntry)]
          /\ Live' = Live \cup {c} /\ \A e \in {c} : copy'[e] = row
          /\ \A e \in Copies \ {c} : copy'[e] = copy[e] /\ slog'[e] = slog[e]
      BY <3>1, InsertedType
    <3> QED BY <3>2
  <2>4. \A d \in Live' : copy'[d].place \in made' \cup {None}
    <3>1. \A d \in Live : d \in Copies /\ copy[d].place \in made \cup {None}
      BY DEF TypeOK, Live
    <3> QED BY <3>1, <2>1, <2>2, <2>3
  <2>5. OpType(op')
    BY <2>1
  <2>6. replays' \in [Tickets -> SUBSET Copies]
    BY <2>1 DEF TypeOK
  <2>7. TypeOK'
    BY <2>1, <2>3, <2>4, <2>5, <2>6 DEF TypeOK, StatusEntry
  <2>8. HandlerOK' /\ LogsOfLive'
    BY <2>1, <2>3 DEF HandlerOK, LogsOfLive
  <2> QED BY <2>7, <2>8
<1> QED BY <1>1, <1>2, <1>3, <1>4 DEF IntakeRequests

LEMMA HandlerType ==
  ASSUME TypeInv, Handler
  PROVE  TypeInv'
<1> USE DEF TypeInv, history
<1> DEFINE OpType(o) == o \in [cmd : {"idle", "deck", "group", "receive", "resolve"},
                               at : {"-", "to", "drop", "next"},
                               on : UNION {Groups, Orders, Tickets, {None}},
                               deck : Decks \cup {None}, todo : SUBSET (Copies \cup Decks)]
<1>0. OpType(op) /\ OpType(Idle)
  BY DEF TypeOK, Idle
<1>1. ASSUME ForgetTarget PROVE TypeInv'
  <2>1. /\ op.at = "to" /\ op.deck \in Decks
        /\ mlog' = Forgotten("to", op.deck) /\ op' = [op EXCEPT !.at = "drop"]
        /\ UNCHANGED <<copy, slog, made, group, ticket, issued, half, replays, interrupts>>
    BY <1>1, <1>0 DEF ForgetTarget, HandlerOK
  <2>2. mlog' \in [Copies -> Seq(MoveEntry)] /\ Live' = Live
    BY <2>1, ForgottenType DEF Live
  <2>3. OpType(op')
    BY <2>1, <1>0
  <2>4. TypeOK'
    BY <2>1, <2>2, <2>3 DEF TypeOK, MoveEntry
  <2>5. HandlerOK'
    BY <2>1, <1>0 DEF HandlerOK, Idle
  <2>6. LogsOfLive'
    <3> SUFFICES ASSUME NEW c \in Copies \ Live PROVE mlog'[c] = <<>>
      BY <2>1, <2>2 DEF LogsOfLive
    <3>1. mlog[c] = <<>> /\ Len(mlog'[c]) = 0 /\ mlog'[c] \in Seq(MoveEntry)
      BY <2>1, <2>2, ForgottenType DEF LogsOfLive
    <3> QED BY <3>1
  <2> QED BY <2>4, <2>5, <2>6
<1>2. ASSUME DropDeck PROVE TypeInv'
  <2>1. /\ op.at = "drop" /\ op.deck \in Decks /\ op.deck \in Containers /\ Drop(op.deck)
        /\ group' = [group EXCEPT ![op.deck] = None]
        /\ op' = IF op.cmd = "deck" THEN Idle
                 ELSE [op EXCEPT !.at = "next", !.deck = None, !.todo = @ \ {op.deck}]
        /\ half' = half \ {op.deck}
        /\ UNCHANGED <<slog, mlog, ticket, issued, replays, interrupts>>
    BY <1>2, <1>0 DEF DropDeck, HandlerOK, Containers
  <2>2. /\ copy' \in [Copies -> Rows \cup {None}] /\ Live' = Live
        /\ \A c \in Live : copy'[c].place \in made' \cup {None}
        /\ made' \subseteq made /\ made \ {op.deck} \subseteq made' /\ op.deck \notin Groups
    BY <2>1, DropType, ContainersAreNoGroups
  <2>3. group' \in [Decks -> (Groups \cap made') \cup {None}]
    BY <2>1, <2>2 DEF TypeOK
  <2>4. OpType(op')
    BY <2>1, <1>0
  <2>5. TypeOK'
    BY <2>1, <2>2, <2>3, <2>4 DEF TypeOK
  <2>6. HandlerOK'
    <3>1. CASE op.cmd = "deck"
      BY <2>1, <3>1 DEF HandlerOK, Idle
    <3>2. CASE op.cmd = "group"
      BY <2>1, <1>0, <3>2 DEF HandlerOK
    <3> QED BY <2>1, <3>1, <3>2, NoneIsNoId DEF HandlerOK
  <2>7. LogsOfLive'
    BY <2>1, <2>2 DEF LogsOfLive
  <2> QED BY <2>5, <2>6, <2>7
<1>3. ASSUME DeleteGroupDeck PROVE TypeInv'
  <2>1. PICK d \in op.todo : ForgetSource("group", op.on, d, op.todo)
    BY <1>3 DEF DeleteGroupDeck
  <2>2. d \in Decks /\ op.deck = None /\ op.on \in Groups /\ op.todo \subseteq Decks
    BY <1>3, <2>1 DEF DeleteGroupDeck, HandlerOK
  <2> QED BY <2>1, <2>2, ForgetSourceType
<1>4. ASSUME DeleteGroupEnds PROVE TypeInv'
  BY <1>4, DropGroupType DEF DeleteGroupEnds, HandlerOK
<1>5. ASSUME ReceiveEnds PROVE TypeInv'
  <2>1. op' = Idle /\ UNCHANGED <<copy, slog, mlog, made, group, ticket, issued, half, replays, interrupts>>
    BY <1>5 DEF ReceiveEnds
  <2> QED BY <2>1, <1>0 DEF TypeOK, Live, HandlerOK, LogsOfLive, Idle
<1>6. ASSUME ResolveMarks PROVE TypeInv'
  <2>1. op' = Idle /\ UNCHANGED <<copy, slog, mlog, made, group, issued, half, replays, interrupts>>
    BY <1>6 DEF ResolveMarks
  <2>2. ticket' \in [Tickets -> Parked \cup {None}]
    BY <1>6 DEF ResolveMarks, HandlerOK, TypeOK, Parked
  <2>3. TypeOK'
    BY <2>1, <2>2, <1>0 DEF TypeOK, Live
  <2> QED BY <2>1, <2>3, <1>0 DEF Live, HandlerOK, LogsOfLive, Idle
<1>7. ASSUME NEW c \in Copies, ReceiveOne(c) PROVE TypeInv'
  <2>1. /\ op.cmd = "receive" /\ c \in op.todo /\ c \in Live /\ StatusSet(c, "owned", "received")
        /\ op' = [op EXCEPT !.todo = @ \ {c}]
        /\ UNCHANGED <<mlog, made, group, ticket, issued, half, replays, interrupts>>
    BY <1>7 DEF ReceiveOne, HandlerOK
  <2>2. "owned" \in Statuses
    BY OrdersAreReceived
  <2>3. /\ copy' \in [Copies -> Rows \cup {None}] /\ slog' \in [Copies -> Seq(StatusEntry)]
        /\ Live' = Live /\ \A d \in Live : copy'[d].place = copy[d].place
        /\ \A d \in Copies \ {c} : copy'[d] = copy[d]
    BY <2>1, <2>2, StatusSetType
  <2>4. OpType(op')
    BY <2>1, <1>0
  <2>5. TypeOK'
    BY <2>1, <2>3, <2>4 DEF TypeOK, StatusEntry
  <2>6. HandlerOK'
    BY <2>1, <2>3, <1>0 DEF HandlerOK, Live
  <2>7. LogsOfLive'
    BY <2>1, <2>3 DEF LogsOfLive
  <2> QED BY <2>5, <2>6, <2>7
<1> QED BY <1>1, <1>2, <1>3, <1>4, <1>5, <1>6, <1>7 DEF Handler

LEMMA InterruptType ==
  ASSUME TypeInv, Interrupt
  PROVE  TypeInv'
<1>1. /\ op' = Idle /\ interrupts < MaxInterrupts /\ interrupts' = interrupts + 1
      /\ half' = IF op.deck = None THEN half ELSE half \cup {op.deck}
      /\ UNCHANGED <<copy, slog, mlog, made, group, ticket, issued, replays>>
  BY DEF Interrupt
<1>2. interrupts' \in 0..MaxInterrupts /\ half' \subseteq Decks
  BY <1>1, BoundsAreNat DEF TypeInv, TypeOK
<1>3. op' \in [cmd : {"idle", "deck", "group", "receive", "resolve"},
               at : {"-", "to", "drop", "next"},
               on : UNION {Groups, Orders, Tickets, {None}},
               deck : Decks \cup {None}, todo : SUBSET (Copies \cup Decks)]
  BY <1>1 DEF Idle
<1>4. TypeOK'
  BY <1>1, <1>2, <1>3 DEF TypeInv, TypeOK, Live
<1> QED BY <1>1, <1>4 DEF TypeInv, HandlerOK, LogsOfLive, Live, Idle

LEMMA TypeStep == TypeInv /\ [Next]_vars => TypeInv'
<1> SUFFICES ASSUME TypeInv, [Next]_vars PROVE TypeInv'
  OBVIOUS
<1>1. CASE UNCHANGED vars
  BY <1>1 DEF vars, history, TypeInv, TypeOK, HandlerOK, LogsOfLive, Live
<1> QED BY <1>1, CopyRequestsType, ContainerRequestsType, IntakeRequestsType,
           HandlerType, InterruptType DEF Next

(* Every reachable state has its types, and no row refers to a container    *)
(* that is gone (the foreign keys of collection and decks).                 *)
THEOREM TypeCorrect == Spec => []TypeOK
<1>1. Spec => []TypeInv
  BY TypeInit, TypeStep, PTL DEF Spec
<1>2. TypeInv => TypeOK
  BY DEF TypeInv
<1> QED BY <1>1, <1>2, PTL

-----------------------------------------------------------------------------
(* status_log. *)

\* What StatusTrail says of one copy.
StatusLeads(c) ==
    /\ slog[c] # <<>> /\ slog[c][1].from = None
    /\ \A i \in 1..(Len(slog[c]) - 1) : slog[c][i + 1].from = slog[c][i].to
    /\ FinalEntry(slog[c]).to = copy[c].status
    /\ \A i \in DOMAIN slog[c] : slog[c][i].note = "received" => slog[c][i].from = "ordered"

LEMMA StatusQuiet ==
  ASSUME StatusTrail, Live' \subseteq Live,
         \A c \in Live' : slog'[c] = slog[c] /\ copy'[c].status = copy[c].status
  PROVE  StatusTrail'
BY DEF StatusTrail, FinalEntry

LEMMA StatusSetTrail ==
  ASSUME TypeInv, StatusTrail, NEW c \in Live, NEW s \in Statuses,
         NEW note \in {"set", "received"}, StatusSet(c, s, note),
         note = "received" => copy[c].status = "ordered"
  PROVE  StatusTrail'
<1>1. /\ Live' = Live /\ copy'[c].status = s
      /\ \A d \in Copies \ {c} : copy'[d] = copy[d]
  BY StatusSetType DEF TypeInv
<1> DEFINE e == [from |-> copy[c].status, to |-> s, note |-> note]
           l == slog[c]
           m == Append(slog[c], e)
<1>2. c \in Copies /\ l \in Seq(StatusEntry) /\ copy[c] \in Rows
  BY DEF TypeInv, TypeOK, StatusEntry, Live
<1>3. e \in StatusEntry /\ e.from = copy[c].status /\ e.to = s /\ e.note = note
  BY <1>2 DEF StatusEntry, Rows
<1>4. slog'[c] = m /\ \A d \in Copies \ {c} : slog'[d] = slog[d]
  BY <1>2 DEF StatusSet, TypeInv, TypeOK
<1>5. /\ l # <<>> /\ l[1].from = None
      /\ \A i \in 1..(Len(l) - 1) : l[i + 1].from = l[i].to
      /\ l[Len(l)].to = copy[c].status
      /\ \A i \in 1..Len(l) : l[i].note = "received" => l[i].from = "ordered"
  BY <1>2 DEF StatusTrail, FinalEntry
<1> HIDE DEF e, l
<1>6. /\ m # <<>> /\ Len(m) = Len(l) + 1 /\ m[Len(l) + 1] = e
      /\ \A i \in 1..Len(l) : m[i] = l[i]
      /\ Len(l) \in Nat /\ Len(l) >= 1 /\ DOMAIN m = 1..(Len(l) + 1)
  <2>1. m \in Seq(StatusEntry)
    BY <1>2, <1>3, Appended DEF l
  <2>2. Len(l) \in Nat /\ Len(l) >= 1
    BY <1>2, <1>5
  <2> QED BY <1>2, <1>3, <2>1, <2>2, Appended DEF l
<1> HIDE DEF m
<1>7. m[1].from = None
  BY <1>5, <1>6
<1>8. ASSUME NEW i \in 1..(Len(m) - 1) PROVE m[i + 1].from = m[i].to
  <2>1. CASE i = Len(l)
    BY <2>1, <1>3, <1>5, <1>6
  <2>2. CASE i \in 1..(Len(l) - 1)
    BY <2>2, <1>5, <1>6
  <2> QED BY <1>6, <2>1, <2>2
<1>9. m[Len(m)].to = s
  BY <1>3, <1>6
<1>10. ASSUME NEW i \in DOMAIN m, m[i].note = "received" PROVE m[i].from = "ordered"
  <2>1. CASE i = Len(l) + 1
    BY <2>1, <1>10, <1>3, <1>6
  <2>2. CASE i \in 1..Len(l)
    BY <2>2, <1>10, <1>5, <1>6
  <2> QED BY <1>6, <2>1, <2>2
<1>11. StatusLeads(c)'
  BY <1>1, <1>4, <1>6, <1>7, <1>8, <1>9, <1>10 DEF StatusLeads, FinalEntry
<1>12. \A d \in Live \ {c} : StatusLeads(d)'
  BY <1>1, <1>4 DEF StatusTrail, StatusLeads, FinalEntry, Live
<1> QED BY <1>1, <1>11, <1>12 DEF StatusTrail, StatusLeads

LEMMA InsertedTrail ==
  ASSUME TypeInv, StatusTrail, NEW S \in SUBSET Copies, NEW row \in Rows, Inserted(S, row)
  PROVE  StatusTrail'
<1>1. /\ Live' = Live \cup S /\ \A c \in S : copy'[c] = row
      /\ \A c \in Copies \ S : copy'[c] = copy[c] /\ slog'[c] = slog[c]
  BY InsertedType DEF TypeInv
<1>2. \A c \in S : slog'[c] = <<[from |-> None, to |-> row.status, note |-> "added"]>>
  BY DEF Inserted
<1>3. ASSUME NEW c \in S PROVE StatusLeads(c)'
  <2> DEFINE e == [from |-> None, to |-> row.status, note |-> "added"]
  <2>1. e.from = None /\ e.to = row.status /\ e.note # "received"
    OBVIOUS
  <2>2. slog'[c] = <<e>> /\ copy'[c] = row
    BY <1>1, <1>2
  <2> HIDE DEF e
  <2>3. /\ slog'[c] # << >> /\ Len(slog'[c]) = 1 /\ slog'[c][1] = e
        /\ DOMAIN slog'[c] = {1} /\ 1 .. (Len(slog'[c]) - 1) = {}
    BY <2>2
  <2> QED BY <2>1, <2>2, <2>3 DEF StatusLeads, FinalEntry
<1>4. \A c \in Live \ S : StatusLeads(c)'
  BY <1>1 DEF StatusTrail, StatusLeads, FinalEntry, Live
<1> QED BY <1>1, <1>3, <1>4 DEF StatusTrail, StatusLeads

LEMMA StatusInit == Init => StatusTrail
BY DEF Init, StatusTrail, Live

LEMMA StatusStep == TypeInv /\ StatusTrail /\ [Next]_vars => StatusTrail'
<1> SUFFICES ASSUME TypeInv, StatusTrail, [Next]_vars PROVE StatusTrail'
  OBVIOUS
<1> USE DEF history
<1>0. Live \subseteq Copies /\ \A c \in Live : copy[c] \in Rows
  BY DEF Live, TypeInv, TypeOK
<1>1. CASE UNCHANGED vars
  BY <1>1 DEF vars, StatusTrail, FinalEntry, Live
<1>2. CASE CopyRequests
  <2> PICK c \in Copies : \/ \E s \in Statuses : SetStatus(c, s)
                          \/ \E p \in Places : MoveTo(c, p)
                          \/ \E s \in Statuses, p \in Places : Add(c, s, p)
                          \/ Delete(c)
    BY <1>2 DEF CopyRequests
  <2>1. ASSUME NEW s \in Statuses, SetStatus(c, s) PROVE StatusTrail'
    BY <2>1, StatusSetTrail DEF SetStatus
  <2>2. ASSUME NEW p \in Places, MoveTo(c, p) PROVE StatusTrail'
    <3>1. /\ slog' = slog /\ c \in Live /\ copy' = [copy EXCEPT ![c].place = p]
      BY <2>2 DEF MoveTo
    <3>2. \A d \in Live : copy'[d].status = copy[d].status
      BY <1>0, <3>1 DEF TypeInv, TypeOK, Rows
    <3>3. Live' \subseteq Live
      BY <3>1 DEF Live, TypeInv, TypeOK
    <3> QED BY <3>1, <3>2, <3>3, StatusQuiet
  <2>3. ASSUME NEW s \in Statuses, NEW p \in Places, Add(c, s, p) PROVE StatusTrail'
    <3>1. [status |-> s, place |-> p, order |-> None] \in Rows /\ {c} \in SUBSET Copies
      BY DEF Rows
    <3> QED BY <2>3, <3>1, InsertedTrail DEF Add
  <2>4. ASSUME Delete(c) PROVE StatusTrail'
    <3>1. Live' \subseteq Live /\ \A d \in Live' : copy'[d] = copy[d] /\ slog'[d] = slog[d]
      BY <2>4 DEF Delete, Live, TypeInv, TypeOK
    <3> QED BY <3>1, StatusQuiet
  <2> QED BY <2>1, <2>2, <2>3, <2>4
<1>3. CASE ContainerRequests
  <2>1. ASSUME NEW b \in Binders, DeleteBinder(b) PROVE StatusTrail'
    <3>1. Drop(b) /\ slog' = slog /\ b \in Containers
      BY <2>1 DEF DeleteBinder, Containers
    <3>2. Live' = Live /\ \A c \in Live : copy'[c].status = copy[c].status
      BY <3>1, DropType DEF TypeInv
    <3> QED BY <3>1, <3>2, StatusQuiet
  <2>2. ASSUME NEW g \in Groups, ReleaseAll(g, Idle) \/ DeleteGroup(g) PROVE StatusTrail'
    <3>1. Released(g) /\ slog' = slog
      BY <2>2 DEF ReleaseAll, DeleteGroup
    <3>2. \A c \in Copies : copy'[c] = IF InGroup(c, g) THEN [copy[c] EXCEPT !.place = None]
                                       ELSE copy[c]
      BY <3>1 DEF Released
    <3>3. \A c \in Live : copy'[c].status = copy[c].status
      BY <1>0, <3>2 DEF Rows
    <3>4. Live' \subseteq Live
      BY <3>2 DEF Live, InGroup
    <3> QED BY <3>1, <3>3, <3>4, StatusQuiet
  <2>3. ASSUME copy' = copy, slog' = slog PROVE StatusTrail'
    BY <2>3, StatusQuiet DEF Live
  <2> QED BY <1>3, <2>1, <2>2, <2>3
         DEF ContainerRequests, Make, DeleteDeck, ForgetSource, SetGroup, Ungroup, DropGroup
<1>4. CASE IntakeRequests
  <2>1. ASSUME NEW o \in Orders, NEW S \in SUBSET Copies, Order(o, S) PROVE StatusTrail'
    <3>1. [status |-> "ordered", place |-> None, order |-> o] \in Rows
      BY OrdersAreReceived DEF Rows, Places
    <3> QED BY <2>1, <3>1, InsertedTrail DEF Order
  <2>2. ASSUME NEW t \in Tickets, NEW c \in Copies, Resolve(t, c) PROVE StatusTrail'
    <3>1. [status |-> "owned", place |-> None, order |-> None] \in Rows /\ {c} \in SUBSET Copies
      BY OrdersAreReceived DEF Rows, Places
    <3> QED BY <2>2, <3>1, InsertedTrail DEF Resolve
  <2>3. ASSUME copy' = copy, slog' = slog PROVE StatusTrail'
    BY <2>3, StatusQuiet DEF Live
  <2> QED BY <1>4, <2>1, <2>2, <2>3 DEF IntakeRequests, Receive, Park, Dismiss
<1>5. CASE Handler
  <2>1. ASSUME NEW c \in Copies, ReceiveOne(c) PROVE StatusTrail'
    <3>1. c \in Live /\ copy[c].status = "ordered" /\ StatusSet(c, "owned", "received")
      BY <2>1 DEF ReceiveOne, TypeInv, HandlerOK
    <3> QED BY <3>1, OrdersAreReceived, StatusSetTrail
  <2>2. ASSUME DropDeck PROVE StatusTrail'
    <3>1. Drop(op.deck) /\ slog' = slog /\ op.deck \in Containers
      BY <2>2 DEF DropDeck, TypeInv, TypeOK, HandlerOK, Containers
    <3>2. Live' = Live /\ \A c \in Live : copy'[c].status = copy[c].status
      BY <3>1, DropType DEF TypeInv
    <3> QED BY <3>1, <3>2, StatusQuiet
  <2>3. ASSUME copy' = copy, slog' = slog PROVE StatusTrail'
    BY <2>3, StatusQuiet DEF Live
  <2> QED BY <1>5, <2>1, <2>2, <2>3
         DEF Handler, ForgetTarget, DeleteGroupDeck, ForgetSource, DeleteGroupEnds, DropGroup,
             ReceiveEnds, ResolveMarks
<1>6. CASE Interrupt
  BY <1>6, StatusQuiet DEF Interrupt, Live
<1> QED BY <1>1, <1>2, <1>3, <1>4, <1>5, <1>6 DEF Next

(* status_log tells the whole life of every copy, without a break, and an   *)
(* order received in any number of attempts only turns 'ordered' into       *)
(* 'owned'.                                                                 *)
THEOREM StatusTrailUnbroken == Spec => []StatusTrail
<1>1. Init => TypeInv /\ StatusTrail
  BY TypeInit, StatusInit
<1>2. TypeInv /\ StatusTrail /\ [Next]_vars => (TypeInv /\ StatusTrail)'
  BY TypeStep, StatusStep
<1> QED BY <1>1, <1>2, PTL DEF Spec

-----------------------------------------------------------------------------
(* movement_log. *)

\* How far the deletion in progress has cleared the log of its deck.
Cleared ==
    /\ op.at = "to" => \A c \in Copies : \A i \in DOMAIN mlog[c] : mlog[c][i].from # op.deck
    /\ op.at = "drop" => ~Mentioned(op.deck)

PlaceInv == TypeInv /\ PlaceTrail /\ Cleared

\* What PlaceTrail says of one copy that has moved.
PlaceLeads(c) ==
    /\ \A i \in 1..(Len(mlog[c]) - 1) : Settled(mlog[c][i + 1].from) = Settled(mlog[c][i].to)
    /\ Settled(FinalEntry(mlog[c]).to) = Settled(copy[c].place)

\* Settled in the next state.
SettledNext(p) == IF p \in half' \cup {op'.deck} THEN None ELSE p

LEMMA SettledPrime == \A p : SettledNext(p) = Settled(p)'
BY DEF SettledNext, Settled

LEMMA MoveLogFacts ==
  ASSUME TypeInv, NEW c \in Copies
  PROVE  /\ mlog[c] \in Seq(MoveEntry) /\ Len(mlog[c]) \in Nat
         /\ DOMAIN mlog[c] = 1..Len(mlog[c])
         /\ mlog[c] # <<>> => Len(mlog[c]) >= 1
         /\ \A i \in 1..Len(mlog[c]) : mlog[c][i] \in MoveEntry
<1>1. mlog[c] \in Seq(MoveEntry)
  BY DEF TypeInv, TypeOK, MoveEntry
<1> QED BY <1>1

\* A log whose entries, settled, change only as f says still leads to where
\* the copy, settled, has gone the same way.
LEMMA PlaceMapped ==
  ASSUME TypeInv, PlaceTrail, NEW f, NEW c \in Copies, c \in Live, mlog[c] # <<>>,
         Len(mlog'[c]) = Len(mlog[c]),
         \A i \in 1..Len(mlog[c]) :
            /\ SettledNext(mlog'[c][i].from) = f[Settled(mlog[c][i].from)]
            /\ SettledNext(mlog'[c][i].to) = f[Settled(mlog[c][i].to)],
         SettledNext(copy'[c].place) = f[Settled(copy[c].place)]
  PROVE  PlaceLeads(c)'
<1> DEFINE n == Len(mlog[c])
<1>1. n \in Nat /\ n >= 1
  BY MoveLogFacts
<1>2. /\ \A i \in 1..(n - 1) : Settled(mlog[c][i + 1].from) = Settled(mlog[c][i].to)
      /\ Settled(mlog[c][n].to) = Settled(copy[c].place)
  BY DEF PlaceTrail, FinalEntry
<1>3. \A i \in 1..(n - 1) : SettledNext(mlog'[c][i + 1].from) = SettledNext(mlog'[c][i].to)
  <2> SUFFICES ASSUME NEW i \in 1..(n - 1)
               PROVE  SettledNext(mlog'[c][i + 1].from) = SettledNext(mlog'[c][i].to)
    OBVIOUS
  <2>1. i \in 1..n /\ i + 1 \in 1..n
    BY <1>1
  <2> QED BY <2>1, <1>2
<1>4. SettledNext(mlog'[c][n].to) = SettledNext(copy'[c].place)
  BY <1>1, <1>2
<1> QED BY <1>3, <1>4 DEF PlaceLeads, FinalEntry, SettledNext, Settled

\* A copy takes a step to p: the entry starts where its log led.
LEMMA PlaceAppended ==
  ASSUME TypeInv, PlaceTrail, NEW c \in Live, NEW p \in Places,
         mlog'[c] = Append(mlog[c], [from |-> copy[c].place, to |-> p]),
         copy'[c].place = p, \A x : SettledNext(x) = Settled(x)
  PROVE  PlaceLeads(c)'
<1> DEFINE n == Len(mlog[c])
           e == [from |-> copy[c].place, to |-> p]
           m == Append(mlog[c], e)
<1>1. c \in Copies /\ copy[c] \in Rows
  BY DEF Live, TypeInv, TypeOK
<1>2. e \in MoveEntry /\ e.from = copy[c].place /\ e.to = p
  BY <1>1 DEF Rows, MoveEntry
<1> HIDE DEF e
<1>3. /\ mlog[c] \in Seq(MoveEntry) /\ n \in Nat
      /\ mlog[c] # <<>> => n >= 1
      /\ n >= 1 => mlog[c] # <<>>
  BY <1>1, MoveLogFacts
<1>4. /\ Len(m) = n + 1 /\ m[n + 1] = e /\ \A i \in 1..n : m[i] = mlog[c][i]
  BY <1>2, <1>3, Appended
<1> HIDE DEF m
<1>5. mlog'[c] = m
  BY DEF m, e
<1>6. ASSUME NEW i \in 1..(Len(m) - 1) PROVE Settled(m[i + 1].from) = Settled(m[i].to)
  <2>1. n >= 1 /\ mlog[c] # <<>>
    BY <1>3, <1>4
  <2>2. /\ \A j \in 1..(n - 1) : Settled(mlog[c][j + 1].from) = Settled(mlog[c][j].to)
        /\ Settled(mlog[c][n].to) = Settled(copy[c].place)
    BY <2>1 DEF PlaceTrail, FinalEntry
  <2>3. CASE i = n
    BY <2>1, <2>2, <2>3, <1>2, <1>3, <1>4
  <2>4. CASE i \in 1..(n - 1)
    BY <2>2, <2>4, <1>3, <1>4
  <2> QED BY <2>3, <2>4, <1>3, <1>4
<1>7. Settled(m[Len(m)].to) = Settled(p)
  BY <1>2, <1>3, <1>4
<1> QED BY <1>5, <1>6, <1>7 DEF PlaceLeads, FinalEntry, SettledNext, Settled

\* Nothing that PlaceTrail reads changes but the set of copies with a log.
LEMMA PlaceQuiet ==
  ASSUME TypeInv, PlaceTrail, \A x : SettledNext(x) = Settled(x),
         \A c \in Copies : c \in Live' /\ mlog'[c] # <<>> =>
            c \in Live /\ mlog'[c] = mlog[c] /\ copy'[c].place = copy[c].place
  PROVE  PlaceTrail'
<1> SUFFICES ASSUME NEW c \in Copies, c \in Live', mlog'[c] # <<>>
             PROVE  PlaceLeads(c)'
  BY DEF PlaceTrail, PlaceLeads, Live
<1>1. c \in Live /\ mlog'[c] = mlog[c] /\ copy'[c].place = copy[c].place /\ mlog[c] # <<>>
  OBVIOUS
<1>2. PlaceLeads(c)
  BY <1>1 DEF PlaceTrail, PlaceLeads
<1> QED BY <1>1, <1>2 DEF PlaceLeads, FinalEntry, SettledNext, Settled

LEMMA PlaceInit == Init => PlaceTrail /\ Cleared
BY DEF Init, PlaceTrail, Cleared, Live, Idle

\* Rows are added under ids that had no row, so no log.
LEMMA PlaceInserted ==
  ASSUME TypeInv, PlaceTrail, NEW S \in SUBSET Copies, NEW row \in Rows, Inserted(S, row),
         mlog' = mlog, half' = half, op.deck = None, op'.deck = None
  PROVE  PlaceTrail'
<1>1. /\ Live' = Live \cup S /\ S \cap Live = {}
      /\ \A c \in Copies \ S : copy'[c] = copy[c]
  BY InsertedType DEF TypeInv, LogsOfLive, Inserted
<1>2. \A c \in S : mlog[c] = <<>>
  BY <1>1 DEF TypeInv, LogsOfLive
<1> QED BY <1>1, <1>2, PlaceQuiet DEF SettledNext, Settled

\* What the log of a copy becomes when it forgets deck d as a source, and as
\* a target.
LEMMA SourcesForgotten ==
  ASSUME TypeInv, NEW d \in Decks, NEW c \in Copies, mlog' = Forgotten("from", d)
  PROVE  /\ Len(mlog'[c]) = Len(mlog[c]) /\ DOMAIN mlog'[c] = 1..Len(mlog[c])
         /\ mlog'[c] # <<>> => mlog[c] # <<>>
         /\ \A i \in 1..Len(mlog[c]) :
               /\ mlog[c][i].from \in Places /\ mlog[c][i].to \in Places
               /\ mlog'[c][i].from = IF mlog[c][i].from = d THEN None ELSE mlog[c][i].from
               /\ mlog'[c][i].to = mlog[c][i].to
<1>1. TypeOK
  BY DEF TypeInv
<1>2. /\ Forgotten("from", d)[c] \in Seq(MoveEntry)
      /\ Len(Forgotten("from", d)[c]) = Len(mlog[c])
      /\ DOMAIN Forgotten("from", d)[c] = DOMAIN mlog[c]
  BY <1>1, ForgottenType
<1>3. DOMAIN mlog[c] = 1..Len(mlog[c]) /\ mlog[c] \in Seq(MoveEntry)
  BY MoveLogFacts
<1>4. mlog'[c] # <<>> => mlog[c] # <<>>
  BY <1>2, <1>3
<1>5. ASSUME NEW i \in 1..Len(mlog[c])
      PROVE  /\ mlog[c][i].from \in Places /\ mlog[c][i].to \in Places
             /\ mlog'[c][i].from = IF mlog[c][i].from = d THEN None ELSE mlog[c][i].from
             /\ mlog'[c][i].to = mlog[c][i].to
  <2>1. mlog[c][i] \in MoveEntry
    BY <1>3
  <2>2. mlog'[c][i] = IF mlog[c][i].from = d THEN [mlog[c][i] EXCEPT !.from = None]
                      ELSE mlog[c][i]
    BY <1>3 DEF Forgotten
  <2> QED BY <2>1, <2>2 DEF MoveEntry
<1> QED BY <1>2, <1>3, <1>4, <1>5

LEMMA TargetsForgotten ==
  ASSUME TypeInv, NEW d \in Decks, NEW c \in Copies, mlog' = Forgotten("to", d)
  PROVE  /\ Len(mlog'[c]) = Len(mlog[c]) /\ DOMAIN mlog'[c] = 1..Len(mlog[c])
         /\ mlog'[c] # <<>> => mlog[c] # <<>>
         /\ \A i \in 1..Len(mlog[c]) :
               /\ mlog[c][i].from \in Places /\ mlog[c][i].to \in Places
               /\ mlog'[c][i].from = mlog[c][i].from
               /\ mlog'[c][i].to = IF mlog[c][i].to = d THEN None ELSE mlog[c][i].to
<1>1. TypeOK
  BY DEF TypeInv
<1>2. /\ Forgotten("to", d)[c] \in Seq(MoveEntry)
      /\ Len(Forgotten("to", d)[c]) = Len(mlog[c])
      /\ DOMAIN Forgotten("to", d)[c] = DOMAIN mlog[c]
  BY <1>1, ForgottenType
<1>3. DOMAIN mlog[c] = 1..Len(mlog[c]) /\ mlog[c] \in Seq(MoveEntry)
  BY MoveLogFacts
<1>4. mlog'[c] # <<>> => mlog[c] # <<>>
  BY <1>2, <1>3
<1>5. ASSUME NEW i \in 1..Len(mlog[c])
      PROVE  /\ mlog[c][i].from \in Places /\ mlog[c][i].to \in Places
             /\ mlog'[c][i].from = mlog[c][i].from
             /\ mlog'[c][i].to = IF mlog[c][i].to = d THEN None ELSE mlog[c][i].to
  <2>1. mlog[c][i] \in MoveEntry
    BY <1>3
  <2>2. mlog'[c][i] = IF mlog[c][i].to = d THEN [mlog[c][i] EXCEPT !.to = None]
                      ELSE mlog[c][i]
    BY <1>3 DEF Forgotten
  <2> QED BY <2>1, <2>2 DEF MoveEntry
<1> QED BY <1>2, <1>3, <1>4, <1>5

\* A deletion begins: d stands for no deck from here on.
LEMMA ForgetSourcePlace ==
  ASSUME TypeInv, PlaceTrail, op.deck = None, NEW d \in Decks, NEW cmd, NEW on, NEW todo,
         ForgetSource(cmd, on, d, todo)
  PROVE  PlaceTrail' /\ Cleared'
<1> DEFINE f == [x \in Places |-> IF x = d THEN None ELSE x]
<1>1. /\ mlog' = Forgotten("from", d) /\ op'.at = "to" /\ op'.deck = d
      /\ copy' = copy /\ half' = half
  BY DEF ForgetSource, history
<1>2. d \in Places /\ None \in Places /\ d # None
  BY NoneIsNoId DEF Places, Containers
<1>3. \A x \in Places : SettledNext(x) = f[Settled(x)]
  BY <1>1, <1>2 DEF SettledNext, Settled
<1>4. SettledNext(None) = SettledNext(d)
  BY <1>1 DEF SettledNext
<1> HIDE DEF f
<1>5. ASSUME NEW c \in Copies, c \in Live', mlog'[c] # <<>> PROVE PlaceLeads(c)'
  <2>1. c \in Live /\ copy[c] \in Rows /\ copy[c].place \in Places
    BY <1>1, <1>5 DEF Live, TypeInv, TypeOK, Rows
  <2>2. /\ Len(mlog'[c]) = Len(mlog[c]) /\ mlog[c] # <<>>
        /\ \A i \in 1..Len(mlog[c]) :
              /\ mlog[c][i].from \in Places /\ mlog[c][i].to \in Places
              /\ mlog'[c][i].from = IF mlog[c][i].from = d THEN None ELSE mlog[c][i].from
              /\ mlog'[c][i].to = mlog[c][i].to
    BY <1>1, <1>5, SourcesForgotten
  <2>3. \A i \in 1..Len(mlog[c]) :
           /\ SettledNext(mlog'[c][i].from) = f[Settled(mlog[c][i].from)]
           /\ SettledNext(mlog'[c][i].to) = f[Settled(mlog[c][i].to)]
    BY <2>2, <1>3, <1>4
  <2>4. SettledNext(copy'[c].place) = f[Settled(copy[c].place)]
    BY <1>1, <1>3, <2>1
  <2> QED BY <2>1, <2>2, <2>3, <2>4, PlaceMapped
<1>6. PlaceTrail'
  BY <1>5 DEF PlaceTrail, PlaceLeads, Live
<1>7. \A c \in Copies : \A i \in DOMAIN mlog'[c] : mlog'[c][i].from # d
  BY <1>1, <1>2, SourcesForgotten
<1> QED BY <1>1, <1>6, <1>7 DEF Cleared

LEMMA ForgetTargetPlace ==
  ASSUME TypeInv, PlaceTrail, Cleared, ForgetTarget
  PROVE  PlaceTrail' /\ Cleared'
<1> DEFINE d == op.deck
           f == [x \in Places |-> x]
<1>1. /\ mlog' = Forgotten("to", d) /\ op'.at = "drop" /\ op'.deck = d
      /\ copy' = copy /\ half' = half /\ op.at = "to"
  <2>1. op' = [op EXCEPT !.at = "drop"] /\ op.at = "to"
    BY DEF ForgetTarget
  <2>2. op'.at = "drop" /\ op'.deck = op.deck
    BY <2>1 DEF TypeInv, TypeOK
  <2> QED BY <2>1, <2>2 DEF ForgetTarget, history
<1>2. d \in Decks /\ d \in Places /\ None \in Places /\ d # None
  BY <1>1, NoneIsNoId DEF Places, Containers, TypeInv, TypeOK, HandlerOK
<1>3. \A x \in Places : SettledNext(x) = f[Settled(x)]
  BY <1>1, <1>2 DEF SettledNext, Settled
<1>4. SettledNext(None) = SettledNext(d)
  BY <1>1 DEF SettledNext
<1> HIDE DEF f
<1>5. ASSUME NEW c \in Copies, c \in Live', mlog'[c] # <<>> PROVE PlaceLeads(c)'
  <2>1. c \in Live /\ copy[c] \in Rows /\ copy[c].place \in Places
    BY <1>1, <1>5 DEF Live, TypeInv, TypeOK, Rows
  <2>2. /\ Len(mlog'[c]) = Len(mlog[c]) /\ mlog[c] # <<>>
        /\ \A i \in 1..Len(mlog[c]) :
              /\ mlog[c][i].from \in Places /\ mlog[c][i].to \in Places
              /\ mlog'[c][i].from = mlog[c][i].from
              /\ mlog'[c][i].to = IF mlog[c][i].to = d THEN None ELSE mlog[c][i].to
    BY <1>1, <1>2, <1>5, TargetsForgotten
  <2>3. \A i \in 1..Len(mlog[c]) :
           /\ SettledNext(mlog'[c][i].from) = f[Settled(mlog[c][i].from)]
           /\ SettledNext(mlog'[c][i].to) = f[Settled(mlog[c][i].to)]
    BY <2>2, <1>3, <1>4
  <2>4. SettledNext(copy'[c].place) = f[Settled(copy[c].place)]
    BY <1>1, <1>3, <2>1
  <2> QED BY <2>1, <2>2, <2>3, <2>4, PlaceMapped
<1>6. PlaceTrail'
  BY <1>5 DEF PlaceTrail, PlaceLeads, Live
<1>7. \A c \in Copies : \A i \in DOMAIN mlog'[c] : mlog'[c][i].from # d /\ mlog'[c][i].to # d
  <2> SUFFICES ASSUME NEW c \in Copies, NEW i \in DOMAIN mlog'[c]
               PROVE  mlog'[c][i].from # d /\ mlog'[c][i].to # d
    OBVIOUS
  <2>1. /\ i \in 1..Len(mlog[c]) /\ mlog'[c][i].from = mlog[c][i].from
        /\ mlog'[c][i].to = IF mlog[c][i].to = d THEN None ELSE mlog[c][i].to
    BY <1>1, <1>2, TargetsForgotten
  <2>2. mlog[c][i].from # d
    BY <1>1, <2>1, MoveLogFacts DEF Cleared
  <2> QED BY <1>2, <2>1, <2>2
<1> QED BY <1>1, <1>6, <1>7 DEF Cleared, Mentioned

\* DELETE of a container the log does not mention, or that the log keeps.
LEMMA DropPlace ==
  ASSUME TypeInv, PlaceTrail, NEW k \in Containers, Drop(k), mlog' = mlog,
         \/ half' = half /\ op' = op
         \/ half' = half \ {k} /\ op.deck = k /\ op'.deck = None /\ ~Mentioned(k)
  PROVE  PlaceTrail'
<1> SUFFICES ASSUME NEW c \in Copies, c \in Live', mlog'[c] # <<>>
             PROVE  PlaceLeads(c)'
  BY DEF PlaceTrail, PlaceLeads, Live
<1> DEFINE n == Len(mlog[c])
           to == mlog[c][n].to
<1>1. /\ c \in Live
      /\ copy'[c].place = IF copy[c].place = k /\ ~Mentioned(k) THEN None ELSE copy[c].place
  BY DropType DEF TypeInv
<1>2. /\ n \in Nat /\ n >= 1 /\ DOMAIN mlog[c] = 1..n
      /\ \A i \in 1..n : mlog[c][i] \in MoveEntry
  BY MoveLogFacts
<1>3. /\ \A i \in 1..(n - 1) : Settled(mlog[c][i + 1].from) = Settled(mlog[c][i].to)
      /\ Settled(to) = Settled(copy[c].place)
  BY <1>1 DEF PlaceTrail, FinalEntry
<1>4. ~Mentioned(k) => \A i \in 1..n : mlog[c][i].from # k /\ mlog[c][i].to # k
  BY <1>2 DEF Mentioned
<1>5. \A x : x # k \/ Mentioned(k) => SettledNext(x) = Settled(x)
  BY DEF SettledNext, Settled
<1>6. \A i \in 1..n : /\ SettledNext(mlog[c][i].from) = Settled(mlog[c][i].from)
                      /\ SettledNext(mlog[c][i].to) = Settled(mlog[c][i].to)
  BY <1>4, <1>5
<1>7. SettledNext(to) = SettledNext(copy'[c].place)
  <2>1. SettledNext(to) = Settled(copy[c].place)
    BY <1>2, <1>3, <1>6
  <2>2. CASE copy[c].place = k /\ ~Mentioned(k)
    <3>1. to # k /\ Settled(to) = Settled(k)
      BY <1>2, <1>3, <1>4, <2>2
    <3>2. Settled(k) = None
      BY <3>1 DEF Settled
    <3> QED BY <1>1, <2>1, <2>2, <3>2 DEF SettledNext
  <2>3. CASE ~(copy[c].place = k /\ ~Mentioned(k))
    BY <1>1, <1>5, <2>1, <2>3
  <2> QED BY <2>2, <2>3
<1>8. \A i \in 1..(n - 1) : SettledNext(mlog[c][i + 1].from) = SettledNext(mlog[c][i].to)
  <2> SUFFICES ASSUME NEW i \in 1..(n - 1)
               PROVE  SettledNext(mlog[c][i + 1].from) = SettledNext(mlog[c][i].to)
    OBVIOUS
  <2>1. i \in 1..n /\ i + 1 \in 1..n
    BY <1>2
  <2> QED BY <2>1, <1>3, <1>6
<1> QED BY <1>7, <1>8 DEF PlaceLeads, FinalEntry, SettledNext, Settled

\* Where every copy goes when a group's decks are emptied.
LEMMA ReleasedPlace ==
  ASSUME TypeInv, PlaceTrail, NEW g \in Groups, Released(g),
         half' = half, op.deck = None, op'.deck = None
  PROVE  PlaceTrail'
<1> SUFFICES ASSUME NEW c \in Copies, c \in Live', mlog'[c] # <<>>
             PROVE  PlaceLeads(c)'
  BY DEF PlaceTrail, PlaceLeads, Live
<1>1. \A x : SettledNext(x) = Settled(x)
  BY DEF SettledNext, Settled
<1>2. CASE InGroup(c, g)
  <2>1. c \in Live /\ copy[c] \in Rows
    BY <1>2 DEF InGroup, Live, TypeInv, TypeOK
  <2>2. mlog'[c] = Append(mlog[c], [from |-> copy[c].place, to |-> None])
    BY <1>2 DEF Released
  <2>3. copy'[c].place = None
    BY <1>2, <2>1 DEF Released, Rows
  <2> QED BY <1>1, <2>1, <2>2, <2>3, PlaceAppended DEF Places
<1>3. CASE ~InGroup(c, g)
  <2>1. copy'[c] = copy[c] /\ mlog'[c] = mlog[c] /\ c \in Live
    BY <1>3 DEF Released, Live
  <2>2. PlaceLeads(c)
    BY <2>1 DEF PlaceTrail, PlaceLeads
  <2> QED BY <1>1, <2>1, <2>2 DEF PlaceLeads, FinalEntry, SettledNext, Settled
<1> QED BY <1>2, <1>3

LEMMA PlaceCopyRequests ==
  ASSUME TypeInv, PlaceTrail, CopyRequests
  PROVE  PlaceTrail' /\ Cleared'
<1> USE DEF history
<1> PICK c \in Copies : \/ \E s \in Statuses : SetStatus(c, s)
                        \/ \E p \in Places : MoveTo(c, p)
                        \/ \E s \in Statuses, p \in Places : Add(c, s, p)
                        \/ Delete(c)
  BY DEF CopyRequests
<1>1. op = Idle /\ op' = op /\ half' = half
  BY DEF SetStatus, MoveTo, Add, Delete
<1>2. op.deck = None /\ op'.deck = None /\ op'.at = "-" /\ \A x : SettledNext(x) = Settled(x)
  BY <1>1, IdleFacts DEF SettledNext, Settled
<1>3. Cleared'
  BY <1>2 DEF Cleared
<1>4. ASSUME NEW s \in Statuses, SetStatus(c, s) PROVE PlaceTrail'
  <2>1. StatusSet(c, s, "set") /\ mlog' = mlog /\ c \in Live
    BY <1>4 DEF SetStatus
  <2>2. Live' = Live /\ \A d \in Live : copy'[d].place = copy[d].place
    BY <2>1, StatusSetType DEF TypeInv
  <2> QED BY <1>2, <2>1, <2>2, PlaceQuiet
<1>5. ASSUME NEW p \in Places, MoveTo(c, p) PROVE PlaceTrail'
  <2>1. /\ c \in Live /\ copy' = [copy EXCEPT ![c].place = p]
        /\ mlog' = [mlog EXCEPT ![c] = Append(@, [from |-> copy[c].place, to |-> p])]
    BY <1>5 DEF MoveTo
  <2>2. copy \in [Copies -> Rows \cup {None}] /\ mlog \in [Copies -> Seq(MoveEntry)]
    BY DEF TypeInv, TypeOK, MoveEntry
  <2>3. /\ copy'[c].place = p
        /\ mlog'[c] = Append(mlog[c], [from |-> copy[c].place, to |-> p])
    BY <2>1, <2>2 DEF Rows, Live
  <2>4. PlaceLeads(c)'
    BY <1>2, <2>1, <2>3, PlaceAppended
  <2>5. ASSUME NEW d \in Copies, d # c, d \in Live', mlog'[d] # <<>> PROVE PlaceLeads(d)'
    <3>1. copy'[d] = copy[d] /\ mlog'[d] = mlog[d] /\ d \in Live
      BY <2>1, <2>2, <2>5 DEF Live
    <3>2. PlaceLeads(d)
      BY <2>5, <3>1 DEF PlaceTrail, PlaceLeads
    <3> QED BY <1>2, <3>1, <3>2 DEF PlaceLeads, FinalEntry, SettledNext, Settled
  <2> QED BY <2>4, <2>5 DEF PlaceTrail, PlaceLeads, Live
<1>6. ASSUME NEW s \in Statuses, NEW p \in Places, Add(c, s, p) PROVE PlaceTrail'
  <2> DEFINE row == [status |-> s, place |-> p, order |-> None]
  <2>1. row \in Rows /\ {c} \in SUBSET Copies
    BY DEF Rows
  <2>2. Inserted({c}, row) /\ mlog' = mlog
    BY <1>6 DEF Add
  <2> HIDE DEF row
  <2> QED BY <1>1, <1>2, <2>1, <2>2, PlaceInserted
<1>7. ASSUME Delete(c) PROVE PlaceTrail'
  <2>1. \A d \in Copies : d \in Live' /\ mlog'[d] # <<>> =>
           d \in Live /\ mlog'[d] = mlog[d] /\ copy'[d] = copy[d]
    BY <1>7 DEF Delete, TypeInv, TypeOK, Live
  <2> QED BY <1>2, <2>1, PlaceQuiet
<1> QED BY <1>3, <1>4, <1>5, <1>6, <1>7

LEMMA PlaceContainerRequests ==
  ASSUME TypeInv, PlaceTrail, ContainerRequests
  PROVE  PlaceTrail' /\ Cleared'
<1> USE DEF history
<1>1. ASSUME NEW b \in Binders, DeleteBinder(b) PROVE PlaceTrail' /\ Cleared'
  <2>1. /\ op = Idle /\ op' = op /\ half' = half /\ mlog' = mlog /\ Drop(b) /\ b \in Containers
    BY <1>1 DEF DeleteBinder, Containers
  <2>2. Cleared'
    BY <2>1, IdleFacts DEF Cleared
  <2> QED BY <2>1, <2>2, DropPlace
<1>2. ASSUME NEW d \in Decks, DeleteDeck(d) PROVE PlaceTrail' /\ Cleared'
  <2>1. op = Idle /\ ForgetSource("deck", None, d, {})
    BY <1>2 DEF DeleteDeck
  <2> QED BY <2>1, IdleFacts, ForgetSourcePlace
<1>3. ASSUME NEW g \in Groups, ReleaseAll(g, Idle) \/ DeleteGroup(g) PROVE PlaceTrail' /\ Cleared'
  <2>1. op = Idle /\ Released(g) /\ half' = half
    BY <1>3 DEF DeleteGroup, ReleaseAll
  <2>2. op.deck = None /\ op'.deck = None /\ op'.at \in {"-", "next"}
    <3>1. CASE ReleaseAll(g, Idle)
      BY <2>1, <3>1 DEF ReleaseAll, Idle
    <3>2. CASE DeleteGroup(g)
      <4>1. op' = [Idle EXCEPT !.cmd = "group", !.at = "next", !.on = g, !.todo = DecksOf(g)]
        BY <3>2 DEF DeleteGroup, ReleaseAll
      <4> QED BY <2>1, <4>1 DEF Idle
    <3> QED BY <1>3, <3>1, <3>2
  <2> QED BY <2>1, <2>2, ReleasedPlace DEF Cleared
<1>4. ASSUME op = Idle, op' = Idle, copy' = copy, mlog' = mlog, half' = half
      PROVE  PlaceTrail' /\ Cleared'
  <2>1. op'.at = "-" /\ \A x : SettledNext(x) = Settled(x)
    BY <1>4 DEF SettledNext, Settled, Idle
  <2> QED BY <1>4, <2>1, PlaceQuiet DEF Cleared, Live
<1> QED BY <1>1, <1>2, <1>3, <1>4
       DEF ContainerRequests, Make, SetGroup, Ungroup, DropGroup

LEMMA PlaceIntakeRequests ==
  ASSUME TypeInv, PlaceTrail, IntakeRequests
  PROVE  PlaceTrail' /\ Cleared'
<1> USE DEF history
<1>1. ASSUME NEW o \in Orders, NEW S \in SUBSET Copies, Order(o, S)
      PROVE  PlaceTrail' /\ Cleared'
  <2> DEFINE row == [status |-> "ordered", place |-> None, order |-> o]
  <2>1. row \in Rows
    BY OrdersAreReceived DEF Rows, Places
  <2>2. Inserted(S, row) /\ mlog' = mlog /\ half' = half /\ op = Idle /\ op' = op
    BY <1>1 DEF Order
  <2> HIDE DEF row
  <2>3. op.deck = None /\ op.at = "-"
    BY <2>2, IdleFacts
  <2> QED BY <2>1, <2>2, <2>3, PlaceInserted DEF Cleared
<1>2. ASSUME NEW t \in Tickets, NEW c \in Copies, Resolve(t, c) PROVE PlaceTrail' /\ Cleared'
  <2> DEFINE row == [status |-> "owned", place |-> None, order |-> None]
  <2>1. row \in Rows /\ {c} \in SUBSET Copies
    BY OrdersAreReceived DEF Rows, Places
  <2>2. Inserted({c}, row) /\ mlog' = mlog /\ half' = half /\ op = Idle
    BY <1>2 DEF Resolve
  <2> HIDE DEF row
  <2>3. op.deck = None /\ op'.deck = None /\ op'.at = "-"
    BY <1>2 DEF Resolve, Idle
  <2> QED BY <2>1, <2>2, <2>3, PlaceInserted DEF Cleared
<1>3. ASSUME op = Idle, op'.deck = None, op'.at = "-", copy' = copy, mlog' = mlog, half' = half
      PROVE  PlaceTrail' /\ Cleared'
  <2>1. \A x : SettledNext(x) = Settled(x)
    BY <1>3 DEF SettledNext, Settled, Idle
  <2> QED BY <1>3, <2>1, PlaceQuiet DEF Cleared, Live
<1>4. ASSUME NEW o \in Orders, Receive(o) PROVE PlaceTrail' /\ Cleared'
  <2>1. /\ op = Idle /\ op'.deck = None /\ op'.at = "-"
        /\ copy' = copy /\ mlog' = mlog /\ half' = half
    BY <1>4 DEF Receive, Idle
  <2> QED BY <1>3, <2>1
<1>5. ASSUME NEW t \in Tickets, Park(t) \/ Dismiss(t) PROVE PlaceTrail' /\ Cleared'
  <2>1. /\ op = Idle /\ op'.deck = None /\ op'.at = "-"
        /\ copy' = copy /\ mlog' = mlog /\ half' = half
    BY <1>5 DEF Park, Dismiss, Idle
  <2> QED BY <1>3, <2>1
<1> QED BY <1>1, <1>2, <1>4, <1>5 DEF IntakeRequests

LEMMA PlaceHandler ==
  ASSUME TypeInv, PlaceTrail, Cleared, Handler
  PROVE  PlaceTrail' /\ Cleared'
<1> USE DEF history
<1>0. /\ op \in [cmd : {"idle", "deck", "group", "receive", "resolve"},
                 at : {"-", "to", "drop", "next"},
                 on : UNION {Groups, Orders, Tickets, {None}},
                 deck : Decks \cup {None}, todo : SUBSET (Copies \cup Decks)]
      /\ HandlerOK
  BY DEF TypeInv, TypeOK
<1>1. ASSUME DropDeck PROVE PlaceTrail' /\ Cleared'
  <2>1. /\ op.at = "drop" /\ op.deck \in Decks /\ op.deck \in Containers
        /\ Drop(op.deck) /\ mlog' = mlog /\ half' = half \ {op.deck} /\ ~Mentioned(op.deck)
    BY <1>0, <1>1 DEF DropDeck, HandlerOK, Containers, Cleared
  <2>2. op'.deck = None /\ op'.at \in {"-", "next"}
    BY <1>0, <1>1 DEF DropDeck, Idle
  <2> QED BY <2>1, <2>2, DropPlace DEF Cleared
<1>2. ASSUME DeleteGroupDeck PROVE PlaceTrail' /\ Cleared'
  <2>1. PICK d \in op.todo : ForgetSource("group", op.on, d, op.todo)
    BY <1>2 DEF DeleteGroupDeck
  <2>2. d \in Decks /\ op.deck = None
    BY <1>0, <1>2, <2>1 DEF DeleteGroupDeck, HandlerOK
  <2> QED BY <2>1, <2>2, ForgetSourcePlace
<1>3. ASSUME op.deck = None, op'.deck = None, op'.at \in {"-", "next"}, half' = half,
             Live' = Live, mlog' = mlog, \A c \in Live : copy'[c].place = copy[c].place
      PROVE  PlaceTrail' /\ Cleared'
  <2>1. \A x : SettledNext(x) = Settled(x)
    BY <1>3 DEF SettledNext, Settled
  <2> QED BY <1>3, <2>1, PlaceQuiet DEF Cleared
<1>4. ASSUME NEW c \in Copies, ReceiveOne(c) PROVE PlaceTrail' /\ Cleared'
  <2>1. /\ op.cmd = "receive" /\ op' = [op EXCEPT !.todo = @ \ {c}] /\ mlog' = mlog /\ half' = half
        /\ StatusSet(c, "owned", "received") /\ c \in Live
    BY <1>0, <1>4 DEF ReceiveOne, HandlerOK
  <2>2. op.deck = None /\ op.at \in {"-", "next"}
    BY <1>0, <2>1 DEF HandlerOK
  <2>3. op'.deck = None /\ op'.at \in {"-", "next"}
    BY <1>0, <2>1, <2>2
  <2>4. Live' = Live /\ \A d \in Live : copy'[d].place = copy[d].place
    BY <2>1, StatusSetType, OrdersAreReceived DEF TypeInv
  <2> QED BY <1>3, <2>1, <2>2, <2>3, <2>4
<1>5. ASSUME DeleteGroupEnds \/ ReceiveEnds \/ ResolveMarks PROVE PlaceTrail' /\ Cleared'
  <2>1. /\ op.cmd \in {"receive", "resolve"} \/ op.at = "next"
        /\ op' = Idle /\ copy' = copy /\ mlog' = mlog /\ half' = half
    BY <1>5 DEF DeleteGroupEnds, DropGroup, ReceiveEnds, ResolveMarks
  <2>2. op.deck = None /\ op'.deck = None /\ op'.at = "-"
    BY <1>0, <2>1 DEF HandlerOK, Idle
  <2> QED BY <1>3, <2>1, <2>2 DEF Live
<1> QED BY <1>1, <1>2, <1>4, <1>5, ForgetTargetPlace DEF Handler

LEMMA PlaceStep == PlaceInv /\ [Next]_vars => PlaceTrail' /\ Cleared'
<1> SUFFICES ASSUME PlaceInv, [Next]_vars PROVE PlaceTrail' /\ Cleared'
  OBVIOUS
<1> USE DEF PlaceInv
<1>1. CASE UNCHANGED vars
  BY <1>1 DEF vars, history, PlaceTrail, Settled, FinalEntry, Live, Cleared, Mentioned
<1>2. CASE Interrupt
  <2>1. /\ op' = Idle /\ copy' = copy /\ mlog' = mlog
        /\ half' = IF op.deck = None THEN half ELSE half \cup {op.deck}
    BY <1>2 DEF Interrupt
  <2>2. op'.at = "-" /\ op'.deck = None
    BY <2>1 DEF Idle
  <2>3. \A x : SettledNext(x) = Settled(x)
    BY <2>1, <2>2 DEF SettledNext, Settled
  <2> QED BY <2>1, <2>2, <2>3, PlaceQuiet DEF Cleared, Live
<1> QED BY <1>1, <1>2, PlaceCopyRequests, PlaceContainerRequests, PlaceIntakeRequests,
           PlaceHandler DEF Next

LEMMA PlaceInvariant == Spec => []PlaceInv
<1>1. Init => PlaceInv
  BY TypeInit, PlaceInit DEF PlaceInv
<1>2. PlaceInv /\ [Next]_vars => PlaceInv'
  BY TypeStep, PlaceStep DEF PlaceInv
<1> QED BY <1>1, <1>2, PTL DEF Spec

(* movement_log leads, move by move, to the place of every copy that moved, *)
(* whatever decks and groups were deleted, and however often a deletion     *)
(* failed half way.                                                         *)
THEOREM PlaceTrailUnbroken == Spec => []PlaceTrail
<1>1. PlaceInv => PlaceTrail
  BY DEF PlaceInv
<1> QED BY <1>1, PlaceInvariant, PTL

(* The last statement of a deck's deletion is never refused by the foreign  *)
(* keys of movement_log: the deck is gone after it.                         *)
THEOREM DeckDeletionsSucceed == Spec => DecksCanGo
<1>1. ASSUME PlaceInv, [Next]_vars
      PROVE  [op.at = "drop" /\ interrupts' = interrupts => op.deck \notin made']_vars
  <2> USE DEF PlaceInv, history
  <2> SUFFICES ASSUME Next, op.at = "drop", interrupts' = interrupts PROVE op.deck \notin made'
    BY <1>1 DEF vars
  <2>1. ~Mentioned(op.deck) /\ op.deck \in Containers
    BY <1>1 DEF Cleared, TypeInv, TypeOK, HandlerOK, Containers
  <2>2. op # Idle /\ op.cmd \in {"deck", "group"}
    BY <1>1 DEF TypeInv, TypeOK, HandlerOK, Idle
  <2>3. ~CopyRequests /\ ~ContainerRequests /\ ~IntakeRequests
    BY <2>2 DEF CopyRequests, SetStatus, MoveTo, Add, Delete, ContainerRequests, Make,
       DeleteBinder, DeleteDeck, SetGroup, ReleaseAll, Ungroup, DeleteGroup, IntakeRequests,
       Receive, Order, Park, Dismiss, Resolve
  <2>4. ~Interrupt
    BY <1>1, BoundsAreNat DEF Interrupt, TypeInv, TypeOK
  <2>5. DropDeck
    BY <2>2, <2>3, <2>4 DEF Next, Handler, ForgetTarget, DeleteGroupDeck, DeleteGroupEnds,
       ReceiveEnds, ResolveMarks, ReceiveOne
  <2>6. Drop(op.deck)
    BY <2>5 DEF DropDeck
  <2> QED BY <1>1, <2>1, <2>6, DropType DEF TypeInv
<1> QED BY <1>1, PlaceInvariant, PTL DEF Spec, DecksCanGo

-----------------------------------------------------------------------------
(* Parked rows. *)

\* The replay of t stands between the copy it added and the mark.
Replaying(t) == op.cmd = "resolve" /\ op.on = t
Resolved(t) == ticket[t] # None /\ ticket[t].status = "resolved"

\* What a parked row has cost so far: a copy for each interruption, and one
\* more for a replay that was marked, or is about to be. A replay in progress
\* is of an open row, and the copy it will name is one it added.
Told(t) ==
    /\ IsFiniteSet(replays[t])
    /\ Cardinality(replays[t]) <= interrupts + (IF Replaying(t) \/ Resolved(t) THEN 1 ELSE 0)
    /\ Resolved(t) => ticket[t].copy \in replays[t]
    /\ Replaying(t) => ExpectOpen(t) /\ \E c \in replays[t] : op.todo = {c}

TicketInv == TypeInv /\ \A t \in Tickets : Told(t)

\* A step that replays nothing: a replay it cuts short costs an interruption.
LEMMA ToldKept ==
  ASSUME TypeOK, NEW t \in Tickets, Told(t), replays'[t] = replays[t],
         interrupts' \in {interrupts, interrupts + 1},
         Replaying(t) => interrupts' = interrupts + 1, ~Replaying(t)',
         Resolved(t)' <=> Resolved(t), ticket'[t].copy = ticket[t].copy \/ ~Resolved(t)
  PROVE  Told(t)'
<1>1. interrupts \in Nat /\ Cardinality(replays[t]) \in Nat
  BY BoundsAreNat, FS_CardinalityType DEF TypeOK, Told
<1>2. IsFiniteSet(replays[t])' /\ Cardinality(replays[t])' = Cardinality(replays[t])
  BY DEF Told
<1>3. Cardinality(replays[t]) <= interrupts' + (IF Resolved(t) THEN 1 ELSE 0)
  BY <1>1 DEF Told
<1> QED BY <1>2, <1>3 DEF Told

LEMMA TicketQuiet ==
  ASSUME TicketInv, UNCHANGED <<ticket, replays, interrupts>>,
         op.cmd # "resolve", op'.cmd # "resolve"
  PROVE  \A t \in Tickets : Told(t)'
BY ToldKept DEF TicketInv, TypeInv, Replaying, Resolved

LEMMA TicketInit == Init => TicketInv
<1> SUFFICES ASSUME Init PROVE \A t \in Tickets : Told(t)
  BY TypeInit DEF TicketInv
<1>1. ASSUME NEW t \in Tickets PROVE replays[t] = {} /\ ~Resolved(t) /\ ~Replaying(t)
  BY DEF Init, Resolved, Replaying, Idle
<1> QED BY <1>1, FS_EmptySet DEF Told, Init

\* A replay adds one copy to what its row has cost, and is then under way.
LEMMA ResolveTold ==
  ASSUME TicketInv, NEW t \in Tickets, NEW c \in Copies, Resolve(t, c)
  PROVE  \A u \in Tickets : Told(u)'
<1> USE DEF TicketInv, TypeInv, history
<1>1. /\ op = Idle /\ ~Resolved(t)
      /\ op'.cmd = "resolve" /\ op'.on = t /\ op'.todo = {c}
      /\ UNCHANGED <<ticket, interrupts>>
      /\ replays'[t] = replays[t] \cup {c}
      /\ \A u \in Tickets \ {t} : replays'[u] = replays[u]
      /\ ExpectOpen(t)
  BY DEF Resolve, ExpectOpen, Resolved, Idle, TypeOK
<1>2. \A u \in Tickets : ~Replaying(u) /\ Resolved(u)' = Resolved(u)
  BY <1>1 DEF Replaying, Resolved, Idle
<1>3. ASSUME NEW u \in Tickets \ {t} PROVE Told(u)'
  <2>1. ~Replaying(u)'
    BY <1>1 DEF Replaying
  <2> QED BY <1>1, <1>2, <2>1, ToldKept
<1>4. Told(t)'
  <2>1. interrupts \in Nat /\ IsFiniteSet(replays[t]) /\ Cardinality(replays[t]) \in Nat
        /\ Cardinality(replays[t]) <= interrupts
    BY <1>1, <1>2, BoundsAreNat, FS_CardinalityType DEF TypeOK, Told
  <2>2. /\ IsFiniteSet(replays[t] \cup {c})
        /\ \/ Cardinality(replays[t] \cup {c}) = Cardinality(replays[t])
           \/ Cardinality(replays[t] \cup {c}) = Cardinality(replays[t]) + 1
    BY <2>1, FS_AddElement
  <2>3. Cardinality(replays'[t]) <= interrupts' + 1 /\ IsFiniteSet(replays'[t])
    BY <1>1, <2>1, <2>2
  <2>4. Replaying(t)' /\ ~Resolved(t)' /\ ExpectOpen(t)' /\ c \in replays'[t]
    BY <1>1, <1>2 DEF Replaying, ExpectOpen
  <2> QED BY <1>1, <2>3, <2>4 DEF Told
<1> QED BY <1>3, <1>4

\* The mark names the copy the replay added.
LEMMA MarkTold ==
  ASSUME TicketInv, ResolveMarks
  PROVE  \A u \in Tickets : Told(u)'
<1> USE DEF TicketInv, TypeInv
<1>1. PICK t \in Tickets : t = op.on
  BY DEF ResolveMarks, HandlerOK
<1>2. PICK c \in op.todo : ticket' = [ticket EXCEPT ![t] = [status |-> "resolved", copy |-> c]]
  BY <1>1 DEF ResolveMarks
<1>3. /\ op.cmd = "resolve" /\ op'.cmd # "resolve"
      /\ UNCHANGED <<replays, interrupts>>
      /\ ticket'[t].status = "resolved" /\ ticket'[t].copy = c
      /\ \A u \in Tickets \ {t} : ticket'[u] = ticket[u]
  BY <1>1, <1>2 DEF ResolveMarks, TypeOK, Idle, history
<1>4. ASSUME NEW u \in Tickets \ {t} PROVE Told(u)'
  <2>1. ~Replaying(u) /\ ~Replaying(u)' /\ Resolved(u)' = Resolved(u)
    BY <1>1, <1>3 DEF Replaying, Resolved
  <2> QED BY <1>3, <2>1, ToldKept
<1>5. Told(t)'
  <2>1. Replaying(t) /\ ~Replaying(t)'
    BY <1>1, <1>3 DEF Replaying
  <2>2. c \in replays[t]
    BY <1>2, <2>1 DEF Told
  <2>3. interrupts \in Nat /\ IsFiniteSet(replays[t]) /\ Cardinality(replays[t]) \in Nat
        /\ Cardinality(replays[t]) <= interrupts + 1
    BY <2>1, BoundsAreNat, FS_CardinalityType DEF TypeOK, Told
  <2>4. ticket'[t] # None
    <3>1. [status |-> "resolved", copy |-> c] \in Parked
      BY <2>2 DEF TypeOK, Parked
    <3> QED BY <1>2, <3>1, KindsAreDistinct DEF TypeOK
  <2> QED BY <1>3, <2>1, <2>2, <2>3, <2>4 DEF Told, Resolved
<1> QED BY <1>4, <1>5

LEMMA TicketStep == TicketInv /\ [Next]_vars => TicketInv'
<1> SUFFICES ASSUME TicketInv, [Next]_vars PROVE \A t \in Tickets : Told(t)'
  BY TypeStep DEF TicketInv
<1> USE DEF history
<1>0. /\ TypeOK /\ HandlerOK /\ \A t \in Tickets : Told(t)
      /\ op = Idle => op.cmd # "resolve"
  BY DEF TicketInv, TypeInv, Idle
<1>1. CASE UNCHANGED vars
  BY <1>0, <1>1 DEF vars, Told, Replaying, Resolved, ExpectOpen
<1>2. CASE CopyRequests
  BY <1>0, <1>2, TicketQuiet DEF CopyRequests, SetStatus, MoveTo, Add, Delete
<1>3. CASE ContainerRequests
  <2> DEFINE Quiet == UNCHANGED <<ticket, replays, interrupts>> /\ op.cmd # "resolve" /\ op'.cmd # "resolve"
  <2>1. ASSUME NEW k, Make(k) \/ DeleteBinder(k) PROVE Quiet
    BY <1>0, <2>1 DEF Make, DeleteBinder
  <2>2. ASSUME NEW d, NEW g, SetGroup(d, g) PROVE Quiet
    BY <1>0, <2>2 DEF SetGroup
  <2>3. ASSUME NEW d, DeleteDeck(d) PROVE Quiet
    BY <1>0, <2>3 DEF DeleteDeck, ForgetSource
  <2>4. ASSUME NEW g, Ungroup(g) PROVE Quiet
    BY <1>0, <2>4 DEF Ungroup, DropGroup
  <2>5. ASSUME NEW g, NEW then, ReleaseAll(g, then), then.cmd # "resolve" PROVE Quiet
    BY <1>0, <2>5 DEF ReleaseAll
  <2>6. ASSUME NEW g, ReleaseAll(g, Idle) \/ DeleteGroup(g) PROVE Quiet
    BY <2>5, <2>6 DEF DeleteGroup, Idle
  <2>7. Quiet
    BY <1>3, <2>1, <2>2, <2>3, <2>4, <2>6 DEF ContainerRequests
  <2> QED BY <1>0, <2>7, TicketQuiet
<1>4. ASSUME NEW o \in Orders, NEW S, Receive(o) \/ Order(o, S) PROVE \A t \in Tickets : Told(t)'
  BY <1>0, <1>4, TicketQuiet DEF Receive, Order, Idle
\* A row parked or dismissed has not been, and is not being, replayed to its mark.
<1>5. ASSUME NEW t \in Tickets, Park(t) \/ Dismiss(t) PROVE \A u \in Tickets : Told(u)'
  <2>1. /\ op = Idle /\ op' = op /\ UNCHANGED <<replays, interrupts>>
        /\ \A u \in Tickets \ {t} : ticket'[u] = ticket[u]
        /\ ~Resolved(t) /\ ~Resolved(t)'
    <3>1. ticket \in [Tickets -> Parked \cup {None}]
      BY <1>0 DEF TypeOK
    <3>2. CASE Park(t)
      BY <1>0, <3>1, <3>2 DEF Park, Resolved
    <3>3. CASE Dismiss(t)
      <4>1. ticket[t] \in Parked /\ ticket[t].status = "open"
        BY <3>1, <3>3 DEF Dismiss, ExpectOpen
      <4>2. ticket'[t].status = "dismissed"
        BY <3>1, <3>3, <4>1 DEF Dismiss, Parked
      <4> QED BY <1>0, <3>1, <3>3, <4>1, <4>2 DEF Dismiss, Resolved
    <3> QED BY <1>5, <3>2, <3>3
  <2>2. \A u \in Tickets : ~Replaying(u) /\ ~Replaying(u)'
    BY <1>0, <2>1 DEF Replaying
  <2>3. \A u \in Tickets : /\ Resolved(u)' <=> Resolved(u)
                           /\ ticket'[u].copy = ticket[u].copy \/ ~Resolved(u)
    BY <2>1 DEF Resolved
  <2> QED BY <1>0, <2>1, <2>2, <2>3, ToldKept
<1>6. ASSUME NEW t \in Tickets, NEW c \in Copies, Resolve(t, c) PROVE \A u \in Tickets : Told(u)'
  BY <1>6, ResolveTold
<1>7. CASE Handler
  <2>1. CASE ResolveMarks
    BY <2>1, MarkTold
  <2>2. ASSUME ~ResolveMarks PROVE UNCHANGED <<ticket, replays, interrupts>> /\ op.cmd # "resolve"
    BY <1>0, <1>7, <2>2 DEF Handler, ForgetTarget, DropDeck, DeleteGroupDeck, ForgetSource,
       DeleteGroupEnds, DropGroup, ReceiveEnds, ReceiveOne, HandlerOK
  <2>3. ASSUME ~ResolveMarks PROVE op'.cmd # "resolve"
    <3>1. ASSUME ForgetTarget \/ DropDeck PROVE op'.cmd # "resolve"
      <4>1. op.cmd # "resolve"
        BY <2>2, <2>3
      <4>2. CASE ForgetTarget
        BY <1>0, <4>1, <4>2 DEF ForgetTarget, TypeOK
      <4>3. CASE DropDeck
        <5>1. CASE op.cmd = "deck"
          BY <4>3, <5>1 DEF DropDeck, Idle
        <5>2. CASE op.cmd # "deck"
          <6>1. op'.cmd = op.cmd
            BY <1>0, <4>3, <5>2 DEF DropDeck, TypeOK
          <6> QED BY <4>1, <6>1
        <5> QED BY <5>1, <5>2
      <4> QED BY <3>1, <4>2, <4>3
    <3>2. ASSUME DeleteGroupDeck \/ DeleteGroupEnds \/ ReceiveEnds PROVE op'.cmd # "resolve"
      BY <3>2 DEF DeleteGroupDeck, ForgetSource, DeleteGroupEnds, DropGroup, ReceiveEnds, Idle
    <3>3. ASSUME NEW c \in Copies, ReceiveOne(c) PROVE op'.cmd # "resolve"
      BY <1>0, <3>3 DEF ReceiveOne, TypeOK
    <3> QED BY <1>7, <2>3, <3>1, <3>2, <3>3 DEF Handler
  <2> QED BY <2>1, <2>2, <2>3, TicketQuiet
<1>8. CASE Interrupt
  <2>1. UNCHANGED <<ticket, replays>> /\ interrupts' = interrupts + 1 /\ op'.cmd # "resolve"
    BY <1>8 DEF Interrupt, Idle
  <2> QED BY <1>0, <2>1, ToldKept DEF Replaying, Resolved
<1> QED BY <1>1, <1>2, <1>3, <1>4, <1>5, <1>6, <1>7, <1>8 DEF Next, IntakeRequests

(* A parked row becomes one copy, and none when dismissed, but for the      *)
(* replays an interruption cut off from their mark.                         *)
THEOREM TicketsBecomeOneCopy == Spec => []OneCopyPerTicket
<1>1. Init => TicketInv
  BY TicketInit
<1>2. TicketInv /\ [Next]_vars => TicketInv'
  BY TicketStep
<1>3. TicketInv => OneCopyPerTicket
  <2> SUFFICES ASSUME TicketInv, NEW t \in Tickets
               PROVE  /\ Cardinality(replays[t]) <= 1 + interrupts
                      /\ Resolved(t) => ticket[t].copy \in replays[t]
                      /\ ticket[t] # None /\ ticket[t].status = "dismissed" =>
                            Cardinality(replays[t]) <= interrupts
    BY DEF OneCopyPerTicket, Resolved
  <2>1. interrupts \in Nat /\ Cardinality(replays[t]) \in Nat /\ Told(t)
    BY BoundsAreNat, FS_CardinalityType DEF TicketInv, TypeInv, TypeOK, Told
  <2>2. ticket[t] # None /\ ticket[t].status = "dismissed" => ~Resolved(t) /\ ~Replaying(t)
    BY <2>1 DEF Resolved, Told, ExpectOpen
  <2> QED BY <2>1, <2>2 DEF Told
<1> QED BY <1>1, <1>2, <1>3, PTL DEF Spec

-----------------------------------------------------------------------------
(* A walk over a search's result (Walk).  ORDER BY compares rows by their   *)
(* keys, with NULLs, and is a strict total order because the last key is    *)
(* the printing; a cursor's chain of comparisons says no more than that     *)
(* order.  A page therefore serves the rows after a key and leaves those    *)
(* after a later one (CursorPage).  What a walk relies on is that an        *)
(* unchanged row is in the result now if it was when the walk began         *)
(* (Current), and that the unchanged rows it has served are those up to the *)
(* key in its cursor (CursorTells).  A walk by offset has served a          *)
(* beginning of the result as long as nothing changes (OffsetCuts).         *)

Compilable == {Compile(q) : q \in Requests}
KeyValues == Int \cup {Null}
JoinedRows == [printing : Printings, price : Prices \cup {Null}, copies : SUBSET CopyStatuses]

\* b comes after a in the order o: at the first term in which they differ.
Follows(o, a, b) ==
    \E i \in DOMAIN o : (\A j \in 1 .. (i - 1) : a[j] = b[j]) /\ Precedes(a[i], b[i], o[i][2])

\* A set of naturals that is not empty has a least member.
LEMMA LeastOf ==
  ASSUME NEW S \in SUBSET Nat, S # {}
  PROVE  \E i \in S : \A j \in S : i <= j
<1> DEFINE R == {ss \in Nat \X Nat : ss[1] < ss[2]}
<1>1. IsWellFoundedOn(R, Nat)
  BY NatLessThanWellFounded DEF OpToRel
<1>2. \E i \in S : \A j \in S : <<j, i>> \notin R
  <2> HIDE DEF R
  <2> QED BY <1>1, WFMin
<1>3. \A i, j \in Nat : <<j, i>> \notin R => i <= j
  OBVIOUS
<1> HIDE DEF R
<1> QED BY <1>2, <1>3

\* One term orders the values of its column, NULL among them; the cursor's comparison says the same.
LEMMA PrecedesOrders ==
  ASSUME NEW x \in KeyValues, NEW y \in KeyValues, NEW z \in KeyValues, NEW d \in BOOLEAN
  PROVE  /\ ~Precedes(x, x, d)
         /\ Precedes(x, y, d) /\ Precedes(y, z, d) => Precedes(x, z, d)
         /\ x = y \/ Precedes(x, y, d) \/ Precedes(y, x, d)
         /\ Beyond(y, x, d) <=> Precedes(x, y, d)
<1>1. Null \notin Int
  BY ColumnsCompare
<1>2. ~Precedes(x, x, d)
  BY DEF Precedes
<1>3. Precedes(x, y, d) /\ Precedes(y, z, d) => Precedes(x, z, d)
  BY <1>1 DEF Precedes, KeyValues
<1>4. x = y \/ Precedes(x, y, d) \/ Precedes(y, x, d)
  BY <1>1 DEF Precedes, KeyValues
<1>5. Beyond(y, x, d) <=> Precedes(x, y, d)
  <2>1. CASE x = Null
    BY <1>1, <2>1 DEF Precedes, KeyValues, Beyond
  <2>2. CASE x # Null /\ d
    BY <1>1, <2>2 DEF Precedes, KeyValues, Beyond
  <2>3. CASE x # Null /\ ~d
    <3>1. Beyond(y, x, d) <=> y # Null /\ y > x
      BY <2>3 DEF Beyond
    <3>2. Precedes(x, y, d) <=> x # y /\ y # Null /\ x < y
      BY <2>3 DEF Precedes
    <3>3. x \in Int /\ (y = Null \/ y \in Int)
      BY <2>3 DEF KeyValues
    <3> QED BY <3>1, <3>2, <3>3
  <2> QED BY <2>1, <2>2, <2>3
<1> QED BY <1>2, <1>3, <1>4, <1>5

\* A chain of terms orders the tuples of keys.
LEMMA LexOrders ==
  ASSUME NEW n \in Nat, NEW o, DOMAIN o = 1 .. n, \A i \in 1 .. n : o[i][2] \in BOOLEAN,
         NEW a \in [1 .. n -> KeyValues], NEW b \in [1 .. n -> KeyValues], NEW c \in [1 .. n -> KeyValues]
  PROVE  /\ ~Follows(o, a, a)
         /\ Follows(o, a, b) /\ Follows(o, b, c) => Follows(o, a, c)
         /\ a = b \/ Follows(o, a, b) \/ Follows(o, b, a)
<1>1. ~Follows(o, a, a)
  BY PrecedesOrders DEF Follows
<1>2. ASSUME Follows(o, a, b), Follows(o, b, c) PROVE Follows(o, a, c)
  <2>1. PICK i \in 1 .. n : (\A j \in 1 .. (i - 1) : a[j] = b[j]) /\ Precedes(a[i], b[i], o[i][2])
    BY <1>2 DEF Follows
  <2>2. PICK k \in 1 .. n : (\A j \in 1 .. (k - 1) : b[j] = c[j]) /\ Precedes(b[k], c[k], o[k][2])
    BY <1>2 DEF Follows
  <2>3. CASE i < k
    <3>1. b[i] = c[i] /\ \A j \in 1 .. (i - 1) : a[j] = c[j]
      BY <2>1, <2>2, <2>3
    <3> QED BY <2>1, <3>1 DEF Follows
  <2>4. CASE k < i
    <3>1. a[k] = b[k] /\ \A j \in 1 .. (k - 1) : a[j] = c[j]
      BY <2>1, <2>2, <2>4
    <3> QED BY <2>2, <3>1 DEF Follows
  <2>5. CASE i = k
    <3>1. Precedes(a[i], c[i], o[i][2])
      <4>1. Precedes(b[i], c[i], o[i][2]) /\ a[i] \in KeyValues /\ b[i] \in KeyValues /\ c[i] \in KeyValues /\ o[i][2] \in BOOLEAN
        BY <2>2, <2>5
      <4> QED BY <2>1, <4>1, PrecedesOrders
    <3>2. \A j \in 1 .. (i - 1) : a[j] = c[j]
      BY <2>1, <2>2, <2>5
    <3> QED BY <3>1, <3>2 DEF Follows
  <2> QED BY <2>3, <2>4, <2>5
<1>3. ASSUME a # b PROVE Follows(o, a, b) \/ Follows(o, b, a)
  <2> DEFINE D == {i \in 1 .. n : a[i] # b[i]}
  <2>1. D \in SUBSET Nat /\ D # {}
    BY <1>3
  <2>2. PICK i \in D : \A j \in D : i <= j
    <3> HIDE DEF D
    <3> QED BY <2>1, LeastOf
  <2>3. i \in 1 .. n /\ a[i] # b[i] /\ \A j \in 1 .. (i - 1) : a[j] = b[j]
    BY <2>2
  <2>4. Precedes(a[i], b[i], o[i][2]) \/ Precedes(b[i], a[i], o[i][2])
    <3>1. a[i] \in KeyValues /\ b[i] \in KeyValues /\ o[i][2] \in BOOLEAN
      BY <2>3
    <3> QED BY <2>3, <3>1, PrecedesOrders
  <2> QED BY <2>3, <2>4 DEF Follows
<1> QED BY <1>1, <1>2, <1>3

\* What a tuple of four has, and of three.
LEMMA FourTerms ==
  \A s, a, b, c, e : s = <<a, b, c, e>> =>
     /\ Len(s) = 4 /\ DOMAIN s = 1 .. 4
     /\ s[1] = a /\ s[2] = b /\ s[3] = c /\ s[4] = e
     /\ \A i \in 1 .. 4 : i = 1 \/ i = 2 \/ i = 3 \/ i = 4
OBVIOUS

LEMMA ThreeTerms ==
  \A s, a, b, c : s = <<a, b, c>> =>
     /\ Len(s) = 3 /\ DOMAIN s = 1 .. 3
     /\ s[1] = a /\ s[2] = b /\ s[3] = c
     /\ \A i \in 1 .. 3 : i = 1 \/ i = 2 \/ i = 3
OBVIOUS

OrderColumns == {"price", "qty", "number", "printing", "rank", "release", "set"}

\* A term of an ORDER BY names a column and a direction.
LEMMA TermFits ==
  ASSUME NEW c \in OrderColumns, NEW d \in BOOLEAN
  PROVE  <<c, d>>[1] \in OrderColumns /\ <<c, d>>[2] \in BOOLEAN
<1>1. <<c, d>>[1] = c
  OBVIOUS
<1>2. <<c, d>>[2] = d
  OBVIOUS
<1> QED BY <1>1, <1>2

\* Every ORDER BY has terms, and the last is the printing.
LEMMA OrderKeys ==
  ASSUME NEW r \in Compilable
  PROVE  /\ Len(order_keys(r)) \in Nat \ {0} /\ DOMAIN order_keys(r) = 1 .. Len(order_keys(r))
         /\ \A i \in DOMAIN order_keys(r) : order_keys(r)[i][1] \in OrderColumns /\ order_keys(r)[i][2] \in BOOLEAN
         /\ order_keys(r)[Len(order_keys(r))] = <<"printing", FALSE>>
<1> DEFINE Fits(t) == t[1] \in OrderColumns /\ t[2] \in BOOLEAN
           d == r.desc
           o == order_keys(r)
<1>1. d \in BOOLEAN
  BY RequestsSayWhichWay DEF Compilable
<1>2. Fits(<<"number", FALSE>>) /\ Fits(<<"printing", FALSE>>) /\ Fits(<<"release", d>>) /\ Fits(<<"set", d>>)
  <2>1. FALSE \in BOOLEAN /\ {"number", "printing", "release", "set"} \subseteq OrderColumns
    BY DEF OrderColumns
  <2> HIDE DEF d
  <2> QED BY <1>1, <2>1, TermFits
<1>3. Fits(<<Column(r.order_by), d>>)
  <2>1. Column(r.order_by) \in OrderColumns
    BY DEF Column, OrderColumns
  <2> HIDE DEF d
  <2> QED BY <1>1, <2>1, TermFits
<1>4. CASE r.order_by = <<"set">>
  <2>1. o = <<<<"release", d>>, <<"set", d>>, <<"number", FALSE>>, <<"printing", FALSE>>>>
    BY <1>4 DEF order_keys
  <2> HIDE DEF o, d
  <2>2. /\ Len(o) = 4 /\ DOMAIN o = 1 .. 4
        /\ o[1] = <<"release", d>> /\ o[2] = <<"set", d>> /\ o[3] = <<"number", FALSE>> /\ o[4] = <<"printing", FALSE>>
        /\ \A i \in 1 .. 4 : i = 1 \/ i = 2 \/ i = 3 \/ i = 4
    BY <2>1, FourTerms, Zenon
  <2>3. \A i \in 1 .. 4 : Fits(o[i])
    <3> HIDE DEF Fits
    <3> QED BY <1>2, <2>2, Zenon
  <2>4. /\ Len(o) \in Nat \ {0} /\ DOMAIN o = 1 .. Len(o)
        /\ \A i \in DOMAIN o : o[i][1] \in OrderColumns /\ o[i][2] \in BOOLEAN
        /\ o[Len(o)] = <<"printing", FALSE>>
    <3>1. 4 \in Nat \ {0}
      OBVIOUS
    <3> QED BY <2>2, <2>3, <3>1, Zenon
  <2> QED BY <2>4 DEF o
<1>5. CASE r.order_by # <<"set">>
  <2>1. o = <<<<Column(r.order_by), d>>, <<"number", FALSE>>, <<"printing", FALSE>>>>
    BY <1>5 DEF order_keys
  <2> HIDE DEF o, d
  <2>2. /\ Len(o) = 3 /\ DOMAIN o = 1 .. 3
        /\ o[1] = <<Column(r.order_by), d>> /\ o[2] = <<"number", FALSE>> /\ o[3] = <<"printing", FALSE>>
        /\ \A i \in 1 .. 3 : i = 1 \/ i = 2 \/ i = 3
    BY <2>1, ThreeTerms, Zenon
  <2>3. \A i \in 1 .. 3 : Fits(o[i])
    <3> HIDE DEF Fits
    <3> QED BY <1>2, <1>3, <2>2, Zenon
  <2>4. /\ Len(o) \in Nat \ {0} /\ DOMAIN o = 1 .. Len(o)
        /\ \A i \in DOMAIN o : o[i][1] \in OrderColumns /\ o[i][2] \in BOOLEAN
        /\ o[Len(o)] = <<"printing", FALSE>>
    <3>1. 3 \in Nat \ {0}
      OBVIOUS
    <3> QED BY <2>2, <2>3, <3>1, Zenon
  <2> QED BY <2>4 DEF o
<1> QED BY <1>4, <1>5

KeyTuples(r) == [1 .. Len(order_keys(r)) -> KeyValues]

\* The keys of a row are values that compare, and the last is its printing.
LEMMA KeysAreValues ==
  ASSUME NEW r \in Compilable, NEW row \in JoinedRows
  PROVE  /\ RowKeys(r, row) \in KeyTuples(r)
         /\ RowKeys(r, row)[Len(order_keys(r))] = row.printing
<1>1. ASSUME NEW c \in OrderColumns
      PROVE  Value(c, row) \in KeyValues
  <2>1. row.printing \in Printings /\ row.price \in Prices \cup {Null} /\ row.copies \in SUBSET CopyStatuses
    BY DEF JoinedRows
  <2>2. Cardinality(row.copies) \in Nat
    BY <2>1, CatalogIsFinite, FS_Subset, FS_CardinalityType
  <2>3. \A k \in {"rank", "number", "release", "set"} : Card[row.printing][k] \in KeyValues
    BY <2>1, ColumnsCompare DEF KeyValues
  <2>4. Value("price", row) = row.price /\ Value("qty", row) = Cardinality(row.copies) /\ Value("printing", row) = row.printing
    BY DEF Value, owned_count
  <2>5. \A k \in {"rank", "number", "release", "set"} : Value(k, row) = Card[row.printing][k]
    BY DEF Value
  <2>6. row.price \in KeyValues /\ Cardinality(row.copies) \in KeyValues /\ row.printing \in KeyValues
    <3>1. Printings \subseteq Int /\ Prices \subseteq Int
      BY ColumnsCompare
    <3>2. row.price \in KeyValues
      BY <2>1, <3>1 DEF KeyValues
    <3>3. Cardinality(row.copies) \in KeyValues
      BY <2>2 DEF KeyValues
    <3>4. row.printing \in KeyValues
      BY <2>1, <3>1 DEF KeyValues
    <3> QED BY <3>2, <3>3, <3>4
  <2>7. CASE c \in {"rank", "number", "release", "set"}
    BY <2>3, <2>5, <2>7
  <2>8. CASE c \in {"price", "qty", "printing"}
    BY <2>4, <2>6, <2>8
  <2> QED BY <2>7, <2>8 DEF OrderColumns
<1>2. Value("printing", row) = row.printing
  BY DEF Value
<1>3. /\ Len(order_keys(r)) \in Nat \ {0} /\ DOMAIN order_keys(r) = 1 .. Len(order_keys(r))
      /\ order_keys(r)[Len(order_keys(r))] = <<"printing", FALSE>>
      /\ \A i \in DOMAIN order_keys(r) :
           order_keys(r)[i][1] \in OrderColumns
  BY OrderKeys
<1>4. RowKeys(r, row) = [i \in DOMAIN order_keys(r) |-> Value(order_keys(r)[i][1], row)]
  BY DEF RowKeys
<1>5. \A i \in DOMAIN order_keys(r) : Value(order_keys(r)[i][1], row) \in KeyValues
  BY <1>1, <1>3
<1>6. RowKeys(r, row) \in KeyTuples(r)
  BY <1>3, <1>4, <1>5 DEF KeyTuples
<1>7. RowKeys(r, row)[Len(order_keys(r))] = Value("printing", row)
  BY <1>3, <1>4
<1> QED BY <1>2, <1>6, <1>7

\* The types of what is searched.
StockOK ==
    /\ listed \subseteq Printings
    /\ price \in [Printings -> Prices \cup {Null}]
    /\ copies \in [Printings -> SUBSET CopyStatuses]

\* The keys of a printing as it stands.
KeyOf(r, p) == RowKeys(r, Row(p))

\* The same of a printing as it stands.
LEMMA KeysFit ==
  ASSUME StockOK, NEW r \in Compilable, NEW p \in Printings
  PROVE  KeyOf(r, p) \in KeyTuples(r) /\ KeyOf(r, p)[Len(order_keys(r))] = p
<1>1. Row(p) \in JoinedRows /\ Row(p).printing = p
  BY DEF StockOK, Row, JoinedRows
<1> QED BY <1>1, KeysAreValues DEF KeyOf

\* ORDER BY compares rows by their keys.
LEMMA BeforeIs ==
  ASSUME NEW r, NEW p, NEW q
  PROVE  Before(r, p, q) <=> Follows(order_keys(r), KeyOf(r, p), KeyOf(r, q))
BY DEF Before, Follows, KeyOf

\* The order of the keys of a compiled request.
LEMMA LexOfRequest ==
  ASSUME NEW r \in Compilable, NEW a \in KeyTuples(r), NEW b \in KeyTuples(r), NEW c \in KeyTuples(r)
  PROVE  LET o == order_keys(r)
         IN  /\ ~Follows(o, a, a)
             /\ Follows(o, a, b) /\ Follows(o, b, c) => Follows(o, a, c)
             /\ a = b \/ Follows(o, a, b) \/ Follows(o, b, a)
<1> DEFINE n == Len(order_keys(r))
<1>1. n \in Nat /\ DOMAIN order_keys(r) = 1 .. n /\ \A i \in 1 .. n : order_keys(r)[i][2] \in BOOLEAN
  BY OrderKeys
<1>2. a \in [1 .. n -> KeyValues] /\ b \in [1 .. n -> KeyValues] /\ c \in [1 .. n -> KeyValues]
  BY DEF KeyTuples
<1> HIDE DEF n
<1> QED BY <1>1, <1>2, LexOrders

\* ORDER BY is a strict total order of the printings: no two rows tie in every term.
LEMMA BeforeOrders ==
  ASSUME StockOK, NEW r \in Compilable, NEW p \in Printings, NEW q \in Printings, NEW t \in Printings
  PROVE  /\ ~Before(r, p, p)
         /\ Before(r, p, q) /\ Before(r, q, t) => Before(r, p, t)
         /\ p = q \/ Before(r, p, q) \/ Before(r, q, p)
<1>1. KeyOf(r, p) \in KeyTuples(r) /\ KeyOf(r, q) \in KeyTuples(r) /\ KeyOf(r, t) \in KeyTuples(r)
  BY KeysFit
<1>2. KeyOf(r, p) = KeyOf(r, q) => p = q
  BY KeysFit
<1> QED BY <1>1, <1>2, BeforeIs, LexOfRequest

\* The chain a cursor adds to the WHERE selects the rows after its key, the leading bound included.
LEMMA SeekIs ==
  ASSUME StockOK, NEW r \in Compilable, NEW after \in KeyTuples(r), NEW p \in Printings
  PROVE  seek_predicate(r, after, p) <=> Follows(order_keys(r), after, KeyOf(r, p))
<1> DEFINE o == order_keys(r)
           n == Len(o)
           k == KeyOf(r, p)
           chain == \E i \in DOMAIN k : (\A j \in 1 .. (i - 1) : k[j] = after[j]) /\ Beyond(k[i], after[i], o[i][2])
           leads == after[1] # Null /\ ~o[1][2]
<1>1. n \in Nat \ {0} /\ DOMAIN o = 1 .. n /\ \A i \in 1 .. n : o[i][2] \in BOOLEAN
  BY OrderKeys
<1>2. k \in [1 .. n -> KeyValues] /\ after \in [1 .. n -> KeyValues]
  BY KeysFit DEF KeyTuples
<1>3. seek_predicate(r, after, p) <=> (leads => k[1] # Null /\ k[1] >= after[1]) /\ chain
  BY DEF seek_predicate, KeyOf
<1> HIDE DEF o, n, k
<1>4. \A i \in 1 .. n : Beyond(k[i], after[i], o[i][2]) <=> Precedes(after[i], k[i], o[i][2])
  <2> TAKE i \in 1 .. n
  <2>1. k[i] \in KeyValues /\ after[i] \in KeyValues /\ o[i][2] \in BOOLEAN
    BY <1>1, <1>2
  <2> QED BY <2>1, PrecedesOrders
<1>5. chain <=> Follows(o, after, k)
  BY <1>1, <1>2, <1>4 DEF Follows
<1>6. ASSUME chain, leads PROVE k[1] # Null /\ k[1] >= after[1]
  <2>1. PICK i \in 1 .. n : (\A j \in 1 .. (i - 1) : k[j] = after[j]) /\ Beyond(k[i], after[i], o[i][2])
    BY <1>2, <1>6
  <2>2. 1 \in 1 .. n /\ after[1] \in Int /\ after[1] # Null
    BY <1>1, <1>2, <1>6 DEF KeyValues
  <2>3. CASE i = 1
    <3>1. Precedes(after[1], k[1], o[1][2]) /\ ~o[1][2]
      BY <1>4, <1>6, <2>1, <2>3
    <3>2. k[1] # Null /\ after[1] < k[1]
      BY <2>2, <3>1 DEF Precedes
    <3>3. k[1] \in Int
      BY <1>2, <2>2, <3>2 DEF KeyValues
    <3> QED BY <2>2, <3>2, <3>3
  <2>4. CASE i # 1
    <3>1. k[1] = after[1]
      BY <2>1, <2>4
    <3> QED BY <2>2, <3>1
  <2> QED BY <2>3, <2>4
<1> QED BY <1>3, <1>5, <1>6 DEF o, k

\* A result in order has every row once, each before the later ones.
LEMMA OrderedRows ==
  ASSUME StockOK, NEW r \in Compilable, NEW S \in SUBSET Printings, NEW rows \in Ordered(r, S)
  PROVE  /\ rows \in Seq(Printings)
         /\ \A i \in 1 .. Len(rows) : rows[i] \in S
         /\ \A p \in S : \E i \in 1 .. Len(rows) : rows[i] = p
         /\ \A i, j \in 1 .. Len(rows) : i < j => Before(r, rows[i], rows[j])
<1> DEFINE n == Cardinality(S)
<1>1. IsFiniteSet(S) /\ n \in Nat
  BY CatalogIsFinite, FS_Subset, FS_CardinalityType
<1>2. rows \in Injection(1 .. n, S) /\ \A i, j \in DOMAIN rows : i < j => ~Before(r, rows[j], rows[i])
  BY DEF Ordered
<1>3. Cardinality(1 .. n) = n
  BY <1>1, FS_Interval
<1> HIDE DEF n
<1>4. rows \in Surjection(1 .. n, S)
  <2>1. n = Cardinality(S)
    BY DEF n
  <2> QED BY <1>1, <1>2, <1>3, <2>1, FS_Injection
<1>5. rows \in [1 .. n -> S] /\ (\A i, j \in 1 .. n : rows[i] = rows[j] => i = j) /\ \A p \in S : \E i \in 1 .. n : rows[i] = p
  BY <1>2, <1>4 DEF Injection, IsInjective, Surjection
<1>6. rows \in Seq(Printings) /\ Len(rows) = n
  BY <1>1, <1>5
<1>7. \A i, j \in 1 .. n : i < j => Before(r, rows[i], rows[j])
  <2> TAKE i, j \in 1 .. n
  <2> HAVE i < j
  <2>1. rows[i] # rows[j] /\ ~Before(r, rows[j], rows[i]) /\ rows[i] \in Printings /\ rows[j] \in Printings
    BY <1>2, <1>5
  <2> QED BY <2>1, BeforeOrders
<1> QED BY <1>5, <1>6, <1>7

\* A page is a beginning of the rows it was cut from.
LEMMA PageRows ==
  ASSUME NEW rows \in Seq(Printings), NEW limit \in Limits
  PROVE  /\ Page(rows, limit) \in Seq(Printings)
         /\ Len(Page(rows, limit)) = IF Len(rows) < limit THEN Len(rows) ELSE limit
         /\ \A i \in 1 .. Len(Page(rows, limit)) : i \in 1 .. Len(rows) /\ Page(rows, limit)[i] = rows[i]
<1>1. limit \in Nat
  BY PagesAreCounted
<1> DEFINE m == IF Len(rows) < limit THEN Len(rows) ELSE limit
<1>2. m \in Nat /\ m <= Len(rows)
  BY <1>1
<1>3. Page(rows, limit) = SubSeq(rows, 1, m)
  BY DEF Page
<1> HIDE DEF m
<1>4. SubSeq(rows, 1, m) \in Seq(Printings) /\ Len(SubSeq(rows, 1, m)) = m
      /\ \A i \in 1 .. m : SubSeq(rows, 1, m)[i] = rows[i]
  BY <1>2
<1> QED BY <1>2, <1>3, <1>4 DEF m

\* Requests of one fingerprint have the same result in the same order.
LEMMA SameRequest ==
  ASSUME NEW r, NEW q, fingerprint(r) = fingerprint(q)
  PROVE  /\ order_keys(r) = order_keys(q) /\ Matching(r) = Matching(q)
         /\ \A p : KeyOf(r, p) = KeyOf(q, p)
         /\ \A S : Ordered(r, S) = Ordered(q, S)
         /\ \A a, p : seek_predicate(r, a, p) <=> seek_predicate(q, a, p)
<1>1. r.where = q.where /\ OwnedOnly(r) = OwnedOnly(q) /\ order_keys(r) = order_keys(q)
  <2>1. \A a, b, c, d, e, g : <<a, b, c>> = <<d, e, g>> => a = d /\ b = e /\ c = g
    OBVIOUS
  <2> QED BY <2>1, Zenon DEF fingerprint
<1>2. \A row : RowKeys(r, row) = RowKeys(q, row)
  BY <1>1 DEF RowKeys
<1>3. \A p : KeyOf(r, p) = KeyOf(q, p)
  BY <1>2 DEF KeyOf
<1>4. \A row : where_clause(r, row) <=> where_clause(q, row)
  BY <1>1 DEF where_clause
<1>5. Matching(r) = Matching(q)
  BY <1>4 DEF Matching
<1>6. \A a, b : Before(r, a, b) <=> Before(q, a, b)
  BY <1>1, <1>3, BeforeIs
<1>7. \A S : Ordered(r, S) = Ordered(q, S)
  BY <1>6 DEF Ordered
<1>8. \A a, p : seek_predicate(r, a, p) <=> seek_predicate(q, a, p)
  BY <1>1, <1>2 DEF seek_predicate
<1> QED BY <1>1, <1>3, <1>5, <1>7, <1>8

\* The unchanged rows served are in order and of the result.
Sound(r, at, row, T) ==
    /\ \A i, j \in DOMAIN row : row[i] \notin T /\ row[j] \notin T /\ i < j => Before(r, row[i], row[j])
    /\ \A i \in DOMAIN row : row[i] \notin T => row[i] \in at

\* Every unchanged row of the result has been served.
AllServed(at, row, T) == \A p \in at \ T : \E i \in DOMAIN row : row[i] = p

\* rest is what remains to be served of the result at.
Remains(r, at, T, served, rest) ==
    /\ \A p \in Printings \ T : p \in at <=> p \in Matching(r)
    /\ \A p \in Matching(r) \ T : p \in rest <=> ~ \E i \in DOMAIN served : served[i] = p
    /\ \A i \in DOMAIN served : served[i] \notin T => \A p \in rest : Before(r, served[i], p)
    /\ Sound(r, at, served, T)

\* The rows served so far are those up to the key k.
ServedUpTo(r, at, T, row, k) ==
    \A p \in at \ T : (\E i \in DOMAIN row : row[i] = p) <=> ~Follows(order_keys(r), k, KeyOf(r, p))

\* The rows served so far are a beginning of the result.
Beginning(r, at, row) ==
    \A p \in at, i \in DOMAIN row : Before(r, p, row[i]) => \E j \in DOMAIN row : row[j] = p

\* A page is put after the rows served.
LEMMA Concatenated ==
  ASSUME NEW s \in Seq(Printings), NEW t \in Seq(Printings)
  PROVE  /\ s \o t \in Seq(Printings) /\ Len(s \o t) = Len(s) + Len(t) /\ Len(s) \in Nat /\ Len(t) \in Nat
         /\ DOMAIN (s \o t) = 1 .. Len(s \o t) /\ DOMAIN s = 1 .. Len(s)
         /\ \A i \in 1 .. Len(s) : (s \o t)[i] = s[i]
         /\ \A i \in 1 .. Len(t) : (s \o t)[Len(s) + i] = t[i]
         /\ \A i \in 1 .. Len(s \o t) : i \in 1 .. Len(s) \/ (i - Len(s) \in 1 .. Len(t) /\ (s \o t)[i] = t[i - Len(s)])
OBVIOUS

\* A page of what remains leaves the walk sound, and its last key tells what has been served.
LEMMA CursorPage ==
  ASSUME StockOK, NEW r \in Compilable, NEW at \in SUBSET Printings, NEW T, NEW served \in Seq(Printings),
         NEW rest \in SUBSET Matching(r), NEW limit \in Limits, NEW rows \in Ordered(r, rest),
         Remains(r, at, T, served, rest)
  PROVE  LET page == Page(rows, limit)
             next == served \o page
         IN  /\ next \in Seq(Printings)
             /\ Sound(r, at, next, T)
             /\ Len(rows) <= limit => AllServed(at, next, T)
             /\ limit > 0 /\ Len(rows) > limit =>
                  page[Len(page)] \in Printings /\ ServedUpTo(r, at, T, next, KeyOf(r, page[Len(page)]))
<1> DEFINE page == Page(rows, limit)
           next == served \o page
           n == Len(served)
<1>1. Matching(r) \in SUBSET Printings /\ rest \in SUBSET Printings
  BY DEF Matching, StockOK
<1>2. /\ rows \in Seq(Printings)
      /\ \A i \in 1 .. Len(rows) : rows[i] \in rest
      /\ \A p \in rest : \E i \in 1 .. Len(rows) : rows[i] = p
      /\ \A i, j \in 1 .. Len(rows) : i < j => Before(r, rows[i], rows[j])
  BY <1>1, OrderedRows
<1>3. /\ page \in Seq(Printings)
      /\ Len(page) = IF Len(rows) < limit THEN Len(rows) ELSE limit
      /\ \A i \in 1 .. Len(page) : i \in 1 .. Len(rows) /\ page[i] = rows[i]
  BY <1>2, PageRows
<1>4. limit \in Nat
  BY PagesAreCounted
<1>r. /\ \A p \in Printings \ T : p \in at <=> p \in Matching(r)
      /\ \A p \in Matching(r) \ T : p \in rest <=> ~ \E i \in DOMAIN served : served[i] = p
      /\ \A i \in DOMAIN served : served[i] \notin T => \A p \in rest : Before(r, served[i], p)
      /\ Sound(r, at, served, T)
  BY DEF Remains
<1> HIDE DEF page
<1>5. /\ next \in Seq(Printings) /\ Len(next) = n + Len(page) /\ n \in Nat /\ Len(page) \in Nat
      /\ DOMAIN next = 1 .. Len(next) /\ DOMAIN served = 1 .. n
      /\ \A i \in 1 .. n : next[i] = served[i]
      /\ \A i \in 1 .. Len(page) : next[n + i] = page[i]
      /\ \A i \in 1 .. Len(next) : i \in 1 .. n \/ (i - n \in 1 .. Len(page) /\ next[i] = page[i - n])
  BY <1>3, Concatenated, Zenon
<1> HIDE DEF next, n
<1>6. \A i, j \in DOMAIN next : next[i] \notin T /\ next[j] \notin T /\ i < j => Before(r, next[i], next[j])
  <2> SUFFICES ASSUME NEW i \in 1 .. Len(next), NEW j \in 1 .. Len(next), next[i] \notin T, next[j] \notin T, i < j
               PROVE  Before(r, next[i], next[j])
    BY <1>5
  <2>1. CASE j \in 1 .. n
    <3>1. i \in 1 .. n /\ next[i] = served[i] /\ next[j] = served[j]
      BY <1>5, <2>1
    <3> QED BY <1>5, <1>r, <3>1, <2>1 DEF Sound
  <2>2. CASE i \in 1 .. n /\ j \notin 1 .. n
    <3>1. next[i] = served[i] /\ j - n \in 1 .. Len(page) /\ next[j] = page[j - n]
      BY <1>5, <2>2
    <3>2. next[j] \in rest
      BY <1>2, <1>3, <3>1
    <3> QED BY <1>5, <1>r, <2>2, <3>1, <3>2
  <2>3. CASE i \notin 1 .. n /\ j \notin 1 .. n
    <3>1. i - n \in 1 .. Len(page) /\ next[i] = page[i - n] /\ j - n \in 1 .. Len(page) /\ next[j] = page[j - n]
      BY <1>5, <2>3
    <3>2. /\ i - n \in 1 .. Len(rows) /\ next[i] = rows[i - n] /\ j - n \in 1 .. Len(rows) /\ next[j] = rows[j - n]
          /\ i - n < j - n
      BY <1>3, <1>5, <3>1
    <3> QED BY <1>2, <3>2
  <2> QED BY <2>1, <2>2, <2>3
<1>7. \A i \in DOMAIN next : next[i] \notin T => next[i] \in at
  <2> SUFFICES ASSUME NEW i \in 1 .. Len(next), next[i] \notin T
               PROVE  next[i] \in at
    BY <1>5
  <2>1. CASE i \in 1 .. n
    BY <1>5, <1>r, <2>1 DEF Sound
  <2>2. CASE i \notin 1 .. n
    <3>1. i - n \in 1 .. Len(page) /\ next[i] = page[i - n]
      BY <1>5, <2>2
    <3>2. next[i] \in rest
      BY <1>2, <1>3, <3>1
    <3> QED BY <1>1, <1>r, <3>2
  <2> QED BY <2>1, <2>2
\* An unchanged row of the result has been served, is on the page, or is past it.
<1>8. ASSUME NEW p \in at \ T
      PROVE  (\E i \in DOMAIN served : served[i] = p) \/ \E i \in 1 .. Len(rows) : rows[i] = p
  BY <1>1, <1>2, <1>r
<1>9. ASSUME Len(rows) <= limit, NEW p \in at \ T
      PROVE  \E i \in DOMAIN next : next[i] = p
  <2>1. CASE \E i \in DOMAIN served : served[i] = p
    BY <1>5, <2>1
  <2>2. CASE \E i \in 1 .. Len(rows) : rows[i] = p
    <3>1. PICK i \in 1 .. Len(rows) : rows[i] = p
      BY <2>2
    <3>2. i \in 1 .. Len(page) /\ page[i] = p
      BY <1>3, <1>4, <1>9, <3>1
    <3>3. n + i \in DOMAIN next /\ next[n + i] = p
      BY <1>5, <3>2
    <3> QED BY <3>3
  <2> QED BY <1>8, <2>1, <2>2
<1>10. Sound(r, at, next, T) /\ (Len(rows) <= limit => AllServed(at, next, T))
  BY <1>6, <1>7, <1>9 DEF Sound, AllServed
<1>11. ASSUME limit > 0, Len(rows) > limit
       PROVE  page[Len(page)] \in Printings /\ ServedUpTo(r, at, T, next, KeyOf(r, page[Len(page)]))
  <2> DEFINE last == rows[limit]
  <2>1. Len(page) = limit /\ limit \in 1 .. Len(rows) /\ limit \in 1 .. Len(page) /\ page[limit] = last
    BY <1>2, <1>3, <1>4, <1>11
  <2>2. last \in rest /\ last \in Printings
    BY <1>1, <1>2, <2>1
  <2> SUFFICES ASSUME NEW p \in at \ T
               PROVE  (\E i \in DOMAIN next : next[i] = p) <=> ~Before(r, last, p)
    BY <2>1, <2>2, BeforeIs DEF ServedUpTo
  <2>3. p \in Printings
    OBVIOUS
  <2>4. ASSUME NEW i \in DOMAIN next, next[i] = p PROVE ~Before(r, last, p)
    <3>1. CASE i \in 1 .. n
      <4>1. Before(r, p, last)
        BY <1>5, <1>r, <2>2, <2>4, <3>1
      <4> QED BY <2>2, <2>3, <4>1, BeforeOrders
    <3>2. CASE i \notin 1 .. n
      <4>1. i - n \in 1 .. Len(page) /\ next[i] = page[i - n]
        BY <1>5, <3>2
      <4>2. i - n \in 1 .. Len(rows) /\ p = rows[i - n] /\ i - n <= limit
        BY <1>3, <2>1, <2>4, <4>1
      <4>3. i - n = limit \/ Before(r, p, last)
        BY <1>2, <2>1, <4>2
      <4> QED BY <2>2, <2>3, <4>2, <4>3, BeforeOrders
    <3> QED BY <3>1, <3>2
  <2>5. ASSUME ~ \E i \in DOMAIN next : next[i] = p PROVE Before(r, last, p)
    <3>1. ~ \E i \in DOMAIN served : served[i] = p
      BY <1>5, <2>5
    <3>2. PICK i \in 1 .. Len(rows) : rows[i] = p
      BY <1>8, <3>1
    <3>3. ~(i <= limit)
      <4>1. SUFFICES ASSUME i <= limit PROVE FALSE
        OBVIOUS
      <4>2. i \in 1 .. Len(page) /\ page[i] = p
        BY <1>3, <2>1, <3>2, <4>1
      <4>3. n + i \in DOMAIN next /\ next[n + i] = p
        BY <1>5, <4>2
      <4> QED BY <2>5, <4>3
    <3> QED BY <1>2, <1>4, <2>1, <3>2, <3>3
  <2> QED BY <2>4, <2>5
<1> QED BY <1>5, <1>10, <1>11 DEF next, page

\* The same of a walk by offset: the rows served are where the next query finds them again.
LEMMA OffsetPage ==
  ASSUME StockOK, NEW r \in Compilable, NEW at \in SUBSET Printings, NEW served \in Seq(Printings),
         NEW limit \in Limits, NEW rows \in Ordered(r, at),
         Sound(r, at, served, {}), Beginning(r, at, served)
  PROVE  LET rest == SubSeq(rows, Len(served) + 1, Len(rows))
             next == served \o Page(rest, limit)
         IN  /\ next \in Seq(Printings)
             /\ Sound(r, at, next, {}) /\ Beginning(r, at, next)
             /\ Len(rest) <= limit => AllServed(at, next, {})
<1> DEFINE n == Len(served)
           rest == SubSeq(rows, n + 1, Len(rows))
           page == Page(rest, limit)
           next == served \o page
           Off == {i \in 1 .. n : ~(i <= Len(rows) /\ served[i] = rows[i])}
<1>1. /\ rows \in Seq(Printings)
      /\ \A i \in 1 .. Len(rows) : rows[i] \in at
      /\ \A p \in at : \E i \in 1 .. Len(rows) : rows[i] = p
      /\ \A i, j \in 1 .. Len(rows) : i < j => Before(r, rows[i], rows[j])
  BY OrderedRows
<1>2. n \in Nat /\ DOMAIN served = 1 .. n /\ Len(rows) \in Nat /\ \A i \in 1 .. n : served[i] \in Printings
  BY <1>1
<1>3. /\ \A i, j \in 1 .. n : i < j => Before(r, served[i], served[j])
      /\ \A i \in 1 .. n : served[i] \in at
  BY <1>2 DEF Sound
<1>4. \A i, j \in 1 .. Len(rows) : rows[i] = rows[j] => i = j
  <2> SUFFICES ASSUME NEW i \in 1 .. Len(rows), NEW j \in 1 .. Len(rows), rows[i] = rows[j], i < j PROVE FALSE
    BY <1>2
  <2>1. rows[i] \in Printings /\ Before(r, rows[i], rows[i])
    BY <1>1
  <2> QED BY <2>1, BeforeOrders
<1>5. Off = {}
  <2> SUFFICES ASSUME Off # {} PROVE FALSE
    OBVIOUS
  <2>1. Off \in SUBSET Nat
    BY <1>2
  <2>2. PICK i \in Off : \A k \in Off : i <= k
    <3> HIDE DEF Off
    <3> QED BY <2>1, LeastOf
  <2>3. i \in 1 .. n /\ ~(i <= Len(rows) /\ served[i] = rows[i])
    BY <2>2
  <2>4. \A k \in 1 .. n : k < i => k <= Len(rows) /\ served[k] = rows[k]
    <3> TAKE k \in 1 .. n
    <3> HAVE k < i
    <3>1. k \notin Off
      BY <1>2, <2>1, <2>2
    <3> QED BY <3>1
  <2> HIDE DEF n, Off
  <2>5. PICK j \in 1 .. Len(rows) : rows[j] = served[i]
    BY <1>1, <1>3, <2>3
  <2>6. CASE j < i
    <3>1. j \in 1 .. n /\ served[j] = served[i] /\ Before(r, served[j], served[i])
      BY <1>2, <1>3, <2>3, <2>4, <2>5, <2>6
    <3> QED BY <1>2, <3>1, BeforeOrders
  <2>7. CASE i < j
    <3>1. i \in 1 .. Len(rows) /\ Before(r, rows[i], served[i]) /\ rows[i] \in at
      BY <1>1, <1>2, <2>3, <2>5, <2>7
    <3>2. PICK m \in 1 .. n : served[m] = rows[i]
      BY <1>2, <2>3, <3>1 DEF Beginning
    <3>3. m < i
      <4>1. m # i
        BY <2>3, <3>1, <3>2
      <4>2. ~(i < m)
        <5>1. SUFFICES ASSUME i < m PROVE FALSE
          OBVIOUS
        <5>2. Before(r, served[i], served[m]) /\ Before(r, served[m], served[i])
          BY <1>3, <2>3, <3>1, <3>2, <5>1
        <5> QED BY <1>2, <2>3, <5>2, BeforeOrders
      <4> QED BY <1>2, <2>3, <4>1, <4>2
    <3>4. m \in 1 .. Len(rows) /\ rows[m] = rows[i]
      BY <1>2, <2>4, <3>2, <3>3
    <3> QED BY <1>2, <1>4, <2>3, <3>1, <3>3, <3>4
  <2>8. CASE i = j
    BY <1>2, <2>3, <2>5, <2>8
  <2> QED BY <1>2, <2>3, <2>5, <2>6, <2>7, <2>8
<1>6. \A i \in 1 .. n : i <= Len(rows) /\ served[i] = rows[i]
  BY <1>5
<1> HIDE DEF n
<1>7. n <= Len(rows)
  BY <1>2, <1>6
<1>8. /\ rest \in Seq(Printings) /\ Len(rest) = Len(rows) - n
      /\ \A i \in 1 .. Len(rest) : rest[i] = rows[n + i]
  BY <1>1, <1>2, <1>7
<1> HIDE DEF rest
<1>9. /\ page \in Seq(Printings)
      /\ Len(page) = IF Len(rest) < limit THEN Len(rest) ELSE limit
      /\ \A i \in 1 .. Len(page) : i \in 1 .. Len(rest) /\ page[i] = rest[i]
  BY <1>8, PageRows
<1> HIDE DEF page
<1>10. limit \in Nat
  BY PagesAreCounted
<1>11. /\ next \in Seq(Printings) /\ Len(next) = n + Len(page) /\ Len(page) \in Nat
       /\ DOMAIN next = 1 .. Len(next)
       /\ \A i \in 1 .. n : next[i] = served[i]
       /\ \A i \in 1 .. Len(next) : i \in 1 .. n \/ (i - n \in 1 .. Len(page) /\ next[i] = page[i - n])
  BY <1>9, Concatenated, Zenon DEF n
<1> HIDE DEF next
<1>12. Len(next) <= Len(rows) /\ Len(next) \in Nat
  BY <1>2, <1>8, <1>9, <1>10, <1>11
<1>13. \A i \in 1 .. Len(next) : i \in 1 .. Len(rows) /\ next[i] = rows[i]
  <2> TAKE i \in 1 .. Len(next)
  <2>1. CASE i \in 1 .. n
    BY <1>2, <1>6, <1>11, <2>1
  <2>2. CASE i \notin 1 .. n
    <3>1. i - n \in 1 .. Len(page) /\ next[i] = page[i - n]
      BY <1>11, <2>2
    <3>2. i - n \in 1 .. Len(rest) /\ next[i] = rest[i - n]
      BY <1>9, <3>1
    <3>3. rest[i - n] = rows[n + (i - n)] /\ n + (i - n) = i
      BY <1>2, <1>8, <3>2
    <3> QED BY <1>2, <1>12, <3>2, <3>3
  <2> QED BY <2>1, <2>2
<1>14. \A i, j \in 1 .. Len(next) : i < j => Before(r, next[i], next[j])
  BY <1>1, <1>13
<1>15. \A i \in 1 .. Len(next) : next[i] \in at
  BY <1>1, <1>13
<1>16. ASSUME Len(rest) <= limit, NEW p \in at PROVE \E i \in 1 .. Len(next) : next[i] = p
  <2>1. Len(next) = Len(rows)
    <3>1. Len(rest) \in Nat /\ Len(page) = Len(rest)
      BY <1>8, <1>9, <1>10, <1>16
    <3> QED BY <1>2, <1>8, <1>11, <3>1
  <2>2. PICK i \in 1 .. Len(rows) : rows[i] = p
    BY <1>1
  <2> QED BY <1>13, <2>1, <2>2
<1>17. Sound(r, at, next, {}) /\ (Len(rest) <= limit => AllServed(at, next, {}))
  BY <1>11, <1>14, <1>15, <1>16 DEF Sound, AllServed
<1>18. ASSUME NEW p \in at, NEW i \in 1 .. Len(next), Before(r, p, next[i])
       PROVE  \E j \in 1 .. Len(next) : next[j] = p
  <2>1. PICK j \in 1 .. Len(rows) : rows[j] = p
    BY <1>1
  <2>2. rows[i] \in Printings /\ p \in Printings /\ next[i] = rows[i] /\ i \in 1 .. Len(rows)
    BY <1>1, <1>13
  <2>3. j < i
    <3>1. SUFFICES ASSUME i <= j PROVE FALSE
      BY <1>2, <2>1, <2>2
    <3>2. i = j \/ Before(r, rows[i], rows[j])
      BY <1>1, <1>2, <2>1, <2>2, <3>1
    <3> QED BY <1>18, <2>1, <2>2, <3>2, BeforeOrders
  <2>4. j \in 1 .. Len(next)
    BY <1>12, <2>1, <2>3
  <2> QED BY <1>13, <2>1, <2>4
<1>19. Beginning(r, at, next)
  BY <1>11, <1>18 DEF Beginning
<1> QED BY <1>11, <1>17, <1>19 DEF next, page, rest, n

\* The types of a walk.
WalkTypeOK ==
    /\ StockOK
    /\ asked = Null \/ asked \in Compilable
    /\ walk # Null =>
         /\ walk.by \in {"cursor", "offset"} /\ walk.req \in Compilable
         /\ walk.at \in SUBSET Printings /\ walk.served \in Seq(Printings)
         /\ walk.over \in BOOLEAN /\ walk.counted \in BOOLEAN

\* A printing that has not changed is in the result now if it was when the walk began.
Current ==
    walk # Null => \A p \in Printings \ touched : p \in walk.at <=> p \in Matching(walk.req)

\* The unchanged rows served are those up to the key of the cursor, which is of the walk's request.
CursorTells ==
    walk # Null /\ walk.by = "cursor" /\ ~walk.over =>
        /\ walk.after[1] = fingerprint(walk.req) /\ walk.after[2] \in KeyTuples(walk.req)
        /\ ServedUpTo(walk.req, walk.at, touched, walk.served, walk.after[2])

\* While nothing changes, a walk by offset has served a beginning of the result.
OffsetCuts ==
    walk # Null /\ walk.by = "offset" =>
        /\ asked = walk.req
        /\ touched = {} => Beginning(walk.req, walk.at, walk.served)

\* The inductive invariant.
WalkInv == WalkTypeOK /\ WalkIsWhole /\ Current /\ CursorTells /\ OffsetCuts

\* The invariant holds of every stock before a walk.
LEMMA WalkStarts == WalkInit => WalkInv
BY StocksFit DEF WalkInit, WalkInv, WalkTypeOK, StockOK, WalkIsWhole, Current, CursorTells, OffsetCuts

\* Another request beside a walk by cursor leaves the walk alone.
LEMMA AskKeepsWalks ==
  ASSUME WalkInv, NEW r \in Requests, Ask(r)
  PROVE  WalkInv'
<1>1. /\ listed' = listed /\ price' = price /\ copies' = copies /\ walk' = walk /\ touched' = touched
      /\ asked' \in Compilable /\ (walk = Null \/ walk.by = "cursor")
  BY DEF Ask, stock, Walking, Compilable
<1>2. WalkTypeOK'
  BY <1>1 DEF WalkInv, WalkTypeOK, StockOK
<1>3. WalkIsWhole'
  BY <1>1 DEF WalkInv, WalkIsWhole, Before, Row
<1>4. Current'
  BY <1>1 DEF WalkInv, Current, Matching, where_clause, Row
<1>5. CursorTells'
  BY <1>1 DEF WalkInv, CursorTells, ServedUpTo, KeyOf, Row
<1>6. OffsetCuts'
  BY <1>1 DEF WalkInv, OffsetCuts
<1> QED BY <1>2, <1>3, <1>4, <1>5, <1>6 DEF WalkInv

\* So does a step that touches neither the stock nor the walk.
LEMMA QuietKeepsWalks ==
  ASSUME WalkInv, UNCHANGED <<stock, asked, walk, touched>>
  PROVE  WalkInv'
<1>1. listed' = listed /\ price' = price /\ copies' = copies /\ walk' = walk /\ touched' = touched /\ asked' = asked
  BY DEF stock
<1>2. WalkTypeOK'
  BY <1>1 DEF WalkInv, WalkTypeOK, StockOK
<1>3. WalkIsWhole'
  BY <1>1 DEF WalkInv, WalkIsWhole, Before, Row
<1>4. Current'
  BY <1>1 DEF WalkInv, Current, Matching, where_clause, Row
<1>5. CursorTells'
  BY <1>1 DEF WalkInv, CursorTells, ServedUpTo, KeyOf, Row
<1>6. OffsetCuts'
  BY <1>1 DEF WalkInv, OffsetCuts, Beginning, Before, Row
<1> QED BY <1>2, <1>3, <1>4, <1>5, <1>6 DEF WalkInv

\* What another process changes is one row, and that is marked.
LEMMA ChangesKeepWalks ==
  ASSUME WalkInv, NEW p \in Printings, Changes(p), StockOK',
         \A q \in Printings \ {p} : (q \in listed' <=> q \in listed) /\ price'[q] = price[q] /\ copies'[q] = copies[q]
  PROVE  WalkInv'
<1>1. walk' = walk /\ asked' = asked /\ touched' = touched \cup {p}
  BY DEF Changes
<1>2. WalkTypeOK'
  BY <1>1 DEF WalkInv, WalkTypeOK
<1>3. \A q \in Printings \ touched' : q \notin touched /\ (q \in listed' <=> q \in listed) /\ price'[q] = price[q] /\ copies'[q] = copies[q]
  BY <1>1
<1>4. walk # Null => \A i \in DOMAIN walk.served : walk.served[i] \in Printings
  BY DEF WalkInv, WalkTypeOK
<1>5. walk # Null => walk.at \subseteq Printings
  BY DEF WalkInv, WalkTypeOK
<1>6. touched' # {}
  BY <1>1
<1>7. WalkIsWhole'
  <2> SUFFICES ASSUME walk # Null, walk.by # "offset"
               PROVE  WalkIsWhole'
    BY <1>1, <1>6 DEF WalkIsWhole
  <2>1. /\ \A i, j \in DOMAIN walk.served :
             walk.served[i] \notin touched /\ walk.served[j] \notin touched /\ i < j => Before(walk.req, walk.served[i], walk.served[j])
        /\ \A i \in DOMAIN walk.served : walk.served[i] \notin touched => walk.served[i] \in walk.at
        /\ walk.over /\ ~walk.counted => \A q \in walk.at \ touched : \E i \in DOMAIN walk.served : walk.served[i] \notin touched /\ walk.served[i] = q
    BY DEF WalkInv, WalkIsWhole
  <2>2. /\ \A i, j \in DOMAIN walk.served :
             walk.served[i] \notin touched' /\ walk.served[j] \notin touched' /\ i < j => Before(walk.req, walk.served[i], walk.served[j])'
    BY <1>1, <1>3, <1>4, <2>1 DEF Before, Row
  <2> QED BY <1>1, <1>3, <1>5, <2>1, <2>2 DEF WalkIsWhole
<1>8. Current'
  BY <1>1, <1>3 DEF WalkInv, Current, Matching, where_clause, Row
<1>9. CursorTells'
  BY <1>1, <1>3, <1>5 DEF WalkInv, CursorTells, ServedUpTo, KeyOf, Row
<1>10. OffsetCuts'
  BY <1>1, <1>6 DEF WalkInv, OffsetCuts
<1> QED BY <1>2, <1>7, <1>8, <1>9, <1>10 DEF WalkInv

\* The property, said in these terms.
LEMMA WholeIs ==
  WalkIsWhole <=> (walk # Null /\ (walk.by = "offset" => touched = {}) =>
                      /\ Sound(walk.req, walk.at, walk.served, touched)
                      /\ walk.over /\ ~walk.counted => AllServed(walk.at, walk.served, touched))
BY DEF WalkIsWhole, Sound, AllServed

\* What a page has to leave behind, said of its parts.
LEMMA WalkLands ==
  ASSUME WalkTypeOK, NEW by \in {"cursor", "offset"}, NEW r \in Compilable, NEW at \in SUBSET Printings,
         NEW row \in Seq(Printings), NEW over \in BOOLEAN, NEW counted \in BOOLEAN, NEW k,
         walk'.by = by, walk'.req = r, walk'.at = at, walk'.served = row, walk'.over = over,
         walk'.counted = counted,
         UNCHANGED <<stock, asked, touched>>,
         \A p \in Printings \ touched : p \in at <=> p \in Matching(r),
         (by = "offset" => touched = {}) => 
             Sound(r, at, row, touched) /\ (over /\ ~counted => AllServed(at, row, touched)),
         by = "cursor" /\ ~over =>
             walk'.after = <<fingerprint(r), k>> /\ k \in KeyTuples(r) /\ ServedUpTo(r, at, touched, row, k),
         by = "offset" => asked = r /\ (touched = {} => Beginning(r, at, row))
  PROVE  WalkInv'
<1>1. listed' = listed /\ price' = price /\ copies' = copies /\ touched' = touched /\ asked' = asked
  BY DEF stock
<1>2. WalkTypeOK'
  BY <1>1 DEF WalkTypeOK, StockOK
<1>3. WalkIsWhole'
  <2>1. (by = "offset" => touched = {}) =>
           /\ \A i, j \in DOMAIN row : row[i] \notin touched /\ row[j] \notin touched /\ i < j => Before(r, row[i], row[j])'
           /\ \A i \in DOMAIN row : row[i] \notin touched => row[i] \in at
           /\ over /\ ~counted => AllServed(at, row, touched)
    BY <1>1 DEF Sound, Before, Row
  <2> QED BY <1>1, <2>1 DEF WalkIsWhole, AllServed, Before, Row
<1>4. Current'
  BY <1>1 DEF Current, Matching, where_clause, Row
<1>5. CursorTells'
  <2>1. by = "cursor" /\ ~over => walk'.after[1] = fingerprint(r) /\ walk'.after[2] = k
    OBVIOUS
  <2> QED BY <1>1, <2>1 DEF CursorTells, ServedUpTo, KeyOf, Row
<1>6. OffsetCuts'
  BY <1>1 DEF OffsetCuts, Beginning, Before, Row
<1> QED BY <1>2, <1>3, <1>4, <1>5, <1>6 DEF WalkInv

\* What a page taken by cursor makes of a walk whose fingerprint is f and whose last key is k.
CursorWalk(r, at, served, rows, limit, f, k) ==
    LET more == limit > 0 /\ Len(rows) > limit
    IN  [by |-> "cursor", req |-> r, at |-> at, served |-> served \o Page(rows, limit),
         over |-> ~more, counted |-> limit = 0, after |-> IF more THEN <<f, k>> ELSE <<>>]

\* A page taken by cursor from the rows that have not been served.
LEMMA CursorStep ==
  ASSUME WalkInv, NEW r \in Compilable, NEW at \in SUBSET Printings, NEW served \in Seq(Printings),
         NEW rest \in SUBSET Matching(r), NEW limit \in Limits, NEW rows \in Ordered(r, rest),
         Remains(r, at, touched, served, rest),
         UNCHANGED <<stock, asked, touched>>,
         NEW f, f = fingerprint(r), NEW k, k = KeyOf(r, Page(rows, limit)[Len(Page(rows, limit))]),
         walk' = CursorWalk(r, at, served, rows, limit, f, k)
  PROVE  WalkInv'
<1> DEFINE page == Page(rows, limit)
           next == served \o page
           more == limit > 0 /\ Len(rows) > limit
           over == ~more
           counted == limit = 0
<1>1. StockOK /\ WalkTypeOK
  BY DEF WalkInv, WalkTypeOK
<1>2. rest \in SUBSET Printings
  BY <1>1 DEF Matching, StockOK
<1>3. rows \in Seq(Printings)
  BY <1>1, <1>2, OrderedRows
<1>4. Len(rows) \in Nat /\ limit \in Nat
  BY <1>3, PagesAreCounted
<1>5. /\ next \in Seq(Printings) /\ Sound(r, at, next, touched)
      /\ Len(rows) <= limit => AllServed(at, next, touched)
      /\ more => page[Len(page)] \in Printings /\ ServedUpTo(r, at, touched, next, k)
  BY <1>1, CursorPage
<1>6. more => k \in KeyTuples(r)
  BY <1>1, <1>5, KeysFit
<1>7. /\ walk'.by = "cursor" /\ walk'.req = r /\ walk'.at = at /\ walk'.served = next /\ walk'.over = over
      /\ walk'.counted = counted
      /\ more => walk'.after = <<f, k>>
  BY DEF CursorWalk
<1>8. /\ over \in BOOLEAN /\ counted \in BOOLEAN /\ (~over <=> more)
      /\ over /\ ~counted => Len(rows) <= limit
  BY <1>4
<1>9. \A p \in Printings \ touched : p \in at <=> p \in Matching(r)
  BY DEF Remains
<1> HIDE DEF page, next, over, counted
<1> QED BY <1>1, <1>5, <1>6, <1>7, <1>8, <1>9, WalkLands

\* The first page by cursor: all of the result remains.
LEMMA BeginKeepsWalks ==
  ASSUME WalkInv, NEW limit \in Limits, BeginByCursor(limit)
  PROVE  WalkInv'
<1>1. asked \in Compilable /\ StockOK
  BY DEF BeginByCursor, WalkInv, WalkTypeOK
<1>2. PICK rows \in Ordered(asked, Matching(asked)) : walk' = NextByCursor(asked, limit, <<>>, rows, Matching(asked))
  BY DEF BeginByCursor
<1>3. Matching(asked) \in SUBSET Printings
  BY <1>1 DEF Matching, StockOK
<1>4. UNCHANGED <<stock, asked, touched>>
  BY DEF BeginByCursor
<1> DEFINE f == fingerprint(asked)
           k == KeyOf(asked, Page(rows, limit)[Len(Page(rows, limit))])
           none == << >>
<1>5. walk' = CursorWalk(asked, Matching(asked), none, rows, limit, f, k)
  BY <1>2 DEF NextByCursor, CursorWalk, KeyOf
<1>6. none \in Seq(Printings) /\ DOMAIN none = {}
  OBVIOUS
<1> HIDE DEF none
<1>7. Remains(asked, Matching(asked), touched, none, Matching(asked))
  BY <1>6 DEF Remains, Sound
<1> QED BY <1>1, <1>3, <1>4, <1>5, <1>6, <1>7, CursorStep

\* A later page: what remains comes after the cursor's key, whatever has changed beside it.
LEMMA TurnKeepsWalks ==
  ASSUME WalkInv, NEW limit \in Limits, TurnByCursor(limit)
  PROVE  WalkInv'
<1> DEFINE r == walk.req
           k == walk.after[2]
           rest == {p \in Matching(r) : seek_predicate(r, k, p)}
<1>1. /\ walk # Null /\ walk.over = FALSE /\ walk.by = "cursor" /\ walk.after[1] = fingerprint(asked)
      /\ r \in Compilable /\ walk.at \in SUBSET Printings /\ walk.served \in Seq(Printings) /\ StockOK
  BY DEF TurnByCursor, Walking, WalkInv, WalkTypeOK
<1>2. /\ fingerprint(asked) = fingerprint(r) /\ k \in KeyTuples(r)
      /\ ServedUpTo(r, walk.at, touched, walk.served, k)
  BY <1>1 DEF WalkInv, CursorTells
<1>3. /\ Matching(asked) = Matching(r) /\ \A p : KeyOf(asked, p) = KeyOf(r, p)
      /\ \A S : Ordered(asked, S) = Ordered(r, S)
      /\ \A p : seek_predicate(asked, k, p) <=> seek_predicate(r, k, p)
  BY <1>2, SameRequest
<1>4. PICK rows \in Ordered(r, rest) : walk' = NextByCursor(r, limit, walk.served, rows, walk.at)
  <2>1. {p \in Matching(asked) : seek_predicate(asked, k, p)} = rest
    BY <1>3
  <2> QED BY <1>3, <2>1 DEF TurnByCursor
<1>5. UNCHANGED <<stock, asked, touched>>
  BY DEF TurnByCursor
<1> DEFINE f == fingerprint(asked)
           last == KeyOf(asked, Page(rows, limit)[Len(Page(rows, limit))])
<1>6. walk' = CursorWalk(r, walk.at, walk.served, rows, limit, f, last)
  BY <1>4 DEF NextByCursor, CursorWalk, KeyOf
<1>7. f = fingerprint(r) /\ last = KeyOf(r, Page(rows, limit)[Len(Page(rows, limit))])
  BY <1>2, <1>3
<1>8. Matching(r) \in SUBSET Printings /\ \A p \in Printings \ touched : p \in walk.at <=> p \in Matching(r)
  BY <1>1 DEF WalkInv, Current, Matching, StockOK
<1>9. \A p \in Printings : seek_predicate(r, k, p) <=> Follows(order_keys(r), k, KeyOf(r, p))
  BY <1>1, <1>2, SeekIs
<1>10. rest \in SUBSET Matching(r)
  OBVIOUS
<1>11. \A p \in Matching(r) \ touched : p \in rest <=> ~ \E i \in DOMAIN walk.served : walk.served[i] = p
  BY <1>2, <1>8, <1>9 DEF ServedUpTo
<1>12. Sound(r, walk.at, walk.served, touched)
  BY <1>1, WholeIs DEF WalkInv
<1>13. ASSUME NEW i \in DOMAIN walk.served, walk.served[i] \notin touched, NEW p \in rest
       PROVE  Before(r, walk.served[i], p)
  <2> DEFINE s == walk.served[i]
  <2>1. s \in Printings /\ s \in walk.at \ touched /\ p \in Printings
    BY <1>1, <1>8, <1>12, <1>13 DEF Sound
  <2>2. ~Follows(order_keys(r), k, KeyOf(r, s))
    BY <1>2, <2>1 DEF ServedUpTo
  <2>3. Follows(order_keys(r), k, KeyOf(r, p))
    BY <1>9, <2>1
  <2>4. KeyOf(r, s) \in KeyTuples(r) /\ KeyOf(r, p) \in KeyTuples(r)
    BY <1>1, <2>1, KeysFit
  <2> HIDE DEF s, r, k
  <2>5. Follows(order_keys(r), KeyOf(r, s), KeyOf(r, p))
    BY <1>1, <1>2, <2>2, <2>3, <2>4, LexOfRequest
  <2> QED BY <2>5, BeforeIs DEF s
<1>14. Remains(r, walk.at, touched, walk.served, rest)
  BY <1>8, <1>11, <1>12, <1>13 DEF Remains
<1> DEFINE at == walk.at
           served == walk.served
<1>15. r \in Compilable /\ at \in SUBSET Printings /\ served \in Seq(Printings)
  BY <1>1
<1>16. Remains(r, at, touched, served, rest)
  BY <1>14
<1>17. walk' = CursorWalk(r, at, served, rows, limit, f, last)
  BY <1>6
<1> HIDE DEF r, k, rest, f, last, at, served
<1> QED BY <1>5, <1>7, <1>10, <1>15, <1>16, <1>17, CursorStep

\* A page by offset.
LEMMA OffsetKeepsWalks ==
  ASSUME WalkInv, NEW limit \in Limits, TurnByOffset(limit)
  PROVE  WalkInv'
<1> DEFINE served == IF walk = Null THEN <<>> ELSE walk.served
           at == IF walk = Null THEN Matching(asked) ELSE walk.at
<1>1. /\ asked \in Compilable /\ StockOK /\ WalkTypeOK
      /\ walk # Null => walk.over = FALSE /\ walk.by = "offset" /\ asked = walk.req
      /\ walk # Null => walk.served \in Seq(Printings) /\ walk.at \in SUBSET Printings
  BY DEF TurnByOffset, Walking, WalkInv, WalkTypeOK, OffsetCuts
<1>2. PICK rows \in Ordered(asked, Matching(asked)) :
        walk' = [by |-> "offset", req |-> asked, at |-> at,
                 served |-> served \o Page(SubSeq(rows, Len(served) + 1, Len(rows)), limit),
                 over |-> Len(SubSeq(rows, Len(served) + 1, Len(rows))) <= limit,
                 counted |-> FALSE, after |-> <<>>]
  BY DEF TurnByOffset
<1> DEFINE rest == SubSeq(rows, Len(served) + 1, Len(rows))
           next == served \o Page(rest, limit)
           over == Len(rest) <= limit
<1>3. Matching(asked) \in SUBSET Printings /\ at \in SUBSET Printings /\ served \in Seq(Printings)
  BY <1>1 DEF Matching, StockOK
<1>4. \A p \in Printings \ touched : p \in at <=> p \in Matching(asked)
  BY <1>1 DEF WalkInv, Current
<1>5. rows \in Seq(Printings)
  BY <1>1, <1>3, OrderedRows
<1>6. next \in Seq(Printings) /\ over \in BOOLEAN
  <2>1. Len(served) \in Nat /\ Len(rows) \in Nat
    BY <1>3, <1>5
  <2>2. rest \in Seq(Printings)
    BY <1>5, <2>1
  <2>3. Page(rest, limit) \in Seq(Printings)
    BY <2>2, PageRows
  <2>4. limit \in Nat /\ Len(rest) \in Nat
    BY <2>2, PagesAreCounted
  <2> HIDE DEF rest, served
  <2> QED BY <1>3, <2>3, <2>4
<1>7. ASSUME touched = {}
      PROVE  Sound(asked, at, next, {}) /\ Beginning(asked, at, next) /\ (over => AllServed(at, next, {}))
  <2>1. at = Matching(asked)
    BY <1>3, <1>4, <1>7
  <2>2. Sound(asked, at, served, {}) /\ Beginning(asked, at, served)
    <3>1. CASE walk = Null
      <4> DEFINE none == << >>
      <4>1. DOMAIN none = {}
        OBVIOUS
      <4>2. served = none
        BY <3>1
      <4> HIDE DEF served, none
      <4> QED BY <4>1, <4>2 DEF Sound, Beginning
    <3>2. CASE walk # Null
      BY <1>1, <1>7, <3>2, WholeIs DEF WalkInv, OffsetCuts
    <3> QED BY <3>1, <3>2
  <2>3. rows \in Ordered(asked, at)
    BY <2>1
  <2> HIDE DEF served, at
  <2> QED BY <1>1, <1>3, <2>2, <2>3, OffsetPage
<1>8. /\ walk'.by = "offset" /\ walk'.req = asked /\ walk'.at = at /\ walk'.served = next
      /\ walk'.over = over /\ walk'.counted = FALSE
  BY <1>2
<1>9. UNCHANGED <<stock, asked, touched>>
  BY DEF TurnByOffset
<1> HIDE DEF served, at, rest, next, over
<1> QED BY <1>1, <1>3, <1>4, <1>6, <1>7, <1>8, <1>9, WalkLands

\* Every change of another process changes one printing.
LEMMA StockKeepsWalks ==
  ASSUME WalkInv, NEW p \in Printings,
         \/ \E v \in Prices \cup {Null} : Reprice(p, v)
         \/ \E s \in CopyStatuses : AddCopy(p, s) \/ RemoveCopy(p, s)
         \/ Publish(p) \/ Withdraw(p)
  PROVE  WalkInv'
<1> DEFINE Elsewhere == \A q \in Printings \ {p} :
                (q \in listed' <=> q \in listed) /\ price'[q] = price[q] /\ copies'[q] = copies[q]
<1>1. StockOK
  BY DEF WalkInv, WalkTypeOK
<1>2. ASSUME NEW v \in Prices \cup {Null}, Reprice(p, v)
      PROVE  Changes(p) /\ StockOK' /\ Elsewhere
  BY <1>1, <1>2 DEF Reprice, StockOK
<1>3. ASSUME NEW s \in CopyStatuses, AddCopy(p, s)
      PROVE  Changes(p) /\ StockOK' /\ Elsewhere
  BY <1>1, <1>3 DEF AddCopy, StockOK
<1>4. ASSUME NEW s \in CopyStatuses, RemoveCopy(p, s)
      PROVE  Changes(p) /\ StockOK' /\ Elsewhere
  BY <1>1, <1>4 DEF RemoveCopy, StockOK
<1>5. ASSUME Publish(p)
      PROVE  Changes(p) /\ StockOK' /\ Elsewhere
  BY <1>1, <1>5 DEF Publish, StockOK
<1>6. ASSUME Withdraw(p)
      PROVE  Changes(p) /\ StockOK' /\ Elsewhere
  BY <1>1, <1>6 DEF Withdraw, StockOK
<1>7. Changes(p) /\ StockOK' /\ Elsewhere
  BY <1>2, <1>3, <1>4, <1>5, <1>6
<1> QED BY <1>7, ChangesKeepWalks

\* Every step keeps the invariant.
LEMMA WalksStep == WalkInv /\ [WalkNext]_walkVars => WalkInv'
<1> SUFFICES ASSUME WalkInv, [WalkNext]_walkVars PROVE WalkInv'
  OBVIOUS
<1>1. ASSUME NEW c \in Typeable, Type(c) PROVE WalkInv'
  BY <1>1, QuietKeepsWalks DEF Type
<1>2. ASSUME NEW r \in Requests, Ask(r) PROVE WalkInv'
  BY <1>2, AskKeepsWalks
<1>3. ASSUME NEW limit \in Limits, BeginByCursor(limit) PROVE WalkInv'
  BY <1>3, BeginKeepsWalks
<1>4. ASSUME NEW limit \in Limits, TurnByCursor(limit) PROVE WalkInv'
  BY <1>4, TurnKeepsWalks
<1>5. ASSUME NEW limit \in Limits, TurnByOffset(limit) PROVE WalkInv'
  BY <1>5, OffsetKeepsWalks
<1>6. ASSUME NEW p \in Printings,
             \/ \E v \in Prices \cup {Null} : Reprice(p, v)
             \/ \E s \in CopyStatuses : AddCopy(p, s) \/ RemoveCopy(p, s)
             \/ Publish(p) \/ Withdraw(p)
      PROVE  WalkInv'
  BY <1>6, StockKeepsWalks
<1>7. CASE UNCHANGED walkVars
  BY <1>7, QuietKeepsWalks DEF walkVars, stock
<1> QED BY <1>1, <1>2, <1>3, <1>4, <1>5, <1>6, <1>7 DEF WalkNext

\* The invariant holds throughout.
LEMMA WalkInvHolds == WalkSpec => []WalkInv
BY WalkStarts, WalksStep, PTL DEF WalkSpec

\* A request that is asked, and the walk over its result, keep their types.
THEOREM WalkTypeCorrect == WalkSpec => []WalkTypeOK
<1>1. WalkInv => WalkTypeOK
  BY DEF WalkInv
<1> QED BY <1>1, WalkInvHolds, PTL

\* Whatever condition, order and page size, and whatever other processes change between two pages, a walk
\* by cursor serves every row that was there when it began and has not changed exactly once and in order,
\* and one by offset does when nothing changes (search.rs, search_page_after and search_page).
THEOREM WalksAreWhole == WalkSpec => []WalkIsWhole
<1>1. WalkInv => WalkIsWhole
  BY DEF WalkInv
<1> QED BY <1>1, WalkInvHolds, PTL
=============================================================================
