----------------------------- MODULE Collection -----------------------------
(* One tenant's collection: the copies, the containers they sit in, the     *)
(* orders that bring them and the import rows parked for a person           *)
(* (crates/pkdump-db/src/collection.rs, binders.rs, decks.rs,               *)
(* deck_groups.rs, orders.rs, unresolved.rs).  status_log and movement_log  *)
(* record what happened to each copy.                                       *)
(*                                                                          *)
(* The server runs one request at a time on a tenant's connection, so a     *)
(* handler (op) is never interleaved with another; but it is several        *)
(* transactions long, and an error or a crash may end it between any two.   *)
EXTENDS Naturals, Sequences, FiniteSetsExt

CONSTANTS Copies, Binders, Decks, Groups, Orders, Tickets, \* row ids SQLite may issue
          Statuses,      \* what a copy's status may be
          None,
          MaxLog,        \* bound: log entries of all copies
          MaxInterrupts  \* bound: handlers that end half way

ASSUME NoneIsNoId ==
    None \notin UNION {Copies, Binders, Decks, Groups, Orders, Tickets}
ASSUME OrdersAreReceived == {"ordered", "owned"} \subseteq Statuses
ASSUME BoundsAreNat == MaxLog \in Nat /\ MaxInterrupts \in Nat

VARIABLES
    copy,     \* collection: id -> None or its row
    slog,     \* status_log of each copy, oldest entry first
    mlog,     \* movement_log of each copy, oldest entry first
    made,     \* binders, decks, groups and orders that exist
    group,    \* decks.group_id
    ticket,   \* import_unresolved: id -> None or its row
    issued,   \* ids given out; AUTOINCREMENT gives none out twice
    op,       \* the handler in progress
    half,     \* decks whose deletion was interrupted (history)
    replays,  \* ticket -> the copies resolving it has added (history)
    interrupts

history == <<half, replays>>
vars == <<copy, slog, mlog, made, group, ticket, issued, op, history, interrupts>>

Containers == Binders \cup Decks
Places == Containers \cup {None}
Rows == [status : Statuses, place : Places, order : Orders \cup {None}]
Parked == [status : {"open", "resolved", "dismissed"}, copy : Copies \cup {None}]
ASSUME KindsAreDistinct == Containers \cap Groups = {} /\ None \notin Rows \cup Parked
Idle == [cmd |-> "idle", at |-> "-", on |-> None, deck |-> None, todo |-> {}]

Live == {c \in Copies : copy[c] # None}
DecksOf(g) == {d \in Decks \cap made : group[d] = g}
Room(n) == n + MapThenSumSet(LAMBDA c : Len(slog[c]) + Len(mlog[c]), Copies) <= MaxLog
FinalEntry(s) == s[Len(s)]

(* A tenant with its binders and groups, no deck and no card yet. *)
Init ==
    /\ copy = [c \in Copies |-> None]
    /\ slog = [c \in Copies |-> <<>>]
    /\ mlog = [c \in Copies |-> <<>>]
    /\ made = Binders \cup Groups /\ issued = made
    /\ group = [d \in Decks |-> None]
    /\ ticket = [t \in Tickets |-> None]
    /\ op = Idle
    /\ half = {}
    /\ replays = [t \in Tickets |-> {}]
    /\ interrupts = 0

-----------------------------------------------------------------------------
(* collection.rs *)

Inserted(S, row) ==
    /\ S \cap issued = {} /\ Room(Cardinality(S))
    /\ copy' = [c \in Copies |-> IF c \in S THEN row ELSE copy[c]]
    /\ slog' = [c \in Copies |->
                  IF c \in S THEN <<[from |-> None, to |-> row.status, note |-> "added"]>>
                  ELSE slog[c]]

StatusSet(c, s, note) ==
    /\ copy' = [copy EXCEPT ![c].status = s]
    /\ slog' = [slog EXCEPT ![c] =
                  Append(@, [from |-> copy[c].status, to |-> s, note |-> note])]

Add(c, s, p) ==
    /\ op = Idle
    /\ p \in made \cup {None}
    /\ Inserted({c}, [status |-> s, place |-> p, order |-> None])
    /\ issued' = issued \cup {c}
    /\ UNCHANGED <<mlog, made, group, ticket, op, history, interrupts>>

SetStatus(c, s) ==
    /\ op = Idle /\ c \in Live /\ Room(1)
    /\ StatusSet(c, s, "set")
    /\ UNCHANGED <<mlog, made, group, ticket, issued, op, history, interrupts>>

MoveTo(c, p) ==
    /\ op = Idle /\ c \in Live /\ Room(1)
    /\ p \in made \cup {None}
    /\ copy' = [copy EXCEPT ![c].place = p]
    /\ mlog' = [mlog EXCEPT ![c] = Append(@, [from |-> copy[c].place, to |-> p])]
    /\ UNCHANGED <<slog, made, group, ticket, issued, op, history, interrupts>>

(* Both logs of the copy go with it (ON DELETE CASCADE). *)
Delete(c) ==
    /\ op = Idle /\ c \in Live
    /\ copy' = [copy EXCEPT ![c] = None]
    /\ slog' = [slog EXCEPT ![c] = <<>>]
    /\ mlog' = [mlog EXCEPT ![c] = <<>>]
    /\ UNCHANGED <<made, group, ticket, issued, op, history, interrupts>>

-----------------------------------------------------------------------------
(* binders.rs, decks.rs, deck_groups.rs *)

Mentioned(k) == \E c \in Copies : \E i \in DOMAIN mlog[c] : k \in {mlog[c][i].from, mlog[c][i].to}

Unplaced(k) == [c \in Copies |-> IF c \in Live /\ copy[c].place = k
                                 THEN [copy[c] EXCEPT !.place = None] ELSE copy[c]]

Make(k) ==
    /\ op = Idle /\ k \notin issued
    /\ made' = made \cup {k} /\ issued' = issued \cup {k}
    /\ UNCHANGED <<copy, slog, mlog, group, ticket, op, history, interrupts>>

(* DELETE of a container: a movement_log entry that names it refuses,       *)
(* otherwise the copies in it are un-placed (ON DELETE SET NULL).           *)
Drop(k) ==
    IF Mentioned(k)
    THEN UNCHANGED <<copy, made>>
    ELSE made' = made \ {k} /\ copy' = Unplaced(k)

DeleteBinder(b) ==
    /\ op = Idle /\ b \in made
    /\ Drop(b)
    /\ UNCHANGED <<slog, mlog, group, ticket, issued, op, history, interrupts>>

SetGroup(d, g) ==
    /\ op = Idle /\ d \in made /\ g \in made \cup {None}
    /\ group' = [group EXCEPT ![d] = g]
    /\ UNCHANGED <<copy, slog, mlog, made, ticket, issued, op, history, interrupts>>

(* Mutant: only the decks cards came from are forgotten. *)
ForgottenFrom(side, d) ==
    [c \in Copies |-> [i \in DOMAIN mlog[c] |->
        IF mlog[c][i].from = d THEN [mlog[c][i] EXCEPT !.from = None] ELSE mlog[c][i]]]

(* movement_log with every entry's deck d on one side set to NULL. *)
Forgotten(side, d) ==
    [c \in Copies |-> [i \in DOMAIN mlog[c] |->
        IF mlog[c][i][side] = d THEN [mlog[c][i] EXCEPT ![side] = None] ELSE mlog[c][i]]]

(* decks::delete, three statements: the log forgets the deck as a source,   *)
(* then as a target, then the deck goes.                                    *)
ForgetSource(cmd, on, d, todo) ==
    /\ mlog' = Forgotten("from", d)
    /\ op' = [cmd |-> cmd, at |-> "to", on |-> on, deck |-> d, todo |-> todo]
    /\ UNCHANGED <<copy, slog, made, group, ticket, issued, history, interrupts>>

DeleteDeck(d) ==
    /\ op = Idle /\ d \in made
    /\ ForgetSource("deck", None, d, {})

ForgetTarget ==
    /\ op.at = "to"
    /\ mlog' = Forgotten("to", op.deck)
    /\ op' = [op EXCEPT !.at = "drop"]
    /\ UNCHANGED <<copy, slog, made, group, ticket, issued, history, interrupts>>

DropDeck ==
    /\ op.at = "drop"
    /\ Drop(op.deck)
    /\ group' = [group EXCEPT ![op.deck] = None]
    /\ op' = IF op.cmd = "deck" THEN Idle
             ELSE [op EXCEPT !.at = "next", !.deck = None, !.todo = @ \ {op.deck}]
    /\ half' = half \ {op.deck}
    /\ UNCHANGED <<slog, mlog, ticket, issued, replays, interrupts>>

InGroup(c, g) == c \in Live /\ copy[c].place \in DecksOf(g)

(* Mutant: cards are released without a log entry. *)
ReleasedSilently(g) ==
    /\ copy' = [c \in Copies |-> IF InGroup(c, g) THEN [copy[c] EXCEPT !.place = None]
                                 ELSE copy[c]]
    /\ UNCHANGED mlog

(* release_all: one transaction. *)
Released(g) ==
    /\ copy' = [c \in Copies |-> IF InGroup(c, g) THEN [copy[c] EXCEPT !.place = None]
                                 ELSE copy[c]]
    /\ mlog' = [c \in Copies |-> IF InGroup(c, g)
                                 THEN Append(mlog[c], [from |-> copy[c].place, to |-> None])
                                 ELSE mlog[c]]

ReleaseAll(g, then) ==
    /\ op = Idle /\ g \in made
    /\ Room(Cardinality({c \in Copies : InGroup(c, g)}))
    /\ Released(g)
    /\ op' = then
    /\ UNCHANGED <<slog, made, group, ticket, issued, history, interrupts>>

(* delete: the group alone, or (mode Decks) its cards released, each deck   *)
(* deleted, then the group.                                                 *)
DropGroup(g) ==
    /\ made' = made \ {g}
    /\ group' = [d \in Decks |-> IF group[d] = g THEN None ELSE group[d]]
    /\ op' = Idle
    /\ UNCHANGED <<copy, slog, mlog, ticket, issued, history, interrupts>>

Ungroup(g) == op = Idle /\ g \in made /\ DropGroup(g)

DeleteGroup(g) ==
    ReleaseAll(g, [Idle EXCEPT !.cmd = "group", !.at = "next", !.on = g, !.todo = DecksOf(g)])

DeleteGroupDeck ==
    /\ op.cmd = "group" /\ op.at = "next"
    /\ \E d \in op.todo : ForgetSource("group", op.on, d, op.todo)

DeleteGroupEnds ==
    /\ op.cmd = "group" /\ op.at = "next" /\ op.todo = {}
    /\ DropGroup(op.on)

-----------------------------------------------------------------------------
(* orders.rs *)

(* create: one transaction for the order, its batch and its copies. *)
Order(o, S) ==
    /\ op = Idle /\ o \notin issued /\ S # {}
    /\ Inserted(S, [status |-> "ordered", place |-> None, order |-> o])
    /\ made' = made \cup {o}
    /\ issued' = issued \cup S \cup {o}
    /\ UNCHANGED <<mlog, group, ticket, op, history, interrupts>>

(* Mutant: every copy of the order is received, whatever became of it. *)
StillOrderedAny(o) == {c \in Live : copy[c].order = o}

StillOrdered(o) == {c \in Live : copy[c].order = o /\ copy[c].status = "ordered"}

(* receive: the copies to flip are read first, then each in a transaction   *)
(* of its own.                                                              *)
Receive(o) ==
    /\ op = Idle /\ o \in made
    /\ Room(Cardinality(StillOrdered(o)))
    /\ op' = [Idle EXCEPT !.cmd = "receive", !.on = o, !.todo = StillOrdered(o)]
    /\ UNCHANGED <<copy, slog, mlog, made, group, ticket, issued, history, interrupts>>

ReceiveOne(c) ==
    /\ op.cmd = "receive" /\ c \in op.todo
    /\ StatusSet(c, "owned", "received")
    /\ op' = [op EXCEPT !.todo = @ \ {c}]
    /\ UNCHANGED <<mlog, made, group, ticket, issued, history, interrupts>>

ReceiveEnds ==
    /\ op.cmd = "receive" /\ op.todo = {}
    /\ op' = Idle
    /\ UNCHANGED <<copy, slog, mlog, made, group, ticket, issued, history, interrupts>>

-----------------------------------------------------------------------------
(* unresolved.rs *)

Park(t) ==
    /\ op = Idle /\ ticket[t] = None
    /\ ticket' = [ticket EXCEPT ![t] = [status |-> "open", copy |-> None]]
    /\ UNCHANGED <<copy, slog, mlog, made, group, issued, op, history, interrupts>>

(* Mutant: a row already dealt with is replayed again. *)
ExpectKnown(t) == ticket[t] # None

ExpectOpen(t) == ticket[t] # None /\ ticket[t].status = "open"

(* resolve_single, resolve_sealed: the copy is added, then the row marked. *)
Resolve(t, c) ==
    /\ op = Idle /\ ExpectOpen(t)
    /\ Inserted({c}, [status |-> "owned", place |-> None, order |-> None])
    /\ issued' = issued \cup {c}
    /\ replays' = [replays EXCEPT ![t] = @ \cup {c}]
    /\ op' = [Idle EXCEPT !.cmd = "resolve", !.on = t, !.todo = {c}]
    /\ UNCHANGED <<mlog, made, group, ticket, half, interrupts>>

ResolveMarks ==
    /\ op.cmd = "resolve"
    /\ \E c \in op.todo : ticket' = [ticket EXCEPT ![op.on] = [status |-> "resolved", copy |-> c]]
    /\ op' = Idle
    /\ UNCHANGED <<copy, slog, mlog, made, group, issued, history, interrupts>>

Dismiss(t) ==
    /\ op = Idle /\ ExpectOpen(t)
    /\ ticket' = [ticket EXCEPT ![t].status = "dismissed"]
    /\ UNCHANGED <<copy, slog, mlog, made, group, issued, op, history, interrupts>>

-----------------------------------------------------------------------------
(* The handler's next statement fails, or the process stops. *)
Interrupt ==
    /\ op # Idle
    /\ interrupts < MaxInterrupts /\ interrupts' = interrupts + 1
    /\ half' = IF op.deck = None THEN half ELSE half \cup {op.deck}
    /\ op' = Idle
    /\ UNCHANGED <<copy, slog, mlog, made, group, ticket, issued, replays>>

CopyRequests ==
    \E c \in Copies : \/ \E s \in Statuses : SetStatus(c, s)
                      \/ \E p \in Places : MoveTo(c, p)
                      \/ \E s \in Statuses, p \in Places : Add(c, s, p)
                      \/ Delete(c)

ContainerRequests ==
    \/ \E k \in Containers \cup Groups : Make(k)
    \/ \E b \in Binders : DeleteBinder(b)
    \/ \E d \in Decks : DeleteDeck(d) \/ \E g \in Groups \cup {None} : SetGroup(d, g)
    \/ \E g \in Groups : ReleaseAll(g, Idle) \/ Ungroup(g) \/ DeleteGroup(g)

IntakeRequests ==
    \/ \E o \in Orders : Receive(o) \/ \E S \in SUBSET Copies : Order(o, S)
    \/ \E t \in Tickets : Park(t) \/ Dismiss(t) \/ \E c \in Copies : Resolve(t, c)

Handler == \/ ForgetTarget \/ DropDeck \/ DeleteGroupDeck \/ DeleteGroupEnds
           \/ ReceiveEnds \/ ResolveMarks
           \/ \E c \in Copies : ReceiveOne(c)

Next == CopyRequests \/ ContainerRequests \/ IntakeRequests \/ Handler \/ Interrupt

Spec == Init /\ [][Next]_vars

-----------------------------------------------------------------------------
(* Types of every variable; no row refers to a container that is gone. *)
TypeOK ==
    /\ copy \in [Copies -> Rows \cup {None}]
    /\ \A c \in Live : copy[c].place \in made \cup {None}
    /\ slog \in [Copies -> Seq([from : Statuses \cup {None}, to : Statuses,
                                note : {"added", "set", "received"}])]
    /\ mlog \in [Copies -> Seq([from : Places, to : Places])]
    /\ made \subseteq Containers \cup Groups \cup Orders
    /\ group \in [Decks -> (Groups \cap made) \cup {None}]
    /\ ticket \in [Tickets -> Parked \cup {None}]
    /\ issued \subseteq UNION {Copies, Containers, Groups, Orders}
    /\ op \in [cmd : {"idle", "deck", "group", "receive", "resolve"},
               at : {"-", "to", "drop", "next"},
               on : UNION {Groups, Orders, Tickets, {None}},
               deck : Decks \cup {None}, todo : SUBSET (Copies \cup Decks)]
    /\ half \subseteq Decks
    /\ replays \in [Tickets -> SUBSET Copies]
    /\ interrupts \in 0..MaxInterrupts

(* status_log tells the whole life of every copy: it opens from nothing,    *)
(* each entry starts where the one before ended, the last is the copy's     *)
(* status, and an order received twice, or received half and retried, only  *)
(* ever turned 'ordered' into 'owned' (value_history reads holdings of the  *)
(* past from these entries).                                                *)
StatusTrail ==
    \A c \in Live :
        /\ slog[c] # <<>> /\ slog[c][1].from = None
        /\ \A i \in 1..(Len(slog[c]) - 1) : slog[c][i + 1].from = slog[c][i].to
        /\ FinalEntry(slog[c]).to = copy[c].status
        /\ \A i \in DOMAIN slog[c] : slog[c][i].note = "received" => slog[c][i].from = "ordered"

(* A deck being deleted, or whose deletion was interrupted, stands for no   *)
(* deck: that is what the retried deletion will make of it.                 *)
Settled(p) == IF p \in half \cup {op.deck} THEN None ELSE p

(* movement_log leads to where each moved copy is: every move starts where  *)
(* the one before ended and the last one ends at the copy's place, also     *)
(* across deck and group deletions that fail half way and are retried.      *)
PlaceTrail ==
    \A c \in Live : mlog[c] # <<>> =>
        /\ \A i \in 1..(Len(mlog[c]) - 1) :
              Settled(mlog[c][i + 1].from) = Settled(mlog[c][i].to)
        /\ Settled(FinalEntry(mlog[c]).to) = Settled(copy[c].place)

(* No foreign key ever refuses to delete a deck, on its own, with its group *)
(* or on a retry: the log forgot it first.                                  *)
DecksCanGo ==
    [][op.at = "drop" /\ interrupts' = interrupts => op.deck \notin made']_vars

(* A parked row becomes one copy, and none when dismissed: a second copy    *)
(* takes an interruption between the copy and the mark, and a resolved row  *)
(* names a copy its own replay added.                                       *)
OneCopyPerTicket ==
    \A t \in Tickets :
        /\ Cardinality(replays[t]) <= 1 + interrupts
        /\ ticket[t] # None /\ ticket[t].status = "resolved" => ticket[t].copy \in replays[t]
        /\ ticket[t] # None /\ ticket[t].status = "dismissed" =>
              Cardinality(replays[t]) <= interrupts
=============================================================================
