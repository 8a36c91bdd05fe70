----------------------------- MODULE Partition ------------------------------
(* One date of the raw landing zone: the runs that landed it and the choice *)
(* of the run a derivation replays                                          *)
(* (crates/pkdump-lakehouse/src/partition.rs).  A run is what its manifests *)
(* say: per dataset whether it landed whole, plus the payloads themselves.  *)
(*                                                                          *)
(* Listing the zone and picking among the runs of one dataset is the lake   *)
(* kit's, a library; its rule is the one partition.rs and its tests state.  *)
EXTENDS Naturals, Sequences, FiniteSetsExt

CONSTANTS Sets  \* card sets; each has one TCGCSV group, named like the set

Run == [sets: {"whole", "short"},           \* pokemontcgio/sets
        list: SUBSET Sets,                  \* the sets it lists
        cards: {"none", "whole", "short"},  \* pokemontcgio/cards
        landed: SUBSET Sets,                \* the sets whose cards are in it
        groups: SUBSET Sets,                \* tcgcsv/groups, products, prices
        bulk: SUBSET Sets,                  \* pokemon-tcg-data/bulk
        cut: BOOLEAN]                       \* the run did not reach its end

EmptyRun == [sets |-> "short", list |-> {}, cards |-> "none", landed |-> {},
             groups |-> {}, bulk |-> {}, cut |-> FALSE]

Datasets == {"prices", "bulk", "sets", "cards"}

(* Requirements: the tail may land short; without cards a night is whole.   *)
TailSets == {"sets", "cards"}
Landed(r, set) == set = "cards" => r.cards # "none"
Complete(r, set) ==
    /\ ~r.cut
    /\ set \in TailSets => r[set] = "whole"

(* A run whose tail landed short: it derives, and the derivation is partial.*)
Partial(r) == r.sets = "short" \/ r.cards = "short"

(* The runs of one date the choice may give for one dataset: the newest     *)
(* complete one; without any, for the tail only, one that landed it short.  *)
Pick(runs, set) ==
    LET having == {n \in DOMAIN runs : Landed(runs[n], set)}
        whole  == {n \in having : Complete(runs[n], set)}
    IN  IF whole # {} THEN {Max(whole)} ELSE IF set \in TailSets THEN having ELSE {}

(* clock_of: every dataset must come from one run, or the date is refused.  *)
Needed(runs) == {set \in Datasets : set = "cards" => \E n \in DOMAIN runs : Landed(runs[n], set)}
Chosen(runs) == {n \in DOMAIN runs : \A set \in Needed(runs) : n \in Pick(runs, set)}
=============================================================================
