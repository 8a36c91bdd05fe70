---------------------------- MODULE PriceTable -----------------------------
(* What a price table promises its readers: days, replaced one at a time    *)
(* and whole.  A day is empty or what exactly one build wrote; replacing it *)
(* leaves every other day alone (build_prices.rs, "Replacing a day").       *)

CONSTANTS Days, Builds

VARIABLE day

Init == day = [d \in Days |-> {}]

Replace(d, b) == day' = [day EXCEPT ![d] = b]

Next == \E d \in Days : Replace(d, {}) \/ \E b \in Builds : Replace(d, {b})

Spec == Init /\ [][Next]_day
=============================================================================
