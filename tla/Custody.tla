------------------------------ MODULE Custody ------------------------------
(* What tenants.rs promises about a collection database, whatever name it   *)
(* has on disk: it is made once, it changes hands with its holder's handle, *)
(* it is released before it may be destroyed, and nothing else happens to   *)
(* it, except that a rename or a detach may mislay it: the row no longer    *)
(* says who has it, and anything may be done to it from then on.  Moving a  *)
(* file, a failed command and a crash are stutters here.                    *)
EXTENDS FiniteSets
CONSTANTS Databases, Handles, None
VARIABLES stage, holder

custodyVars == <<stage, holder>>

Init == /\ stage \in [Databases -> {"unmade", "kept"}]
        /\ holder \in [Databases -> Handles \cup {None}]
        /\ \A d \in Databases : (holder[d] = None) <=> (stage[d] = "unmade")

Make(d, h) == /\ stage[d] = "unmade"
              /\ stage' = [stage EXCEPT ![d] = "kept"]
              /\ holder' = [holder EXCEPT ![d] = h]

HandOver(d, h) == /\ stage[d] \in {"kept", "astray"}
                  /\ holder' = [holder EXCEPT ![d] = h]
                  /\ UNCHANGED stage

Release(d) == /\ stage[d] = "kept"
              /\ stage' = [stage EXCEPT ![d] = "released"]
              /\ UNCHANGED holder

Mislay(d, h) == /\ stage[d] = "kept"
                /\ stage' = [stage EXCEPT ![d] = "astray"]
                /\ holder' = [holder EXCEPT ![d] = h]

Destroy(d) == /\ stage[d] = "released"
              /\ stage' = [stage EXCEPT ![d] = "gone"]
              /\ UNCHANGED holder

Next == \E d \in Databases :
           \/ \E h \in Handles : Make(d, h) \/ HandOver(d, h) \/ Mislay(d, h)
           \/ Release(d)
           \/ Destroy(d)

Spec == Init /\ [][Next]_custodyVars
=============================================================================
