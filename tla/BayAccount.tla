----------------------------- MODULE BayAccount -----------------------------
(***************************************************************************)
(* What the spawn protocol promises a battleship, without queues, ticks or *)
(* slots: an account of squadrons.  A battleship with room has at most one *)
(* request pending; the request is granted, refused or lost; only a grant  *)
(* that has been read adds a squadron.                                     *)
(***************************************************************************)
EXTENDS Naturals

CONSTANTS Units, Capacity

VARIABLES
    bay,      \* squadrons counted, per unit
    pending   \* what has become of the unit's request

accountVars == <<bay, pending>>

Pending == {"none", "asked", "granted", "refused"}

Init ==
    /\ bay = [u \in Units |-> 0]
    /\ pending = [u \in Units |-> "none"]

Ask(u) ==
    /\ pending[u] = "none" /\ bay[u] < Capacity
    /\ pending' = [pending EXCEPT ![u] = "asked"]
    /\ UNCHANGED bay

\* "none": the answer is lost
Answer(u) ==
    /\ pending[u] = "asked"
    /\ \E answer \in Pending \ {"asked"} :
         pending' = [pending EXCEPT ![u] = answer]
    /\ UNCHANGED bay

Collect(u) ==
    /\ pending[u] \in {"granted", "refused"}
    /\ bay' = IF pending[u] = "granted" THEN [bay EXCEPT ![u] = @ + 1] ELSE bay
    /\ pending' = [pending EXCEPT ![u] = "none"]

Next == \E u \in Units : Ask(u) \/ Answer(u) \/ Collect(u)

Spec == Init /\ [][Next]_accountVars
=============================================================================
