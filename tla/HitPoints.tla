----------------------------- MODULE HitPoints -----------------------------
(***************************************************************************)
(* What damage promises, without messages, signals or registry: every hit  *)
(* that is accepted is owed until it is settled, all that is owed is       *)
(* settled at once, a unit whose hit points run out is dead from then on,  *)
(* and nobody hits a unit that died of its wounds.  A unit may also leave  *)
(* for other reasons, and then hits on it may go unsettled.                *)
(***************************************************************************)
EXTENDS Integers

CONSTANTS Processes, MaxHP

VARIABLES
    life,     \* hit points of each unit
    owed,     \* damage accepted and not settled
    phase     \* "unborn", "alive" or "dead"

Less(hp, damage) == IF hp <= damage THEN 0 ELSE hp - damage

Init ==
    /\ life = [p \in Processes |-> MaxHP]
    /\ owed = [p \in Processes |-> 0]
    /\ phase = [p \in Processes |-> "unborn"]

Born(p) ==
    /\ phase[p] = "unborn"
    /\ phase' = [phase EXCEPT ![p] = "alive"]
    /\ UNCHANGED <<life, owed>>

\* a hit; a unit that is not yet up may die of the news
Hit(p) ==
    /\ phase[p] # "unborn"
    /\ ~(phase[p] = "dead" /\ life[p] = 0)
    /\ owed'[p] >= owed[p]
    /\ owed' = [owed EXCEPT ![p] = owed'[p]]
    /\ phase' \in {phase, [phase EXCEPT ![p] = "dead"]}
    /\ UNCHANGED life

Settle(p) ==
    /\ phase[p] = "alive"
    /\ life' = [life EXCEPT ![p] = Less(@, owed[p])]
    /\ owed' = [owed EXCEPT ![p] = 0]
    /\ phase' = [phase EXCEPT ![p] = IF life'[p] = 0 THEN "dead" ELSE @]

Leave(p) ==
    /\ phase[p] = "alive"
    /\ phase' = [phase EXCEPT ![p] = "dead"]
    /\ UNCHANGED <<life, owed>>

Next == \E p \in Processes : Born(p) \/ Hit(p) \/ Settle(p) \/ Leave(p)

Spec == Init /\ [][Next]_<<life, owed, phase>>
=============================================================================
