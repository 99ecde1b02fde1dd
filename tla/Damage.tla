------------------------------- MODULE Damage -------------------------------
(***************************************************************************)
(* Damage messages and the signal SIGRTMAX.                                *)
(*                                                                         *)
(* A unit that shoots takes the pid of its target from the registry, puts  *)
(* a message for that pid into the request queue and sends the pid         *)
(* SIGRTMAX.  The handler of the target raises g_damage_pending; the next  *)
(* time the target enters its locked section it clears the flag, drains    *)
(* its messages, and dies if its hit points run out.  A unit shoots and    *)
(* drains under SEM_GLOBAL_LOCK; signals, the boot of a process and the    *)
(* mark_dead of one that leaves its loop happen at any time.  A signal     *)
(* reaches its process before the process gets through its next system     *)
(* call, so a flag raised under the lock is up in the next section.        *)
(*                                                                         *)
(* Left out: whom a unit shoots and how hard (Engagement), the tick that   *)
(* lets it into its section (TickBarrier).  Pids are not reused.           *)
(***************************************************************************)
EXTENDS Integers, FiniteSets

CONSTANTS
    Units,        \* slots of the registry
    Processes,    \* unit processes, by pid
    MaxHP,        \* hit points of a new unit
    MaxVolley,    \* weapons that hit in one step
    MaxDamage,    \* damage of a weapon
    MaxQueued     \* bound of the model: messages queued for a process

ASSUME DamageAssumption ==
    /\ MaxHP \in Nat \ {0} /\ MaxVolley \in Nat
    /\ MaxDamage \in Nat \ {0} /\ MaxQueued \in Nat
    /\ 0 \notin Processes

VARIABLES
    pid, alive,   \* the registry: pid (0 when free) and alive, by slot
    proc,         \* where each process is
    slot,         \* its unit_id
    hp,           \* its st.hp
    pending,      \* its g_damage_pending
    stop,         \* its g_stop
    inbox,        \* its messages in q_req: how many, and their damage
    cause,        \* why it has left, or is leaving
    closing       \* has CC begun to shut down?


vars == <<pid, alive, proc, slot, hp, pending, stop, inbox, cause, closing>>

NoMail == [n |-> 0, total |-> 0]
Leaving == {"late", "gone"}

Init ==
    /\ pid = [u \in Units |-> 0]
    /\ alive = [u \in Units |-> FALSE]
    /\ proc = [p \in Processes |-> "unborn"]
    /\ slot \in [Processes -> Units]
    /\ hp = [p \in Processes |-> MaxHP]
    /\ pending = [p \in Processes |-> FALSE]
    /\ stop = [p \in Processes |-> FALSE]
    /\ inbox = [p \in Processes |-> NoMail]
    /\ cause = [p \in Processes |-> "none"]
    /\ closing = FALSE

-----------------------------------------------------------------------------
(* The command center: births, burials and the end *)

\* a free slot, fork, and the registry entry with the pid of the child
Fork(u, p) ==
    /\ ~closing
    /\ pid[u] = 0 /\ ~alive[u]
    /\ proc[p] = "unborn" /\ slot[p] = u
    /\ pid' = [pid EXCEPT ![u] = p]
    /\ alive' = [alive EXCEPT ![u] = TRUE]
    /\ proc' = [proc EXCEPT ![p] = "boot"]
    /\ UNCHANGED <<slot, hp, pending, stop, inbox, cause, closing>>

\* SIGTERM: a child that has not executed the unit's program yet swallows it
\* in the handler it inherits from CC; one that has no handler yet dies
Terminates(p) ==
    \/ /\ proc[p] = "boot"
       /\ \/ UNCHANGED <<proc, cause>>
          \/ /\ proc' = [proc EXCEPT ![p] = "gone"]
             /\ cause' = [cause EXCEPT ![p] = "boot"]
       /\ UNCHANGED stop
    \/ /\ proc[p] # "boot"
       /\ stop' = [stop EXCEPT ![p] = TRUE]
       /\ UNCHANGED <<proc, cause>>

\* cleanup_dead_units, one entry
Cleanup(u) ==
    /\ ~alive[u] /\ pid[u] # 0
    /\ Terminates(pid[u])
    /\ pid' = [pid EXCEPT ![u] = 0]
    /\ UNCHANGED <<alive, slot, hp, pending, inbox, closing>>

\* the shutdown loop, which knows of the same entries
BeginShutdown ==
    /\ ~closing
    /\ closing' = TRUE
    /\ UNCHANGED <<pid, alive, proc, slot, hp, pending, stop, inbox, cause>>

Shutdown(u) ==
    /\ closing /\ pid[u] # 0
    /\ Terminates(pid[u])
    /\ UNCHANGED <<pid, alive, slot, hp, pending, inbox, closing>>

-----------------------------------------------------------------------------
(* A unit process *)

\* its signal handlers are there
Arm(p) ==
    /\ proc[p] = "boot"
    /\ proc' = [proc EXCEPT ![p] = "armed"]
    /\ UNCHANGED <<pid, alive, slot, hp, pending, stop, inbox, cause, closing>>

\* "ensure registry entry is correct"
RegisterSelf(p) ==
    /\ proc[p] = "armed"
    /\ pid' = [pid EXCEPT ![slot[p]] = p]
    /\ alive' = [alive EXCEPT ![slot[p]] = TRUE]
    /\ proc' = [proc EXCEPT ![p] = "run"]
    /\ UNCHANGED <<slot, hp, pending, stop, inbox, cause, closing>>

Leaves(p, why) ==
    /\ proc' = [proc EXCEPT ![p] = "late"]
    /\ cause' = [cause EXCEPT ![p] = why]

\* mutant: one message is taken for one signal
DrainedOne(p) ==
    IF inbox[p].n > 1 THEN [n |-> inbox[p].n - 1, total |-> inbox[p].total - 1] ELSE NoMail

\* the inbox after compute_dmg_payload ...
Drained(p) == NoMail

\* ... and the hit points, which do not go below 0
Wounded(p) ==
    LET damage == inbox[p].total - Drained(p).total
    IN  IF hp[p] <= damage THEN 0 ELSE hp[p] - damage

\* mutant: the dying unit leaves mark_dead to the end of main
EnterUnmarked(p) ==
    /\ proc[p] = "run" /\ alive[slot[p]]
    /\ LET left == IF pending[p] THEN Wounded(p) ELSE hp[p]
       IN  /\ hp' = [hp EXCEPT ![p] = left]
           /\ IF left = 0
              THEN Leaves(p, "damage")
              ELSE proc' \in {proc, [proc EXCEPT ![p] = "acting"]} /\ UNCHANGED cause
           /\ UNCHANGED alive
    /\ inbox' = [inbox EXCEPT ![p] = IF pending[p] THEN Drained(p) ELSE @]
    /\ pending' = [pending EXCEPT ![p] = FALSE]
    /\ UNCHANGED <<pid, slot, stop, closing>>

\* mutant: the hit points are looked at before the damage is settled
EnterTooSoon(p) ==
    /\ proc[p] = "run" /\ alive[slot[p]]
    /\ hp' = [hp EXCEPT ![p] = IF pending[p] THEN Wounded(p) ELSE @]
    /\ \/ /\ hp[p] = 0
          /\ alive' = [alive EXCEPT ![slot[p]] = FALSE]
          /\ Leaves(p, "damage")
       \/ /\ hp[p] # 0
          /\ proc' \in {proc, [proc EXCEPT ![p] = "acting"]}
          /\ UNCHANGED <<alive, cause>>
    /\ inbox' = [inbox EXCEPT ![p] = IF pending[p] THEN Drained(p) ELSE @]
    /\ pending' = [pending EXCEPT ![p] = FALSE]
    /\ UNCHANGED <<pid, slot, stop, closing>>

\* the locked section that begins a tick: settle the damage, then die, skip a
\* tick already taken, or go on to act
Enter(p) ==
    /\ proc[p] = "run" /\ alive[slot[p]]
    /\ LET left == IF pending[p] THEN Wounded(p) ELSE hp[p]
       IN  /\ hp' = [hp EXCEPT ![p] = left]
           /\ \/ /\ left = 0
                 /\ alive' = [alive EXCEPT ![slot[p]] = FALSE]
                 /\ Leaves(p, "damage")
              \/ /\ left # 0
                 /\ proc' \in {proc, [proc EXCEPT ![p] = "acting"]}
                 /\ UNCHANGED <<alive, cause>>
    /\ inbox' = [inbox EXCEPT ![p] = IF pending[p] THEN Drained(p) ELSE @]
    /\ pending' = [pending EXCEPT ![p] = FALSE]
    /\ UNCHANGED <<pid, slot, stop, closing>>

\* somebody else has marked the slot
FoundDead(p) ==
    /\ proc[p] = "run" /\ ~alive[slot[p]]
    /\ Leaves(p, "marked")
    /\ UNCHANGED <<pid, alive, slot, hp, pending, stop, inbox, closing>>

\* g_stop ends the wait for a tick, and the wait for the lock
Interrupted(p) ==
    /\ proc[p] \in {"run", "acting"} /\ stop[p]
    /\ Leaves(p, "signal")
    /\ UNCHANGED <<pid, alive, slot, hp, pending, stop, inbox, closing>>

\* the locked section that acts: nothing, or a volley on a unit on the grid,
\* of which n messages find room in the queue; the signal is sent anyway
HoldFire(p) ==
    /\ proc[p] = "acting"
    /\ proc' = [proc EXCEPT ![p] = "run"]
    /\ UNCHANGED <<pid, alive, slot, hp, pending, stop, inbox, cause, closing>>


Shoot(p, u, n, damage) ==
    /\ proc[p] = "acting"
    /\ u # slot[p] /\ alive[u] /\ pid[u] # 0
    /\ LET t == pid[u]
       IN  /\ inbox[t].n + n <= MaxQueued
           /\ inbox' = [inbox EXCEPT ![t] = [n |-> @.n + n, total |-> @.total + damage]]
           /\ \/ /\ proc[t] = "boot"     \* no handler yet: SIGRTMAX kills
                 /\ proc' = [proc EXCEPT ![p] = "run", ![t] = "gone"]
                 /\ cause' = [cause EXCEPT ![t] = "boot"]
                 /\ UNCHANGED pending
              \/ /\ proc[t] # "boot"
                 /\ proc' = [proc EXCEPT ![p] = "run"]
                 /\ pending' = [pending EXCEPT ![t] = TRUE]
                 /\ UNCHANGED cause
    /\ UNCHANGED <<pid, alive, slot, hp, stop, closing>>

\* mark_dead at the end of main, without the lock
LateMark(p) ==
    /\ proc[p] = "late"
    /\ alive' = [alive EXCEPT ![slot[p]] = FALSE]
    /\ proc' = [proc EXCEPT ![p] = "gone"]
    /\ UNCHANGED <<pid, slot, hp, pending, stop, inbox, cause, closing>>

-----------------------------------------------------------------------------
Volleys == {v \in (0 .. MaxVolley) \X (0 .. MaxVolley * MaxDamage) :
                v[1] <= v[2] /\ v[2] <= v[1] * MaxDamage}

Act(p) == HoldFire(p) \/ \E u \in Units, v \in Volleys : Shoot(p, u, v[1], v[2])

Next ==
    \/ BeginShutdown
    \/ \E u \in Units :
        \/ \E p \in Processes : Fork(u, p)
        \/ Cleanup(u) \/ Shutdown(u)
    \/ \E p \in Processes :
        \/ Arm(p) \/ RegisterSelf(p)
        \/ Enter(p) \/ FoundDead(p) \/ Interrupted(p) \/ LateMark(p) \/ Act(p)

Spec == Init /\ [][Next]_vars

\* a process runs on, and gets through its sections as long as ticks come
\* (TickBarrier); nobody has to be shot at, and CC need not shut down
Fairness ==
    \A p \in Processes :
        /\ WF_vars(Enter(p) \/ FoundDead(p) \/ Interrupted(p))
        /\ WF_vars(LateMark(p))
        /\ WF_vars(Act(p))

FairSpec == Spec /\ Fairness

-----------------------------------------------------------------------------
Mail == [n : 0 .. MaxQueued, total : Nat]

TypeOK ==
    /\ pid \in [Units -> Processes \cup {0}]
    /\ alive \in [Units -> BOOLEAN]
    /\ proc \in [Processes -> {"unborn", "boot", "armed", "run", "acting"} \cup Leaving]
    /\ slot \in [Processes -> Units]
    /\ hp \in [Processes -> 0 .. MaxHP]
    /\ pending \in [Processes -> BOOLEAN] /\ stop \in [Processes -> BOOLEAN]
    /\ inbox \in [Processes -> Mail]
    /\ cause \in [Processes -> {"none", "damage", "signal", "marked", "boot"}]
    /\ closing \in BOOLEAN

(***************************************************************************)
(* No lost wakeup: a unit that has messages in the queue and may still     *)
(* drain them has been told so.  The queue is looked at only when the flag *)
(* is up, so a message without its flag would wait for the next hit.       *)
(***************************************************************************)
NoLostWakeup ==
    \A p \in Processes :
        proc[p] \in {"armed", "run", "acting"} /\ inbox[p].n > 0 => pending[p]

(***************************************************************************)
(* A unit that died of its wounds leaves nothing in the request queue, and *)
(* gets nothing after: only one that was stopped, marked by another or     *)
(* killed while it booted leaves messages no process will ever take.       *)
(***************************************************************************)
OrphansExplained ==
    \A p \in Processes : cause[p] = "damage" => hp[p] = 0 /\ inbox[p] = NoMail

(***************************************************************************)
(* A unit goes on to act only with its account settled: whatever was in    *)
(* the queue for it when its step began is paid, and has not killed it.    *)
(***************************************************************************)
SettledBeforeActing ==
    [][\A p \in Processes : (proc[p] = "run" /\ proc'[p] = "acting")
                                => hp'[p] > 0 /\ inbox'[p] = NoMail]_vars

(***************************************************************************)
(* Damage works: a unit that is owed as much as it has left goes down.     *)
(***************************************************************************)
FatalDamageKills ==
    \A p \in Processes :
        (proc[p] = "run" /\ inbox[p].total >= hp[p]) ~> (proc[p] = "gone")

(***************************************************************************)
(* Messages, flags, registry and processes together keep the account       *)
(* HitPoints describes.                                                    *)
(***************************************************************************)
PhaseOf(p) ==
    IF proc[p] = "unborn" THEN "unborn" ELSE IF proc[p] \in Leaving THEN "dead" ELSE "alive"

Account == INSTANCE HitPoints WITH
    life <- hp,
    owed <- [p \in Processes |-> inbox[p].total],
    phase <- [p \in Processes |-> PhaseOf(p)]

KeepsAccount == Account!Spec
=============================================================================
