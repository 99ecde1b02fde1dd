------------------------------ MODULE SpawnBay ------------------------------
(***************************************************************************)
(* Spawn requests: how battleships fill their fighter bays and how the     *)
(* console manager (CM) adds units.                                        *)
(*                                                                         *)
(* A battleship with room in its bay sends a MSG_SPAWN request in its step *)
(* of a tick; it does not remember that it did.  CC drains the requests at *)
(* the start of its next round, forks, and replies to the sender's pid.    *)
(* The battleship reads its replies in its next step and counts the        *)
(* successes.  Every send is IPC_NOWAIT: with the queue full, the message  *)
(* is lost and nobody notices.                                             *)
(*                                                                         *)
(* The tick barrier is taken for granted here (see TickBarrier): CC drains *)
(* and cleans up only while no unit is in its step.  The lock makes each   *)
(* action below atomic.  underlings[] and what else a unit does in a tick  *)
(* is left out.                                                            *)
(***************************************************************************)
EXTENDS Naturals, Sequences, FiniteSets

CONSTANTS
    MAX_UNITS,   \* registry slots are 1..MAX_UNITS
    MaxProcs,    \* bound of the model: pids are 1..MaxProcs, in fork order
    Fleet,       \* factions of the battleships of the scenario, a sequence
    Capacity,    \* st.fb.capacity
    Consoles,    \* console processes that may ever be started
    Hired,       \* bound of the model: the factions they spawn units for
    RepMax,      \* how many replies fit in q_rep
    Faults       \* what may go wrong: "fork" fails, "traffic" fills q_req

Slots == 1..MAX_UNITS
Procs == 1..MaxProcs
Ships == 1..Len(Fleet)     \* the battleships of the scenario
Factions == {1, 2}
Senders == Procs \cup Consoles

ASSUME SpawnAssumption ==
    /\ MAX_UNITS \in Nat /\ MaxProcs \in Nat
    /\ Fleet \in Seq(Factions)
    /\ Len(Fleet) <= MAX_UNITS /\ Len(Fleet) <= MaxProcs
    /\ Capacity \in Nat /\ RepMax \in Nat
    /\ IsFiniteSet(Consoles) /\ Consoles \cap Nat = {} /\ Hired \subseteq Factions
    /\ Faults \subseteq {"fork", "traffic"}

VARIABLES
    phase,    \* what CC's main thread does: "drain" or "tick"
    alive,    \* units[id].alive
    owner,    \* units[id].pid
    side,     \* units[id].faction
    reqs,     \* the MSG_SPAWN messages of q_req
    reps,     \* the messages of q_rep, by mtype
    console,  \* what each console does
    forked,   \* number of processes forked so far
    step,     \* how far each unit is in this tick
    slot,     \* its unit_id argument
    faction,  \* its faction argument
    parent,   \* the unit on whose request it was forked (history variable)
    bay       \* its st.fb.current

registryVars == <<alive, owner, side>>
procVars == <<forked, slot, faction, parent>>
vars == <<phase, registryVars, reqs, reps, console, procVars, step, bay>>

\* the child's ids, which a reply carries too, only go into underlings[]
Reply == [status : {"ok", "failed"}]

Request == [from : Senders, sender_id : Slots \cup {0}, faction : Factions]

-----------------------------------------------------------------------------
(* The scenario's battleships are in the first slots *)

Init ==
    /\ phase = "drain"
    /\ alive = [s \in Slots |-> s \in Ships]
    /\ owner = [s \in Slots |-> IF s \in Ships THEN s ELSE 0]
    /\ side = [s \in Slots |-> IF s \in Ships THEN Fleet[s] ELSE 0]
    /\ reqs = <<>>
    /\ reps = [a \in Senders |-> <<>>]
    /\ console = [c \in Consoles |-> "prompt"]
    /\ forked = Len(Fleet)
    /\ step = [p \in Procs |-> IF p \in Ships THEN "idle" ELSE "unborn"]
    /\ slot = [p \in Procs |-> IF p \in Ships THEN p ELSE 0]
    /\ faction = [p \in Procs |-> IF p \in Ships THEN Fleet[p] ELSE 0]
    /\ parent = [p \in Procs |-> 0]
    /\ bay = [p \in Procs |-> 0]

-----------------------------------------------------------------------------
(* The console: a spawn command, and polling for its reply.  One that has been *)
(* told to stop is "leaving" while its last round may come to the FIFO of the  *)
(* UI, where it can ask once more: its "last" poll (see Console).              *)

Polls(c) == console[c] \in {"polls", "last"}

ConsoleAsks(c) ==
    /\ console[c] \in {"prompt", "leaving"}
    /\ console' = [console EXCEPT ![c] = IF @ = "leaving" THEN "last" ELSE "polls"]
    /\ \E f \in Hired :
         reqs' = Append(reqs, [from |-> c, sender_id |-> 0, faction |-> f])
    /\ UNCHANGED <<phase, registryVars, reps, procVars, step, bay>>

\* the first reply for its pid ends the poll, whichever request it answers
ConsoleReads(c) ==
    /\ Polls(c) /\ reps[c] # <<>>
    /\ reps' = [reps EXCEPT ![c] = Tail(@)]
    /\ console' = [console EXCEPT ![c] = IF @ = "last" THEN "gone" ELSE "prompt"]
    /\ UNCHANGED <<phase, registryVars, reqs, procVars, step, bay>>

\* g_stop is set, while it polls or otherwise; the round may go on to the FIFO
ConsoleTold(c) ==
    /\ console[c] # "gone"
    /\ \E to \in {"leaving", "gone"} :
         /\ to = "leaving" => console[c] \in {"prompt", "polls"}
         /\ console' = [console EXCEPT ![c] = to]
    /\ UNCHANGED <<phase, registryVars, reqs, reps, procVars, step, bay>>

\* the FIFO brings another command, whose wait takes the reply left behind
ConsoleMisreads(c) ==
    /\ console[c] = "leaving" /\ reps[c] # <<>>
    /\ reps' = [reps EXCEPT ![c] = Tail(@)]
    /\ console' = [console EXCEPT ![c] = "gone"]
    /\ UNCHANGED <<phase, registryVars, reqs, procVars, step, bay>>

-----------------------------------------------------------------------------
(* CC: the drain loop at the start of a round *)

FreeSlots == {s \in Slots : ~alive[s] /\ owner[s] = 0}

QueuedReplies ==
    Cardinality(UNION {{a} \X DOMAIN reps[a] : a \in Senders})

\* mq_send_reply to the sender of the first request
Answer(reply) ==
    /\ reps' = IF QueuedReplies < RepMax
                  THEN [reps EXCEPT ![Head(reqs).from] = Append(@, reply)]
                  ELSE reps
    /\ reqs' = Tail(reqs)

Serving == phase = "drain" /\ reqs # <<>>

\* mutant: a refusal is not answered
ServeRefusedSilently ==
    /\ Serving
    /\ reqs' = Tail(reqs)
    /\ UNCHANGED <<phase, registryVars, reps, console, procVars, step, bay>>

\* the unit does not fit at the position
ServeRefused ==
    /\ Serving
    /\ Answer([status |-> "failed"])
    /\ UNCHANGED <<phase, registryVars, console, procVars, step, bay>>

\* spawn_squadron fails: status is 0 all the same, the child ids are not
ServeFailed ==
    /\ Serving
    /\ FreeSlots = {} \/ "fork" \in Faults
    /\ Answer([status |-> "ok"])
    /\ UNCHANGED <<phase, registryVars, console, procVars, step, bay>>

\* mutant: the side of the first battleship, for all of them
SpawnFactionFirst(r) == IF r.sender_id = 0 THEN r.faction ELSE side[1]

\* the faction of the new unit: a battleship's is looked up in the registry
SpawnFaction(r) == IF r.sender_id = 0 THEN r.faction ELSE side[r.sender_id]

ServeLaunched ==
    /\ Serving /\ forked < MaxProcs
    /\ \E s \in FreeSlots :
         LET r == Head(reqs)
             child == forked + 1
         IN  /\ \A t \in FreeSlots : s <= t
             /\ alive' = [alive EXCEPT ![s] = TRUE]
             /\ owner' = [owner EXCEPT ![s] = child]
             /\ side' = [side EXCEPT ![s] = SpawnFaction(r)]
             /\ forked' = child
             /\ slot' = [slot EXCEPT ![child] = s]
             /\ faction' = [faction EXCEPT ![child] = SpawnFaction(r)]
             /\ parent' = [parent EXCEPT ![child] =
                            IF r.from \in Procs THEN r.from ELSE 0]
             /\ step' = [step EXCEPT ![child] = "idle"]
             /\ Answer([status |-> "ok"])
    /\ UNCHANGED <<phase, console, bay>>

\* the queue is empty: a tick, unless CC is frozen
StartTick ==
    /\ phase = "drain" /\ reqs = <<>>
    /\ phase' = "tick"
    /\ UNCHANGED <<registryVars, reqs, reps, console, procVars, step, bay>>

\* all done permits are in; cleanup_dead_units frees the slots of the dead
EndTick ==
    /\ phase = "tick"
    /\ \A p \in Procs : step[p] # "begun"
    /\ phase' = "drain"
    /\ LET dead == {s \in Slots : ~alive[s] /\ owner[s] # 0}
       IN  /\ owner' = [s \in Slots |-> IF s \in dead THEN 0 ELSE owner[s]]
           /\ side' = [s \in Slots |-> IF s \in dead THEN 0 ELSE side[s]]
    /\ step' = [p \in Procs |-> IF step[p] = "done" THEN "idle" ELSE step[p]]
    /\ UNCHANGED <<alive, reqs, reps, console, procVars, bay>>

-----------------------------------------------------------------------------
(* The units, in a tick.  Squadrons have no bay: they only die *)

Battleship(p) == p \in Ships

Granted(p) ==
    Cardinality({i \in DOMAIN reps[p] : reps[p][i].status = "ok"})

\* mutant: the replies are left for the next tick
ShipBeginsDeaf(p) ==
    /\ phase = "tick" /\ step[p] = "idle" /\ Battleship(p)
    /\ step' = [step EXCEPT ![p] = "begun"]
    /\ UNCHANGED <<phase, registryVars, reqs, reps, console, procVars, bay>>

\* mutant: every reply is counted
ShipBeginsCountingAll(p) ==
    /\ phase = "tick" /\ step[p] = "idle" /\ Battleship(p)
    /\ bay' = [bay EXCEPT ![p] = @ + Len(reps[p])]
    /\ reps' = [reps EXCEPT ![p] = <<>>]
    /\ step' = [step EXCEPT ![p] = "begun"]
    /\ UNCHANGED <<phase, registryVars, reqs, console, procVars>>

\* the first critical section of the step: all replies are read and counted
ShipBegins(p) ==
    /\ phase = "tick" /\ step[p] = "idle" /\ Battleship(p)
    /\ bay' = [bay EXCEPT ![p] = @ + Granted(p)]
    /\ reps' = [reps EXCEPT ![p] = <<>>]
    /\ step' = [step EXCEPT ![p] = "begun"]
    /\ UNCHANGED <<phase, registryVars, reqs, console, procVars>>

\* mutant: the comparison lets one squadron too many in
ShipActsGreedily(p) ==
    /\ step[p] = "begun"
    /\ \/ /\ Capacity >= bay[p]
          /\ reqs' = Append(reqs, [from |-> p, sender_id |-> slot[p],
                                   faction |-> faction[p]])
       \/ (Capacity < bay[p] \/ "traffic" \in Faults) /\ UNCHANGED reqs
    /\ step' = [step EXCEPT ![p] = "done"]
    /\ UNCHANGED <<phase, registryVars, reps, console, procVars, bay>>

\* the second one: with room in the bay, a request, if q_req has room for it
ShipActs(p) ==
    /\ step[p] = "begun"
    /\ \/ /\ Capacity > bay[p]
          /\ reqs' = Append(reqs, [from |-> p, sender_id |-> slot[p],
                                   faction |-> faction[p]])
       \/ (Capacity <= bay[p] \/ "traffic" \in Faults) /\ UNCHANGED reqs
    /\ step' = [step EXCEPT ![p] = "done"]
    /\ UNCHANGED <<phase, registryVars, reps, console, procVars, bay>>

\* hit points are looked at before the test for a second step in the tick
UnitDies(p) ==
    /\ phase = "tick" /\ step[p] \in {"idle", "done"}
    /\ alive' = [alive EXCEPT ![slot[p]] = FALSE]
    /\ step' = [step EXCEPT ![p] = "dead"]
    /\ UNCHANGED <<phase, owner, side, reqs, reps, console, procVars, bay>>

-----------------------------------------------------------------------------

CCStep ==
    ServeRefused \/ ServeFailed \/ ServeLaunched \/ StartTick \/ EndTick

Next ==
    \/ CCStep
    \/ \E c \in Consoles :
         ConsoleAsks(c) \/ ConsoleReads(c) \/ ConsoleTold(c) \/ ConsoleMisreads(c)
    \/ \E p \in Procs : ShipBegins(p) \/ ShipActs(p) \/ UnitDies(p)

Spec == Init /\ [][Next]_vars

(***************************************************************************)
(* CC's loop goes on, a unit in its step ends it, a polling console reads. *)
(* Nobody need ask, and no unit need begin a step.                         *)
(***************************************************************************)
FairSpec ==
    /\ Spec
    /\ WF_vars(CCStep)
    /\ \A p \in Procs : WF_vars(ShipActs(p))
    /\ \A c \in Consoles : WF_vars(ConsoleReads(c))

-----------------------------------------------------------------------------
(* Properties *)

TypeOK ==
    /\ phase \in {"drain", "tick"}
    /\ alive \in [Slots -> BOOLEAN]
    /\ owner \in [Slots -> Procs \cup {0}]
    /\ side \in [Slots -> Factions \cup {0}]
    /\ reqs \in Seq([from : Senders, sender_id : Slots \cup {0},
                     faction : Factions \cup {0}])
    /\ reps \in [Senders -> Seq(Reply)]
    /\ console \in [Consoles -> {"prompt", "polls", "leaving", "last", "gone"}]
    /\ forked \in 0..MaxProcs
    /\ step \in [Procs -> {"unborn", "idle", "begun", "done", "dead"}]
    /\ slot \in [Procs -> Slots \cup {0}]
    /\ faction \in [Procs -> Factions \cup {0}]
    /\ parent \in [Procs -> Procs \cup {0}]
    /\ bay \in [Procs -> Nat]

Asking(a) == {i \in DOMAIN reqs : reqs[i].from = a}

\* messages on their way: requests of a sender, and replies to it
UnderWay(a) == Cardinality(Asking(a)) + Len(reps[a])

Allowed(a) ==
    IF a \in Procs \/ console[a] \in {"polls", "leaving"} THEN 1
    ELSE IF console[a] = "prompt" THEN 0 ELSE 2

(***************************************************************************)
(* Nobody remembers an outstanding request, yet a battleship never has     *)
(* two: at most one message, request or reply, is on its way for it, so it *)
(* may count at will.  Nor has a console, and at its prompt it has none,   *)
(* which is why the reply it reads answers the request it has just made:   *)
(* only when it has been told to stop may it ask with one under way, and   *)
(* then once.                                                              *)
(***************************************************************************)
OneOutstanding == \A a \in Senders : UnderWay(a) <= Allowed(a)

(***************************************************************************)
(* A battleship never counts more squadrons than its bay has places; it    *)
(* indexes sq_types[] with the count.                                      *)
(***************************************************************************)
BayWithinCapacity == \A p \in Procs : bay[p] <= Capacity

Launched(p) == {q \in Procs : parent[q] = p}

(***************************************************************************)
(* What a battleship has counted, and the successes it is yet to read, are *)
(* the squadrons CC has really launched for it.                            *)
(***************************************************************************)
BayCountsSquadrons ==
    \A p \in Ships : bay[p] + Granted(p) = Cardinality(Launched(p))

(***************************************************************************)
(* command_center.c: "BS spawn inherits faction from parent", which holds  *)
(* as long as the parent has not been cleaned up; the request outlives it. *)
(***************************************************************************)
InheritsFaction ==
    \A p \in Procs :
        parent[p] # 0 /\ owner[slot[parent[p]]] = parent[p]
            => faction[p] = faction[parent[p]]

(***************************************************************************)
(* A console that waits for a spawn reply gets it, or is stopped.          *)
(***************************************************************************)
ConsoleAnswered ==
    \A c \in Consoles : Polls(c) ~> ~Polls(c)

=============================================================================
