------------------------------ MODULE Command ------------------------------
(***************************************************************************)
(* Commanders and underlings: how squadrons find a battleship to follow    *)
(* and how battleships give orders.                                        *)
(*                                                                         *)
(* A squadron whose commander is missing or dead posts a MSG_COMMANDER_REQ *)
(* that names no recipient.  Whichever battleship acts next takes all      *)
(* requests there are, writes the senders' slots in underlings[] and       *)
(* replies.  In each of its steps a battleship sends every living          *)
(* underling an order, by the pid found in its slot.                       *)
(*                                                                         *)
(* The tick barrier is taken for granted (see TickBarrier): a unit acts at *)
(* most once in a tick, and CC spawns and cleans up between ticks.  Bays   *)
(* are SpawnBay's subject: here a battleship may ask for a squadron in any *)
(* of its steps, and CC may refuse.  Positions and secondary targets are   *)
(* left out: what a battleship aims at is free, and so is, with the fault  *)
(* "distance", whether an ally is in sight.                                *)
(***************************************************************************)
EXTENDS Naturals, Sequences, FiniteSets

CONSTANTS
    MAX_UNITS,   \* slots, and the size of underlings[]
    MaxProcs,    \* bound of the model: pids are 1..MaxProcs, in fork order
    Fleet,       \* factions of the scenario's battleships, a sequence
    Wing,        \* its squadrons, a sequence of [side, kind] records
    Hired,       \* squadrons the console may spawn, [side, kind] records
    Yard,        \* the battleships it spawns: their factions, by pid
    Faults       \* "traffic": sends fail; "distance": allies out of sight;
                 \* "missed": a tick may pass without a unit's action

Slots == 1..MAX_UNITS
Procs == 1..MaxProcs
Ships == 1..Len(Fleet) \cup DOMAIN Yard
Squadrons == Procs \ Ships
Factions == {1, 2}
Light == {"fighter", "bomber"}       \* elites count as fighters

Battleships == [i \in 1..Len(Fleet) |-> [side |-> Fleet[i], kind |-> "ship"]]
Scenario == Battleships \o Wing
Nobody == [side |-> 0, kind |-> "none"]

ASSUME CommandAssumption ==
    /\ MAX_UNITS \in Nat /\ MaxProcs \in Nat
    /\ Fleet \in Seq(Factions) /\ Wing \in Seq([side : Factions, kind : Light])
    /\ Len(Scenario) <= MAX_UNITS /\ Len(Scenario) <= MaxProcs
    /\ Hired \subseteq [side : Factions, kind : Light]
    /\ DOMAIN Yard \subseteq (Len(Scenario) + 1)..MaxProcs
    /\ \A p \in DOMAIN Yard : Yard[p] \in Factions
    /\ Faults \subseteq {"traffic", "distance", "missed"}

VARIABLES
    phase,       \* "between" ticks or in a "tick"
    alive, owner, side, kind,   \* the registry: alive, pid, faction, type
    forked,      \* number of processes so far
    step,        \* how far each unit is in this tick
    slot,        \* its unit_id
    asking,      \* battleships whose MSG_SPAWN is in q_req
    reqs,        \* the MSG_COMMANDER_REQ messages of q_req
    orders,      \* the orders of q_req, by recipient
    replies,     \* the commander replies of q_rep, by recipient
    announced,   \* slots in the unread spawn replies, by recipient
    underlings,  \* each battleship's array
    commander,   \* each squadron's commander, 0 if none
    order,       \* its order
    ward         \* its target_ter, the unit it guards

registryVars == <<alive, owner, side, kind>>
procVars == <<forked, slot>>
queueVars == <<asking, reqs, orders, replies, announced>>
commandVars == <<underlings, commander, order, ward>>
vars == <<phase, registryVars, procVars, step, queueVars, commandVars>>

Living(p) == step[p] \in {"idle", "done"}

-----------------------------------------------------------------------------
(* The scenario: battleships in the first slots, then squadrons *)

Init ==
    LET first == 1..Len(Scenario)
        placed(s) == IF s \in first THEN Scenario[s] ELSE Nobody
    IN  /\ phase = "between"
        /\ alive = [s \in Slots |-> s \in first]
        /\ owner = [s \in Slots |-> IF s \in first THEN s ELSE 0]
        /\ side = [s \in Slots |-> placed(s).side]
        /\ kind = [s \in Slots |-> placed(s).kind]
        /\ forked = Len(Scenario)
        /\ step = [p \in Procs |-> IF p \in first THEN "idle" ELSE "unborn"]
        /\ slot = [p \in Procs |-> IF p \in first THEN p ELSE 0]
        /\ asking = {}
        /\ reqs = <<>>
        /\ orders = [p \in Procs |-> <<>>]
        /\ replies = [p \in Procs |-> <<>>]
        /\ announced = [p \in Procs |-> <<>>]
        /\ underlings = [p \in Ships |-> [i \in Slots |-> 0]]
        /\ commander = [p \in Procs |-> 0]
        /\ order = [p \in Procs |-> "patrol"]
        /\ ward = [p \in Procs |-> 0]

-----------------------------------------------------------------------------
(* CC: spawning, the tick, cleanup *)

FreeSlots == {s \in Slots : ~alive[s] /\ owner[s] = 0}

\* the next process gets the first free slot
Launch(s, f, k) ==
    LET child == forked + 1
    IN  /\ phase = "between" /\ forked < MaxProcs
        /\ \A t \in FreeSlots : s <= t
        /\ alive' = [alive EXCEPT ![s] = TRUE]
        /\ owner' = [owner EXCEPT ![s] = child]
        /\ side' = [side EXCEPT ![s] = f]
        /\ kind' = [kind EXCEPT ![s] = k]
        /\ forked' = child
        /\ slot' = [slot EXCEPT ![child] = s]
        /\ step' = [step EXCEPT ![child] = "idle"]

\* a squadron for battleship boss, which may have died since it asked, or for
\* the console (boss = 0); the reply tells the battleship the slot
Spawn ==
    /\ forked + 1 \in Squadrons
    /\ \E s \in FreeSlots, boss \in {0} \cup asking,
          f \in Factions \cup {0}, k \in Light :
         LET hears == boss # 0 /\ Living(boss)
         IN  /\ IF boss = 0 THEN [side |-> f, kind |-> k] \in Hired
                               ELSE f = side[slot[boss]]
             /\ Launch(s, f, k)
             /\ commander' = [commander EXCEPT ![forked + 1] =
                               IF boss = 0 THEN 0 ELSE slot[boss]]
             /\ asking' = asking \ {boss}
             /\ \/ hears /\ announced' = [announced EXCEPT ![boss] = Append(@, s)]
                \/ (~hears \/ "traffic" \in Faults) /\ UNCHANGED announced
    /\ UNCHANGED <<phase, reqs, orders, replies, underlings, order, ward>>

\* a battleship for the console
SpawnShip ==
    /\ forked + 1 \in DOMAIN Yard
    /\ \E s \in FreeSlots : Launch(s, Yard[forked + 1], "ship")
    /\ UNCHANGED <<phase, queueVars, commandVars>>

\* what has been asked for and not spawned is refused
StartTick ==
    /\ phase = "between"
    /\ phase' = "tick"
    /\ asking' = {}
    /\ UNCHANGED <<registryVars, procVars, step, reqs, orders, replies,
                   announced, commandVars>>

EndTick ==
    /\ phase = "tick"
    /\ "missed" \in Faults \/ \A p \in Procs : step[p] # "idle"
    /\ phase' = "between"
    /\ LET dead == {s \in Slots : ~alive[s] /\ owner[s] # 0}
       IN  /\ owner' = [s \in Slots |-> IF s \in dead THEN 0 ELSE owner[s]]
           /\ side' = [s \in Slots |-> IF s \in dead THEN 0 ELSE side[s]]
           /\ kind' = [s \in Slots |-> IF s \in dead THEN "none" ELSE kind[s]]
    /\ step' = [p \in Procs |-> IF step[p] = "done" THEN "idle" ELSE step[p]]
    /\ UNCHANGED <<alive, procVars, queueVars, commandVars>>

\* a unit dies at the start of its step, or of a second one in the same tick;
\* its variables, and the messages only it could read, are forgotten
UnitDies(p) ==
    /\ phase = "tick" /\ Living(p)
    /\ alive' = [alive EXCEPT ![slot[p]] = FALSE]
    /\ step' = [step EXCEPT ![p] = "dead"]
    /\ orders' = [orders EXCEPT ![p] = <<>>]
    /\ replies' = [replies EXCEPT ![p] = <<>>]
    /\ announced' = [announced EXCEPT ![p] = <<>>]
    /\ underlings' = [q \in Ships |->
                        IF q = p THEN [i \in Slots |-> 0] ELSE underlings[q]]
    /\ commander' = [commander EXCEPT ![p] = 0]
    /\ order' = [order EXCEPT ![p] = "patrol"]
    /\ ward' = [ward EXCEPT ![p] = 0]
    /\ UNCHANGED <<phase, owner, side, kind, procVars, asking, reqs>>

-----------------------------------------------------------------------------
(* A battleship's step *)

\* mutant: without the test for an empty entry
EnlistOver(entries, ids) ==
    IF ids = <<>> THEN entries ELSE [entries EXCEPT ![1] = ids[Len(ids)]]

\* the k-th id goes to the k-th empty entry; for the rest there is no room
Enlist(entries, ids) ==
    LET rank(i) == Cardinality({j \in 1..i : entries[j] = 0})
    IN  [i \in Slots |-> IF entries[i] = 0 /\ rank(i) <= Len(ids)
                         THEN ids[rank(i)] ELSE entries[i]]

Room(entries) == Cardinality({i \in Slots : entries[i] = 0})

Senders(q) == [i \in DOMAIN q |-> q[i].sender_id]

\* what the first bomber among the entries is, or else the battleship itself
BomberOr(self, entries) ==
    LET bombers == {i \in Slots : entries[i] # 0 /\ kind[entries[i]] = "bomber"}
    IN  IF bombers = {} THEN self
        ELSE entries[CHOOSE i \in bombers : \A j \in bombers : i <= j]

\* the order for the unit in slot e, by what the battleship aims at
OrderFor(self, entries, e, aim) ==
    LET attack == [order |-> "attack", target |-> 0]
        guard(u) == [order |-> "guard", target |-> u]
    IN  CASE aim = "fighter" /\ kind[e] # "bomber" -> attack
          [] aim = "ship" /\ kind[e] = "bomber" -> attack
          [] aim = "ship" /\ kind[e] # "bomber" -> guard(BomberOr(self, entries))
          [] OTHER -> guard(self)

\* whom the messages of one step may reach
Reached == IF "traffic" \in Faults THEN SUBSET Procs ELSE {Procs}

\* what there is to aim at
Aims(p) ==
    {"none"} \cup
    {kind[s] : s \in {t \in Slots : alive[t] /\ side[t] # side[slot[p]]}}

\* spawn replies, then commander requests, then orders for the living, then
\* perhaps a spawn request
ShipActs(p) ==
    /\ phase = "tick" /\ step[p] = "idle"
    /\ LET own == Enlist(underlings[p], announced[p])
           all == Enlist(own, Senders(reqs))
           kept == [i \in Slots |->
                      IF all[i] # 0 /\ alive[all[i]] THEN all[i] ELSE 0]
           Accepted(q) == {i \in DOMAIN reqs : reqs[i].from = q /\ i <= Room(own)}
           Entries(q) == {i \in Slots : kept[i] # 0 /\ owner[kept[i]] = q}
       IN  \E aim \in Aims(p), heard \in Reached, told \in Reached :
             /\ underlings' = [underlings EXCEPT ![p] = kept]
             /\ replies' = [q \in Procs |->
                  IF q \in heard /\ Accepted(q) # {}
                  THEN Append(replies[q], slot[p]) ELSE replies[q]]
             /\ orders' = [q \in Procs |->
                  IF q \in told /\ Entries(q) # {}
                  THEN Append(orders[q], OrderFor(slot[p], kept, slot[q], aim))
                  ELSE orders[q]]
    /\ reqs' = <<>>
    /\ asking' \in {asking, asking \cup {p}}
    /\ announced' = [announced EXCEPT ![p] = <<>>]
    /\ step' = [step EXCEPT ![p] = "done"]
    /\ UNCHANGED <<phase, registryVars, procVars, commander, order, ward>>

-----------------------------------------------------------------------------
(* A squadron's step *)

Last(s) == s[Len(s)]

Present(u) == u # 0 /\ alive[u]

\* the commander after the replies are read, before it is looked at
Promised(p) == IF replies[p] = <<>> THEN commander[p] ELSE Last(replies[p])

Obeyed(p) == IF orders[p] = <<>> THEN order[p] ELSE Last(orders[p]).order

\* the last guard order with a living target sets the ward
Guarded(p) ==
    LET valid == {i \in DOMAIN orders[p] :
                    orders[p][i].order = "guard" /\ alive[orders[p][i].target]}
    IN  IF valid = {} THEN ward[p]
        ELSE orders[p][CHOOSE i \in valid : \A j \in valid : j <= i].target

\* mutant: the faction is not compared
AllyInSightAny(p) == \E s \in Slots : alive[s] /\ kind[s] = "ship"

\* a battleship of one's own side
AllyInSight(p) ==
    \E s \in Slots : alive[s] /\ kind[s] = "ship" /\ side[s] = side[slot[p]]

\* mutant: also with a commander
SeeksAlways(p, boss) == AllyInSight(p)

\* mutant: only when the commander has died
SeeksBereaved(p, boss) == boss # 0 /\ ~alive[boss] /\ AllyInSight(p)

Seeks(p, boss) == ~Present(boss) /\ AllyInSight(p)

\* mutant: the order is not reset
OrderNowKept(p, boss) == Obeyed(p)

\* the death of the commander counts for more than its last order
OrderNow(p, boss) ==
    IF boss # 0 /\ ~Present(boss) THEN "patrol" ELSE Obeyed(p)

\* replies, then orders, then the look at the commander, then the order is
\* carried out
SquadronActs(p) ==
    /\ phase = "tick" /\ step[p] = "idle" /\ p \in Squadrons
    /\ LET boss == Promised(p)
           now == OrderNow(p, boss)
       IN  /\ commander' = [commander EXCEPT ![p] = IF Present(boss) THEN boss ELSE 0]
           /\ order' = [order EXCEPT ![p] = now]
           /\ ward' = [ward EXCEPT ![p] =
                        IF now = "guard" /\ ~Present(Guarded(p))
                        THEN 0 ELSE Guarded(p)]
           /\ \/ /\ Seeks(p, boss)
                 /\ reqs' = Append(reqs, [from |-> p, sender_id |-> slot[p]])
              \/ /\ ~Seeks(p, boss) \/ Faults \cap {"distance", "traffic"} # {}
                 /\ UNCHANGED reqs
    /\ replies' = [replies EXCEPT ![p] = <<>>]
    /\ orders' = [orders EXCEPT ![p] = <<>>]
    /\ step' = [step EXCEPT ![p] = "done"]
    /\ UNCHANGED <<phase, registryVars, procVars, asking, announced, underlings>>

-----------------------------------------------------------------------------

CCStep == StartTick \/ EndTick

Next ==
    \/ Spawn \/ SpawnShip \/ CCStep
    \/ \E p \in Ships : ShipActs(p)
    \/ \E p \in Procs : SquadronActs(p) \/ UnitDies(p)

Spec == Init /\ [][Next]_vars

(***************************************************************************)
(* The battle goes on: CC takes its next step or some unit acts.  Nobody   *)
(* need spawn or die.  No unit is promised a turn: without the fault       *)
(* "missed" it has one in every tick, because EndTick waits for it.        *)
(***************************************************************************)
Acts == CCStep \/ (\E p \in Ships : ShipActs(p)) \/ (\E p \in Squadrons : SquadronActs(p))

FairSpec == Spec /\ WF_vars(Acts)

-----------------------------------------------------------------------------
(* Properties *)

TypeOK ==
    /\ phase \in {"between", "tick"}
    /\ alive \in [Slots -> BOOLEAN]
    /\ owner \in [Slots -> Procs \cup {0}]
    /\ side \in [Slots -> Factions \cup {0}]
    /\ kind \in [Slots -> Light \cup {"ship", "none"}]
    /\ forked \in 0..MaxProcs
    /\ step \in [Procs -> {"unborn", "idle", "done", "dead"}]
    /\ slot \in [Procs -> Slots \cup {0}]
    /\ asking \subseteq Ships
    /\ reqs \in Seq([from : Squadrons, sender_id : Slots])
    /\ orders \in [Procs -> Seq([order : {"guard", "attack"}, target : Slots \cup {0}])]
    /\ replies \in [Procs -> Seq(Slots)]
    /\ announced \in [Procs -> Seq(Slots)]
    /\ underlings \in [Ships -> [Slots -> Slots \cup {0}]]
    /\ commander \in [Procs -> Slots \cup {0}]
    /\ order \in [Procs -> {"patrol", "guard", "attack"}]
    /\ ward \in [Procs -> Slots \cup {0}]

Entered(q, p) ==
    \/ \E i \in Slots : underlings[q][i] = slot[p]
    \/ \E i \in DOMAIN announced[q] : announced[q][i] = slot[p]

\* No two processes have had the same slot.  CC gives the first free slot, so
\* nothing has been spawned since the first death was cleaned up.
NoReuse == \A p, q \in 1..forked : slot[p] = slot[q] => p = q

(***************************************************************************)
(* Unless messages are lost or slots reused, no squadron is on the lists   *)
(* of two living battleships: it never has two masters.  Requests name no  *)
(* recipient and are repeated until a reply is seen; what saves the day is *)
(* that a battleship takes all there are.                                  *)
(***************************************************************************)
OneMaster ==
    NoReuse =>
        \A p \in Squadrons, q, r \in Ships :
            Living(p) /\ Living(q) /\ Living(r) /\ Entered(q, p) /\ Entered(r, p)
                => q = r

\* no more squadrons were ever born than half of underlings[] holds
Few == 2 * Cardinality({p \in Squadrons : p <= forked}) <= MAX_UNITS

(***************************************************************************)
(* A battleship that a squadron follows has the squadron on its list, so   *)
(* that orders will come, unless messages are lost, ticks missed or slots  *)
(* reused.  And unless the list may overflow: a squadron that asks twice   *)
(* before it is answered takes two entries (nothing looks for the id), and *)
(* a full list drops the squadrons that the battleship's own bay announces *)
(* though they have been born with it as their commander.                  *)
(***************************************************************************)
KnownToCommander ==
    NoReuse /\ Few =>
        \A p \in Squadrons, q \in Ships :
            Living(p) /\ Living(q) /\ commander[p] = slot[q] => Entered(q, p)

(***************************************************************************)
(* A squadron whose commander has died goes back to patrol, even if orders *)
(* of the dead commander are still in the queue or are read together with  *)
(* the news: no squadron without a commander carries out orders.           *)
(***************************************************************************)
MasterlessPatrol ==
    NoReuse =>
        \A p \in Squadrons :
            Living(p) /\ commander[p] = 0 => order[p] = "patrol"

(***************************************************************************)
(* In a fleet of one side a squadron guards its own side only, whoever     *)
(* told it to and whatever has died since the order was given.             *)
(***************************************************************************)
WardsAreFriends ==
    NoReuse =>
        \A p \in Squadrons :
            Living(p) /\ ward[p] # 0 /\ alive[ward[p]]
                => side[ward[p]] = side[slot[p]]

(***************************************************************************)
(* PROJECT.md: "Orphaned squadrons search for same-faction capital ships"; *)
(* the test failed if they "remain idle".  A squadron that sees a          *)
(* battleship of its side gets a commander.                                *)
(***************************************************************************)
OrphansAdopted ==
    \A p \in Squadrons :
        Living(p) /\ commander[p] = 0
            ~> ~Living(p) \/ commander[p] # 0 \/ ~AllyInSight(p)

=============================================================================
