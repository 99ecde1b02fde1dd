----------------------------- MODULE TickBarrier -----------------------------
(***************************************************************************)
(* The tick barrier of the command center (CC) and the unit processes.     *)
(*                                                                         *)
(* One CC process runs the main loop of command_center.c; every unit is a  *)
(* process running the main loop of battleship.c or squadron.c, which      *)
(* synchronise in the same way.  They share the registry (shm_state_t) and *)
(* three SysV semaphores: SEM_GLOBAL_LOCK, SEM_TICK_START, SEM_TICK_DONE.  *)
(*                                                                         *)
(* A process is identified by its pid, and a pid names one process only.   *)
(* Registry slots are reused.  Positions, types and hit points are left    *)
(* out: whether a unit is found to have no hit points left is a free       *)
(* choice of the step that looks at them.                                  *)
(***************************************************************************)
EXTENDS Naturals, FiniteSets

CONSTANTS
    MAX_UNITS,      \* registry slots are 1..MAX_UNITS
    Procs,          \* pids of the unit processes that may ever be forked
    NoProc,         \* units[id].pid = 0
    ScenarioUnits,  \* number of placements in the scenario
    TickGuard,      \* UINT32_MAX - 1000, scaled down
    Faults          \* what the environment may do wrong, see below

(***************************************************************************)
(* "blocked": a scenario placement lies on an obstacle                     *)
(* "fork":    fork() fails                                                 *)
(* "boot":    a new process ends before it has registered itself (exec or  *)
(*            attach failure, or a damage signal before its handler is set)*)
(* "window":  a signal lands between the test of g_stop and semop(), or    *)
(*            between fork and exec                                        *)
(***************************************************************************)
FaultKinds == {"blocked", "fork", "boot", "window"}

ASSUME ConstantsAssumption ==
    /\ MAX_UNITS \in Nat
    /\ IsFiniteSet(Procs)
    /\ NoProc \notin Procs
    /\ ScenarioUnits \in Nat /\ ScenarioUnits <= Cardinality(Procs)
    /\ TickGuard \in Nat \ {0, 1}
    /\ Faults \subseteq FaultKinds

Slots == 1..MAX_UNITS

Reserved == 255     \* units[id].alive = -1 in a uint8_t

VARIABLES
    ticks,       \* S->ticks
    alive,       \* S->units[id].alive
    pid,         \* S->units[id].pid
    placed,      \* is the unit drawn on S->grid?
    lastStep,    \* S->last_step_tick[id]
    globalLock,  \* value of SEM_GLOBAL_LOCK
    tickStart,   \* value of SEM_TICK_START
    tickDone,    \* value of SEM_TICK_DONE
    ccpc,        \* where CC's main thread is
    toSpawn,     \* scenario placements still to be handled
    expected,    \* CC's local count of units, also S->tick_expected
    posted,      \* start permits posted in this tick
    collected,   \* done permits collected in this tick
    ccStop,      \* g_stop of CC
    frozen,      \* g_frozen of CC
    upc,         \* where each unit process is
    slot,        \* its unit_id argument
    ustop,       \* its g_stop
    lost         \* permits taken and never answered (history variable)

registryVars == <<alive, pid, placed>>
ccVars == <<ccpc, toSpawn, expected, posted, collected>>
unitVars == <<upc, slot, ustop>>
vars == <<ticks, registryVars, lastStep, globalLock, tickStart, tickDone,
          ccVars, ccStop, frozen, unitVars, lost>>

-----------------------------------------------------------------------------
(* Where the processes are *)

CCPlaces == {"scenario", "top", "lockSem", "drain", "post", "doneCheck",
             "doneSem", "grid", "cleanup", "term", "reap", "exit"}

\* CC holds SEM_GLOBAL_LOCK
CCCritical == {"scenario", "drain"}

\* CC is between posting the first permit and having collected the last
CCInTick == {"post", "doneCheck", "doneSem"}

UnitPlaces == {"unborn", "boot", "reg", "top", "startSem", "lockCheck",
               "lockSem", "begin", "actCheck", "actSem", "act",
               "doneLoop", "doneExit", "exit", "gone"}

\* CC is in, or about to enter, an interruptible semop()
CCSemop == {"lockSem", "doneSem"}

\* the unit holds SEM_GLOBAL_LOCK
UnitCritical == {"begin", "act"}

\* the unit is in, or about to enter, an interruptible semop()
UnitSemop == {"startSem", "lockSem", "actSem"}

\* the unit has taken a start permit and not answered it yet
UnitInTick == {"lockCheck", "lockSem", "begin", "actCheck", "actSem", "act",
               "doneLoop", "doneExit"}

\* the unit has recorded the current tick as its own and works on it
UnitStepping == {"actCheck", "actSem", "act"}

InTick == {p \in Procs : upc[p] \in UnitInTick}

Holders == {p \in Procs : upc[p] \in UnitCritical}

-----------------------------------------------------------------------------
(* Initial state: CC has taken the lock to spawn the scenario *)

Init ==
    /\ ticks = 0
    /\ alive = [s \in Slots |-> 0]
    /\ pid = [s \in Slots |-> NoProc]
    /\ placed = [s \in Slots |-> FALSE]
    /\ lastStep = [s \in Slots |-> 0]
    /\ globalLock = 0
    /\ tickStart = 0
    /\ tickDone = 0
    /\ ccpc = "scenario"
    /\ toSpawn = ScenarioUnits
    /\ expected = 0
    /\ posted = 0
    /\ collected = 0
    /\ ccStop = FALSE
    /\ frozen = FALSE
    /\ upc = [p \in Procs |-> "unborn"]
    /\ slot = [p \in Procs |-> 0]
    /\ ustop = [p \in Procs |-> FALSE]
    /\ lost = 0

-----------------------------------------------------------------------------
(* The registry, used by CC with the lock held *)

FreeSlots == {s \in Slots : alive[s] = 0 /\ pid[s] = NoProc}

\* alloc_unit_id takes the lowest free slot
NextFree(s) == s \in FreeSlots /\ \A r \in FreeSlots : s <= r

\* alloc_unit_id and spawn_unit: the child starts, the parent registers it
SpawnUnit(s, p) ==
    /\ NextFree(s)
    /\ upc[p] = "unborn"
    /\ upc' = [upc EXCEPT ![p] = "boot"]
    /\ slot' = [slot EXCEPT ![p] = s]
    /\ alive' = [alive EXCEPT ![s] = 1]
    /\ pid' = [pid EXCEPT ![s] = p]
    /\ placed' = [placed EXCEPT ![s] = TRUE]
    /\ UNCHANGED ustop

\* how many units CC counts for a tick: every slot whose alive byte is not 0
CountAlive == Cardinality({s \in Slots : alive[s] # 0})

(***************************************************************************)
(* SIGTERM to the processes in P.  A process that has not installed its    *)
(* handler dies, unless it still has CC's handler, which exec drops with   *)
(* all it did (missed).  One inside a semop gets EINTR and leaves its      *)
(* loop, unless it was still before the call (missed).  Every other sees   *)
(* g_stop later.                                                           *)
(***************************************************************************)
Terminate(P, missed) ==
    LET booting == {p \in P : upc[p] = "boot"}
        interrupted == {p \in P \ missed : upc[p] \in UnitSemop}
    IN  /\ upc' = [p \in Procs |->
                    IF p \in booting \ missed THEN "gone"
                    ELSE IF p \in interrupted THEN "exit" ELSE upc[p]]
        /\ ustop' = [p \in Procs |->
                      ustop[p] \/ p \in P \ (booting \cap missed)]
        /\ lost' = lost + Cardinality(interrupted \cap InTick)
        /\ UNCHANGED slot

CanMiss(P) == IF "window" \in Faults THEN SUBSET P ELSE {{}}

-----------------------------------------------------------------------------
(* CC: the scenario, spawned under the lock *)

ScenarioSpawn ==
    /\ ccpc = "scenario" /\ toSpawn > 0
    /\ \E s \in Slots, p \in Procs : SpawnUnit(s, p)
    /\ toSpawn' = toSpawn - 1
    /\ UNCHANGED <<ticks, lastStep, globalLock, tickStart, tickDone, ccpc,
                   expected, posted, collected, ccStop, frozen, lost>>

\* the placement is on an obstacle, or fork fails: the slot stays reserved
ScenarioLeak ==
    /\ ccpc = "scenario" /\ toSpawn > 0
    /\ Faults \cap {"blocked", "fork"} # {}
    /\ \E s \in Slots : NextFree(s) /\ alive' = [alive EXCEPT ![s] = Reserved]
    /\ toSpawn' = toSpawn - 1
    /\ UNCHANGED <<ticks, pid, placed, lastStep, globalLock, tickStart,
                   tickDone, ccpc, expected, posted, collected, ccStop,
                   frozen, unitVars, lost>>

\* no slot is left: the placement is skipped
ScenarioFull ==
    /\ ccpc = "scenario" /\ toSpawn > 0
    /\ FreeSlots = {}
    /\ toSpawn' = toSpawn - 1
    /\ UNCHANGED <<ticks, registryVars, lastStep, globalLock, tickStart,
                   tickDone, ccpc, expected, posted, collected, ccStop,
                   frozen, unitVars, lost>>

ScenarioDone ==
    /\ ccpc = "scenario" /\ toSpawn = 0
    /\ globalLock' = globalLock + 1
    /\ ccpc' = "top"
    /\ UNCHANGED <<ticks, registryVars, lastStep, tickStart, tickDone,
                   toSpawn, expected, posted, collected, ccStop, frozen,
                   unitVars, lost>>

-----------------------------------------------------------------------------
(* CC: one round of the main loop *)

CCGoto(place) ==
    /\ ccpc' = place
    /\ UNCHANGED <<ticks, registryVars, lastStep, globalLock, tickStart,
                   tickDone, toSpawn, expected, posted, collected, ccStop,
                   frozen, unitVars, lost>>

\* the sleep is over: leave the loop, or go for the lock
CCTop == ccpc = "top" /\ CCGoto(IF ccStop THEN "term" ELSE "lockSem")

CCLock ==
    /\ ccpc = "lockSem" /\ globalLock > 0
    /\ globalLock' = globalLock - 1
    /\ ccpc' = "drain"
    /\ UNCHANGED <<ticks, registryVars, lastStep, tickStart, tickDone,
                   toSpawn, expected, posted, collected, ccStop, frozen,
                   unitVars, lost>>

\* a spawn request is honoured
CCSpawn ==
    /\ ccpc = "drain"
    /\ \E s \in Slots, p \in Procs : SpawnUnit(s, p)
    /\ UNCHANGED <<ticks, lastStep, globalLock, tickStart, tickDone, ccVars,
                   ccStop, frozen, lost>>

\* the request queue is empty and CC is frozen: no tick in this round
CCFrozen ==
    /\ ccpc = "drain" /\ frozen
    /\ globalLock' = globalLock + 1
    /\ ccpc' = "top"
    /\ UNCHANGED <<ticks, registryVars, lastStep, tickStart, tickDone,
                   toSpawn, expected, posted, collected, ccStop, frozen,
                   unitVars, lost>>

\* the request queue is empty: a tick begins
CCNewTick ==
    /\ ccpc = "drain" /\ ~frozen
    /\ ticks' = (IF ticks >= TickGuard THEN 0 ELSE ticks) + 1
    /\ expected' = CountAlive
    /\ posted' = 0
    /\ collected' = 0
    /\ globalLock' = globalLock + 1
    /\ ccpc' = "post"
    /\ UNCHANGED <<registryVars, lastStep, tickStart, tickDone, toSpawn,
                   ccStop, frozen, unitVars, lost>>

\* one start permit per counted unit
CCPost ==
    /\ ccpc = "post" /\ posted < expected
    /\ tickStart' = tickStart + 1
    /\ posted' = posted + 1
    /\ UNCHANGED <<ticks, registryVars, lastStep, globalLock, tickDone, ccpc,
                   toSpawn, expected, collected, ccStop, frozen, unitVars,
                   lost>>

CCAllPosted == ccpc = "post" /\ posted = expected /\ CCGoto("doneCheck")

\* the tick is over, completed or not: g_grid_enabled decides what is next
AfterTick == {"grid", "cleanup"}

\* mutant: the loop over the done permits starts at 1
CCDoneCheckEarly ==
    /\ ccpc = "doneCheck"
    /\ IF collected + 1 >= expected \/ ccStop
          THEN \E place \in AfterTick : CCGoto(place)
          ELSE CCGoto("doneSem")

\* the loop over the done permits ends, or sem_wait_intr tests g_stop
CCDoneCheck ==
    /\ ccpc = "doneCheck"
    /\ IF collected = expected \/ ccStop
          THEN \E place \in AfterTick : CCGoto(place)
          ELSE CCGoto("doneSem")

CCCollect ==
    /\ ccpc = "doneSem" /\ tickDone > 0
    /\ tickDone' = tickDone - 1
    /\ collected' = collected + 1
    /\ ccpc' = "doneCheck"
    /\ UNCHANGED <<ticks, registryVars, lastStep, globalLock, tickStart,
                   toSpawn, expected, posted, ccStop, frozen, unitVars, lost>>

\* print_grid takes the lock, reads and gives the lock back
CCPrintGrid == ccpc = "grid" /\ globalLock > 0 /\ CCGoto("cleanup")

\* mutant: the test that the unit is dead is dropped
DeadSlotsUnchecked == {s \in Slots : pid[s] # NoProc}

\* cleanup_dead_units: slots of dead units are freed, their owners get SIGTERM
DeadSlots == {s \in Slots : alive[s] = 0 /\ pid[s] # NoProc}

CCCleanup ==
    /\ ccpc = "cleanup" /\ globalLock > 0
    /\ LET killed == {pid[s] : s \in DeadSlots}
       IN  \E missed \in CanMiss(killed) : Terminate(killed, missed)
    /\ pid' = [s \in Slots |-> IF s \in DeadSlots THEN NoProc ELSE pid[s]]
    /\ ccpc' = "top"
    /\ UNCHANGED <<ticks, alive, placed, lastStep, globalLock, tickStart,
                   tickDone, toSpawn, expected, posted, collected, ccStop,
                   frozen>>

\* shutdown: SIGTERM to every registered process, without the lock, which
\* sem_lock_intr refuses since g_stop is set
CCTerminate ==
    /\ ccpc = "term"
    /\ LET registered == {pid[s] : s \in Slots} \ {NoProc}
       IN  \E missed \in CanMiss(registered) : Terminate(registered, missed)
    /\ ccpc' = "reap"
    /\ UNCHANGED <<ticks, registryVars, lastStep, globalLock, tickStart,
                   tickDone, toSpawn, expected, posted, collected, ccStop,
                   frozen>>

\* waitpid has no child left to wait for; the IPC objects are destroyed
CCExit ==
    /\ ccpc = "reap"
    /\ \A p \in Procs : upc[p] \in {"unborn", "gone"}
    /\ CCGoto("exit")

-----------------------------------------------------------------------------
(* CC: its signal handler and its console thread, at any moment *)

\* SIGINT or SIGTERM; it interrupts a semop unless it comes just before it
StopBySignal ==
    /\ ccpc \notin {"term", "reap", "exit"}
    /\ ccStop' = TRUE
    /\ \/ ccpc' = "term" /\ ccpc = "lockSem"
       \/ ccpc' \in AfterTick /\ ccpc = "doneSem"
       \/ ccpc' = ccpc /\ (ccpc \in CCSemop => "window" \in Faults)
    /\ UNCHANGED <<ticks, registryVars, lastStep, globalLock, tickStart,
                   tickDone, toSpawn, expected, posted, collected, frozen,
                   unitVars, lost>>

ConsoleThreadRuns == ~ccStop /\ ccpc # "scenario"

\* CM_CMD_END: the flag is set, nothing is interrupted
StopByConsole ==
    /\ ConsoleThreadRuns
    /\ ccStop' = TRUE
    /\ UNCHANGED <<ticks, registryVars, lastStep, globalLock, tickStart,
                   tickDone, ccVars, frozen, unitVars, lost>>

\* CM_CMD_FREEZE and CM_CMD_UNFREEZE
Freeze ==
    /\ ConsoleThreadRuns
    /\ frozen' \in BOOLEAN
    /\ UNCHANGED <<ticks, registryVars, lastStep, globalLock, tickStart,
                   tickDone, ccVars, ccStop, unitVars, lost>>

-----------------------------------------------------------------------------
(* The unit processes.  Battleship and squadron differ in what they do with
   the lock held, not in how they synchronise *)

UnitGoto(p, place) == upc' = [upc EXCEPT ![p] = place]

CCUnchanged == UNCHANGED <<ticks, ccVars, ccStop, frozen>>

\* the handlers are installed, the IPC objects attached
UnitBoot(p) ==
    /\ upc[p] = "boot"
    /\ UnitGoto(p, "reg")
    /\ CCUnchanged
    /\ UNCHANGED <<registryVars, lastStep, globalLock, tickStart, tickDone,
                   slot, ustop, lost>>

UnitBootFails(p) ==
    /\ upc[p] = "boot" /\ "boot" \in Faults
    /\ UnitGoto(p, "gone")
    /\ CCUnchanged
    /\ UNCHANGED <<registryVars, lastStep, globalLock, tickStart, tickDone,
                   slot, ustop, lost>>

\* the unit writes its registry entry again; sem_lock ignores g_stop
UnitRegister(p) ==
    /\ upc[p] = "reg" /\ globalLock > 0
    /\ alive' = [alive EXCEPT ![slot[p]] = 1]
    /\ pid' = [pid EXCEPT ![slot[p]] = p]
    /\ UnitGoto(p, "top")
    /\ CCUnchanged
    /\ UNCHANGED <<placed, lastStep, globalLock, tickStart, tickDone, slot,
                   ustop, lost>>

\* mutant: g_stop is not tested before semop
UnitTopUnchecked(p) ==
    /\ upc[p] = "top"
    /\ UnitGoto(p, "startSem")
    /\ CCUnchanged
    /\ UNCHANGED <<registryVars, lastStep, globalLock, tickStart, tickDone,
                   slot, ustop, lost>>

\* head of the loop, and the test of g_stop before semop
UnitTop(p) ==
    /\ upc[p] = "top"
    /\ UnitGoto(p, IF ustop[p] THEN "exit" ELSE "startSem")
    /\ CCUnchanged
    /\ UNCHANGED <<registryVars, lastStep, globalLock, tickStart, tickDone,
                   slot, ustop, lost>>

UnitTakeStart(p) ==
    /\ upc[p] = "startSem" /\ tickStart > 0
    /\ tickStart' = tickStart - 1
    /\ UnitGoto(p, "lockCheck")
    /\ CCUnchanged
    /\ UNCHANGED <<registryVars, lastStep, globalLock, tickDone, slot, ustop,
                   lost>>

\* sem_lock_intr tests g_stop; if it is set the unit leaves without a done
UnitLockCheck(p) ==
    /\ \/ upc[p] = "lockCheck" /\ ~ustop[p] /\ UnitGoto(p, "lockSem")
       \/ upc[p] = "actCheck" /\ ~ustop[p] /\ UnitGoto(p, "actSem")
    /\ CCUnchanged
    /\ UNCHANGED <<registryVars, lastStep, globalLock, tickStart, tickDone,
                   slot, ustop, lost>>

UnitAbandon(p) ==
    /\ upc[p] \in {"lockCheck", "actCheck"} /\ ustop[p]
    /\ UnitGoto(p, "exit")
    /\ lost' = lost + 1
    /\ CCUnchanged
    /\ UNCHANGED <<registryVars, lastStep, globalLock, tickStart, tickDone,
                   slot, ustop>>

UnitLock(p) ==
    /\ globalLock > 0
    /\ \/ upc[p] = "lockSem" /\ UnitGoto(p, "begin")
       \/ upc[p] = "actSem" /\ UnitGoto(p, "act")
    /\ globalLock' = globalLock - 1
    /\ CCUnchanged
    /\ UNCHANGED <<registryVars, lastStep, tickStart, tickDone, slot, ustop,
                   lost>>

\* mutant: a dead unit leaves without a done permit
UnitFindsDeadSilently(p) ==
    /\ upc[p] = "begin" /\ alive[slot[p]] = 0
    /\ globalLock' = globalLock + 1
    /\ UnitGoto(p, "exit")
    /\ CCUnchanged
    /\ UNCHANGED <<registryVars, lastStep, tickStart, tickDone, slot, ustop,
                   lost>>

\* the registry says that the unit is dead
UnitFindsDead(p) ==
    /\ upc[p] = "begin" /\ alive[slot[p]] = 0
    /\ globalLock' = globalLock + 1
    /\ UnitGoto(p, "doneExit")
    /\ CCUnchanged
    /\ UNCHANGED <<registryVars, lastStep, tickStart, tickDone, slot, ustop,
                   lost>>

\* mark_dead
MarkDead(s) ==
    /\ alive' = [alive EXCEPT ![s] = 0]
    /\ placed' = [placed EXCEPT ![s] = FALSE]
    /\ UNCHANGED pid

\* the damage received leaves no hit points
UnitDies(p) ==
    /\ upc[p] = "begin" /\ alive[slot[p]] # 0
    /\ MarkDead(slot[p])
    /\ globalLock' = globalLock + 1
    /\ UnitGoto(p, "doneExit")
    /\ CCUnchanged
    /\ UNCHANGED <<lastStep, tickStart, tickDone, slot, ustop, lost>>

\* mutant: the skip path keeps the lock
UnitSkipsLocked(p) ==
    /\ upc[p] = "begin" /\ alive[slot[p]] # 0 /\ lastStep[slot[p]] = ticks
    /\ UnitGoto(p, "doneLoop")
    /\ CCUnchanged
    /\ UNCHANGED <<registryVars, lastStep, globalLock, tickStart, tickDone,
                   slot, ustop, lost>>

\* mutant: the skip path posts no done permit
UnitSkipsSilently(p) ==
    /\ upc[p] = "begin" /\ alive[slot[p]] # 0 /\ lastStep[slot[p]] = ticks
    /\ globalLock' = globalLock + 1
    /\ UnitGoto(p, "top")
    /\ CCUnchanged
    /\ UNCHANGED <<registryVars, lastStep, tickStart, tickDone, slot, ustop,
                   lost>>

\* the unit has already had its step in this tick
UnitSkips(p) ==
    /\ upc[p] = "begin" /\ alive[slot[p]] # 0 /\ lastStep[slot[p]] = ticks
    /\ globalLock' = globalLock + 1
    /\ UnitGoto(p, "doneLoop")
    /\ CCUnchanged
    /\ UNCHANGED <<registryVars, lastStep, tickStart, tickDone, slot, ustop,
                   lost>>

\* mutant: the unit does not record the tick
UnitStepsUnrecorded(p) ==
    /\ upc[p] = "begin" /\ alive[slot[p]] # 0 /\ lastStep[slot[p]] # ticks
    /\ globalLock' = globalLock + 1
    /\ UnitGoto(p, "actCheck")
    /\ CCUnchanged
    /\ UNCHANGED <<registryVars, lastStep, tickStart, tickDone, slot, ustop,
                   lost>>

UnitSteps(p) ==
    /\ upc[p] = "begin" /\ alive[slot[p]] # 0 /\ lastStep[slot[p]] # ticks
    /\ lastStep' = [lastStep EXCEPT ![slot[p]] = ticks]
    /\ globalLock' = globalLock + 1
    /\ UnitGoto(p, "actCheck")
    /\ CCUnchanged
    /\ UNCHANGED <<registryVars, tickStart, tickDone, slot, ustop, lost>>

\* battleship_action or squadrone_action; a move draws the unit again
UnitActs(p) ==
    /\ upc[p] = "act"
    /\ placed' \in {placed, [placed EXCEPT ![slot[p]] = TRUE]}
    /\ globalLock' = globalLock + 1
    /\ UnitGoto(p, "doneLoop")
    /\ CCUnchanged
    /\ UNCHANGED <<alive, pid, lastStep, tickStart, tickDone, slot, ustop,
                   lost>>

UnitPostDone(p) ==
    /\ \/ upc[p] = "doneLoop" /\ UnitGoto(p, "top")
       \/ upc[p] = "doneExit" /\ UnitGoto(p, "exit")
    /\ tickDone' = tickDone + 1
    /\ CCUnchanged
    /\ UNCHANGED <<registryVars, lastStep, globalLock, tickStart, slot, ustop,
                   lost>>

\* after the loop: mark_dead once more, without the lock
UnitExit(p) ==
    /\ upc[p] = "exit"
    /\ MarkDead(slot[p])
    /\ UnitGoto(p, "gone")
    /\ CCUnchanged
    /\ UNCHANGED <<lastStep, globalLock, tickStart, tickDone, slot, ustop,
                   lost>>

-----------------------------------------------------------------------------
(* The system *)

\* what CC does by itself, without a spawn request or an order to stop
CCStep ==
    \/ ScenarioSpawn \/ ScenarioLeak \/ ScenarioFull \/ ScenarioDone
    \/ CCTop \/ CCLock \/ CCFrozen \/ CCNewTick
    \/ CCPost \/ CCAllPosted \/ CCDoneCheck \/ CCCollect
    \/ CCPrintGrid \/ CCCleanup \/ CCTerminate \/ CCExit

UnitStep(p) ==
    \/ UnitBoot(p) \/ UnitBootFails(p) \/ UnitRegister(p)
    \/ UnitTop(p) \/ UnitTakeStart(p) \/ UnitLockCheck(p) \/ UnitAbandon(p)
    \/ UnitLock(p) \/ UnitFindsDead(p) \/ UnitDies(p) \/ UnitSkips(p)
    \/ UnitSteps(p) \/ UnitActs(p) \/ UnitPostDone(p) \/ UnitExit(p)

\* after a clean shutdown nothing is left to happen
Terminated == ccpc = "exit" /\ UNCHANGED vars

Next ==
    \/ CCStep \/ CCSpawn
    \/ StopBySignal \/ StopByConsole \/ Freeze
    \/ \E p \in Procs : UnitStep(p)
    \/ Terminated

Spec == Init /\ [][Next]_vars

(***************************************************************************)
(* The operating system runs every process that can run.  Nothing obliges  *)
(* anyone to send requests or signals.                                     *)
(***************************************************************************)
Fairness ==
    /\ WF_vars(CCStep)
    /\ \A p \in Procs : WF_vars(UnitStep(p))

FairSpec == Spec /\ Fairness

-----------------------------------------------------------------------------
(* Properties *)

TypeOK ==
    /\ ticks \in 0..TickGuard
    /\ alive \in [Slots -> {0, 1, Reserved}]
    /\ pid \in [Slots -> Procs \cup {NoProc}]
    /\ placed \in [Slots -> BOOLEAN]
    /\ lastStep \in [Slots -> 0..TickGuard]
    /\ globalLock \in {0, 1}
    /\ tickStart \in Nat
    /\ tickDone \in Nat
    /\ ccpc \in CCPlaces
    /\ toSpawn \in 0..ScenarioUnits
    /\ expected \in Nat
    /\ posted \in 0..expected
    /\ collected \in 0..expected
    /\ ccStop \in BOOLEAN
    /\ frozen \in BOOLEAN
    /\ upc \in [Procs -> UnitPlaces]
    /\ slot \in [Procs -> Slots \cup {0}]
    /\ \A p \in Procs : upc[p] # "unborn" => slot[p] \in Slots
    /\ ustop \in [Procs -> BOOLEAN]
    /\ lost \in Nat

(***************************************************************************)
(* Whoever holds SEM_GLOBAL_LOCK holds it alone, and the semaphore is free *)
(* exactly when nobody holds it: no path of CC's loop or of a unit's loop, *)
(* skips, deaths and shutdown included, keeps the lock or gives it back    *)
(* twice.                                                                  *)
(***************************************************************************)
MutualExclusion ==
    /\ globalLock = 1 <=> ccpc \notin CCCritical /\ Holders = {}
    /\ ccpc \in CCCritical => Holders = {}
    /\ \A p, q \in Holders : p = q

(***************************************************************************)
(* Every start permit posted in a tick is still on offer, held by one unit *)
(* inside its tick, answered by a done permit, or lost with a unit that    *)
(* left on SIGTERM.  Each way out of the unit loop posts exactly one done  *)
(* permit for the start permit it took.                                    *)
(***************************************************************************)
PermitsConserved ==
    posted = tickStart + Cardinality(InTick) + tickDone + collected + lost

(***************************************************************************)
(* Unless it is shutting down, CC drains spawn requests, counts units,     *)
(* frees slots and sleeps only while no unit is inside a tick and no       *)
(* permit of an earlier tick is left over.                                 *)
(***************************************************************************)
QuietBetweenTicks ==
    ccpc \notin CCInTick /\ ~ccStop =>
        InTick = {} /\ tickStart = 0 /\ tickDone = 0 /\ lost = 0

(***************************************************************************)
(* A unit releases the lock between recording the tick and acting; it      *)
(* still acts in the tick it recorded, even when a stop arrives meanwhile. *)
(***************************************************************************)
StepsInCurrentTick ==
    \A p \in Procs : upc[p] \in UnitStepping => lastStep[slot[p]] = ticks

(***************************************************************************)
(* S->ticks never moves while a unit is inside its tick, not even in the   *)
(* last round after a stop.                                                *)
(***************************************************************************)
TicksMoveWhenQuiet ==
    [][ticks' # ticks => InTick = {} /\ tickStart = 0 /\ tickDone = 0]_vars

(***************************************************************************)
(* A tick that CC has started comes to its end.                            *)
(***************************************************************************)
TickCompletes == ccpc \in CCInTick ~> ccpc \notin CCInTick

(***************************************************************************)
(* After Ctrl+C or the console's END, CC reaps all units and exits.        *)
(***************************************************************************)
StopLeadsToExit == ccStop ~> ccpc = "exit"

(***************************************************************************)
(* Without faults of the environment, whatever CC counts for a tick is a   *)
(* process that still runs and can answer: no slot stays alive after its   *)
(* process has ended.  Shutdown no longer cares.                           *)
(***************************************************************************)
CountedUnitsRun ==
    ccpc \notin {"reap", "exit"} =>
        \A s \in Slots : alive[s] # 0 =>
            pid[s] # NoProc /\ upc[pid[s]] # "gone"

(***************************************************************************)
(* No two processes work on one slot: CC gives no slot away whose last     *)
(* owner, told to leave, has not left yet.  The code does not wait for     *)
(* that; what depends on it says so.                                       *)
(***************************************************************************)
Living == {p \in Procs : upc[p] \notin {"unborn", "gone"}}

SlotsUnshared == \A p, q \in Living : slot[p] = slot[q] => p = q

\* CC can take a step by itself, or process p can
CCReady ==
    \/ ccpc \in {"top", "drain", "post", "doneCheck", "term"}
    \/ /\ ccpc = "scenario"
       /\ toSpawn = 0 \/ FreeSlots = {} \/ \E p \in Procs : upc[p] = "unborn"
    \/ ccpc \in {"lockSem", "grid", "cleanup"} /\ globalLock > 0
    \/ ccpc = "doneSem" /\ tickDone > 0
    \/ ccpc = "reap" /\ \A p \in Procs : upc[p] \in {"unborn", "gone"}

UnitReady(p) ==
    \/ upc[p] \in {"boot", "top", "lockCheck", "begin", "actCheck", "act",
                   "doneLoop", "doneExit", "exit"}
    \/ upc[p] \in {"reg", "lockSem", "actSem"} /\ globalLock > 0
    \/ upc[p] = "startSem" /\ tickStart > 0

(***************************************************************************)
(* Until CC has exited, somebody can go on without a request or a signal   *)
(* from outside: CC never waits for a permit that nobody is left to post,  *)
(* no unit for a lock that nobody holds, and the shutdown for no process   *)
(* that has not been told.                                                 *)
(***************************************************************************)
NeverStuck == ccpc # "exit" => CCReady \/ \E p \in Procs : UnitReady(p)
=============================================================================
