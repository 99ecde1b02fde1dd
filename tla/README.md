# Space Skirmish: TLA+ models, checks and proofs

Space Skirmish is a battle simulation made of Unix processes: a *command
center* (CC) and one process per unit, joined by a shared-memory segment, three
System V semaphores and two System V message queues. This directory holds its
TLA+ models, the TLC configurations that check them and the TLAPS proofs about
them. Paths below are relative to the repository root.

## 1. The system

| Part | State it keeps | Operations | Talks to |
|---|---|---|---|
| **CC main loop** `src/CC/command_center.c` | `g_stop`, `g_frozen`, tick speed, grid switch; owns the IPC objects | spawn the scenario; per tick: drain spawn requests, count units, post start permits, collect done permits, print, clean up dead units; shutdown | units (semaphores, signals, registry), console (thread, queues) |
| **Unit processes** `src/CC/battleship.c`, `src/CC/squadron.c` | `g_stop`, `g_damage_pending`, hit points, targets, order, `underlings[]` or `commander` | boot, register, per tick: damage, action, done permit; `mark_dead` and exit | registry, semaphores, queues |
| **Registry** `include/ipc/shared.h` | `units[1..MAX_UNITS]` (pid, alive, type, position), `grid`, `ticks`, `last_step_tick` | `alloc_unit_id`, `register_unit`, `mark_dead`, `cleanup_dead_units` | guarded by `SEM_GLOBAL_LOCK`, mostly |
| **Semaphores** `src/ipc/semaphores.c` | `SEM_GLOBAL_LOCK`, `SEM_TICK_START`, `SEM_TICK_DONE` | blocking and interruptible operations with a stop flag | everyone |
| **Message queues** `src/ipc/ipc_mesq.c` | `q_req`, `q_rep` of bounded capacity; selection by mtype | nonblocking sends, polling receives, two blocking receives | everyone |
| **Spawn protocol** | fighter bay counters, requests and replies in flight | battleships and the console ask, CC forks and answers | BS, CM, CC |
| **Damage** `src/CC/unit_ipc.c` | messages by target pid, pending flag, hit points | shoot, signal SIGRTMAX, drain | units |
| **Command** | `underlings[]`, `commander`, `order` | commander requests and replies, orders | BS, SQ |
| **Console** `src/CM/console_manager.c` and CC's thread | `g_stop`, request ids; frozen flag, tick speed, grid switch | rounds of a line from stdin and one from the FIFO of the UI; commands and replies | CM, CC, UI |
| **Grid and sizes** `src/CC/unit_size.c` | `grid[M][N]` | fit test, place, remove, nearest cell | units, CC |
| **Movement, radar, combat** `src/CC/unit_logic.c`, `unit_stats.c`, `weapon_stats.c` | none (pure, plus `rand`) | goal, next step, radar, damage | units |
| **Scenario** `src/CC/scenario.c` | the placement list | parse, formations | CC |
| **UI, tee, logging, error handler** | windows, pipes, files | I/O | CM, CC |

### What is hard here

* *Concurrency over one lock.* Every unit and CC share the registry; the lock
  is given back and taken again in the middle of a unit's step.
* *Anonymous permits.* A start permit belongs to no unit; a done permit names
  nobody. The barrier is right only if every start permit is answered once.
* *Signals.* SIGTERM can arrive anywhere, in particular between the test of
  the stop flag and the blocking `semop`, or between `fork` and `exec`.
* *Reuse.* Slots, and everything addressed by slot number, are reused while
  the previous owner may still be running.
* *Nonblocking sends on bounded queues*, polled by pid.

### What makes each part correct

* **Barrier**: mutual exclusion; one done per start on every path; CC works
  between ticks only when no unit is inside one; at most one action per unit
  and tick; ticks complete; a stop ends in a clean exit.
* **Registry**: what CC counts as alive is a process that can answer; nothing
  is written behind the lock's back.
* **Spawn and bays**: a battleship's count agrees with the squadrons it has;
  the bay is never overfilled.
* **Damage**: damage sent to a living unit is applied once, to that unit.
* **Command**: a squadron obeys its own side; orders go to one's own
  squadrons.
* **Console**: a reply is taken for the answer to the command it belongs to; a
  command takes effect once; every wait ends.
* **Grid**: a unit's cells carry its id, and nobody else's are cleared.

## 2. Plan

| Order | Modules | Subject | State |
|---|---|---|---|
| 1 | `TickBarrier`, `TickHistory`, `TickGate` (abstract), `TickRefinement` | barrier, lock, life cycle, shutdown | checked and proved, section 3 |
| 2 | `SpawnBay`, `BayAccount` (abstract), `SpawnRefinement` | spawn requests, bays, console spawns | checked and proved, section 4 |
| 3 | `Command` | commander requests, underlings, orders | checked and proved, section 5 |
| 4 | `Damage`, `HitPoints` (abstract) | shots as messages, SIGRTMAX, drain, death | checked and proved, section 6 |
| 5 | `Console`, `Control` (abstract) | consoles, map viewers, CC's console thread, freeze, end | checked and proved, section 7 |
| 6 | `Grid`, `Movement` | footprints, search, patrol, moves, death and spawning on the grid | checked and proved, section 8 |
| 7 | `UnitTables`, `Engagement` | statistics, radar, choice of targets, fire, orders | checked and proved, section 9 |
| 8 | `Scenario` | reading a scenario, placing the first units | checked and proved, section 10 |

Proofs are in `*Proofs.tla`, TLC's instances in `MC*.tla` and the `.cfg` files.

The modules are joined by what they leave open for each other. `TickBarrier`
shows that CC works only between ticks (`ImplementsGate`, and as a theorem
`QuietBetweenTicks`), that one process
at a time holds the lock (`MutualExclusion`) and that a unit acts at most once
in a tick (`AtMostOneAction`); the other modules therefore take a unit's locked
step as one action. `Movement` shows that a unit moves only in its own step and
no further than its speed, which is all `Engagement` knows of a move.
`Engagement` decides what a battleship aims at and whom a unit shoots; `Command`
and `Damage` leave that open and follow the messages. Slots are freed and reused
in `TickBarrier`, `SpawnBay`, `Command`, `Damage`, `Movement` and `Engagement`.

Every safety property of the runs is a theorem for all values of the constants, some
under conditions their section names; liveness under fairness is left to TLC (section
13). What would come next: a run in which damage and orders share one request queue
of bounded size, and progress theorems like that of section 3 for the other parts.

## 3. The tick barrier

`TickBarrier.tla` models CC's main thread, its console thread's two effects on
it, its signal handler, and every unit process, at the grain of one action per
semaphore operation or per stretch of code under the lock.

| Variable | Code |
|---|---|
| `ticks`, `alive`, `pid`, `placed`, `lastStep` | `S->ticks`, `units[].alive`, `units[].pid`, presence on `S->grid`, `S->last_step_tick[]` |
| `globalLock`, `tickStart`, `tickDone` | the three semaphores |
| `ccpc`, `toSpawn`, `expected`, `posted`, `collected` | CC's place in `main` and its loop counters |
| `ccStop`, `frozen` | CC's `g_stop`, `g_frozen` |
| `upc`, `slot`, `ustop` | per process: place in `main`, `unit_id`, `g_stop` |
| `lost` | history: start permits that no done permit will answer |

Processes are pids; slots are reused, pids are not. Hit points, positions and
types are abstracted: `UnitDies` is possible in every step. Battleships and
squadrons synchronise in the same way and are one process type. The few lines
where they differ in text (the order of two tests that cannot disagree, a
redundant branch) do not differ in effect.

Faults are a constant, so that each run states what it assumes:
`"blocked"` (a placement on an obstacle), `"fork"`, `"boot"` (a unit ends before
it registers), `"window"` (a signal in the gap before `semop`, or before `exec`).

Abstractions of note:

* a group of statements under the lock is one action; the lock is still a
  variable, and the unlocked `mark_dead` at the end of a unit's `main` may
  happen at any time;
* the print of the grid and the cleanup take and release the lock in one step,
  the bounded wait for the killed children is left out (it changes no state);
* the shutdown loop that sends SIGTERM is one step; it runs without the lock,
  because `sem_lock_intr` refuses once `g_stop` is set. Waiting for the console
  thread is folded into it;
* the guard `UINT32_MAX - 1000` is the constant `TickGuard`, at 2 in the runs so
  that the counter wraps again and again;
* a crash of a registered unit and SIGTERM from outside to a unit are not
  modelled.

`TickHistory.tla` adds which units are due and which have acted in the tick.
`TickGate.tla` is the abstract promise, a gate that opens when nobody is inside
and closes when all have left; `TickRefinement.tla` maps the barrier to it.

### Runs

| Run | Instance | Shows |
|---|---|---|
| `tick_safety` | 3 processes, 2 slots, all faults | `MutualExclusion`, `PermitsConserved`, `ImplementsGate` |
| `tick_no_faults` | 3 processes, 2 slots, no fault, with history | `CountedUnitsRun`, `AtMostOneAction` |
| `tick_liveness` | 2 processes, 2 slots, no fault, fairness | `NeverStuck`, `TickCompletes`, `StopLeadsToExit` |
| `tick_missed` | violation | `AllUnitsAct`: a unit may miss a tick |

Two slots and three processes give two units in one tick, a death, a slot given
to a new process while its old owner is still on its way out, and a permit
taken twice by the same unit; one more slot adds only symmetric copies.
`tick_liveness` has as many processes as slots and no fault, because its
properties are false otherwise. Change its configuration to see how:

* `Faults = {"blocked"}`: a scenario placement that is skipped leaves its slot
  reserved; CC counts it and the first tick never ends (`TickCompletes`);
* `Faults = {"window"}`: a SIGTERM between the test of the stop flag and
  `semop` is lost and CC waits for the unit (`StopLeadsToExit`);
* `MAX_UNITS = 1` with two processes: the late `mark_dead` of a slot's old owner
  hits the new one, and CC may wait for a permit nobody posts (`NeverStuck`,
  `TickCompletes`).

Deadlock is checked in
`tick_no_faults` and `tick_liveness`; `tick_safety` switches it off, because with
a lost signal or a leaked slot the system does stop for good. TLC's test is weak
here, since an order to stop is possible at almost any time. `NeverStuck` is the strong form:
until CC has exited, CC or a unit can take a step of its own, without a spawn
request, an order or a signal. `AtMostOneAction`
is checked without faults and proved with all of them.

### Fairness

`WF_vars(CCStep)` and `WF_vars(UnitStep(p))`: the kernel schedules every process
that can run. Spawn requests, freezing and orders to stop are not forced. Weak
fairness is enough for the semaphores, since a waiting process is only
overtaken a bounded number of times per tick: permits are finite.

### Proofs

`TickBarrierProofs.tla` proves, for any number of slots and processes, any
scenario and any set of faults, types, the safety properties of `tick_safety`,
and three more: CC works between ticks only while no unit is inside one and no permit
is left (`QuietBetweenTicks`), a unit is in the tick it has recorded
(`StepsInCurrentTick`), and
the counter moves only when nobody is inside a tick (`TicksMoveWhenQuiet`). The
invariant is `IInv`: types, the lock, the conservation of permits and quiet
between ticks depend on each other. That the ticks do not move while a unit is inside
needs that there is no permit left, which needs that CC has collected all,
which is arithmetic on conservation; conservation needs finite sets of
processes, hence the lemmas about cardinalities. For `AtMostOneAction` the
invariant adds that whoever has acted has recorded the current tick. The
refinement follows: initial states map to initial states and each action to a
step of the gate or a stutter.

`CountedRun` proves `CountedUnitsRun` without faults, for any number of slots, so
with slots reused too: the invariant adds that the pid in a slot is that of a
process forked for this slot (`OwnersAreForked`). A late `mark_dead` can only hide
a unit from CC's count, it cannot make CC count one that is gone.

`SomebodyCanGoOn` and `BattleGoesOn` prove `NeverStuck`, without faults. ENABLED is
out of the prover's reach, so `CCReady` and `UnitReady` write the guards out; that
they say the same as `ENABLED CCStep` and `ENABLED UnitStep(p)` TLC has confirmed
on the states of `tick_liveness`. Only three waits matter, and the invariant
`Progress` has a part for each. CC waits for a done permit: there is always a unit
for each start permit on offer or still to be posted (`TakersForAll`), because CC
counts slots, each counted slot has a process of its own, and before a stop only
units that are dead in the registry leave (`OnlyTheDeadLeave`, `MarkedAlive`). CC
waits for its children: every process is in its slot, has been signalled or is leaving
(`NobodyForgotten`), so the shutdown tells all (`AllAreTold`), and who has been
told does not wait for a semaphore (`SignalsWake`). Anyone waits for the lock: its
holder is running. `SomebodyCanGoOn` holds in every behaviour in which no two living
processes share a slot (`SlotsUnshared`), slots that are freed and given away again
included. The code does not ensure that, and the third case above shows that
it matters. `BattleGoesOn` has no such
condition: with a slot for each unit of the scenario, and no unit spawned afterwards,
slots are never shared (`Settled`).

Liveness is checked by TLC only: the prover does not handle ENABLED.

## 4. Spawn requests and fighter bays

`SpawnBay.tla` models the exchange of `MSG_SPAWN` requests and replies between
battleships, the console manager and CC's drain loop.

| Variable | Code |
|---|---|
| `phase` | where CC's main loop is: draining, or inside a tick |
| `alive`, `owner`, `side` | `units[].alive`, `.pid`, `.faction` |
| `reqs`, `reps` | the spawn messages of `q_req`; `q_rep`, by `mtype` |
| `console` | a console manager: at its prompt, polling, told to stop, in its last poll, gone |
| `slot`, `faction`, `bay` | a unit's arguments and its `st.fb.current` |
| `step` | how far a unit is in this tick: before its first critical section, between the two, done |
| `forked`, `parent` | pids so far; history: on whose request a unit was forked |

| Action | Code |
|---|---|
| `ServeRefused`, `ServeFailed`, `ServeLaunched` | one turn of the drain loop: no room on the grid; `spawn_squadron` returns -1 and the status is 0 all the same; success |
| `StartTick`, `EndTick` | the queue is empty, units are counted; `cleanup_dead_units` |
| `ShipBegins`, `ShipActs` | the two critical sections of a battleship's step: read and count replies; ask if there is room |
| `UnitDies` | hit points at zero, also on a second start permit of the same tick |
| `ConsoleAsks`, `ConsoleReads` | `send_and_wait` with a spawn command: ask, the poll's end |
| `ConsoleTold` | `g_stop` is set, in a poll or outside one |
| `ConsoleMisreads` | a control command in the last round, whose wait takes the spawn reply left behind |

`SPAWN` commands with a bad type or faction never leave the console
(`parse_command` rejects them), so CC's own test of them is not a case of the
model. Units spawned by the console do not ask for squadrons in the model; they are
of the factions in `Hired`, a bound of the model. A reply is its status: the child's ids
only go into `underlings[]` (section 5). All
battleships have the same `Capacity`. A full `q_req` is the fault `"traffic"`
(it is filled by other messages); `q_rep` has room for `RepMax` messages. While
CC is frozen it keeps draining, which is the model's `"drain"` phase lasting
longer.

A console that polls for a spawn reply leaves the loop when `g_stop` is set
(`console_manager.c:219`), but its round goes on: if the FIFO of the UI was ready too, it
asks once more (`:411`) before it looks at `g_stop` again. This is the state
`"leaving"`. So a console that has been told to stop may have two messages under way;
before that it has one at most, and none at its prompt.

`BayAccount.tla` is what the protocol promises a battleship: an account with at
most one request pending, in which only a grant adds a squadron.
`SpawnRefinement.tla` finds the pending request in the two queues.

| Run | Instance | Shows |
|---|---|---|
| `spawn_safety` | 2 battleships of capacity 1, 1 console that hires for one side, 3 slots, 4 processes, `q_rep` of 2, all faults; 990,637 states | `OneOutstanding`, `BayWithinCapacity`, `InheritsFaction`, `ImplementsAccount` |
| `spawn_exact` | 1 battleship of capacity 2, 1 console that hires for the other side, enough slots, `q_rep` of 3, no fault, fairness; 185,690 states | `BayCountsSquadrons`, `ConsoleAnswered` |

Two senders and a console make the queues interleave, three slots for four
processes make a slot be reused, a reply queue of two overflows: each battleship may
have one reply in it and a console that was told to stop two. The exact properties need what they assume: with a reply lost, or a
failed spawn reported as a success, the count is wrong, and a battleship then
has one squadron more or fewer than its bay. `BayWithinCapacity` and
`ImplementsAccount` hold even then.

Fairness in `spawn_exact`: CC's loop goes on (section 3: ticks complete), a unit
in its step finishes it, a console that polls reads. Nothing else is forced.

**Proofs.** `SpawnBayProofs.tla` proves, for every fleet, registry and queue size
and every fault, `TypeOK`, `OneOutstanding` and `BayWithinCapacity`. The
inductive invariant bounds what a console has under way by where it is
(`ConsolesWithinBounds`), and adds where a battleship can be while its message is under
way: one between its two critical sections has none (it has just read the
reply, and the drain loop left no request), and a battleship whose message is
under way has room for one more squadron. From it follows that every step is a step of
the account or a stutter.

`InheritsFaction` has an invariant of its own, also under every fault: an occupied
slot carries its owner's faction, and a request names the slot of the battleship
that sent it, which keeps that slot to itself as long as it lives (`Agreement`).
`BayCountsSquadrons` is proved for any number of battleships, under the conditions
it needs: no fault, `q_rep` with a place for each battleship and two for each console,
and a slot always free. A registry larger than the number of processes is enough for the last
(`SpawnCountsInLargeRegistry`).

## 5. Commanders and underlings

`Command.tla` models how a squadron finds a commander and how a battleship gives
orders.

| Variable | Code |
|---|---|
| `alive`, `owner`, `side`, `kind` | the registry |
| `asking`, `reqs` | `MSG_SPAWN` of battleships and `MSG_COMMANDER_REQ` in `q_req` |
| `orders`, `replies`, `announced` | orders in `q_req`; commander and spawn replies in `q_rep`, by recipient |
| `underlings` | each battleship's array |
| `commander`, `order`, `ward` | a squadron's `commander`, `order` and `target_ter` |
| `step`, `slot`, `forked` | as in `SpawnBay` |

`ShipActs` is a battleship's whole step: spawn replies into `underlings[]`, all
commander requests accepted while there is an empty entry, dead entries cleared,
an order for each that is left, perhaps a spawn request. The first half runs in
a critical section of its own; it touches only the battleship's own state and
messages, so nothing can come between the halves that matters. `SquadronActs`
is a squadron's step in the order of the code: replies, orders, the look at the
commander, perhaps a request, then the order is carried out as far as the ward.
`Spawn` is a turn of CC's drain loop that launches a squadron, for a battleship (which
may have died and been cleaned up since) or for the console; `SpawnShip` is one that
launches a battleship for the console. What the console may ask for is a bound of the
model: `Hired` has its squadrons, `Yard` which of the processes still to come are
battleships, and of which side. A slot given away is the first that is free. `UnitDies` and `EndTick` free slots,
which are then reused.

Left out: positions (an ally is in sight if there is one, unless the fault
`"distance"` is on), what a battleship aims at (free among the kinds of living
enemies), secondary targets. Elites count as fighters. What only a dead process
could read or had stored is forgotten when it dies. A battleship that has an
underling on its list twice sends the same order twice; the model sends it once.
Faults `"traffic"` (a message is lost) and `"missed"` (a tick ends without a
unit's action, section 11) are off in the runs.

| Run | Instance | Shows |
|---|---|---|
| `command_orders` | 1 battleship of the scenario, then one that the console hires for the same side, 2 squadrons (of the bay of either; hired by the console: a fighter of their side or a bomber of the other), 4 slots, fairness; 303,704 states | `OneMaster`, `KnownToCommander`, `MasterlessPatrol`, `WardsAreFriends`, `OrphansAdopted` |

Everything but the first battleship is spawned during the run, into a free slot or
that of a unit that has died. The invariants exempt states in which a slot has been
used twice (`NoReuse`; CC gives the first free slot, so that is when anything has been
spawned after the first death was cleaned up), because the code's slot numbers then
really are ambiguous: a battleship may order about, and a squadron follow, whoever has the
slot now; a squadron spawned for a battleship that has just died can even be
its own commander.

`KnownToCommander` has one more condition, `Few`: at most `MAX_UNITS / 2`
squadrons have been born. A squadron repeats its request in every tick until it reads a reply, so a
battleship that acts after it finds two, and enters both without looking whether
the squadron is on the list (`battleship.c:137`). Two squadrons are enough to fill
an array of four, and a squadron born for the battleship's own bay, with it as its
commander, is then dropped from the list (`battleship.c:437`) and never gets an
order. Drop `Few`, and let `Wing` be two squadrons of the battleship's side and `Yard`
empty, to see it. With `"missed"` on `Few` does not help: one squadron can fill the array
alone, if the battleship misses as many ticks as it has entries.

Fairness is that the battle goes on (`WF_vars(Acts)`): CC takes its next step or some
unit acts. A tick does not end before every unit has acted, so each has its turns.
Death and spawning are not forced.

**Proofs.** `CommandProofs.tla` proves the four safety properties for every fleet,
wing and registry. Each has an invariant of its own above `Bookkeeping`: types, who
has which slot, and that lists, requests and orders only name units that were
born. `Bookkeeping` needs no condition.

* `OneMaster` and `MasterlessPatrol` follow from `Allegiance`, if no message is
  lost: a battleship that has a squadron on its list is the one the squadron has
  been promised (it follows it, or the reply is under way), and who still asks is on no
  list. Repeated requests are harmless because a battleship takes all there
  are in one critical section.
* `WardsAreFriends` follows from `Kinship`, with any fault, if all battleships, the
  hired ones too, are of one side (`OneSide`): whoever alive a squadron has been told to guard is of its side. The
  console may hire squadrons of the other side.
* `KnownToCommander` needs that no message is lost and no tick missed, and counts:
  at most two requests of a squadron are queued (`Repeats`), so it has at most two
  entries of a list (`Multiplicity`), so under `Few` the list has a free entry for
  whoever comes (`RoomForAll`, a pigeonhole argument). Requests that no battleship is
  there to read could pile up for one hired later; they do not, because a squadron asks
  only when it sees a battleship, and after a death nothing is spawned without reuse
  (`Tidy`, `NobodyHasDied`).

`OrphansAdopted` is liveness and stays with TLC.

## 6. Damage

`Damage.tla` follows a shot: the shooter takes the pid of its target from the
registry, puts a message for that pid into `q_req` and sends it SIGRTMAX; the
handler raises `g_damage_pending`; the target drains its messages at the start
of its next step and dies if its hit points run out.

| Variable | Code |
|---|---|
| `pid`, `alive` | `units[].pid`, `.alive` |
| `proc` | where a process is: `unborn`, `boot` (no handler yet), `armed`, `run`, `acting`, on its way out, `gone` |
| `slot`, `hp`, `pending`, `stop` | `unit_id`, `st.hp`, `g_damage_pending`, `g_stop` |
| `inbox` | its `MSG_DAMAGE` messages: how many, and their sum |
| `cause`, `closing` | history: why it left; has CC begun to shut down |

| Action | Code |
|---|---|
| `Fork`, `Cleanup`, `BeginShutdown`, `Shutdown` | CC: spawn a unit, `cleanup_dead_units`, SIGTERM to each unit in turn |
| `Arm`, `RegisterSelf` | a unit installs its handlers, then corrects its registry entry |
| `Enter` | the start of a locked step: flag, drain, hit points, `mark_dead` |
| `Shoot`, `HoldFire` | the end of the step: `unit_weapon_shoot` for every weapon |
| `FoundDead`, `Interrupted`, `LateMark` | the other ways out of the loop, and `mark_dead` at the end of `main` |

`HitPoints.tla` is the promise, an account per unit: what is accepted is owed
until it is settled, all that is owed is settled at once, and a unit that died
of its wounds is not hit again.

| Run | Instance | Shows |
|---|---|---|
| `damage` | 3 processes on 2 slots, 2 hit points, volleys of up to 2, 3 messages queued, fairness | `NoLostWakeup`, `OrphansExplained`, `SettledBeforeActing`, `FatalDamageKills`, `KeepsAccount` |

Three processes on two slots: two fight, one dies, the third takes its slot while
the late mark of the first is still to come. Two weapons of one point against two
hit points make a unit die of one volley or of two units' shots. `MaxQueued`
stops a process from being shot at when three messages wait for it. Deadlock is
not checked: a battle ends.

Fairness: a unit that can take a step takes it (section 3: ticks complete),
finishes it and finishes `main`. Nobody is forced to shoot, CC not to stop.

**Proofs.** `DamageProofs.tla` proves types, `NoLostWakeup`, `OrphansExplained`,
`SettledBeforeActing` and the refinement for every registry, fleet, volley and
queue size. The invariant adds that the pid in a slot is that of a process forked
for that slot (`RightRecipient`), that nobody has messages before its handlers are
in place (`EmptyUntilArmed`), that there is no damage without a message
(`MessagesCarryDamage`), that hit points run out only for a process that leaves
for that reason (`AliveAndWell`), and that the slot of a unit which died of its
wounds stays marked, so nobody finds it to shoot at (`DeadStayMarked`). `FatalDamageKills` is
liveness and stays with TLC.

Assumed: a signal is delivered before its process gets through its next system
call; pids are not reused within a battle, and no pid equals another pid plus
100000 (the mtype of orders).

## 7. Console and control

`Console.tla` models the console managers, the map threads of the user
interfaces, CC's console thread and what CC's main loop does with the settings
they share.

| Variable | Code |
|---|---|
| `cmds`, `maps`, `replies`, `queues` | `MSG_CM_CMD` and `MSG_UI_MAP_REQ` in `q_req`; `q_rep` by recipient; do the queues exist |
| `settings` | `g_frozen`, `g_tick_speed_ms`, `g_grid_enabled`, `g_stop` |
| `main`, `since` | place in `main`'s loop; ticks begun since the freeze |
| `thread`, `answer` | place in `console_thread_func`; the response under construction |
| `console`, `expected`, `nextId` | a console's place in its round, the request it waits for and whether it is END, `g_next_req_id` |
| `viewer`, `asked` | a map thread's place, its requests so far |
| `fault` | what goes wrong in this run |

| Action | Code |
|---|---|
| `Ask`, `Receive`, `Broken`, `Signal` | `send_and_wait`: send, the reply, the queue removed under it, a signal |
| `Quit` | a signal outside a wait, `quit`, the end of stdin, a last round without a line from the UI |
| `NoCommandThere`, `HandleCommand`, `Reply` | `handle_cm_command`: receive, apply, answer |
| `ServeMap`, `MapsServed` | the drain of map requests in the thread's round |
| `Look`, `Tick` | the main loop reads `g_stop` and `g_frozen`, then runs a tick |
| `Join`, `Destroy` | CC joins the thread, waits for the units, removes the queues |
| `AskMap`, `ReceiveMap`, `LeaveMap` | the map thread of `src/UI/ui_map.c` |

A console's round (`console_manager.c:354-441`) takes what `select` has found: a line
from stdin, then a line from the FIFO of the UI. `g_stop` is looked at between two
rounds only. A signal ends the wait for the answer to the first line: the handler is
installed with `signal()` and `msgrcv` is never restarted, so `send_and_wait` returns -1
and the same round goes on to the FIFO, where it may send a second command and block
again. Hence the places of a console:

| `console[c]` | Code |
|---|---|
| `prompt` | a round has begun or is about to, nobody has set `g_stop` |
| `stdin`, `fifo` | waiting for the answer to a line from there |
| `leaving` | `g_stop` is set and the round may still come to the FIFO |
| `last` | `g_stop` is set and it waits for the answer to that line |
| `gone` | the loop is left |

After END the loop is left whatever `send_and_wait` returned. `quit` sets `g_stop` like a
signal, and its round goes on too. A signal that comes after `select` or just before
`msgrcv` blocks sets `g_stop` and ends no wait; the console then does what one does that is
told when that wait is over, and this is how the model has it. In the wait of its last
round a console may also take the reply to a spawn request it gave up (`Signal` at
`last`, and `ConsoleMisreads` in section 4).

`Control.tla` is the promise: settings that change by one command at a time;
a command takes effect at most once, at one moment between call and answer, and
the answer tells the settings of that moment. A console calls again when its last call
is over (`Free`), and only one that is leaving before that. `Asked` finds the
calls in `q_req`, `Given` and `Arrived` the answers in the thread's hands and in `q_rep`.

| Run | Instance | Shows |
|---|---|---|
| `console` | 2 consoles, 1 viewer, commands freeze, getspeed, end and setspeed of -1; 2 commands in all, 1 map request; queues of 2; faults: none, a queue filled by others, no thread; fairness; 546,817 states | `RepliesMatch`, `FrozenWithinOneTick`, `Answered`, `StopEndsWaits`, `ImplementsControl` |

`RepliesMatch` says when the test of the request id in `send_and_wait` (`:273`) can fail:
a console that has not been told to stop never finds another command's answer, and one
that has finds at most the one answer it gave up, reports the mismatch and leaves.
`:23` promises to "Wait for responses before accepting new input"; the last round accepts a
line from the UI without the response to the line from stdin.

Two commands in all give two consoles at once, one console asking twice, and a console
that is told to stop in its first wait and asks again. The reply queue of two is full of
the two answers to such a console, or of one such answer and another's or a map's; the
next reply is lost (`fault` becomes `"lost"`), as it may be to messages outside
the model. A viewer has left when it has made its last request (`Back`, a bound of the
model). `unfreeze`, `setgrid`, `getgrid` and a `setspeed` that is accepted are in the module
and in its proofs but not in the run: with them the instance is too large, and each repeats
the pattern of one that is in. `SPAWN` shares the reply queue but belongs to section 4.
Deadlock is not checked: the simulation ends.

Fairness: both threads of CC run; a reply that is there is received and a broken
wait ends. Nobody is forced to ask, to quit or to stop. `Answered` holds as long as
nothing has gone wrong: if CC could not create its thread, or a reply has been lost on a
full queue, the console waits until the end of the simulation, which
`StopEndsWaits` says ends every wait.

**Proofs.** `ConsoleProofs.tla` proves types, `RepliesMatch`,
`FrozenWithinOneTick` and the refinement, for any consoles, viewers, commands and
queue sizes. The invariant (`Pending`) speaks of the ids a console has under way, in
`q_req`, in the thread's hands and in `q_rep`: each is in one place and below the next id
(`Apart`), and how many there are depends on where the console is (`Fits`): none at the prompt,
its own in a wait, one that it gave up when it is leaving, and that one beside its own
in its last wait. When the queues are gone they are empty (`Ends`); the count of
ticks since a freeze agrees with the place of the main loop (`FreezeCounts`).
That a console told to stop is gone after its last round is what keeps its leftover
replies from being read: the next console has another pid.

## 8. Grid and movement

`Grid.tla` holds the pure part: cells, footprints (`Pattern`, up to 13 cells),
`CanFit`, `Placed`, `Removed`, `ClosestCell`, the goal within the detection
radius (`Goal`), the points a patrol may choose (`PatrolPoints`), and a step
(`NextStep`): stay when close enough, jump to a goal within the speed, otherwise
the nearest cell to the goal that a breadth-first search within the speed radius
reaches and the footprint fits. What the search reaches is the limit of widening the
set of cells by their open neighbours (`Open`, `Widened`, `Reachable`),
the order of the code's loops the order of its `First` cell.

`Movement.tla` is the field in motion:

| Variable | Code |
|---|---|
| `grid`, `alive`, `kind`, `pos` | `S->grid`, `units[].alive`, `.type`, `.position` |
| `owner` | the process of a slot: none, booting, running, gone |
| `acting` | units past their tests in this tick |
| `target`, `have` | `target_pri`, `have_target_pri` |
| `late`, `struck` | `mark_dead` calls still to come from old owners; history: has one hit a new owner |
| `spawned` | bound of the model |

| Action | Code |
|---|---|
| `Spawn`, `Cleanup` | `spawn_squadron` with its fit test; `cleanup_dead_units` |
| `Register`, `Begin`, `Die`, `LateMark` | boot, the test of `alive`, `mark_dead` under the lock, `mark_dead` after the loop |
| `Patrol`, `Skirmish`, `Attack`, `Guard`, `Drift` | the branches of `battleship_action` and `squadrone_action` with `unit_patrol_action`, `unit_attack_action`, `unit_guard_action` and `unit_move` |

Every action of a unit computes the plan its branch makes (keep the point, drop it,
choose one; a guard that drops a target too far from its ward comes near to the ward
instead) and then moves by it. Which order a unit has and which enemies it
sees is open: every plan that some order can make from the registry is possible.

| Run | Instance | Shows |
|---|---|---|
| `movement` | a 4 by 3 field, 2 slots, units of sizes 1 to 3 and speeds 1 and 2, three scenarios with and without an obstacle, one spawn (one of them partly off the field), late marks; 82,173 states | `GridMatchesRegistry`, `PatrolGetsCloser`, `ObstaclesStay`, `StepsWithinSpeed` |

On 4 by 3 cells a footprint of 13 is cut at every edge, two units cannot avoid
each other and an obstacle blocks the search. `GridMatchesRegistry` holds up to
the first late mark that hits a new owner (`struck`). `PatrolGetsCloser` is
about a unit alone on a field without obstacles, wholly on it, that detects
further than its size. Without the first of the last two conditions a large unit in a corner finds no cell within
its speed where it fits, and stays for ever; without the second a goal no
nearer than the detection radius already counts as reached (the tables have no such unit). Deadlock is not
checked: all may die.

**Proofs.** `MovementProofs.tla` proves types, `GridMatchesRegistry`,
`PatrolGetsCloser`, `ObstaclesStay` and `StepsWithinSpeed` for every field, fleet,
scenario and speed. The invariant adds that a slot in use is
on the field (`InPlace`), that only registered units act (`ActorsRun`), that
`alive` tells who is there until a late mark hits a new owner (`MarksAreTrue`),
and that no footprint covers an obstacle (`ClearOfObstacles`); the last is what lets `Removed` and
`Placed` be seen as exact. That a nearest and a first cell exist is
proved by a least-key lemma. For these any cell the footprint fits on would do as the end of a
search.

`PatrolGetsCloser` needs to know what the search finds, which is the longest argument
here:

1. *The search.* It is a recursive function of the cells found so far. Such a function
   exists, and whichever it is, it ends with a set that grows no more (`SearchEnds`).
   On a field without obstacles that set holds every cell within the speed: of those it
   missed, one nearest to the unit would have a neighbour nearer still, and that
   one has been found (`SearchMeetsAll`).
2. *Boxes.* A set of cells is a box if it holds whatever lies between two of its cells, row
   by row and column by column. The field is one, and so are the cells on
   which a footprint fits (`FitIsBox`). In a box that holds the unit and a goal further
   away than its speed, the nearest cell to the goal on the edge of the unit's disk
   lies between the two (`TowardsRim`: the median of three coordinates
   gives a nearer cell to any that does not).
3. *The step.* A goal within the detection radius is the target or lies between unit and
   target. The step ends on the goal or, by 1 and 2, on a cell between unit and goal, and
   a cell between is nearer (`BoxDistances`, `BoxInBox`, `MoveGetsCloser`).

Induction appears as a least counterexample (well-foundedness of the naturals), since
the induction theorems take an operator the provers cannot instantiate.

## 9. Engagement

`UnitTables.tla` holds the statistics, loadouts, accuracies and multipliers of
`unit_stats.c` and `weapon_stats.c`, and two decisions that read them: which
weapons have an effect (`Effective`) and how near to come (`Approach`).

`Engagement.tla` is who shoots at whom: each slot's `unit` (type, side, place),
`owner`, `alive`, the secondary target `sec`, `order`, `ward`, the orders that wait in
the `mail`, and the `volley` just fired. `BattleshipStep` and `SquadronStep` are whole
locked steps: radar scan, choice or keeping of a target, the move, the second
scan that drops a target out of sight, fire with the fall-back search, and a
battleship's orders. A squadron reads its orders from first to last; each attack sets its
target, each guard of a living unit its ward, and the last order is the one it obeys. `Die`, `Cleanup` and `Spawn` change slots between the steps,
so every slot number held is possibly out of date.

| Run | Instance | Shows |
|---|---|---|
| `engagement` | 3 slots, 5 places on a line, 3 fleets, 1 spawn of 3 kinds, one without a faction, up to 2 orders waiting for a squadron; 633,827 states | `NoFriendlyFire`, `FireNeedsReach`, `ArrivedCanFire`, `AttackOrdersSuit` |

The places 0, 4, 7, 12 and 20 lie on both sides of the ranges 5, 10 and 15 and of
the detection radii that matter. The spawn takes the slot of a dead target, ward or
commander. Two orders (`MaxMail`, a bound of the model: a squadron may miss a tick) are enough
for the later to overrule the earlier. A unit without faction takes everybody for an enemy (below), so
`NoFriendlyFire` does not judge its shots. `ArrivedCanFire` is about targets
of one cell. Randomness (hits, `rand`) is a free choice, damage is in section 6.

**Proofs.** `EngagementProofs.tla` proves types and the four properties for every
registry, every scenario and every set of places. `IInv` is types, that an
owned slot has a real unit and that what waits in the mail is an order, with the three
properties of a volley. These do not depend on how a target was found: a step looks
again, after its move, at what it is going to shoot, and stale slot numbers in
`sec`, `ward` and `mail` do not get past that. That is the content of the proof: in each branch the
second scan is between the move and the fire. `ArrivedCanFire` rests on lemmas about the tables:
the approach is the least range of the weapons that have an effect.

## 10. Scenario

`Scenario.tla` reads a file line by line over the default scenario, generates
the fleets if no unit was given by hand, puts the obstacles on the grid and
spawns unit after unit.

| Variable | Code |
|---|---|
| `phase`, `lines`, `next` | progress of `scenario_load`, `scenario_generate_placements` and the loop in `main` |
| `map`, `mode`, `count`, `obstacles`, `units` | `scenario_t` |
| `generated` | were the units put up by the program |
| `cells`, `slots`, `forks` | the grid's occupied cells, the registry's slots (`LEAKED` when reserved without a process), failed forks |

| Run | Instance | Shows |
|---|---|---|
| `scenario` | files of 3 effective lines, 5 placement modes, maps from below the least to above the largest size allowed, arrays of 1 obstacle and 9 units, 1 failed fork | `PlacedOnGrid`, `FormationIntact`, `BothSidesAppear` |

An array of 9 holds the default's 8 units, and one more line of a fleet overflows
it. Lines that change nothing are no steps. `FormationIntact` is
about the formations whose spots are meant to be apart (`Orderly`).

**Proofs.** `ScenarioProofs.tla` proves types for every file and all sizes (the arrays
are never written behind their end) and the three properties:

* `PlacedOnGrid` without further condition: every unit that the program puts up is on a
  spot of its own turn that is on the map (`Placement`).
* `FormationIntact` if the field is at least 14 cells high and the sizes are at most
  those of the tables: the spots of different turns are far enough apart
  (`Formed`). The spots of a line depend on those before, so their distance is
  shown by induction over the line, as a least counterexample.
* `BothSidesAppear` if the field has 17 by 17 cells or more and the array room for one unit: the first turn of each side finds a spot on every map
  that the loader lets pass (`Appearing`).

The field of the code is 120 by 40.

## 11. Finding

* `tick_missed` (violation of `AllUnitsAct`): start permits are anonymous. A
  unit that is quick takes two of a tick, answers the second in the skip branch,
  and CC collects all done permits while a slow unit has had none.
  `docs/PROJECT.md:1300` says that all units complete a tick before CC goes on.

## 12. Where the code does other than its documents say, or than it looks

Met while modelling; the models do what the code does. Each names the
configuration that shows it, or the lines.

*Barrier and slots.* The three cases of section 3 (`"blocked"`, `"window"`, slot
reuse). SIGTERM is swallowed by a child between `fork` and `exec`, which still
has CC's handlers (`Damage!Terminates`). SIGRTMAX kills a unit that is still booting,
and its registry entry stays alive, so the tick waits for it for ever.

*Spawning and command.*
* The faction of a squadron is looked up in the slot of the battleship that asked,
  which may have died and been cleaned up: the squadron then has faction 0, or
  that of the slot's new owner. `InheritsFaction` says when it does not happen.
* Commander requests name no side: with an enemy battleship beside one's own (`Yard`
  giving the second one to the other side) it adopts a squadron and sends it orders.

*Movement* (`src/CC/unit_logic.c`, `src/CC/unit_ipc.c`).
* A goal within the speed is jumped to without a test of reachability, and the
  search passes only the centre of a large unit through gaps;
  `docs/CC_MODULE.md` (256, 710) speaks of obstacle avoidance for both.
* A flagship detects as far as the field is wide, so its circle usually has no
  point on the field; it then heads for a stale `target_pri`, at first the corner
  (0,0). The same happens to a squadron told to guard nobody. Guarding units
  compute a point beyond the field's edge and do not clamp it.
* A large unit placed by hand so close to a corner that its footprint is cut can
  move only where it is cut no more. A slow one has no such cell in reach and never moves.
* On patrol a unit that has found an enemy within its approach chooses a
  random patrol point, and `target_pri` is not refreshed while it has an enemy.

*Engagement.*
* The approach is measured to the nearest cell of a target, weapons to its centre
  (`docs/CC_MODULE.md:509` and `:515` speak of the range to the closest cell): a bomber can stop at
  a flagship's edge and not reach it. Fighters and elites whose target no weapon
  affects have an approach of 32766 and stay put.
* When a weapon cannot reach the target the fall-back search finds another unit in
  reach, but the damage goes to the original target.
* A unit without faction attacks everybody.

*Console.*
* A console told to stop while it waits for the answer to a line from stdin may take a
  line from the UI in the same round, send it and wait again, and finds the answer to the
  first (section 7).
* The map thread's comment says "blocking with timeout"; there is no timeout.
* The answer to a freeze may come while one more tick starts.
* `END` is noticed by a main loop asleep between ticks only when the sleep is over.
* A reply that finds `q_rep` full is dropped and its console waits until shutdown;
  the replies that consoles leave behind when they stop are what fills it. The UI's `q` joins a
  map thread that may be blocked in `msgrcv`.

*Scenario.*
* Counts a file does not name keep the default's; `edges` and `scattered` fall
  back to corners although `scenarios/README.md:72` lists them; `placement` in
  `[cis]` is ignored; the documented default width is 80, the code's is `M`, 120.
* A map may be larger than the grid, and `main` then indexes outside it. Spots off
  the map are dropped: six bombers a side on 40 by 20 give four for one side and three
  for the other. The limit of 32 units can leave the second side without any.
* Corners overlap with three or more flagships, more than four capital ships ahead
  of the fighters, or on maps hardly wider than high; later units overwrite the cells of
  earlier ones. A large unit placed by hand erases an obstacle, and a later unit may
  start there. A placement that is skipped leaks its slot (section 3).

## 13. What is only model-checked

* Liveness: `TickCompletes`, `StopLeadsToExit`, `ConsoleAnswered`,
  `OrphansAdopted`, `FatalDamageKills`, `Answered`, `StopEndsWaits`. The prover does
  not handle ENABLED.
* That `CCReady` and `UnitReady` are the guards of `CCStep` and `UnitStep`
  (section 3), for the same reason.

All other properties of the passing runs are theorems, each under the conditions
that its section names. `TypeOK` is proved in every module with a theorem, and can be
added to a configuration to have TLC check it.

## 14. Not modelled

* A crash of a registered unit, or SIGTERM to it from outside. Semaphores are
  used without `SEM_UNDO`, so a crash inside a step stops everybody: plain from
  the code and not worth a model.
* CC's bounded waits at shutdown (it gives up after 100 interrupted `waitpid`
  calls and removes the queues under its children).
* 16-bit truncation of coordinates, numeric types in `[units]` of a scenario, and
  how lines are trimmed and split.
* Dead code: `bfs_next_step_local`, `unit_next_step_towards`,
  `unit_compute_goal_for_tick`, `check_if_occupied`, `get_occupied_cells`,
  `unit_pick_patrol_target_local`, `radar_pick_random_point_in_circle`, and the stop
  on elimination (`command_center.c:848`, switched off with `&& 0`).
* UI drawing and windows, the tee process, logging and the error handler: I/O with no effect
  on the simulation. Key files, the single-instance lock and the run directory:
  start-up I/O.
