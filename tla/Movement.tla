------------------------------ MODULE Movement ------------------------------
(***************************************************************************)
(* Units on the field: who stands where, in the registry and on the grid.  *)
(*                                                                         *)
(* A unit keeps a point it heads for (target_pri).  In a step it keeps,    *)
(* drops or chooses that point under its order, then moves towards it and  *)
(* rewrites its cells.  All of it happens with the global lock held.  Two  *)
(* writes of the same data do not: a process that has left its loop marks  *)
(* its slot dead once more, and CC may have given that slot to a new unit  *)
(* in the meantime (fault "late").                                         *)
(*                                                                         *)
(* Which order a unit has and which enemies it sees is left open here:     *)
(* every plan that some order can make from the registry is possible.      *)
(***************************************************************************)
EXTENDS Grid

CONSTANTS
    MAX_UNITS,           \* slots of the registry
    Kinds, DUMMY,        \* unit types; DUMMY is the type of an empty slot
    SizeOf, SpeedOf, DetectOf,   \* their st.si, st.sp and st.dr
    Approaches,          \* distances weapons are used from
    Scenarios,           \* sets to start from: [obstacles, fleet] records
    Requests,            \* units asked for: [kind, pos] records
    MaxSpawns,           \* bound of the model: units spawned during the run
    Faults               \* "late": mark_dead by a process whose slot is reused

Slots == 1 .. MAX_UNITS

ASSUME MovementAssumption ==
    /\ MAX_UNITS \in Nat /\ MaxSpawns \in Nat
    /\ DUMMY \notin Kinds
    /\ \A k \in Kinds \cup {DUMMY} :
          SizeOf[k] \in 1..3 /\ SpeedOf[k] \in Nat /\ DetectOf[k] \in Nat
    /\ Approaches \subseteq Int
    /\ Requests \subseteq [kind : Kinds, pos : Int \X Int]
    /\ Faults \subseteq {"late"}

VARIABLES
    grid,      \* the shared grid
    owner,     \* each slot's process: "none", "booting", "running" or "gone"
    alive,     \* the registry's alive flags
    kind,      \* its types
    pos,       \* its positions
    acting,    \* units that found themselves alive and will act in this tick
    target,    \* each unit's target_pri
    have,      \* its have_target_pri
    late,      \* old processes that still have to mark the slot dead
    struck,    \* has a late mark_dead hit a new owner?
    spawned    \* units spawned so far

registry == <<owner, alive, kind, pos>>
plans == <<target, have>>
vars == <<grid, registry, acting, plans, late, struck, spawned>>

Nowhere == <<-1, -1>>
NoPlan == <<0, 0>>

OnField(u) == owner[u] # "none" /\ alive[u]
Cells(u) == Footprint(pos[u], SizeOf[kind[u]])
Overlap(a, b) ==
    Footprint(a.pos, SizeOf[a.kind]) \cap Footprint(b.pos, SizeOf[b.kind]) # {}

ASSUME ScenarioAssumption ==
    \A s \in Scenarios :
        /\ s.obstacles \subseteq Points
        /\ DOMAIN s.fleet \subseteq Slots
        /\ \A u \in DOMAIN s.fleet :
             LET ship == s.fleet[u]
             IN  /\ ship.kind \in Kinds /\ ship.pos \in Points
                 /\ Footprint(ship.pos, SizeOf[ship.kind])
                        \cap s.obstacles = {}
        /\ \A u, v \in DOMAIN s.fleet :
             Overlap(s.fleet[u], s.fleet[v]) => u = v

\* the scenario's units stand apart; parts of them may lie off the field
Init ==
    \E s \in Scenarios :
        LET ships == DOMAIN s.fleet
            at(u) == Footprint(s.fleet[u].pos, SizeOf[s.fleet[u].kind])
            on(p) == {u \in ships : p \in at(u)}
        IN  /\ grid = [p \in Points |->
                         IF p \in s.obstacles THEN OBSTACLE
                         ELSE IF on(p) # {} THEN CHOOSE u \in on(p) : TRUE
                         ELSE 0]
            /\ owner = [u \in Slots |-> IF u \in ships THEN "booting" ELSE "none"]
            /\ alive = [u \in Slots |-> u \in ships]
            /\ kind = [u \in Slots |->
                         IF u \in ships THEN s.fleet[u].kind ELSE DUMMY]
            /\ pos = [u \in Slots |->
                         IF u \in ships THEN s.fleet[u].pos ELSE Nowhere]
            /\ acting = {}
            /\ target = [u \in Slots |-> NoPlan]
            /\ have = [u \in Slots |-> FALSE]
            /\ late = [u \in Slots |-> 0]
            /\ struck = FALSE
            /\ spawned = 0

-----------------------------------------------------------------------------
(* CC *)

\* a requested unit: it must fit, and nothing of it may lie off the field
Spawn(u) ==
    /\ owner[u] = "none" /\ ~alive[u]
    /\ \A v \in Slots : owner[v] = "none" /\ ~alive[v] => u <= v
    /\ spawned < MaxSpawns
    /\ \E r \in Requests :
          /\ CanFit(grid, r.pos, SizeOf[r.kind], 0) /\ r.pos \in Points
          /\ grid' = Placed(grid, u, r.pos, SizeOf[r.kind])
          /\ kind' = [kind EXCEPT ![u] = r.kind]
          /\ pos' = [pos EXCEPT ![u] = r.pos]
    /\ owner' = [owner EXCEPT ![u] = "booting"]
    /\ alive' = [alive EXCEPT ![u] = TRUE]
    /\ target' = [target EXCEPT ![u] = NoPlan]
    /\ have' = [have EXCEPT ![u] = FALSE]
    /\ spawned' = spawned + 1
    /\ UNCHANGED <<acting, late, struck>>

\* cleanup_dead_units; the grid is left as mark_dead has left it
Cleanup(u) ==
    /\ owner[u] # "none" /\ ~alive[u]
    /\ owner' = [owner EXCEPT ![u] = "none"]
    /\ kind' = [kind EXCEPT ![u] = DUMMY]
    /\ pos' = [pos EXCEPT ![u] = Nowhere]
    /\ acting' = acting \ {u}
    /\ late' = IF "late" \in Faults /\ owner[u] = "gone"
               THEN [late EXCEPT ![u] = @ + 1] ELSE late
    /\ UNCHANGED <<grid, alive, plans, struck, spawned>>

-----------------------------------------------------------------------------
(* Units: registering, living and dying *)

\* the process writes its entry once more, with the place it was given
Register(u) ==
    /\ owner[u] = "booting"
    /\ owner' = [owner EXCEPT ![u] = "running"]
    /\ alive' = [alive EXCEPT ![u] = TRUE]
    /\ UNCHANGED <<grid, kind, pos, acting, plans, late, struck, spawned>>

\* a unit reads its alive flag, then gives the lock back for a moment
Begin(u) ==
    /\ owner[u] = "running" /\ alive[u] /\ u \notin acting
    /\ acting' = acting \cup {u}
    /\ UNCHANGED <<grid, registry, plans, late, struck, spawned>>

SlotRemoved(u) == Removed(grid, u, pos[u], SizeOf[kind[u]])

\* hp spent, or SIGTERM: mark_dead, and once more on the way out
Die(u) ==
    /\ owner[u] = "running" /\ u \notin acting
    /\ owner' = [owner EXCEPT ![u] = "gone"]
    /\ alive' = [alive EXCEPT ![u] = FALSE]
    /\ grid' = SlotRemoved(u)
    /\ target' = [target EXCEPT ![u] = NoPlan]
    /\ have' = [have EXCEPT ![u] = FALSE]
    /\ UNCHANGED <<kind, pos, acting, late, struck, spawned>>

\* the last mark_dead of a process whose slot CC has cleaned up already
LateMark(u) ==
    /\ late[u] > 0
    /\ late' = [late EXCEPT ![u] = @ - 1]
    /\ alive' = [alive EXCEPT ![u] = FALSE]
    /\ grid' = SlotRemoved(u)
    /\ struck' = (struck \/ owner[u] # "none")
    /\ UNCHANGED <<owner, kind, pos, acting, plans, spawned>>

-----------------------------------------------------------------------------
(* Units: making a plan.  A plan is where to go and how near to get.       *)

Plan(p, has, near) == [target |-> p, have |-> has, approach |-> near]
Others(u) == {v \in Slots \ {u} : OnField(v)}
Aim(u, v) == ClosestCell(pos[u], pos[v], SizeOf[kind[v]])

\* nothing new: an order without its target, or one nobody implements
KeptPlans(u) ==
    {Plan(target[u], have[u], a) : a \in {SizeOf[kind[u]]} \cup Approaches}

\* an enemy: the cell of it that is nearest now
PursuitPlans(u) ==
    UNION {{Plan(Aim(u, v), TRUE, a) : a \in Approaches} : v \in Others(u)}

\* patrol with the point known, reached within near or not
PatrolTo(u, known, has, near, approach) ==
    LET rim == PatrolPoints(grid, u, pos[u], SizeOf[kind[u]], DetectOf[kind[u]])
    IN  IF has /\ ~InDisk(pos[u], known, near) THEN {Plan(known, TRUE, approach)}
        ELSE IF rim = {} THEN {Plan(known, FALSE, approach)}
        ELSE {Plan(p, TRUE, approach) : p \in rim}

\* patrol without an enemy
QuietPatrol(u) ==
    PatrolTo(u, target[u], have[u], SizeOf[kind[u]], SizeOf[kind[u]])

\* patrol with one, seen in this step or before; battleships take the distance
\* of their weapons before they ask whether the point is reached
ArmedPatrol(u, near, approach) ==
    PatrolTo(u, target[u], have[u], near, approach)
        \cup UNION {PatrolTo(u, Aim(u, v), TRUE, near, approach) : v \in Others(u)}
BusyPatrol(u) ==
    UNION {ArmedPatrol(u, a, a) \cup ArmedPatrol(u, SizeOf[kind[u]], a)
             : a \in Approaches}

\* C's division rounds towards zero
Quotient(a, b) == IF a < 0 THEN -((-a) \div b) ELSE a \div b
Root(n) == CHOOSE r \in 0..n : r * r <= n /\ (r + 1) * (r + 1) > n

\* guarding v: keep a distance in which v can move; too near is sent away to a
\* point that need not be on the field.  An enemy, kept or just chosen, that is
\* given up as too far leaves that distance as the one to stop at.
GuardPlans(u) ==
    UNION {
     LET wide == SpeedOf[kind[v]] + SizeOf[kind[v]] - 1
         range == IF wide < 3 THEN 3 ELSE wide
         d2 == Dist2(pos[u], pos[v])
         d == IF d2 = 0 THEN 1 ELSE Root(d2)
         dir == IF d2 = 0 THEN <<1, 0>>
                ELSE <<pos[u][1] - pos[v][1], pos[u][2] - pos[v][2]>>
         away == <<pos[v][1] + Quotient(dir[1] * range, d),
                   pos[v][2] + Quotient(dir[2] * range, d)>>
         post == IF d2 < range * range THEN away ELSE pos[v]
     IN  {Plan(p, TRUE, range) : p \in {post} \cup {Aim(u, w) : w \in Others(u)}}
           \cup (IF d2 < range * range THEN {Plan(away, TRUE, 0)} ELSE {})
       : v \in Others(u)}

-----------------------------------------------------------------------------
(* Units: moving *)

\* unit_move: from a goal within the detection radius to the next cell
NextCells(u, plan) ==
    LET k == kind[u]
    IN  NextStep(grid, u, SizeOf[k], pos[u], Goal(pos[u], plan.target, DetectOf[k]),
                 SpeedOf[k], DetectOf[k], plan.approach)

\* mutant: the old cells are left
MoveToTrailing(u, p) ==
    /\ grid' = Placed(grid, u, p, SizeOf[kind[u]])
    /\ pos' = [pos EXCEPT ![u] = p]

\* unit_change_position rewrites the cells even if the unit stays
MoveTo(u, p) ==
    LET size == SizeOf[kind[u]]
    IN  /\ grid' = Placed(Removed(grid, u, pos[u], size), u, p, size)
        /\ pos' = [pos EXCEPT ![u] = p]

Follow(u, options) ==
    /\ u \in acting
    /\ acting' = acting \ {u}
    /\ \E plan \in options :
          /\ target' = [target EXCEPT ![u] = plan.target]
          /\ have' = [have EXCEPT ![u] = plan.have]
          /\ \E p \in NextCells(u, plan) : MoveTo(u, p)
    /\ UNCHANGED <<owner, alive, kind, late, struck, spawned>>

Patrol(u) == Follow(u, QuietPatrol(u))
Skirmish(u) == Follow(u, BusyPatrol(u))
Attack(u) == Follow(u, PursuitPlans(u))
Guard(u) == Follow(u, GuardPlans(u))
Drift(u) == Follow(u, KeptPlans(u))

Next ==
    \E u \in Slots :
        \/ Spawn(u) \/ Cleanup(u) \/ Register(u) \/ Begin(u)
        \/ Die(u) \/ LateMark(u)
        \/ Patrol(u) \/ Skirmish(u) \/ Attack(u) \/ Guard(u) \/ Drift(u)

Spec == Init /\ [][Next]_vars

-----------------------------------------------------------------------------
(* Properties *)

\* Types.
TypeOK ==
    /\ grid \in [Points -> {0, OBSTACLE} \cup Slots]
    /\ owner \in [Slots -> {"none", "booting", "running", "gone"}]
    /\ alive \in [Slots -> BOOLEAN]
    /\ kind \in [Slots -> Kinds \cup {DUMMY}]
    /\ pos \in [Slots -> Points \cup {Nowhere}]
    /\ acting \subseteq Slots
    /\ target \in [Slots -> Int \X Int]
    /\ have \in [Slots -> BOOLEAN]
    /\ late \in [Slots -> Nat]
    /\ struck \in BOOLEAN
    /\ spawned \in 0 .. MaxSpawns

\* The grid and the registry agree: a cell of the field names a unit exactly
\* when the unit is alive and the cell is in its footprint.  So no two units
\* share a cell and the dead leave none behind.  (A late mark_dead that hits a
\* new owner ends this: see struck.)
GridMatchesRegistry ==
    ~struck => \A u \in Slots, p \in Points :
                  grid[p] = u <=> OnField(u) /\ p \in Cells(u)

\* Nothing that moves, dies or is spawned ever wipes an obstacle off the grid
\* or adds one, late marks included.
ObstaclesStay ==
    [][\A p \in Points : (grid[p] = OBSTACLE) <=> (grid'[p] = OBSTACLE)]_vars

\* A unit moves only in a step of its own, never further than its speed,
\* whichever of the three ways the move was chosen by.
StepsWithinSpeed ==
    [][\A u \in Slots :
          OnField(u) /\ pos'[u] # pos[u] =>
              /\ u \in acting /\ pos'[u] \in Points
              /\ InDisk(pos'[u], pos[u], SpeedOf[kind[u]])]_vars

\* In the open, a patrol gets somewhere: a unit that is alone on a field
\* without obstacles reaches its patrol point or gets nearer in every step.
\* It must itself be wholly on the field, or nothing within its speed may fit,
\* and see further than its own extent, or the first goal on the way counts as
\* reached.
Alone(u) == \A p \in Points : grid[p] \in {0, u}
PatrolGetsCloser ==
    \A u \in acting :
        /\ OnField(u) /\ Alone(u) /\ SpeedOf[kind[u]] > 0
        /\ CanFit(grid, pos[u], SizeOf[kind[u]], u)
        /\ SizeOf[kind[u]] < DetectOf[kind[u]]
        =>  \A plan \in QuietPatrol(u) :
                plan.have /\ CanFit(grid, plan.target, SizeOf[kind[u]], u) =>
                    \A p \in NextCells(u, plan) :
                        \/ InDisk(p, plan.target, plan.approach)
                        \/ Dist2(p, plan.target) < Dist2(pos[u], plan.target)
=============================================================================
