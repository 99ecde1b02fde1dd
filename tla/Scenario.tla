------------------------------ MODULE Scenario ------------------------------
(***************************************************************************)
(* How CC turns a scenario file into the first units of a battle.          *)
(*                                                                         *)
(* scenario_load reads the file line by line over the default scenario;    *)
(* with no unit given by hand scenario_generate_placements puts up the     *)
(* fleets; main then puts the obstacles on the empty grid and spawns unit  *)
(* after unit, under the global lock, which it holds until all are there.  *)
(* A line the loader takes no notice of is no step.  Only the cells        *)
(* somebody occupies are kept: every other cell of the grid is 0.          *)
(***************************************************************************)
EXTENDS Grid, SequencesExt

CONSTANTS
    MAX_OBSTACLES, MAX_INITIAL_UNITS,   \* sizes of the scenario's arrays
    SizeOf,          \* st.si of each type of unit
    MapLines,        \* what the file may say: numbers for width and height,
    ObstacleLines,   \*   points,
    CountLines,      \*   [side, type, n] records,
    PlacementLines,  \*   modes of placement,
    UnitLines,       \*   and [type, side, pos] records
    Draws,           \* what rand() may yield: pairs, for x and for y
    LEAKED,          \* a slot that is reserved and has no process
    MaxLines,        \* bounds of the model: lines of the file
    MaxForkFailures  \*   and failed forks

Sides == {"republic", "cis"}

Types == {"flagship", "carrier", "destroyer", "fighter", "bomber", "elite"}
Ships == {"flagship", "carrier", "destroyer"}
Units == [type : Types, side : Sides, pos : Int \X Int]

ASSUME ScenarioAssumption ==
    /\ MAX_OBSTACLES \in Nat /\ MAX_INITIAL_UNITS \in Nat
    /\ \A t \in Types : SizeOf[t] \in 1..3
    /\ MapLines \subseteq Int
    /\ ObstacleLines \subseteq Int \X Int
    /\ CountLines \subseteq [side : Sides, type : Types, n : Int]
    /\ PlacementLines \subseteq
         {"corners", "edges", "random", "line", "scattered"}
    /\ UnitLines \subseteq Units
    /\ Draws \subseteq Nat \X Nat
    /\ MaxLines \in Nat /\ MaxForkFailures \in Nat

VARIABLES
    phase,      \* "loading", "generating", "placing", "spawning" or "running"
    lines,      \* lines read
    map,        \* the scenario's width and height
    mode,       \* its mode of placement
    count,      \* how many of each type for each side
    obstacles,  \* its array of obstacles
    units,      \* its array of units
    generated,  \* were the units put up by the program?
    next,       \* the unit to put up or to spawn next
    cells,      \* the occupied cells of the grid: a unit's slot or OBSTACLE
    slots,      \* registry: units spawned and slots leaked
    forks       \* forks that failed

scenario == <<map, mode, count, obstacles>>
vars == <<phase, lines, scenario, units, generated, next, cells, slots, forks>>

\* scenario_default: both sides alike
Init ==
    /\ phase = "loading" /\ lines = 0
    /\ map = [width |-> M, height |-> N]
    /\ mode = "corners"
    /\ count = [s \in Sides |->
                  [t \in Types |-> CASE t \in {"carrier", "destroyer"} -> 1
                                     [] t = "elite" -> 2
                                     [] OTHER -> 0]]
    /\ obstacles = <<>> /\ units = <<>>
    /\ generated = FALSE
    /\ next = 1
    /\ cells = <<>> /\ slots = <<>>
    /\ forks = 0

-----------------------------------------------------------------------------
(* scenario_load *)

Read ==
    /\ phase = "loading" /\ lines < MaxLines
    /\ lines' = lines + 1
    /\ UNCHANGED <<phase, generated, next, cells, slots, forks>>

\* mutant: too small a map is let pass
ReadMapAnySize ==
    /\ \E n \in MapLines :
          \/ map' = [map EXCEPT !.width = IF n > 200 THEN M ELSE n]
          \/ map' = [map EXCEPT !.height = IF n > 100 THEN N ELSE n]
    /\ Read /\ UNCHANGED <<mode, count, obstacles, units>>

\* a number out of bounds stands for the size of the grid
ReadMap ==
    /\ \E n \in MapLines :
          \/ map' = [map EXCEPT !.width = IF n \in 40..200 THEN n ELSE M]
          \/ map' = [map EXCEPT !.height = IF n \in 20..100 THEN n ELSE N]
    /\ Read /\ UNCHANGED <<mode, count, obstacles, units>>

ReadObstacle ==
    /\ Len(obstacles) < MAX_OBSTACLES
    /\ \E p \in ObstacleLines : obstacles' = Append(obstacles, p)
    /\ Read /\ UNCHANGED <<map, mode, count, units>>

ReadCount ==
    /\ \E l \in CountLines : count' = [count EXCEPT ![l.side][l.type] = l.n]
    /\ Read /\ UNCHANGED <<map, mode, obstacles, units>>

\* only the section [republic] has a placement
ReadPlacement ==
    /\ mode' \in PlacementLines
    /\ Read /\ UNCHANGED <<map, count, obstacles, units>>

ReadUnit ==
    /\ Len(units) < MAX_INITIAL_UNITS
    /\ \E u \in UnitLines : units' = Append(units, u)
    /\ Read /\ UNCHANGED scenario

\* the end of the file; one that cannot be opened has no lines
Loaded ==
    /\ phase = "loading"
    /\ generated' = (units = <<>>)
    /\ phase' = IF units = <<>> THEN "generating" ELSE "placing"
    /\ UNCHANGED <<lines, scenario, units, next, cells, slots, forks>>

-----------------------------------------------------------------------------
(* scenario_generate_placements *)

\* a side's ships and squadrons, in the order they are put up
Fleet(side) ==
    LET n(type) == IF count[side][type] < 0 THEN 0 ELSE count[side][type]
        all(type) == [i \in 1 .. n(type) |-> type]
    IN  all("flagship") \o all("carrier") \o all("destroyer")
            \o all("fighter") \o all("bomber") \o all("elite")

\* the k-th of a side stands on a diagonal from its corner
CornerSpot(side, k) ==
    LET type == Fleet(side)[k]
        step == CASE type = "flagship" -> 4
                  [] type \in {"carrier", "destroyer"} -> 3
                  [] OTHER -> 2
        near == CASE type \in {"flagship", "carrier"} -> 5
                  [] type = "destroyer" -> 8
                  [] type = "fighter" -> 10
                  [] type = "bomber" -> 12
                  [] type = "elite" -> 14
        far == IF type = "flagship" THEN near + 1 ELSE near + 3
        way == (k - 1) * step
    IN  IF side = "republic" THEN <<near + way, near + way>>
        ELSE <<map.width - far - way, map.height - far - way>>

\* mutant: x is not advanced behind a destroyer
SpacingStuck(type) ==
    CASE type = "flagship" -> 10 [] type = "carrier" -> 8
      [] type = "destroyer" -> 0 [] OTHER -> 4

Spacing(type) ==
    CASE type = "flagship" -> 10 [] type = "carrier" -> 8
      [] type = "destroyer" -> 6 [] OTHER -> 4

\* x of every unit of a line
Line(fleet) ==
    LET x[k \in DOMAIN fleet] ==
            IF k = 1 THEN 10 ELSE x[k - 1] + Spacing(fleet[k - 1])
    IN  x

LineSpot(side, k) ==
    <<Line(Fleet(side))[k],
      IF side = "republic" THEN map.height \div 3
                           ELSE (map.height * 2) \div 3>>

\* each side has its half of the map
RandomSpot(side, draw) ==
    LET half == map.width \div 2
    IN  <<(IF side = "cis" THEN half ELSE 0) + (draw[1] % half),
          draw[2] % map.height>>

\* edges and scattered have no code of their own
Spots(side, k) ==
    CASE mode = "line"   -> {LineSpot(side, k)}
      [] mode = "random" -> {RandomSpot(side, d) : d \in Draws}
      [] OTHER           -> {CornerSpot(side, k)}

\* mutant: the map has no left and no upper edge
OnMapUpperOnly(p) == p[1] < map.width /\ p[2] < map.height

OnMap(p) == p \in (0 .. map.width - 1) \X (0 .. map.height - 1)

\* ADD_UNIT: without room or off the map there is no unit
AddUnit(unit) ==
    units' = IF Len(units) < MAX_INITIAL_UNITS /\ OnMap(unit.pos)
             THEN Append(units, unit) ELSE units

Generate(side, k) ==
    /\ phase = "generating"
    /\ next = IF side = "republic" THEN k ELSE Len(Fleet("republic")) + k
    /\ \E p \in Spots(side, k) :
          AddUnit([type |-> Fleet(side)[k], side |-> side, pos |-> p])
    /\ next' = next + 1
    /\ UNCHANGED <<phase, lines, scenario, generated, cells, slots, forks>>

Generated ==
    /\ phase = "generating"
    /\ next > Len(Fleet("republic")) + Len(Fleet("cis"))
    /\ next' = 1
    /\ phase' = "placing"
    /\ UNCHANGED <<lines, scenario, units, generated, cells, slots, forks>>

-----------------------------------------------------------------------------
(* main: obstacles, then units *)

Put(value, points) ==
    [p \in DOMAIN cells \cup points |-> IF p \in points THEN value ELSE cells[p]]

\* an obstacle off the grid is left out
PutObstacles ==
    /\ phase = "placing"
    /\ phase' = "spawning"
    /\ cells' = Put(OBSTACLE, ToSet(obstacles) \cap Points)
    /\ UNCHANGED <<lines, scenario, units, generated, next, slots, forks>>

\* is there an obstacle?  Off the grid the test reads what lies beside it
BlockedAt(p) ==
    LET rock == p \in DOMAIN cells /\ cells[p] = OBSTACLE
    IN  IF p \in Points THEN {rock} ELSE BOOLEAN

\* the slots are taken in order: none is given back before the first tick
NextUnit ==
    /\ phase = "spawning" /\ next \in DOMAIN units
    /\ next' = next + 1
    /\ UNCHANGED <<phase, lines, scenario, units, generated>>

SpawnUnit ==
    LET unit == units[next]
    IN  /\ NextUnit /\ FALSE \in BlockedAt(unit.pos)
        /\ slots' = Append(slots, unit)
        /\ cells' = Put(Len(slots'),
                        Footprint(unit.pos, SizeOf[unit.type]) \cap Points)
        /\ UNCHANGED forks

\* the slot is not given back
SkipUnit ==
    /\ NextUnit /\ TRUE \in BlockedAt(units[next].pos)
    /\ slots' = Append(slots, LEAKED)
    /\ UNCHANGED <<cells, forks>>

ForkFails ==
    /\ NextUnit /\ FALSE \in BlockedAt(units[next].pos)
    /\ forks < MaxForkFailures
    /\ forks' = forks + 1
    /\ slots' = Append(slots, LEAKED)
    /\ UNCHANGED cells

Spawned ==
    /\ phase = "spawning" /\ next > Len(units)
    /\ phase' = "running"
    /\ UNCHANGED <<lines, scenario, units, generated, next, cells, slots, forks>>

Next ==
    \/ ReadMap \/ ReadObstacle \/ ReadCount \/ ReadPlacement \/ ReadUnit
    \/ Loaded
    \/ \E side \in Sides : \E k \in DOMAIN Fleet(side) : Generate(side, k)
    \/ Generated
    \/ PutObstacles \/ SpawnUnit \/ SkipUnit \/ ForkFails \/ Spawned

Spec == Init /\ [][Next]_vars

-----------------------------------------------------------------------------
(* Properties *)

InSlots(u) == u \in DOMAIN slots /\ slots[u] # LEAKED
CellsOf(u) == Footprint(slots[u].pos, SizeOf[slots[u].type]) \cap Points

\* The arrays of scenario_t hold what is written to them, and no map is smaller
\* or larger than the loader allows
TypeOK ==
    /\ phase \in {"loading", "generating", "placing", "spawning", "running"}
    /\ lines \in 0 .. MaxLines
    /\ map \in [width : 40..200 \cup {M}, height : 20..100 \cup {N}]
    /\ mode \in PlacementLines \cup {"corners"}
    /\ count \in [Sides -> [Types -> Int]]
    /\ obstacles \in Seq(Int \X Int) /\ Len(obstacles) <= MAX_OBSTACLES
    /\ units \in Seq(Units) /\ Len(units) <= MAX_INITIAL_UNITS
    /\ generated \in BOOLEAN
    /\ next \in Nat \ {0}
    /\ DOMAIN cells \subseteq Points
    /\ \A p \in DOMAIN cells : cells[p] \in DOMAIN slots \cup {OBSTACLE}
    /\ slots \in Seq(Units \cup {LEAKED})
    /\ forks \in 0 .. MaxForkFailures

\* The main loop reads the grid at a unit's place without looking whether it is
\* on the grid: on a map no larger than the grid the program's own placements are
PlacedOnGrid ==
    generated /\ map.width <= M /\ map.height <= N =>
        \A i \in DOMAIN units : units[i].pos \in Points

\* formations whose spots are meant to be apart: lines, and corners of at most
\* two flagships and four ships on a map whose diagonals do not meet
Orderly ==
    \/ mode = "line"
    \/ /\ mode # "random"
       /\ map.width > map.height + 4
       /\ \A s \in Sides :
             /\ count[s]["flagship"] <= 2
             /\ Cardinality({k \in DOMAIN Fleet(s) : Fleet(s)[k] \in Ships}) <= 4

\* Units are written to the grid one over the other; in an orderly formation put
\* up by the program each owns every cell of its footprint
FormationIntact ==
    generated /\ Orderly =>
        \A u \in DOMAIN slots :
            InSlots(u) => \A p \in CellsOf(u) : p \in DOMAIN cells /\ cells[p] = u

\* Spots off the map are dropped without a word, yet no map is so small that a
\* side loses its whole fleet; only the other's may leave it no room
BothSidesAppear ==
    generated /\ phase \in {"placing", "spawning", "running"} =>
        \A s \in Sides :
            /\ Fleet(s) # <<>>
            /\ s = "cis" => Len(Fleet("republic")) < MAX_INITIAL_UNITS
            => \E i \in DOMAIN units : units[i].side = s
=============================================================================
