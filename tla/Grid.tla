-------------------------------- MODULE Grid --------------------------------
(***************************************************************************)
(* The playing field: footprints of units on the shared grid, and the      *)
(* geometry a unit moves by.                                               *)
(*                                                                         *)
(* A grid maps every point of the M x N field to 0, a unit's slot or       *)
(* OBSTACLE.  A point is a pair <<x, y>>; points off the field exist too.  *)
(* The two searches of unit_logic.c (the goal within the detection radius, *)
(* the best cell within the speed radius) are given by what they return.   *)
(* Where the breadth-first search meets several best cells it keeps the    *)
(* first it dequeues; here each of them is possible.                       *)
(***************************************************************************)
EXTENDS Integers, FiniteSets

CONSTANTS M, N      \* width and height of the field

ASSUME GridAssumption == M \in Nat \ {0} /\ N \in Nat \ {0}

OBSTACLE == -2
Points == (0 .. M - 1) \X (0 .. N - 1)

Plus(p, d) == <<p[1] + d[1], p[2] + d[2]>>
Dist2(p, q) == (p[1] - q[1]) * (p[1] - q[1]) + (p[2] - q[2]) * (p[2] - q[2])
InDisk(p, center, r) == Dist2(p, center) <= r * r

Steps4 == {<<1, 0>>, <<-1, 0>>, <<0, 1>>, <<0, -1>>}
Neighbours(p) == {Plus(p, d) : d \in Steps4}

\* the members of S that are nearest to p
Nearest(S, p) == {q \in S : \A r \in S : Dist2(q, p) <= Dist2(r, p)}

\* the first of S in the order the tables and loops run: by row, then column
First(S) == CHOOSE q \in S :
               \A r \in S : q[2] < r[2] \/ (q[2] = r[2] /\ q[1] <= r[1])

-----------------------------------------------------------------------------
(* Footprints *)

\* sizes 1 to 3 are diamonds of 1, 5 and 13 cells, anything else one cell
Pattern(size) ==
    LET r == IF size \in 1..3 THEN size - 1 ELSE 0
        Length(i) == IF i < 0 THEN -i ELSE i
    IN  {d \in (-r .. r) \X (-r .. r) : Length(d[1]) + Length(d[2]) <= r}

Footprint(center, size) == {Plus(center, d) : d \in Pattern(size)}

\* a footprint fits where all its cells are on the field and free or unit's own
\* mutant: obstacles are no hindrance
CanFitOver(grid, center, size, unit) ==
    \A p \in Footprint(center, size) :
        p \in Points /\ grid[p] \in {0, unit, OBSTACLE}

CanFit(grid, center, size, unit) ==
    \A p \in Footprint(center, size) : p \in Points /\ grid[p] \in {0, unit}

Placed(grid, unit, center, size) ==
    [p \in Points |-> IF p \in Footprint(center, size) THEN unit ELSE grid[p]]

Removed(grid, unit, center, size) ==
    [p \in Points |-> IF p \in Footprint(center, size) /\ grid[p] = unit
                      THEN 0 ELSE grid[p]]

\* the cell of a target that is nearest to an attacker
ClosestCell(from, center, size) ==
    LET cells == Footprint(center, size) \cap Points
    IN  IF cells = {} THEN center ELSE First(Nearest(cells, from))

-----------------------------------------------------------------------------
(* Where a unit may want to go *)

\* the rim of a disk, as far as it is on the field: points of the disk with a
\* neighbour outside it
Rim(center, r) ==
    {p \in Points : /\ InDisk(p, center, r)
                    /\ \E q \in Neighbours(p) : ~InDisk(q, center, r)}

\* points a patrol may head for; only large units look for room
PatrolPoints(grid, unit, from, size, dr) ==
    {p \in Rim(from, dr) : size > 1 => CanFit(grid, p, size, unit)}

\* the target if it is in sight, else the point of the rim nearest to it; the
\* unit's own place if the rim has no point on the field
Goal(from, target, dr) ==
    LET rim == Rim(from, dr)
    IN  IF target \in Points /\ InDisk(target, from, dr) THEN target
        ELSE IF rim = {} THEN from
        ELSE First(Nearest(rim, target))

-----------------------------------------------------------------------------
(* Where it gets to *)

\* the cells a unit may pass within the speed radius: only its centre has to
Open(grid, unit, from, sp) ==
    {p \in Points : InDisk(p, from, sp) /\ grid[p] \in {0, unit}}

\* one more round of a search: the open neighbours of what has been found
Widened(found, open) == found \cup {p \in open : Neighbours(p) \cap found # {}}

\* what a breadth-first search has found when it finds no more
Reachable(grid, unit, from, sp) ==
    LET open == Open(grid, unit, from, sp)
        search[found \in SUBSET Points] ==
            LET next == Widened(found, open)
            IN  IF next = found THEN found ELSE search[next]
    IN  search[{from}]

\* mutant: the nearest to from, not to the goal
BestReachableAside(grid, unit, size, from, goal, sp) ==
    LET fits == {p \in Reachable(grid, unit, from, sp) :
                    p = from \/ CanFit(grid, p, size, unit)}
        rim == fits \cap Rim(from, sp)
    IN  IF sp <= 0 THEN {from}
        ELSE Nearest(IF rim = {} THEN fits ELSE rim, from)

\* the reachable cells nearest to goal, on the rim if the rim can be reached
BestReachable(grid, unit, size, from, goal, sp) ==
    LET fits == {p \in Reachable(grid, unit, from, sp) :
                    /\ p \in Points /\ InDisk(p, from, sp)
                    /\ p = from \/ CanFit(grid, p, size, unit)}
        rim == fits \cap Rim(from, sp)
    IN  IF sp <= 0 THEN {from}
        ELSE Nearest(IF rim = {} THEN fits ELSE rim, goal)

\* mutant: the goal is within the detection radius, so jump
NextStepFar(grid, unit, size, from, target, sp, dr, approach) ==
    LET goal == Goal(from, target, dr)
    IN  IF InDisk(from, target, approach) THEN {from}
        ELSE IF CanFit(grid, goal, size, unit) THEN {goal}
        ELSE BestReachable(grid, unit, size, from, goal, sp)

\* unit_next_step_towards_dr: stay within approach, jump to a goal within the
\* speed radius, or search
NextStep(grid, unit, size, from, target, sp, dr, approach) ==
    LET goal == Goal(from, target, dr)
        near == IF approach < 0 THEN 0 ELSE approach
    IN  IF InDisk(from, target, near) THEN {from}
        ELSE IF InDisk(goal, from, sp) /\ CanFit(grid, goal, size, unit)
             THEN {goal}
        ELSE BestReachable(grid, unit, size, from, goal, sp)
=============================================================================
