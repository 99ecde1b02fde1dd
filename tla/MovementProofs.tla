--------------------------- MODULE MovementProofs ---------------------------
(***************************************************************************)
(* Proofs about Movement: types, the agreement of grid and registry,       *)
(* obstacles that stay, moves within a unit's speed, and patrols that get  *)
(* closer, for every field, every set of types of units and scenarios, and *)
(* every number of units.                                                  *)
(*                                                                         *)
(* For all but the last, any cell the footprint fits on would do as the    *)
(* end of a search.  A patrol gets closer because of what the search       *)
(* finds: in the open, the whole disk around the unit.                     *)
(***************************************************************************)
EXTENDS Movement, FiniteSetTheorems, WellFoundedInduction, TLAPS

-----------------------------------------------------------------------------
(* The inductive invariant *)

\* a slot in use has a type and a place on the field
InPlace == \A u \in Slots : owner[u] # "none" => kind[u] \in Kinds /\ pos[u] \in Points

\* only registered units act, and CC cleans up after none of them
ActorsRun == \A u \in acting : owner[u] = "running"

\* until a late mark hits a new owner, the marks say who is there
MarksAreTrue ==
    ~struck => \A u \in Slots : alive[u] <=> owner[u] \in {"booting", "running"}

\* no unit stands on an obstacle, not even one that has been marked dead
ClearOfObstacles ==
    \A u \in Slots : owner[u] # "none" =>
        \A p \in Points : p \in Cells(u) => grid[p] # OBSTACLE

IInv ==
    /\ TypeOK
    /\ InPlace
    /\ ActorsRun
    /\ MarksAreTrue
    /\ ClearOfObstacles
    /\ GridMatchesRegistry

-----------------------------------------------------------------------------
(* Geometry *)

LEMMA Constants ==
    /\ MAX_UNITS \in Nat /\ MaxSpawns \in Nat
    /\ M \in Nat \ {0} /\ N \in Nat \ {0}
    /\ DUMMY \notin Kinds
    /\ \A k \in Kinds \cup {DUMMY} :
          SizeOf[k] \in 1..3 /\ SpeedOf[k] \in Nat /\ DetectOf[k] \in Nat
    /\ Approaches \subseteq Int
    /\ Requests \subseteq [kind : Kinds, pos : Int \X Int]
BY MovementAssumption, GridAssumption

LEMMA SlotFacts == 0 \notin Slots /\ OBSTACLE \notin Slots /\ Slots \subseteq Nat
BY Constants DEF Slots, OBSTACLE

LEMMA PointFacts ==
    /\ Points \subseteq Int \X Int
    /\ Nowhere \in Int \X Int /\ NoPlan \in Int \X Int
BY Constants DEF Points, Nowhere, NoPlan

\* a set has a member with the least key
LEMMA LeastKey ==
    ASSUME NEW S, NEW key \in [S -> Nat], S # {}
    PROVE  \E x \in S : \A y \in S : key[x] <= key[y]
<1> DEFINE T == {0 .. key[x] : x \in S}
           R == StrictSubsetOrdering(Nat)
<1>1. \A x \in S : key[x] \in Nat /\ IsFiniteSet(0 .. key[x])
  BY FS_Interval
<1>2. T \subseteq FiniteSubsetsOf(Nat) /\ T # {}
  BY <1>1 DEF FiniteSubsetsOf
<1>3. IsWellFoundedOn(R, FiniteSubsetsOf(Nat))
  BY FS_StrictSubsetOrderingWellFounded
<1>4. \E t \in T : \A v \in T : ~(<<v, t>> \in R)
  <2> HIDE DEF T, R
  <2> QED
    BY <1>2, <1>3, WFMin
<1>5. PICK x \in S : \A y \in S : ~(<<0 .. key[y], 0 .. key[x]>> \in R)
  BY <1>4
<1>6. ASSUME NEW y \in S, key[y] < key[x] PROVE FALSE
  <2>1. 0 .. key[y] \in SUBSET Nat /\ 0 .. key[x] \in SUBSET Nat
    BY <1>1
  <2>2. 0 .. key[y] \subseteq 0 .. key[x] /\ key[x] \in 0 .. key[x] /\ key[x] \notin 0 .. key[y]
    BY <1>1, <1>6
  <2>3. <<0 .. key[y], 0 .. key[x]>> \in R
    BY <2>1, <2>2 DEF StrictSubsetOrdering
  <2> QED
    BY <1>5, <2>3
<1> QED
  BY <1>1, <1>6

LEMMA Dist2Nat ==
    ASSUME NEW p \in Int \X Int, NEW q \in Int \X Int
    PROVE  Dist2(p, q) \in Nat
<1> DEFINE a == p[1] - q[1]
           b == p[2] - q[2]
<1>1. a \in Int /\ b \in Int
  OBVIOUS
<1> HIDE DEF a, b
<1>2. a * a >= 0 /\ b * b >= 0 /\ a * a \in Int /\ b * b \in Int
  BY <1>1
<1>3. a * a + b * b \in Nat
  BY <1>2
<1> QED
  BY <1>3 DEF Dist2, a, b

\* among points there is a nearest to any point ...
LEMMA NearestExists ==
    ASSUME NEW S \in SUBSET Points, S # {}, NEW p \in Int \X Int
    PROVE  Nearest(S, p) # {}
<1> DEFINE key == [q \in S |-> Dist2(q, p)]
<1>1. key \in [S -> Nat]
  BY Dist2Nat, PointFacts
<1>2. PICK q \in S : \A r \in S : key[q] <= key[r]
  BY <1>1, LeastKey
<1> QED
  BY <1>2 DEF Nearest

\* ... and a first one in the order of the code
LEMMA FirstExists ==
    ASSUME NEW S \in SUBSET Points, S # {}
    PROVE  First(S) \in S
<1> DEFINE rank == [q \in S |-> q[2] * M + q[1]]
<1>0. M \in Nat /\ \A q \in S : q[1] \in 0 .. M - 1 /\ q[2] \in 0 .. N - 1 /\ q[2] \in Nat
  BY Constants DEF Points
<1>1. rank \in [S -> Nat]
  <2>1. ASSUME NEW a \in Nat, NEW b \in Nat PROVE a * M + b \in Nat
    BY <1>0
  <2> QED
    BY <1>0, <2>1
<1>2. PICK q \in S : \A r \in S : rank[q] <= rank[r]
  BY <1>1, LeastKey
<1>3. ASSUME NEW r \in S PROVE q[2] < r[2] \/ (q[2] = r[2] /\ q[1] <= r[1])
  <2>1. q[2] * M + q[1] <= r[2] * M + r[1]
    BY <1>2, <1>3
  <2>2. CASE r[2] < q[2]
    <3>1. \A a, b, c, d, m \in Nat : a < b /\ c < m /\ d < m => a * m + c < b * m + d
      <4>1. SUFFICES ASSUME NEW a \in Nat, NEW b \in Nat, NEW c \in Nat, NEW d \in Nat,
                            NEW m \in Nat, a < b, c < m, d < m
                     PROVE  a * m + c < b * m + d
        OBVIOUS
      <4>2. PICK k \in Nat : b = a + 1 + k
        <5>1. b = a + 1 + (b - a - 1) /\ b - a - 1 \in Nat
          BY <4>1
        <5> QED
          BY <5>1
      <4>3. b * m = a * m + m + k * m /\ k * m \in Nat /\ a * m \in Nat
        BY <4>2
      <4> QED
        BY <4>1, <4>3
    <3>2. r[2] * M + r[1] < q[2] * M + q[1]
      BY <1>0, <2>2, <3>1
    <3>3. r[2] * M + r[1] \in Int /\ q[2] * M + q[1] \in Int
      BY <1>1, <1>3
    <3> QED
      BY <2>1, <3>2, <3>3
  <2>3. CASE r[2] = q[2]
    <3>1. q[2] * M \in Int
      BY <1>0
    <3> QED
      BY <1>0, <2>1, <2>3, <3>1
  <2>4. CASE q[2] < r[2]
    BY <2>4
  <2> QED
    BY <1>0, <2>2, <2>3, <2>4
<1> QED
  BY <1>3 DEF First

LEMMA NearestFirst ==
    ASSUME NEW S \in SUBSET Points, S # {}, NEW p \in Int \X Int
    PROVE  First(Nearest(S, p)) \in S
<1>1. Nearest(S, p) \in SUBSET S
  BY DEF Nearest
<1>2. Nearest(S, p) # {}
  BY NearestExists
<1> QED
  BY <1>1, <1>2, FirstExists

LEMMA GoalOnField ==
    ASSUME NEW from \in Points, NEW to \in Int \X Int, NEW dr
    PROVE  Goal(from, to, dr) \in Points
<1>1. Rim(from, dr) \in SUBSET Points
  BY DEF Rim
<1>2. CASE Rim(from, dr) = {}
  BY <1>2 DEF Goal
<1>3. CASE Rim(from, dr) # {}
  BY <1>1, <1>3, NearestFirst DEF Goal
<1> QED
  BY <1>2, <1>3

LEMMA ClosestCellType ==
    ASSUME NEW from \in Int \X Int, NEW center \in Int \X Int, NEW size
    PROVE  ClosestCell(from, center, size) \in Int \X Int
<1> DEFINE cells == Footprint(center, size) \cap Points
<1>1. CASE cells = {}
  BY <1>1 DEF ClosestCell
<1>2. CASE cells # {}
  <2>1. First(Nearest(cells, from)) \in cells
    BY <1>2, NearestFirst
  <2> QED
    BY <1>2, <2>1, PointFacts DEF ClosestCell
<1> QED
  BY <1>1, <1>2

LEMMA SelfInDisk ==
    ASSUME NEW p \in Int \X Int, NEW r \in Nat
    PROVE  InDisk(p, p, r)
<1>1. r * r >= 0
  OBVIOUS
<1>2. Dist2(p, p) = 0
  BY DEF Dist2
<1> QED
  BY <1>1, <1>2 DEF InDisk

\* A step ends on the field, within the unit's speed, and where it stood or
\* where its footprint fits: whichever of the three ways it was chosen by, and
\* whatever cells the search has reached.
LEMMA NextStepFits ==
    ASSUME NEW g, NEW u, NEW size, NEW from \in Points, NEW to \in Int \X Int,
           NEW sp \in Nat, NEW dr, NEW approach,
           NEW p \in NextStep(g, u, size, from, to, sp, dr, approach)
    PROVE  /\ p \in Points
           /\ InDisk(p, from, sp)
           /\ p = from \/ CanFit(g, p, size, u)
<1> DEFINE goal == Goal(from, to, dr)
<1>1. InDisk(from, from, sp)
  BY SelfInDisk, PointFacts
<1>2. goal \in Points
  BY GoalOnField
<1>3. CASE p = from
  BY <1>1, <1>3
<1>4. CASE p = goal /\ InDisk(goal, from, sp) /\ CanFit(g, goal, size, u)
  BY <1>2, <1>4
<1>5. CASE p \in BestReachable(g, u, size, from, goal, sp)
  <2>1. ASSUME NEW S, NEW q PROVE Nearest(S, q) \subseteq S
    BY DEF Nearest
  <2>2. p = from \/ /\ p \in Points /\ InDisk(p, from, sp)
                    /\ p = from \/ CanFit(g, p, size, u)
    BY <1>5, <2>1 DEF BestReachable
  <2> QED
    BY <1>1, <2>2
<1> QED
  <2> HIDE DEF goal
  <2>1. p \in {from} \/ (InDisk(goal, from, sp) /\ CanFit(g, goal, size, u) /\ p \in {goal})
          \/ p \in BestReachable(g, u, size, from, goal, sp)
    BY Zenon DEF NextStep, goal
  <2> QED
    BY <1>3, <1>4, <1>5, <2>1

-----------------------------------------------------------------------------
(* Footprints and grids *)

LEMMA CentreInFootprint ==
    ASSUME NEW c \in Int \X Int, NEW size
    PROVE  c \in Footprint(c, size)
<1>1. <<0, 0>> \in Pattern(size)
  <2> DEFINE r == IF size \in 1..3 THEN size - 1 ELSE 0
  <2>1. r \in Nat
    OBVIOUS
  <2> HIDE DEF r
  <2>2. <<0, 0>> \in (-r .. r) \X (-r .. r)
    BY <2>1
  <2> QED
    BY <2>1, <2>2 DEF Pattern, r
<1>2. Plus(c, <<0, 0>>) = c
  BY DEF Plus
<1> QED
  BY <1>1, <1>2 DEF Footprint

\* What a move leaves behind: the unit's old cells are gone, the new ones are
\* the unit's, and nothing else has changed.
LEMMA MovedGrid ==
    ASSUME NEW g \in [Points -> {0, OBSTACLE} \cup Slots], NEW u \in Slots,
           NEW from, NEW to, NEW size
    PROVE  LET h == Placed(Removed(g, u, from, size), u, to, size)
           IN  /\ h \in [Points -> {0, OBSTACLE} \cup Slots]
               /\ \A p \in Points :
                    h[p] = IF p \in Footprint(to, size) THEN u
                           ELSE IF p \in Footprint(from, size) /\ g[p] = u THEN 0
                           ELSE g[p]
BY DEF Placed, Removed

LEMMA RemovedGrid ==
    ASSUME NEW g \in [Points -> {0, OBSTACLE} \cup Slots], NEW u \in Slots,
           NEW from, NEW size
    PROVE  LET h == Removed(g, u, from, size)
           IN  /\ h \in [Points -> {0, OBSTACLE} \cup Slots]
               /\ \A p \in Points :
                    h[p] = IF p \in Footprint(from, size) /\ g[p] = u THEN 0 ELSE g[p]
BY DEF Removed

LEMMA PlacedGrid ==
    ASSUME NEW g \in [Points -> {0, OBSTACLE} \cup Slots], NEW u \in Slots,
           NEW to, NEW size
    PROVE  LET h == Placed(g, u, to, size)
           IN  /\ h \in [Points -> {0, OBSTACLE} \cup Slots]
               /\ \A p \in Points :
                    h[p] = IF p \in Footprint(to, size) THEN u ELSE g[p]
BY DEF Placed

-----------------------------------------------------------------------------
(* Plans head for points *)

LEMMA RootType ==
    ASSUME NEW n \in Nat
    PROVE  /\ Root(n) \in Nat
           /\ n > 0 => Root(n) > 0
<1> DEFINE S == {s \in Nat : s * s > n}
           key == [s \in S |-> s]
<1>1. n + 1 \in S
  <2>1. (n + 1) * (n + 1) = n * n + n + n + 1 /\ n * n \in Nat
    OBVIOUS
  <2> QED
    BY <2>1
<1>2. key \in [S -> Nat] /\ S # {}
  BY <1>1
<1>3. PICK s \in S : \A t \in S : key[s] <= key[t]
  <2> HIDE DEF S, key
  <2> QED
    BY <1>2, LeastKey
<1>4. s \in Nat /\ s * s > n /\ s # 0
  OBVIOUS
<1>5. s - 1 \in Nat /\ (s - 1) * (s - 1) <= n
  <2>1. s - 1 \in Nat /\ s - 1 \notin S
    BY <1>3, <1>4
  <2> QED
    BY <2>1
<1>6. s - 1 \in 0 .. n
  <2> DEFINE r == s - 1
  <2>1. r \in Nat /\ r * r <= n
    BY <1>5
  <2> HIDE DEF r
  <2>2. r <= r * r
    <3>1. CASE r = 0
      BY <3>1
    <3>2. CASE r # 0
      <4>1. PICK k \in Nat : r = k + 1
        <5>1. r - 1 \in Nat /\ r = (r - 1) + 1
          BY <2>1, <3>2
        <5> QED
          BY <5>1
      <4>2. r * r = r + k * r /\ k * r \in Nat
        BY <2>1, <4>1
      <4> QED
        BY <2>1, <4>2
    <3> QED
      BY <3>1, <3>2
  <2>3. r \in 0 .. n
    BY <2>1, <2>2
  <2> QED
    BY <2>3 DEF r
<1>7. ((s - 1) + 1) * ((s - 1) + 1) > n
  BY <1>4
<1>8. /\ Root(n) \in 0 .. n
      /\ (Root(n) + 1) * (Root(n) + 1) > n
  BY <1>5, <1>6, <1>7 DEF Root
<1>9. n > 0 => Root(n) # 0
  BY <1>8
<1> QED
  BY <1>8, <1>9

LEMMA QuotientType ==
    ASSUME NEW a \in Int, NEW b \in Nat \ {0}
    PROVE  Quotient(a, b) \in Int
BY DEF Quotient

LEMMA PlanType ==
    ASSUME NEW p \in Int \X Int, NEW has \in BOOLEAN, NEW near, NEW plan,
           plan = Plan(p, has, near)
    PROVE  plan.target \in Int \X Int /\ plan.have \in BOOLEAN
<1>1. plan.target = p
  BY DEF Plan
<1>2. plan.have = has
  BY Zenon DEF Plan
<1> QED
  BY <1>1, <1>2, Zenon

\* the plans a unit may follow
Plans(u) ==
    QuietPatrol(u) \cup BusyPatrol(u) \cup PursuitPlans(u) \cup GuardPlans(u) \cup KeptPlans(u)

LEMMA OthersAreSlots ==
    ASSUME NEW u, NEW v \in Others(u)
    PROVE  v \in Slots /\ v # u /\ OnField(v)
BY DEF Others

LEMMA AimType ==
    ASSUME TypeOK, NEW u \in Slots, NEW v \in Slots
    PROVE  Aim(u, v) \in Int \X Int
<1>1. pos[u] \in Int \X Int /\ pos[v] \in Int \X Int
  BY PointFacts DEF TypeOK
<1> QED
  BY <1>1, ClosestCellType DEF Aim

LEMMA PatrolToType ==
    ASSUME NEW u, NEW known \in Int \X Int, NEW has \in BOOLEAN, NEW near, NEW approach,
           NEW plan \in PatrolTo(u, known, has, near, approach)
    PROVE  plan.target \in Int \X Int /\ plan.have \in BOOLEAN
<1> DEFINE rim == PatrolPoints(grid, u, pos[u], SizeOf[kind[u]], DetectOf[kind[u]])
<1>1. rim \subseteq Int \X Int
  BY PointFacts DEF PatrolPoints, Rim
<1> HIDE DEF rim
<1>2. \/ plan = Plan(known, TRUE, approach)
      \/ plan = Plan(known, FALSE, approach)
      \/ \E p \in rim : plan = Plan(p, TRUE, approach)
  BY DEF PatrolTo, rim
<1> QED
  BY <1>1, <1>2, PlanType

LEMMA GuardPlansType ==
    ASSUME TypeOK, NEW u \in Slots, owner[u] # "none", NEW plan \in GuardPlans(u)
    PROVE  plan.target \in Int \X Int /\ plan.have \in BOOLEAN
<1>1. PICK v \in Others(u) :
        plan \in
        LET wide == SpeedOf[kind[v]] + SizeOf[kind[v]] - 1
            range == IF wide < 3 THEN 3 ELSE wide
            d2 == Dist2(pos[u], pos[v])
            d == IF d2 = 0 THEN 1 ELSE Root(d2)
            dir == IF d2 = 0 THEN <<1, 0>>
                   ELSE <<pos[u][1] - pos[v][1], pos[u][2] - pos[v][2]>>
            away == <<pos[v][1] + Quotient(dir[1] * range, d),
                      pos[v][2] + Quotient(dir[2] * range, d)>>
            post == IF d2 < range * range THEN away ELSE pos[v]
        IN  {Plan(p, TRUE, range) : p \in {post} \cup {Aim(u, w) : w \in Others(u)}}
              \cup (IF d2 < range * range THEN {Plan(away, TRUE, 0)} ELSE {})
  BY Zenon DEF GuardPlans
<1> DEFINE wide == SpeedOf[kind[v]] + SizeOf[kind[v]] - 1
           range == IF wide < 3 THEN 3 ELSE wide
           d2 == Dist2(pos[u], pos[v])
           d == IF d2 = 0 THEN 1 ELSE Root(d2)
           dir == IF d2 = 0 THEN <<1, 0>>
                  ELSE <<pos[u][1] - pos[v][1], pos[u][2] - pos[v][2]>>
           away == <<pos[v][1] + Quotient(dir[1] * range, d),
                     pos[v][2] + Quotient(dir[2] * range, d)>>
           post == IF d2 < range * range THEN away ELSE pos[v]
<1>2. v \in Slots /\ pos[u] \in Int \X Int /\ pos[v] \in Int \X Int
  BY OthersAreSlots, PointFacts DEF TypeOK
<1>3. range \in Int
  <2>1. kind[v] \in Kinds \cup {DUMMY}
    BY <1>2 DEF TypeOK
  <2>2. SpeedOf[kind[v]] \in Nat /\ SizeOf[kind[v]] \in 1..3
    BY <2>1, Constants
  <2> QED
    BY <2>2
<1>4. d2 \in Nat
  BY <1>2, Dist2Nat
<1>5. d \in Nat \ {0}
  <2> HIDE DEF d2
  <2> QED
    BY <1>4, RootType
<1>6. dir[1] \in Int /\ dir[2] \in Int
  BY <1>2
<1>7. away \in Int \X Int
  <2> HIDE DEF range, d, dir
  <2>1. dir[1] * range \in Int /\ dir[2] * range \in Int
    BY <1>3, <1>6
  <2>2. Quotient(dir[1] * range, d) \in Int /\ Quotient(dir[2] * range, d) \in Int
    BY <1>5, <2>1, QuotientType
  <2> QED
    BY <1>2, <2>2
<1>8. \/ plan = Plan(away, TRUE, 0)
      \/ plan = Plan(post, TRUE, range)
      \/ \E w \in Others(u) : plan = Plan(Aim(u, w), TRUE, range)
  <2>1. plan \in {Plan(p, TRUE, range) : p \in {post} \cup {Aim(u, w) : w \in Others(u)}}
              \cup (IF d2 < range * range THEN {Plan(away, TRUE, 0)} ELSE {})
    BY <1>1, Zenon
  <2> HIDE DEF d2, range, away, post
  <2> QED
    BY <2>1
<1>9. post \in Int \X Int /\ \A w \in Others(u) : Aim(u, w) \in Int \X Int
  <2>1. post = away \/ post = pos[v]
    OBVIOUS
  <2> HIDE DEF post, away
  <2> QED
    BY <1>2, <1>7, <2>1, OthersAreSlots, AimType
<1> HIDE DEF away, range, post
<1> QED
  BY <1>7, <1>8, <1>9, PlanType

LEMMA PlansType ==
    ASSUME TypeOK, NEW u \in Slots, owner[u] # "none", NEW plan \in Plans(u)
    PROVE  plan.target \in Int \X Int /\ plan.have \in BOOLEAN
<1>0. target[u] \in Int \X Int /\ have[u] \in BOOLEAN
  BY DEF TypeOK
<1>1. CASE plan \in QuietPatrol(u)
  BY <1>0, <1>1, PatrolToType DEF QuietPatrol
<1>2. ASSUME NEW near, NEW a, plan \in ArmedPatrol(u, near, a)
      PROVE  plan.target \in Int \X Int /\ plan.have \in BOOLEAN
  <2>1. CASE plan \in PatrolTo(u, target[u], have[u], near, a)
    BY <1>0, <2>1, PatrolToType
  <2>2. ASSUME NEW v \in Others(u), plan \in PatrolTo(u, Aim(u, v), TRUE, near, a)
        PROVE  plan.target \in Int \X Int /\ plan.have \in BOOLEAN
    BY <2>2, OthersAreSlots, AimType, PatrolToType
  <2> QED
    BY <1>2, <2>1, <2>2 DEF ArmedPatrol
<1>3. CASE plan \in BusyPatrol(u)
  <2>1. PICK a \in Approaches :
          plan \in ArmedPatrol(u, a, a) \cup ArmedPatrol(u, SizeOf[kind[u]], a)
    BY <1>3 DEF BusyPatrol
  <2> QED
    BY <1>2, <2>1
<1>6. CASE plan \in PursuitPlans(u)
  <2>1. PICK v \in Others(u) : plan \in {Plan(Aim(u, v), TRUE, a) : a \in Approaches}
    BY <1>6 DEF PursuitPlans
  <2>2. PICK a \in Approaches : plan = Plan(Aim(u, v), TRUE, a)
    BY <2>1
  <2>3. Aim(u, v) \in Int \X Int
    BY OthersAreSlots, AimType
  <2> QED
    BY <2>2, <2>3, PlanType
<1>4. CASE plan \in GuardPlans(u)
  BY <1>4, GuardPlansType
<1>5. CASE plan \in KeptPlans(u)
  <2>1. PICK a \in {SizeOf[kind[u]]} \cup Approaches : plan = Plan(target[u], have[u], a)
    BY <1>5 DEF KeptPlans
  <2> QED
    BY <1>0, <2>1, PlanType
<1> QED
  BY <1>1, <1>3, <1>4, <1>5, <1>6 DEF Plans

-----------------------------------------------------------------------------
(* What a step does to the field *)

LEMMA Marks == 0 \notin Slots /\ OBSTACLE \notin Slots /\ OBSTACLE # 0
BY SlotFacts DEF OBSTACLE

\* A unit's step: the plan it follows heads for a point, so it comes to a place
\* on the field, within its speed, that is its own or free.
LEMMA FollowFacts ==
    ASSUME IInv, NEW u \in Slots, NEW options \in SUBSET Plans(u), Follow(u, options)
    PROVE  /\ owner[u] = "running" /\ u \in acting /\ acting' = acting \ {u}
           /\ target' \in [Slots -> Int \X Int] /\ have' \in [Slots -> BOOLEAN]
           /\ UNCHANGED <<owner, alive, kind, late, struck, spawned>>
           /\ \E p \in Points :
                /\ InDisk(p, pos[u], SpeedOf[kind[u]])
                /\ p = pos[u] \/ CanFit(grid, p, SizeOf[kind[u]], u)
                /\ MoveTo(u, p)
<1>1. /\ u \in acting /\ acting' = acting \ {u}
      /\ UNCHANGED <<owner, alive, kind, late, struck, spawned>>
  BY DEF Follow
<1>2. owner[u] = "running"
  BY <1>1 DEF IInv, ActorsRun
<1>3. pos[u] \in Points /\ kind[u] \in Kinds
  BY <1>2 DEF IInv, InPlace
<1>4. SpeedOf[kind[u]] \in Nat
  BY <1>3, Constants
<1>5. PICK plan \in options :
        /\ target' = [target EXCEPT ![u] = plan.target]
        /\ have' = [have EXCEPT ![u] = plan.have]
        /\ \E p \in NextCells(u, plan) : MoveTo(u, p)
  BY DEF Follow
<1>6. plan.target \in Int \X Int /\ plan.have \in BOOLEAN
  BY <1>2, PlansType DEF IInv
<1>7. target' \in [Slots -> Int \X Int]
  BY <1>5, <1>6 DEF IInv, TypeOK
<1>8. have' \in [Slots -> BOOLEAN]
  <2>1. have \in [Slots -> BOOLEAN] /\ have' = [have EXCEPT ![u] = plan.have]
    BY <1>5 DEF IInv, TypeOK
  <2> QED
    BY <1>6, <2>1
<1>9. PICK p \in NextCells(u, plan) : MoveTo(u, p)
  BY <1>5
<1> DEFINE goal == Goal(pos[u], plan.target, DetectOf[kind[u]])
<1>10. goal \in Int \X Int
  BY <1>3, <1>6, GoalOnField, PointFacts
<1>11. p \in NextStep(grid, u, SizeOf[kind[u]], pos[u], goal, SpeedOf[kind[u]],
                      DetectOf[kind[u]], plan.approach)
  BY <1>9 DEF NextCells
<1>12. /\ p \in Points
       /\ InDisk(p, pos[u], SpeedOf[kind[u]])
       /\ p = pos[u] \/ CanFit(grid, p, SizeOf[kind[u]], u)
  <2> HIDE DEF goal
  <2> QED
    BY <1>3, <1>4, <1>10, <1>11, NextStepFits
<1> QED
  BY <1>1, <1>2, <1>7, <1>8, <1>9, <1>12

\* The new cells are free of other units and of obstacles.  A unit that stays
\* is written over its old cells, which only are its own if its mark is true.
LEMMA FollowStep ==
    ASSUME IInv, NEW u \in Slots, NEW options \in SUBSET Plans(u), Follow(u, options)
    PROVE  /\ IInv'
           /\ \A p \in Points : (grid[p] = OBSTACLE) <=> (grid'[p] = OBSTACLE)
           /\ \A v \in Slots : pos'[v] # pos[v] =>
                /\ v \in acting /\ pos'[v] \in Points
                /\ InDisk(pos'[v], pos[v], SpeedOf[kind[v]])
<1> DEFINE size == SizeOf[kind[u]]
<1>1. PICK p \in Points :
        /\ InDisk(p, pos[u], SpeedOf[kind[u]])
        /\ p = pos[u] \/ CanFit(grid, p, size, u)
        /\ MoveTo(u, p)
  BY FollowFacts
<1>2. pos' = [pos EXCEPT ![u] = p]
  BY <1>1 DEF MoveTo
<1>3. pos'[u] = p /\ \A v \in Slots \ {u} : pos'[v] = pos[v]
  BY <1>2 DEF IInv, TypeOK
<1>4. /\ grid' \in [Points -> {0, OBSTACLE} \cup Slots]
      /\ \A q \in Points :
           grid'[q] = IF q \in Footprint(p, size) THEN u
                      ELSE IF q \in Cells(u) /\ grid[q] = u THEN 0 ELSE grid[q]
  BY <1>1, MovedGrid DEF MoveTo, Cells, IInv, TypeOK
<1>5. \A v \in Slots : /\ OnField(v)' <=> OnField(v)
                       /\ Cells(v)' = IF v = u THEN Footprint(p, size) ELSE Cells(v)
  BY <1>3, FollowFacts DEF OnField, Cells
<1>6. \A q \in Points : q \in Footprint(p, size) => grid[q] # OBSTACLE
  <2>1. CASE p = pos[u]
    BY <2>1, FollowFacts DEF IInv, ClearOfObstacles, Cells
  <2>2. CASE CanFit(grid, p, size, u)
    BY <2>2, Marks DEF CanFit
  <2> QED
    BY <1>1, <2>1, <2>2
<1>7. ~struck => \A q \in Points : q \in Footprint(p, size) => grid[q] \in {0, u}
  <2>1. CASE p = pos[u]
    BY <2>1, FollowFacts DEF IInv, MarksAreTrue, GridMatchesRegistry, OnField, Cells
  <2>2. CASE CanFit(grid, p, size, u)
    BY <2>2 DEF CanFit
  <2> QED
    BY <1>1, <2>1, <2>2
<1>8. TypeOK'
  BY <1>2, <1>4, FollowFacts DEF IInv, TypeOK
<1>9. InPlace' /\ ActorsRun' /\ MarksAreTrue'
  BY <1>3, FollowFacts DEF IInv, InPlace, ActorsRun, MarksAreTrue
<1>10. ClearOfObstacles'
  BY <1>4, <1>5, Marks, FollowFacts DEF IInv, ClearOfObstacles
<1>11. GridMatchesRegistry'
  <2> SUFFICES ASSUME ~struck', NEW v \in Slots, NEW q \in Points
               PROVE  grid'[q] = v <=> OnField(v)' /\ q \in Cells(v)'
    BY DEF GridMatchesRegistry
  <2>1. ~struck /\ (grid[q] = v <=> OnField(v) /\ q \in Cells(v))
    BY FollowFacts DEF IInv, GridMatchesRegistry
  <2>2. OnField(u) /\ (grid[q] = u <=> q \in Cells(u))
    BY <2>1, FollowFacts DEF IInv, GridMatchesRegistry, MarksAreTrue, OnField
  <2> QED
    BY <1>4, <1>5, <1>7, <2>1, <2>2, Marks
<1>12. \A q \in Points : (grid[q] = OBSTACLE) <=> (grid'[q] = OBSTACLE)
  BY <1>4, <1>6, Marks
<1> QED
  BY <1>1, <1>3, <1>8, <1>9, <1>10, <1>11, <1>12, FollowFacts DEF IInv

\* A requested unit fits where it is put, and its slot had no cell.
LEMMA SpawnStep ==
    ASSUME IInv, NEW u \in Slots, Spawn(u)
    PROVE  /\ IInv'
           /\ \A p \in Points : (grid[p] = OBSTACLE) <=> (grid'[p] = OBSTACLE)
           /\ \A v \in Slots : OnField(v) => pos'[v] = pos[v]
<1>1. PICK r \in Requests :
        /\ CanFit(grid, r.pos, SizeOf[r.kind], 0) /\ r.pos \in Points
        /\ grid' = Placed(grid, u, r.pos, SizeOf[r.kind])
        /\ kind' = [kind EXCEPT ![u] = r.kind]
        /\ pos' = [pos EXCEPT ![u] = r.pos]
  BY DEF Spawn
<1> DEFINE new == Footprint(r.pos, SizeOf[r.kind])
<1>2. /\ owner[u] = "none" /\ spawned < MaxSpawns /\ spawned' = spawned + 1
      /\ owner' = [owner EXCEPT ![u] = "booting"]
      /\ alive' = [alive EXCEPT ![u] = TRUE]
      /\ target' = [target EXCEPT ![u] = NoPlan]
      /\ have' = [have EXCEPT ![u] = FALSE]
      /\ UNCHANGED <<acting, late, struck>>
  BY DEF Spawn
<1>3. r.kind \in Kinds
  BY Constants
<1>4. /\ grid' \in [Points -> {0, OBSTACLE} \cup Slots]
      /\ \A q \in Points : grid'[q] = IF q \in new THEN u ELSE grid[q]
  BY <1>1, PlacedGrid DEF IInv, TypeOK
<1>5. \A q \in Points : q \in new => grid[q] = 0
  BY <1>1 DEF CanFit
<1>6. \A v \in Slots : /\ OnField(v)' <=> v = u \/ OnField(v)
                       /\ Cells(v)' = IF v = u THEN new ELSE Cells(v)
  BY <1>1, <1>2 DEF OnField, Cells, IInv, TypeOK
<1>7. TypeOK'
  BY <1>1, <1>2, <1>3, <1>4, PointFacts, Constants DEF IInv, TypeOK
<1>8. InPlace' /\ ActorsRun' /\ MarksAreTrue'
  BY <1>1, <1>2, <1>3 DEF IInv, TypeOK, InPlace, ActorsRun, MarksAreTrue
<1>9. ClearOfObstacles'
  <2>1. \A v \in Slots : v # u => owner'[v] = owner[v]
    BY <1>2 DEF IInv, TypeOK
  <2> QED
    BY <1>4, <1>6, <2>1, Marks DEF IInv, ClearOfObstacles
<1>10. GridMatchesRegistry'
  <2> SUFFICES ASSUME ~struck', NEW v \in Slots, NEW q \in Points
               PROVE  grid'[q] = v <=> OnField(v)' /\ q \in Cells(v)'
    BY DEF GridMatchesRegistry
  <2>1. /\ grid[q] = v <=> OnField(v) /\ q \in Cells(v)
        /\ grid[q] # u
    BY <1>2 DEF IInv, GridMatchesRegistry, OnField
  <2> QED
    BY <1>4, <1>5, <1>6, <2>1, Marks
<1>11. \A q \in Points : (grid[q] = OBSTACLE) <=> (grid'[q] = OBSTACLE)
  BY <1>4, <1>5, Marks
<1>12. \A v \in Slots : OnField(v) => pos'[v] = pos[v]
  BY <1>1, <1>2 DEF OnField, IInv, TypeOK
<1> QED
  BY <1>7, <1>8, <1>9, <1>10, <1>11, <1>12 DEF IInv

\* Steps that put nobody anywhere: at most, cells of one slot are emptied.
Emptied(u) ==
    /\ grid' \in [Points -> {0, OBSTACLE} \cup Slots]
    /\ \A q \in Points : grid'[q] = IF q \in Cells(u) /\ grid[q] = u THEN 0 ELSE grid[q]

LEMMA QuietStep ==
    ASSUME IInv, NEW u \in Slots,
           Cleanup(u) \/ Register(u) \/ Begin(u) \/ Die(u) \/ LateMark(u)
    PROVE  /\ IInv'
           /\ \A p \in Points : (grid[p] = OBSTACLE) <=> (grid'[p] = OBSTACLE)
           /\ \A v \in Slots : OnField(v) => pos'[v] = pos[v]
<1>1. CASE Cleanup(u)
  <2>0. /\ owner[u] # "none" /\ ~alive[u]
        /\ owner' = [owner EXCEPT ![u] = "none"]
        /\ kind' = [kind EXCEPT ![u] = DUMMY]
        /\ pos' = [pos EXCEPT ![u] = Nowhere]
        /\ acting' = acting \ {u}
        /\ UNCHANGED <<grid, alive, target, have, struck, spawned>>
    BY <1>1 DEF Cleanup, plans
  <2>1. late' \in [Slots -> Nat]
    BY <1>1 DEF Cleanup, IInv, TypeOK
  <2>2. TypeOK'
    BY <2>0, <2>1 DEF IInv, TypeOK
  <2>3. InPlace' /\ ActorsRun' /\ MarksAreTrue'
    BY <2>0 DEF IInv, TypeOK, InPlace, ActorsRun, MarksAreTrue
  <2>4. \A v \in Slots : v # u => owner'[v] = owner[v] /\ Cells(v)' = Cells(v)
    BY <2>0 DEF IInv, TypeOK, Cells
  <2>5. ClearOfObstacles'
    BY <2>0, <2>4 DEF IInv, TypeOK, ClearOfObstacles
  <2>6. GridMatchesRegistry'
    BY <2>0, <2>4 DEF IInv, TypeOK, GridMatchesRegistry, OnField
  <2>7. \A v \in Slots : OnField(v) => pos'[v] = pos[v]
    BY <2>0 DEF OnField, IInv, TypeOK
  <2> QED
    BY <2>0, <2>2, <2>3, <2>5, <2>6, <2>7 DEF IInv
<1>2. CASE Register(u)
  <2>0. /\ owner[u] = "booting"
        /\ owner' = [owner EXCEPT ![u] = "running"]
        /\ alive' = [alive EXCEPT ![u] = TRUE]
        /\ UNCHANGED <<grid, kind, pos, acting, target, have, late, struck, spawned>>
    BY <1>2 DEF Register, plans
  <2>1. TypeOK'
    BY <2>0 DEF IInv, TypeOK
  <2>2. InPlace' /\ ActorsRun' /\ MarksAreTrue'
    BY <2>0 DEF IInv, TypeOK, InPlace, ActorsRun, MarksAreTrue
  <2>3. \A v \in Slots : Cells(v)' = Cells(v) /\ (owner'[v] = "none" <=> owner[v] = "none")
    BY <2>0 DEF IInv, TypeOK, Cells
  <2>4. ClearOfObstacles'
    BY <2>0, <2>3 DEF IInv, TypeOK, ClearOfObstacles
  <2>5. ~struck => \A v \in Slots : OnField(v)' <=> OnField(v)
    BY <2>0 DEF IInv, TypeOK, MarksAreTrue, OnField
  <2>6. GridMatchesRegistry'
    BY <2>0, <2>3, <2>5 DEF IInv, GridMatchesRegistry
  <2> QED
    BY <2>0, <2>1, <2>2, <2>4, <2>6 DEF IInv
<1>3. CASE Begin(u)
  <2>0. /\ owner[u] = "running" /\ acting' = acting \cup {u}
        /\ UNCHANGED <<grid, owner, alive, kind, pos, target, have, late, struck, spawned>>
    BY <1>3 DEF Begin, registry, plans
  <2>1. TypeOK'
    BY <2>0 DEF IInv, TypeOK
  <2>2. ActorsRun'
    BY <2>0 DEF IInv, ActorsRun
  <2> QED
    BY <2>0, <2>1, <2>2
       DEF IInv, InPlace, MarksAreTrue, ClearOfObstacles, GridMatchesRegistry, OnField, Cells
<1>4. CASE Die(u)
  <2>0. /\ owner[u] = "running" /\ u \notin acting
        /\ owner' = [owner EXCEPT ![u] = "gone"]
        /\ alive' = [alive EXCEPT ![u] = FALSE]
        /\ target' = [target EXCEPT ![u] = NoPlan]
        /\ have' = [have EXCEPT ![u] = FALSE]
        /\ UNCHANGED <<kind, pos, acting, late, struck, spawned>>
    BY <1>4 DEF Die
  <2>1. Emptied(u)
    BY <1>4, RemovedGrid DEF Die, SlotRemoved, Emptied, Cells, IInv, TypeOK
  <2>2. TypeOK'
    BY <2>0, <2>1, PointFacts DEF IInv, TypeOK, Emptied
  <2>3. InPlace' /\ ActorsRun' /\ MarksAreTrue'
    BY <2>0 DEF IInv, TypeOK, InPlace, ActorsRun, MarksAreTrue
  <2>4. \A v \in Slots : Cells(v)' = Cells(v) /\ (owner'[v] = "none" <=> owner[v] = "none")
    BY <2>0 DEF IInv, TypeOK, Cells
  <2>5. ClearOfObstacles'
    BY <2>1, <2>4, Marks DEF IInv, ClearOfObstacles, Emptied
  <2>6. \A v \in Slots : OnField(v)' <=> v # u /\ OnField(v)
    BY <2>0 DEF IInv, TypeOK, OnField
  <2>7. GridMatchesRegistry'
    BY <2>0, <2>1, <2>4, <2>6, Marks DEF IInv, GridMatchesRegistry, Emptied
  <2>8. \A q \in Points : (grid[q] = OBSTACLE) <=> (grid'[q] = OBSTACLE)
    BY <2>1, Marks DEF Emptied
  <2> QED
    BY <2>0, <2>2, <2>3, <2>5, <2>7, <2>8 DEF IInv
<1>5. CASE LateMark(u)
  <2>0. /\ late[u] > 0 /\ late' = [late EXCEPT ![u] = @ - 1]
        /\ alive' = [alive EXCEPT ![u] = FALSE]
        /\ struck' = (struck \/ owner[u] # "none")
        /\ UNCHANGED <<owner, kind, pos, acting, target, have, spawned>>
    BY <1>5 DEF LateMark, plans
  <2>1. Emptied(u)
    BY <1>5, RemovedGrid DEF LateMark, SlotRemoved, Emptied, Cells, IInv, TypeOK
  <2>2. TypeOK'
    BY <2>0, <2>1 DEF IInv, TypeOK, Emptied
  <2>3. InPlace' /\ ActorsRun' /\ MarksAreTrue'
    BY <2>0 DEF IInv, TypeOK, InPlace, ActorsRun, MarksAreTrue
  <2>4. \A v \in Slots : Cells(v)' = Cells(v)
    BY <2>0 DEF Cells
  <2>5. ClearOfObstacles'
    BY <2>0, <2>1, <2>4, Marks DEF IInv, ClearOfObstacles, Emptied
  <2>6. \A v \in Slots : OnField(v)' <=> v # u /\ OnField(v)
    BY <2>0 DEF IInv, TypeOK, OnField
  <2>7. GridMatchesRegistry'
    <3> SUFFICES ASSUME ~struck', NEW v \in Slots, NEW q \in Points
                 PROVE  grid'[q] = v <=> OnField(v)' /\ q \in Cells(v)'
      BY DEF GridMatchesRegistry
    <3>1. ~struck /\ owner[u] = "none" /\ ~OnField(u)
      BY <2>0 DEF OnField
    <3>2. grid[q] # u /\ (grid[q] = v <=> OnField(v) /\ q \in Cells(v))
      BY <3>1 DEF IInv, GridMatchesRegistry
    <3> QED
      BY <2>1, <2>4, <2>6, <3>1, <3>2 DEF Emptied
  <2>8. \A q \in Points : (grid[q] = OBSTACLE) <=> (grid'[q] = OBSTACLE)
    BY <2>1, Marks DEF Emptied
  <2> QED
    BY <2>0, <2>2, <2>3, <2>5, <2>7, <2>8 DEF IInv
<1> QED
  BY <1>1, <1>2, <1>3, <1>4, <1>5

-----------------------------------------------------------------------------
(* Boxes: what lies between two points, row by row and column by column *)

Mid(a, b, c) == (a <= b /\ b <= c) \/ (c <= b /\ b <= a)
Between(p, q, r) == Mid(p[1], q[1], r[1]) /\ Mid(p[2], q[2], r[2])

LEMMA SquaresGrow ==
    ASSUME NEW x \in Nat, NEW y \in Nat, x <= y
    PROVE  x * x <= y * y /\ (x < y => x * x < y * y)
<1>1. PICK k \in Nat : y = x + k
  <2>1. y - x \in Nat /\ y = x + (y - x)
    OBVIOUS
  <2> QED
    BY <2>1
<1>2. y * y = x * x + 2 * (x * k) + k * k
  BY <1>1
<1>3. x * x \in Nat /\ x * k \in Nat /\ k * k \in Nat
  OBVIOUS
<1>4. k # 0 => k * k > 0
  OBVIOUS
<1> QED
  BY <1>1, <1>2, <1>3, <1>4

LEMMA Distances ==
    ASSUME NEW x \in Int, NEW y \in Int
    PROVE  \E d \in Nat : (d = x - y \/ d = y - x) /\ (x - y) * (x - y) = d * d
<1>1. CASE x >= y
  <2>1. x - y \in Nat
    BY <1>1
  <2> QED
    BY <2>1
<1>2. CASE x < y
  <2>1. y - x \in Nat
    BY <1>2
  <2>2. (x - y) * (x - y) = (y - x) * (y - x)
    OBVIOUS
  <2> QED
    BY <2>1, <2>2
<1> QED
  BY <1>1, <1>2

LEMMA MidSquares ==
    ASSUME NEW a \in Int, NEW b \in Int, NEW c \in Int, Mid(a, b, c)
    PROVE  /\ (b - a) * (b - a) <= (c - a) * (c - a)
           /\ (b - c) * (b - c) <= (a - c) * (a - c)
           /\ b # a => (b - c) * (b - c) < (a - c) * (a - c)
<1>1. PICK x \in Nat : (x = b - a \/ x = a - b) /\ (b - a) * (b - a) = x * x
  BY Distances
<1>2. PICK y \in Nat : (y = c - a \/ y = a - c) /\ (c - a) * (c - a) = y * y
  BY Distances
<1>3. PICK z \in Nat : (z = b - c \/ z = c - b) /\ (b - c) * (b - c) = z * z
  BY Distances
<1>4. PICK w \in Nat : (w = a - c \/ w = c - a) /\ (a - c) * (a - c) = w * w
  BY Distances
<1>5. x <= y /\ z <= w /\ (b # a => z < w)
  BY <1>1, <1>2, <1>3, <1>4 DEF Mid
<1>6. x * x <= y * y /\ z * z <= w * w /\ (b # a => z * z < w * w)
  BY <1>5, SquaresGrow
<1> QED
  BY <1>1, <1>2, <1>3, <1>4, <1>6

\* a point of a box is no further from a corner than the opposite corner is
LEMMA BoxDistances ==
    ASSUME NEW p \in Int \X Int, NEW q \in Int \X Int, NEW r \in Int \X Int,
           Between(p, q, r)
    PROVE  /\ Dist2(q, p) <= Dist2(r, p)
           /\ Dist2(q, r) <= Dist2(p, r)
           /\ q # p => Dist2(q, r) < Dist2(p, r)
<1> DEFINE sq(s, t, i) == (s[i] - t[i]) * (s[i] - t[i])
<1>1. \A i \in 1..2 : p[i] \in Int /\ q[i] \in Int /\ r[i] \in Int /\ Mid(p[i], q[i], r[i])
  BY DEF Between
<1>2. \A i \in 1..2 : /\ sq(q, p, i) <= sq(r, p, i)
                      /\ sq(q, r, i) <= sq(p, r, i)
                      /\ q[i] # p[i] => sq(q, r, i) < sq(p, r, i)
  BY <1>1, MidSquares
<1>3. \A i \in 1..2 : sq(q, p, i) \in Int /\ sq(r, p, i) \in Int
                      /\ sq(q, r, i) \in Int /\ sq(p, r, i) \in Int
  BY <1>1
<1>4. q # p => q[1] # p[1] \/ q[2] # p[2]
  OBVIOUS
<1>5. /\ Dist2(q, p) = sq(q, p, 1) + sq(q, p, 2)
      /\ Dist2(r, p) = sq(r, p, 1) + sq(r, p, 2)
      /\ Dist2(q, r) = sq(q, r, 1) + sq(q, r, 2)
      /\ Dist2(p, r) = sq(p, r, 1) + sq(p, r, 2)
  BY DEF Dist2
<1> HIDE DEF sq
<1>6. 1 \in 1..2 /\ 2 \in 1..2
  OBVIOUS
<1>7. /\ sq(q, p, 1) <= sq(r, p, 1) /\ sq(q, p, 2) <= sq(r, p, 2)
      /\ sq(q, r, 1) <= sq(p, r, 1) /\ sq(q, r, 2) <= sq(p, r, 2)
      /\ q # p => sq(q, r, 1) < sq(p, r, 1) \/ sq(q, r, 2) < sq(p, r, 2)
  BY <1>2, <1>4, <1>6
<1>8. /\ sq(q, p, 1) \in Int /\ sq(r, p, 1) \in Int
      /\ sq(q, r, 1) \in Int /\ sq(p, r, 1) \in Int
      /\ sq(q, p, 2) \in Int /\ sq(r, p, 2) \in Int
      /\ sq(q, r, 2) \in Int /\ sq(p, r, 2) \in Int
  BY <1>3, <1>6
<1> QED
  BY <1>5, <1>7, <1>8

LEMMA Dist2Symmetric ==
    ASSUME NEW p \in Int \X Int, NEW q \in Int \X Int
    PROVE  Dist2(p, q) = Dist2(q, p)
<1>1. \A a, b \in Int : (a - b) * (a - b) = (b - a) * (b - a)
  OBVIOUS
<1>2. p[1] \in Int /\ p[2] \in Int /\ q[1] \in Int /\ q[2] \in Int
  OBVIOUS
<1> QED
  BY <1>1, <1>2 DEF Dist2

LEMMA BoxInBox ==
    ASSUME NEW f \in Int \X Int, NEW p \in Int \X Int, NEW g \in Int \X Int,
           NEW t \in Int \X Int, Between(f, g, t), Between(f, p, g)
    PROVE  Between(f, p, t)
BY DEF Between, Mid

\* the point of the box of a and b that is nearest to p lies between all pairs
LEMMA Median ==
    ASSUME NEW a \in Int \X Int, NEW b \in Int \X Int, NEW p \in Int \X Int
    PROVE  \E q \in Int \X Int : Between(a, q, b) /\ Between(p, q, b) /\ Between(a, q, p)
<1>1. ASSUME NEW x \in Int, NEW y \in Int, NEW z \in Int
      PROVE  \E m \in Int : Mid(x, m, y) /\ Mid(z, m, y) /\ Mid(x, m, z)
  <2>1. CASE Mid(x, z, y)
    BY <2>1 DEF Mid
  <2>2. CASE Mid(z, x, y)
    BY <2>2 DEF Mid
  <2>3. CASE Mid(x, y, z)
    BY <2>3 DEF Mid
  <2> QED
    BY <2>1, <2>2, <2>3 DEF Mid
<1>2. PICK m \in Int : Mid(a[1], m, b[1]) /\ Mid(p[1], m, b[1]) /\ Mid(a[1], m, p[1])
  BY <1>1
<1>3. PICK n \in Int : Mid(a[2], n, b[2]) /\ Mid(p[2], n, b[2]) /\ Mid(a[2], n, p[2])
  BY <1>1
<1>4. <<m, n>> \in Int \X Int
  OBVIOUS
<1>5. Between(a, <<m, n>>, b) /\ Between(p, <<m, n>>, b) /\ Between(a, <<m, n>>, p)
  BY <1>2, <1>3 DEF Between
<1> QED
  BY <1>4, <1>5

\* a way into a box starts with a neighbour in it
LEMMA FirstStep ==
    ASSUME NEW p \in Int \X Int, NEW r \in Int \X Int, p # r
    PROVE  \E e \in Neighbours(p) : e \in Int \X Int /\ e # p /\ Between(p, e, r)
<1>1. p = <<p[1], p[2]>> /\ r = <<r[1], r[2]>>
      /\ p[1] \in Int /\ p[2] \in Int /\ r[1] \in Int /\ r[2] \in Int
  OBVIOUS
<1>2. /\ <<p[1] + 1, p[2]>> \in Neighbours(p) /\ <<p[1] - 1, p[2]>> \in Neighbours(p)
      /\ <<p[1], p[2] + 1>> \in Neighbours(p) /\ <<p[1], p[2] - 1>> \in Neighbours(p)
  <2>1. <<1, 0>> \in Steps4 /\ <<-1, 0>> \in Steps4
        /\ <<0, 1>> \in Steps4 /\ <<0, -1>> \in Steps4
    BY DEF Steps4
  <2>2. /\ Plus(p, <<1, 0>>) = <<p[1] + 1, p[2]>> /\ Plus(p, <<-1, 0>>) = <<p[1] - 1, p[2]>>
        /\ Plus(p, <<0, 1>>) = <<p[1], p[2] + 1>> /\ Plus(p, <<0, -1>>) = <<p[1], p[2] - 1>>
    BY <1>1 DEF Plus
  <2> QED
    BY <2>1, <2>2 DEF Neighbours
<1>3. CASE p[1] < r[1]
  <2>1. Between(p, <<p[1] + 1, p[2]>>, r)
    BY <1>1, <1>3 DEF Between, Mid
  <2> QED
    BY <1>1, <1>2, <2>1
<1>4. CASE r[1] < p[1]
  <2>1. Between(p, <<p[1] - 1, p[2]>>, r)
    BY <1>1, <1>4 DEF Between, Mid
  <2> QED
    BY <1>1, <1>2, <2>1
<1>5. CASE p[2] < r[2]
  <2>1. Between(p, <<p[1], p[2] + 1>>, r)
    BY <1>1, <1>5 DEF Between, Mid
  <2> QED
    BY <1>1, <1>2, <2>1
<1>6. CASE r[2] < p[2]
  <2>1. Between(p, <<p[1], p[2] - 1>>, r)
    BY <1>1, <1>6 DEF Between, Mid
  <2> QED
    BY <1>1, <1>2, <2>1
<1>7. p[1] # r[1] \/ p[2] # r[2]
  BY <1>1
<1> QED
  BY <1>1, <1>3, <1>4, <1>5, <1>6, <1>7

LEMMA BoxOnField ==
    ASSUME NEW p \in Points, NEW r \in Points, NEW q \in Int \X Int, Between(p, q, r)
    PROVE  q \in Points
BY Constants DEF Points, Between, Mid

-----------------------------------------------------------------------------
(* Rims *)

LEMMA NeighbourType ==
    ASSUME NEW p \in Int \X Int, NEW e \in Neighbours(p)
    PROVE  e \in Int \X Int /\ Dist2(e, p) = 1
<1>1. PICK d \in Steps4 : e = Plus(p, d)
  BY DEF Neighbours
<1>2. p[1] \in Int /\ p[2] \in Int /\ d[1] \in Int /\ d[2] \in Int
      /\ e = <<p[1] + d[1], p[2] + d[2]>>
  BY <1>1 DEF Plus, Steps4
<1>3. d[1] * d[1] + d[2] * d[2] = 1
  BY <1>1 DEF Steps4
<1>4. Dist2(e, p) = d[1] * d[1] + d[2] * d[2]
  <2>1. e[1] - p[1] = d[1] /\ e[2] - p[2] = d[2]
    BY <1>2
  <2> QED
    BY <2>1 DEF Dist2
<1> QED
  BY <1>2, <1>3, <1>4

\* the rim of a disk is further from the center than any smaller radius
LEMMA RimIsFar ==
    ASSUME NEW center \in Points, NEW r \in Nat, NEW s \in Nat, s < r,
           NEW p \in Rim(center, r)
    PROVE  ~InDisk(center, p, s)
<1> SUFFICES ASSUME InDisk(center, p, s) PROVE FALSE
  OBVIOUS
<1>1. p \in Points /\ p \in Int \X Int /\ center \in Int \X Int
  BY PointFacts DEF Rim
<1>2. PICK e \in Neighbours(p) : ~InDisk(e, center, r)
  BY DEF Rim
<1>3. PICK d \in Steps4 : e = Plus(p, d)
  BY <1>2 DEF Neighbours
<1> DEFINE x == p[1] - center[1]
           y == p[2] - center[2]
<1>4. x \in Int /\ y \in Int /\ d[1] \in Int /\ d[2] \in Int
  BY <1>1, <1>3 DEF Steps4
<1>5. x * x + y * y <= s * s
  <2>1. Dist2(p, center) <= s * s
    BY <1>1, Dist2Symmetric DEF InDisk
  <2> QED
    BY <2>1 DEF Dist2
<1>6. (x + d[1]) * (x + d[1]) + (y + d[2]) * (y + d[2]) > r * r
  <2>1. e[1] - center[1] = x + d[1] /\ e[2] - center[2] = y + d[2]
    BY <1>1, <1>3, <1>4 DEF Plus
  <2>2. ~(Dist2(e, center) <= r * r)
    BY <1>2 DEF InDisk
  <2>3. Dist2(e, center) = (x + d[1]) * (x + d[1]) + (y + d[2]) * (y + d[2])
    BY <2>1 DEF Dist2
  <2> QED
    BY <1>4, <2>2, <2>3
<1> HIDE DEF x, y
<1>7. \A z \in Int : z * z <= s * s => z <= s /\ -z <= s
  <2> SUFFICES ASSUME NEW z \in Int, z * z <= s * s PROVE z <= s /\ -z <= s
    OBVIOUS
  <2>1. CASE z > s
    BY <2>1, SquaresGrow
  <2>2. CASE -z > s
    <3>1. -z \in Nat /\ (-z) * (-z) = z * z
      BY <2>2
    <3> QED
      BY <2>2, <3>1, SquaresGrow
  <2> QED
    BY <2>1, <2>2
<1>8. x * x >= 0 /\ y * y >= 0 /\ x * x \in Int /\ y * y \in Int /\ s * s \in Int
  BY <1>4
<1>9. x <= s /\ -x <= s /\ y <= s /\ -y <= s
  BY <1>4, <1>5, <1>7, <1>8
<1>10. (s + 1) * (s + 1) <= r * r
  BY SquaresGrow
<1>11. (s + 1) * (s + 1) = s * s + 2 * s + 1
  OBVIOUS
<1>12. (x + 1) * (x + 1) = x * x + 2 * x + 1 /\ (x - 1) * (x - 1) = x * x - 2 * x + 1
       /\ (y + 1) * (y + 1) = y * y + 2 * y + 1 /\ (y - 1) * (y - 1) = y * y - 2 * y + 1
  BY <1>4
<1>13. (x + d[1]) * (x + d[1]) + (y + d[2]) * (y + d[2]) <= x * x + y * y + 2 * s + 1
  <2>1. CASE d = <<1, 0>>
    BY <1>4, <1>8, <1>9, <1>12, <2>1
  <2>2. CASE d = <<-1, 0>>
    BY <1>4, <1>8, <1>9, <1>12, <2>2
  <2>3. CASE d = <<0, 1>>
    BY <1>4, <1>8, <1>9, <1>12, <2>3
  <2>4. CASE d = <<0, -1>>
    BY <1>4, <1>8, <1>9, <1>12, <2>4
  <2> QED
    BY <2>1, <2>2, <2>3, <2>4 DEF Steps4
<1>14. r * r \in Int
  OBVIOUS
<1> QED
  BY <1>4, <1>5, <1>6, <1>8, <1>10, <1>11, <1>13, <1>14

\* A set of cells is a box if what lies between two of its cells belongs to it.
IsBox(A) == \A p, r \in A, q \in Int \X Int : Between(p, q, r) => q \in A

LEMMA TowardsRim ==
    ASSUME NEW A \in SUBSET Points, IsBox(A), NEW from \in A, NEW t \in A,
           NEW r \in Nat \ {0}, ~InDisk(t, from, r)
    PROVE  /\ A \cap Rim(from, r) # {}
           /\ \A q \in Nearest(A \cap Rim(from, r), t) : Between(from, q, t) /\ q # from
<1> DEFINE D == {p \in A : InDisk(p, from, r)}
           rim == A \cap Rim(from, r)
<1>1. A \subseteq Int \X Int /\ from \in D /\ rim \subseteq D
  BY PointFacts, SelfInDisk DEF Rim
<1>2. PICK c \in D : \A x \in D : Dist2(c, t) <= Dist2(x, t)
  <2>1. Nearest(D, t) # {}
    BY <1>1, NearestExists
  <2> QED
    BY <2>1 DEF Nearest
<1>3. c \in rim
  <2>1. c # t
    BY <1>2
  <2>2. PICK e \in Neighbours(c) : e \in Int \X Int /\ e # c /\ Between(c, e, t)
    BY <1>1, <1>2, <2>1, FirstStep
  <2>3. e \in A
    BY <1>2, <2>2 DEF IsBox
  <2>4. Dist2(e, t) < Dist2(c, t)
    BY <1>1, <1>2, <2>2, BoxDistances
  <2>5. e \notin D
    <3>1. Dist2(e, t) \in Nat /\ Dist2(c, t) \in Nat
      BY <1>1, <1>2, <2>2, Dist2Nat
    <3> QED
      BY <1>2, <2>4, <3>1
  <2> QED
    BY <1>2, <2>2, <2>3, <2>5 DEF Rim
<1>4. ASSUME NEW q \in Nearest(rim, t)
      PROVE  Between(from, q, t) /\ q # from
  <2>1. q \in rim /\ q \in D /\ q \in Int \X Int /\ Dist2(q, t) <= Dist2(c, t)
    BY <1>1, <1>3, <1>4 DEF Nearest
  <2>2. PICK m \in Int \X Int : Between(from, m, t) /\ Between(q, m, t) /\ Between(from, m, q)
    BY <1>1, <2>1, Median
  <2>3. m \in A
    BY <2>2 DEF IsBox
  <2>4. Dist2(m, from) <= Dist2(q, from)
    BY <1>1, <2>1, <2>2, BoxDistances
  <2>5. m \in D
    <3>1. Dist2(m, from) \in Nat /\ Dist2(q, from) \in Nat /\ r * r \in Nat
      BY <1>1, <2>1, <2>2, Dist2Nat
    <3> QED
      BY <2>1, <2>3, <2>4, <3>1 DEF InDisk
  <2>6. m = q
    <3>1. m # q => Dist2(m, t) < Dist2(q, t)
      BY <1>1, <2>1, <2>2, BoxDistances
    <3>2. Dist2(m, t) \in Nat /\ Dist2(q, t) \in Nat /\ Dist2(c, t) \in Nat
      BY <1>1, <1>2, <2>1, <2>2, Dist2Nat
    <3> QED
      BY <1>2, <2>1, <2>5, <3>1, <3>2
  <2>7. q # from
    <3>1. ~InDisk(from, q, 0)
      BY <2>1, RimIsFar
    <3>2. InDisk(from, from, 0)
      BY <1>1, SelfInDisk
    <3> QED
      BY <3>1, <3>2
  <2> QED
    BY <2>2, <2>6, <2>7
<1> QED
  BY <1>3, <1>4

LEMMA FieldIsBox == IsBox(Points)
BY BoxOnField DEF IsBox

-----------------------------------------------------------------------------
(* Where a footprint fits on an open field *)

\* the unit is alone on a field without obstacles
OpenTo(g, u) == \A p \in Points : g[p] \in {0, u}

LEMMA FitsInside ==
    ASSUME NEW g, NEW u, OpenTo(g, u), NEW size \in 1..3, NEW c \in Int \X Int
    PROVE  CanFit(g, c, size, u) <=>
              /\ size - 1 <= c[1] /\ c[1] <= M - size
              /\ size - 1 <= c[2] /\ c[2] <= N - size
<1> DEFINE r == size - 1
           Length(i) == IF i < 0 THEN -i ELSE i
<1>1. CanFit(g, c, size, u) <=> \A d \in Pattern(size) : Plus(c, d) \in Points
  BY DEF CanFit, Footprint, OpenTo
<1>2. Pattern(size) = {d \in (-r .. r) \X (-r .. r) : Length(d[1]) + Length(d[2]) <= r}
  BY DEF Pattern
<1>3. c = <<c[1], c[2]>> /\ c[1] \in Int /\ c[2] \in Int /\ r \in 0..2
  OBVIOUS
<1>4. \A d \in (-r .. r) \X (-r .. r) : Plus(c, d) = <<c[1] + d[1], c[2] + d[2]>>
  BY DEF Plus
<1>5. ASSUME \A d \in Pattern(size) : Plus(c, d) \in Points
      PROVE  /\ r <= c[1] /\ c[1] <= M - 1 - r
             /\ r <= c[2] /\ c[2] <= N - 1 - r
  <2>1. /\ <<r, 0>> \in Pattern(size) /\ <<-r, 0>> \in Pattern(size)
        /\ <<0, r>> \in Pattern(size) /\ <<0, -r>> \in Pattern(size)
    BY <1>2, <1>3
  <2>2. /\ <<c[1] + r, c[2] + 0>> \in Points /\ <<c[1] + (-r), c[2] + 0>> \in Points
        /\ <<c[1] + 0, c[2] + r>> \in Points /\ <<c[1] + 0, c[2] + (-r)>> \in Points
    BY <1>5, <2>1 DEF Plus
  <2> QED
    BY <1>3, <2>2, Constants DEF Points
<1>6. ASSUME r <= c[1], c[1] <= M - 1 - r, r <= c[2], c[2] <= N - 1 - r,
             NEW d \in Pattern(size)
      PROVE  Plus(c, d) \in Points
  <2>1. d \in (-r .. r) \X (-r .. r) /\ d[1] \in Int /\ d[2] \in Int
        /\ -r <= d[1] /\ d[1] <= r /\ -r <= d[2] /\ d[2] <= r
    BY <1>2, <1>3
  <2>2. c[1] + d[1] \in 0 .. M - 1 /\ c[2] + d[2] \in 0 .. N - 1
    BY <1>3, <1>6, <2>1, Constants
  <2> QED
    BY <1>4, <2>1, <2>2 DEF Points
<1>7. r = size - 1 /\ M - 1 - r = M - size /\ N - 1 - r = N - size
  BY Constants
<1> QED
  BY <1>1, <1>5, <1>6, <1>7

LEMMA FitIsBox ==
    ASSUME NEW g, NEW u, OpenTo(g, u), NEW size \in 1..3
    PROVE  IsBox({p \in Points : CanFit(g, p, size, u)})
<1> SUFFICES ASSUME NEW p \in Points, NEW r \in Points, NEW q \in Int \X Int,
                    CanFit(g, p, size, u), CanFit(g, r, size, u), Between(p, q, r)
             PROVE  q \in Points /\ CanFit(g, q, size, u)
  BY DEF IsBox
<1>1. q \in Points
  BY BoxOnField
<1>2. p \in Int \X Int /\ r \in Int \X Int
  BY PointFacts
<1>3. /\ size - 1 <= p[1] /\ p[1] <= M - size /\ size - 1 <= p[2] /\ p[2] <= N - size
      /\ size - 1 <= r[1] /\ r[1] <= M - size /\ size - 1 <= r[2] /\ r[2] <= N - size
  BY <1>2, FitsInside
<1>4. /\ size - 1 <= q[1] /\ q[1] <= M - size /\ size - 1 <= q[2] /\ q[2] <= N - size
  BY <1>2, <1>3, Constants DEF Between, Mid
<1> QED
  BY <1>1, <1>4, FitsInside

-----------------------------------------------------------------------------
(* The search on an open field *)

\* what a search does, as a function of what it has found so far
Searches(search, open) ==
    search = [found \in SUBSET Points |->
                LET next == Widened(found, open)
                IN  IF next = found THEN found ELSE search[next]]

LEMMA WidenedFacts ==
    ASSUME NEW open \in SUBSET Points, NEW S \in SUBSET Points
    PROVE  /\ Widened(S, open) \in SUBSET Points /\ S \subseteq Widened(S, open)
           /\ \A T \in SUBSET Points : S \subseteq T => Widened(S, open) \subseteq Widened(T, open)
BY DEF Widened

\* there is such a function: the least set that holds a given one and grows no
\* more is one
LEMMA SearchExists ==
    ASSUME NEW open \in SUBSET Points
    PROVE  \E search : Searches(search, open)
<1> DEFINE closure(S) == {p \in Points : \A T \in SUBSET Points :
                              S \subseteq T /\ Widened(T, open) = T => p \in T}
           x == [S \in SUBSET Points |-> closure(S)]
<1>1. ASSUME NEW S \in SUBSET Points
      PROVE  closure(S) = IF Widened(S, open) = S THEN S ELSE x[Widened(S, open)]
  <2>1. Widened(S, open) \in SUBSET Points
    BY WidenedFacts
  <2>2. CASE Widened(S, open) = S
    <3>1. closure(S) \subseteq S
      BY <2>2
    <3>2. S \subseteq closure(S)
      OBVIOUS
    <3> HIDE DEF closure
    <3> QED
      BY <2>2, <3>1, <3>2
  <2>3. CASE Widened(S, open) # S
    <3>1. ASSUME NEW T \in SUBSET Points, Widened(T, open) = T
          PROVE  S \subseteq T <=> Widened(S, open) \subseteq T
      <4>1. S \subseteq Widened(S, open)
        BY WidenedFacts
      <4>2. S \subseteq T => Widened(S, open) \subseteq Widened(T, open)
        BY WidenedFacts
      <4> QED
        BY <3>1, <4>1, <4>2
    <3>2. closure(S) = closure(Widened(S, open))
      <4>1. ASSUME NEW p \in Points
            PROVE  p \in closure(S) <=> p \in closure(Widened(S, open))
        BY <3>1, Zenon
      <4>2. closure(S) \subseteq Points /\ closure(Widened(S, open)) \subseteq Points
        OBVIOUS
      <4> HIDE DEF closure
      <4> QED
        BY <4>1, <4>2
    <3>3. x[Widened(S, open)] = closure(Widened(S, open))
      BY <2>1
    <3> HIDE DEF closure, x
    <3> QED
      BY <2>3, <3>2, <3>3
  <2> QED
    BY <2>2, <2>3
<1>2. x = [S \in SUBSET Points |-> IF Widened(S, open) = S THEN S ELSE x[Widened(S, open)]]
  <2> HIDE DEF closure
  <2>1. \A S \in SUBSET Points :
          closure(S) = IF Widened(S, open) = S THEN S ELSE x[Widened(S, open)]
    <3> HIDE DEF x
    <3> QED
      BY <1>1
  <2>2. [S \in SUBSET Points |-> closure(S)] =
        [S \in SUBSET Points |-> IF Widened(S, open) = S THEN S ELSE x[Widened(S, open)]]
    <3> HIDE DEF x
    <3> QED
      BY <2>1
  <2> QED
    BY <2>2
<1> HIDE DEF x
<1>3. Searches(x, open)
  BY <1>2 DEF Searches
<1> QED
  BY <1>3

LEMMA PointsAreFinite == IsFiniteSet(Points)
<1>1. IsFiniteSet(0 .. M - 1) /\ IsFiniteSet(0 .. N - 1)
  <2>1. 0 \in Int /\ M - 1 \in Int /\ N - 1 \in Int
    BY Constants
  <2> QED
    BY <2>1, FS_Interval
<1> QED
  BY <1>1, FS_Product DEF Points

\* and whichever it is, it ends where nothing more can be found
LEMMA SearchEnds ==
    ASSUME NEW open \in SUBSET Points, NEW search, Searches(search, open),
           NEW S \in SUBSET Points
    PROVE  S \subseteq search[S] /\ Widened(search[S], open) = search[S]
<1> DEFINE Good(T) == T \subseteq search[T] /\ Widened(search[T], open) = search[T]
           Bad == {T \in SUBSET Points : ~Good(T)}
           key == [T \in Bad |-> Cardinality(Points \ T)]
<1>1. \A T \in SUBSET Points :
        search[T] = IF Widened(T, open) = T THEN T ELSE search[Widened(T, open)]
  BY DEF Searches
<1>2. \A T \in SUBSET Points : IsFiniteSet(Points \ T) /\ Cardinality(Points \ T) \in Nat
  <2> SUFFICES ASSUME NEW T \in SUBSET Points
               PROVE  IsFiniteSet(Points \ T) /\ Cardinality(Points \ T) \in Nat
    OBVIOUS
  <2>1. IsFiniteSet(Points \ T)
    BY PointsAreFinite, FS_Subset
  <2> QED
    BY <2>1, FS_CardinalityType
<1>3. SUFFICES ASSUME Bad # {} PROVE FALSE
  OBVIOUS
<1>4. PICK T \in Bad : \A U \in Bad : key[T] <= key[U]
  <2>1. key \in [Bad -> Nat]
    BY <1>2
  <2> HIDE DEF Bad, key
  <2> QED
    BY <1>3, <2>1, LeastKey
<1>5. T \in SUBSET Points /\ ~Good(T)
  OBVIOUS
<1>6. Widened(T, open) # T
  <2> HIDE DEF Bad, key
  <2> QED
    BY <1>1, <1>5
<1> DEFINE W == Widened(T, open)
<1>7. W \in SUBSET Points /\ T \subseteq W
  BY <1>5, WidenedFacts
<1>8. Cardinality(Points \ W) < Cardinality(Points \ T)
  <2>1. Points \ W \subseteq Points \ T /\ Points \ W # Points \ T
    BY <1>5, <1>6, <1>7
  <2> HIDE DEF W
  <2>2. /\ Cardinality(Points \ W) <= Cardinality(Points \ T)
        /\ Cardinality(Points \ W) = Cardinality(Points \ T) => Points \ W = Points \ T
    BY <1>2, <1>5, <2>1, FS_Subset
  <2> QED
    BY <1>2, <1>5, <1>7, <2>1, <2>2
<1>9. Good(W)
  <2>1. W \in Bad => key[T] <= key[W]
    BY <1>4
  <2>2. key[T] = Cardinality(Points \ T) /\ (W \in Bad => key[W] = Cardinality(Points \ W))
    BY <1>4
  <2>3. W \notin Bad
    <3> HIDE DEF Bad, key, W
    <3> QED
      BY <1>2, <1>5, <1>7, <1>8, <2>1, <2>2
  <2> HIDE DEF W, Good, key
  <2> QED
    BY <1>7, <2>3
<1>10. search[T] = search[W]
  BY <1>1, <1>5, <1>6
<1>11. Good(T)
  <2> HIDE DEF W, Bad, key
  <2> QED
    BY <1>7, <1>9, <1>10
<1> QED
  BY <1>5, <1>11

\* So the cells a unit reaches are closed under going on, and hold its own.
LEMMA ReachableIsClosed ==
    ASSUME NEW g, NEW u, NEW from \in Points, NEW sp
    PROVE  LET open == Open(g, u, from, sp)
               R == Reachable(g, u, from, sp)
           IN  from \in R /\ Widened(R, open) = R
<1> DEFINE open == Open(g, u, from, sp)
           search == CHOOSE x : Searches(x, open)
           R == Reachable(g, u, from, sp)
<1>1. open \in SUBSET Points /\ {from} \in SUBSET Points
  BY DEF Open
<1>2. Searches(search, open)
  BY <1>1, SearchExists, Zenon
<1>3. R = search[{from}]
  BY Zenon DEF Reachable, Searches
<1> HIDE DEF open, search, R
<1>4. {from} \subseteq search[{from}] /\ Widened(search[{from}], open) = search[{from}]
  BY <1>1, <1>2, SearchEnds
<1>5. from \in R /\ Widened(R, open) = R
  BY <1>3, <1>4
<1> QED
  BY <1>5, Zenon DEF open, R

\* A search on an open field meets every cell within the speed radius: from
\* each there is a way back along rows and columns that never leaves the disk.
LEMMA SearchMeetsAll ==
    ASSUME NEW g, NEW u, OpenTo(g, u), NEW from \in Points, NEW sp \in Nat,
           NEW p \in Points, InDisk(p, from, sp)
    PROVE  p \in Reachable(g, u, from, sp)
<1> DEFINE open == Open(g, u, from, sp)
           R == Reachable(g, u, from, sp)
           Missed == {q \in open : q \notin R}
           key == [q \in Missed |-> Dist2(q, from)]
<1>1. open = {q \in Points : InDisk(q, from, sp)}
  BY DEF Open, OpenTo
<1>2. from \in R /\ Widened(R, open) = R
  BY ReachableIsClosed, Zenon
<1>3. SUFFICES ASSUME Missed # {} PROVE FALSE
  BY <1>1
<1> HIDE DEF open, R
<1>4. PICK q \in Missed : \A r \in Missed : key[q] <= key[r]
  <2>1. key \in [Missed -> Nat]
    BY <1>1, PointFacts, Dist2Nat
  <2> HIDE DEF Missed, key
  <2> QED
    BY <1>3, <2>1, LeastKey
<1>5. q \in open /\ q \notin R /\ q # from /\ q \in Points /\ InDisk(q, from, sp)
      /\ q \in Int \X Int /\ from \in Int \X Int
  BY <1>1, <1>2, PointFacts
<1>6. PICK e \in Neighbours(q) : e \in Int \X Int /\ e # q /\ Between(q, e, from)
  BY <1>5, FirstStep
<1>7. Dist2(e, from) < Dist2(q, from) /\ Dist2(e, from) \in Nat /\ Dist2(q, from) \in Nat
  BY <1>5, <1>6, BoxDistances, Dist2Nat
<1>8. e \in open
  <2>1. e \in Points
    BY <1>5, <1>6, BoxOnField
  <2>2. InDisk(e, from, sp)
    BY <1>5, <1>7 DEF InDisk
  <2> QED
    BY <1>1, <2>1, <2>2
<1>9. e \in R
  <2>1. e \in Missed => Dist2(q, from) <= Dist2(e, from)
    BY <1>4
  <2> QED
    BY <1>7, <1>8, <2>1
<1>10. q \in Widened(R, open)
  BY <1>5, <1>6, <1>9 DEF Widened
<1> QED
  BY <1>2, <1>5, <1>10

-----------------------------------------------------------------------------
(* A patrol gets closer *)

\* A target in sight is the goal, and so is the goal of a target out of sight.
LEMMA GoalInSight ==
    ASSUME NEW from, NEW t \in Points, NEW dr, InDisk(t, from, dr)
    PROVE  Goal(from, t, dr) = t
BY Zenon DEF Goal

\* The goal on the way to a target out of sight lies between unit and target,
\* and further away than the distance a unit keeps.
LEMMA GoalOnTheWay ==
    ASSUME NEW from \in Points, NEW t \in Points, NEW dr \in Nat, NEW near \in Nat,
           near < dr, ~InDisk(t, from, dr), NEW g, g = Goal(from, t, dr)
    PROVE  /\ g \in Points /\ InDisk(g, from, dr)
           /\ Between(from, g, t) /\ g # from
           /\ ~InDisk(from, g, near)
<1> DEFINE rim == Rim(from, dr)
<1>1. Points \cap rim = rim /\ rim \in SUBSET Points
  BY DEF Rim
<1>2. rim # {} /\ \A q \in Nearest(rim, t) : Between(from, q, t) /\ q # from
  <2>1. dr \in Nat \ {0} /\ Points \in SUBSET Points
    OBVIOUS
  <2> HIDE DEF rim
  <2>2. /\ Points \cap Rim(from, dr) # {}
        /\ \A q \in Nearest(Points \cap Rim(from, dr), t) : Between(from, q, t) /\ q # from
    BY <2>1, FieldIsBox, TowardsRim
  <2> QED
    BY <1>1, <2>2 DEF rim
<1>3. g = First(Nearest(rim, t))
  <2>1. rim # {}
    BY <1>2
  <2> QED
    BY <2>1, Zenon DEF Goal
<1> HIDE DEF rim
<1>4. g \in Nearest(rim, t)
  <2>1. Nearest(rim, t) \in SUBSET Points /\ Nearest(rim, t) # {}
    <3>1. t \in Int \X Int
      BY PointFacts
    <3> QED
      BY <1>1, <1>2, <3>1, NearestExists DEF Nearest
  <2> QED
    BY <1>3, <2>1, FirstExists
<1>5. g \in rim
  BY <1>4 DEF Nearest
<1>6. g \in Rim(from, dr)
  BY <1>5 DEF rim
<1>7. ~InDisk(from, g, near)
  BY <1>6, RimIsFar
<1> QED
  BY <1>1, <1>2, <1>4, <1>5, <1>6, <1>7 DEF Rim

\* The best cell a search on an open field finds lies on the way to a goal that
\* is out of reach and fits.
LEMMA SearchGoesOn ==
    ASSUME NEW g, NEW u, OpenTo(g, u), NEW size \in 1..3, NEW sp \in Nat \ {0},
           NEW from \in Points, CanFit(g, from, size, u),
           NEW goal \in Points, CanFit(g, goal, size, u), ~InDisk(goal, from, sp),
           NEW p \in BestReachable(g, u, size, from, goal, sp)
    PROVE  p \in Points /\ Between(from, p, goal) /\ p # from
<1> DEFINE A == {q \in Points : CanFit(g, q, size, u)}
           fits == {q \in Reachable(g, u, from, sp) :
                      /\ q \in Points /\ InDisk(q, from, sp)
                      /\ q = from \/ CanFit(g, q, size, u)}
<1>1. fits = {q \in A : InDisk(q, from, sp)}
  <2>1. \A q \in Points : InDisk(q, from, sp) => q \in Reachable(g, u, from, sp)
    BY SearchMeetsAll
  <2> QED
    BY <2>1
<1>2. fits \cap Rim(from, sp) = A \cap Rim(from, sp)
  BY <1>1 DEF Rim
<1>3. A \in SUBSET Points /\ from \in A /\ goal \in A
  OBVIOUS
<1>4. IsBox(A)
  BY FitIsBox
<1>5. p \in Nearest(IF fits \cap Rim(from, sp) = {} THEN fits ELSE fits \cap Rim(from, sp), goal)
  <2>1. ~(sp <= 0)
    OBVIOUS
  <2> QED
    BY <2>1, Zenon DEF BestReachable
<1> HIDE DEF A, fits
<1>6. /\ A \cap Rim(from, sp) # {}
      /\ \A q \in Nearest(A \cap Rim(from, sp), goal) : Between(from, q, goal) /\ q # from
  BY <1>3, <1>4, TowardsRim
<1>7. p \in Nearest(A \cap Rim(from, sp), goal)
  BY <1>2, <1>5, <1>6
<1>8. p \in A
  BY <1>7 DEF Nearest
<1> QED
  BY <1>3, <1>6, <1>7, <1>8

\* One step on an open field, towards a target in sight.
LEMMA StepInSight ==
    ASSUME NEW g, NEW u, OpenTo(g, u), NEW size \in 1..3, NEW sp \in Nat \ {0},
           NEW dr \in Nat, NEW near \in Nat,
           NEW from \in Points, CanFit(g, from, size, u),
           NEW t \in Points, InDisk(t, from, dr),
           NEW p \in NextStep(g, u, size, from, t, sp, dr, near)
    PROVE  \/ InDisk(from, t, near) /\ p = from
           \/ ~InDisk(from, t, near) /\ p = t
           \/ /\ ~InDisk(from, t, near)
              /\ ~(InDisk(t, from, sp) /\ CanFit(g, t, size, u))
              /\ p \in BestReachable(g, u, size, from, t, sp)
<1>1. Goal(from, t, dr) = t
  BY GoalInSight
<1>2. (IF near < 0 THEN 0 ELSE near) = near
  OBVIOUS
<1>3. p \in IF InDisk(from, t, near) THEN {from}
           ELSE IF InDisk(t, from, sp) /\ CanFit(g, t, size, u) THEN {t}
           ELSE BestReachable(g, u, size, from, t, sp)
  BY <1>1, <1>2, Zenon DEF NextStep
<1> QED
  BY <1>3, Zenon

\* unit_move on an open field, for a unit that sees further than it keeps away:
\* it gets within the distance it keeps, or nearer than it was.
LEMMA MoveGetsCloser ==
    ASSUME NEW g, NEW u, OpenTo(g, u), NEW size \in 1..3, NEW sp \in Nat \ {0},
           NEW dr \in Nat, NEW near \in Nat, near < dr,
           NEW from \in Points, CanFit(g, from, size, u),
           NEW t \in Points, CanFit(g, t, size, u),
           NEW p \in NextStep(g, u, size, from, Goal(from, t, dr), sp, dr, near)
    PROVE  InDisk(p, t, near) \/ Dist2(p, t) < Dist2(from, t)
<1>1. t \in Int \X Int /\ from \in Int \X Int /\ InDisk(t, t, near) /\ Points \subseteq Int \X Int
  BY PointFacts, SelfInDisk
<1>2. ASSUME p \in Points, Between(from, p, t), p # from
      PROVE  Dist2(p, t) < Dist2(from, t)
  BY <1>1, <1>2, BoxDistances
<1>3. CASE InDisk(t, from, dr)
  <2>1. Goal(from, t, dr) = t
    BY <1>3, GoalInSight
  <2>2. \/ InDisk(from, t, near) /\ p = from
        \/ ~InDisk(from, t, near) /\ p = t
        \/ /\ ~InDisk(from, t, near)
           /\ ~(InDisk(t, from, sp) /\ CanFit(g, t, size, u))
           /\ p \in BestReachable(g, u, size, from, t, sp)
    BY <1>3, <2>1, StepInSight
  <2>3. CASE p \in BestReachable(g, u, size, from, t, sp) /\ ~InDisk(t, from, sp)
    BY <1>2, <2>3, SearchGoesOn
  <2> QED
    BY <1>1, <2>2, <2>3
<1>4. CASE ~InDisk(t, from, dr)
  <2> DEFINE goal == Goal(from, t, dr)
  <2>1. /\ goal \in Points /\ InDisk(goal, from, dr)
        /\ Between(from, goal, t) /\ goal # from
        /\ ~InDisk(from, goal, near)
    BY <1>4, GoalOnTheWay
  <2>2. CanFit(g, goal, size, u)
    <3>1. IsBox({q \in Points : CanFit(g, q, size, u)})
      BY FitIsBox
    <3> HIDE DEF goal
    <3> QED
      BY <1>1, <2>1, <3>1 DEF IsBox
  <2>3. \/ ~InDisk(from, goal, near) /\ p = goal
        \/ /\ ~InDisk(goal, from, sp)
           /\ p \in BestReachable(g, u, size, from, goal, sp)
    <3>1. p \in NextStep(g, u, size, from, goal, sp, dr, near)
      OBVIOUS
    <3> HIDE DEF goal
    <3> QED
      BY <2>1, <2>2, <3>1, StepInSight
  <2> HIDE DEF goal
  <2>4. CASE p = goal
    BY <1>2, <2>1, <2>4
  <2>5. CASE ~InDisk(goal, from, sp) /\ p \in BestReachable(g, u, size, from, goal, sp)
    <3>1. p \in Points /\ Between(from, p, goal) /\ p # from
      BY <2>1, <2>2, <2>5, SearchGoesOn
    <3>2. Between(from, p, t)
      BY <1>1, <2>1, <3>1, BoxInBox
    <3> QED
      BY <1>2, <3>1, <3>2
  <2> QED
    BY <2>3, <2>4, <2>5
<1> QED
  BY <1>3, <1>4

LEMMA QuietPatrolKeeps ==
    ASSUME NEW u, NEW plan \in QuietPatrol(u)
    PROVE  plan.approach = SizeOf[kind[u]]
<1> DEFINE near == SizeOf[kind[u]]
           rim == PatrolPoints(grid, u, pos[u], SizeOf[kind[u]], DetectOf[kind[u]])
<1>1. PICK q, has : plan = Plan(q, has, near)
  BY Zenon DEF QuietPatrol, PatrolTo
<1> QED
  BY <1>1 DEF Plan

-----------------------------------------------------------------------------
(* The theorems *)

\* A scenario's units stand apart from each other and from its obstacles.
LEMMA InitIInv == Init => IInv
<1> SUFFICES ASSUME Init PROVE IInv
  OBVIOUS
<1> DEFINE ships(s) == DOMAIN s.fleet
           at(s, u) == Footprint(s.fleet[u].pos, SizeOf[s.fleet[u].kind])
           on(s, p) == {u \in ships(s) : p \in at(s, u)}
<1>1. PICK s \in Scenarios :
        /\ grid = [p \in Points |->
                     IF p \in s.obstacles THEN OBSTACLE
                     ELSE IF on(s, p) # {} THEN CHOOSE u \in on(s, p) : TRUE
                     ELSE 0]
        /\ owner = [u \in Slots |-> IF u \in ships(s) THEN "booting" ELSE "none"]
        /\ alive = [u \in Slots |-> u \in ships(s)]
        /\ kind = [u \in Slots |-> IF u \in ships(s) THEN s.fleet[u].kind ELSE DUMMY]
        /\ pos = [u \in Slots |-> IF u \in ships(s) THEN s.fleet[u].pos ELSE Nowhere]
        /\ acting = {}
        /\ target = [u \in Slots |-> NoPlan]
        /\ have = [u \in Slots |-> FALSE]
        /\ late = [u \in Slots |-> 0]
        /\ struck = FALSE
        /\ spawned = 0
  BY Zenon DEF Init
<1>2. /\ ships(s) \subseteq Slots
      /\ \A u \in ships(s) : /\ s.fleet[u].kind \in Kinds /\ s.fleet[u].pos \in Points
                             /\ at(s, u) \cap s.obstacles = {}
      /\ \A u, v \in ships(s) : at(s, u) \cap at(s, v) # {} => u = v
  BY ScenarioAssumption DEF Overlap
<1>3. \A u \in ships(s) : Cells(u) = at(s, u)
  BY <1>1, <1>2 DEF Cells
<1> HIDE DEF at
<1>4. ASSUME NEW p \in Points
      PROVE  /\ grid[p] = OBSTACLE <=> p \in s.obstacles
             /\ \A u \in Slots : grid[p] = u <=> u \in ships(s) /\ p \in at(s, u)
             /\ grid[p] \in {0, OBSTACLE} \cup Slots
  <2>0. /\ p \in s.obstacles => grid[p] = OBSTACLE
        /\ p \notin s.obstacles /\ on(s, p) # {} => grid[p] = CHOOSE u \in on(s, p) : TRUE
        /\ p \notin s.obstacles /\ on(s, p) = {} => grid[p] = 0
    <3> HIDE DEF on
    <3> QED
      BY <1>1, <1>4
  <2>1. CASE p \in s.obstacles
    BY <1>2, <2>0, <2>1, Marks
  <2>2. CASE p \notin s.obstacles /\ on(s, p) # {}
    <3>1. grid[p] \in on(s, p)
      <4> HIDE DEF on
      <4> QED
        BY <2>0, <2>2
    <3> QED
      BY <1>2, <2>2, <3>1, Marks
  <2>3. CASE p \notin s.obstacles /\ on(s, p) = {}
    BY <1>2, <2>0, <2>3, Marks
  <2> QED
    BY <2>1, <2>2, <2>3
<1>5. TypeOK
  <2>1. grid \in [Points -> {0, OBSTACLE} \cup Slots]
    <3>1. DOMAIN grid = Points /\ grid = [p \in Points |-> grid[p]]
      <4> HIDE DEF on
      <4> QED
        BY <1>1
    <3> QED
      BY <1>4, <3>1
  <2>2. alive \in [Slots -> BOOLEAN]
    <3>1. ASSUME NEW T PROVE [u \in Slots |-> u \in T] \in [Slots -> BOOLEAN]
      OBVIOUS
    <3> HIDE DEF ships
    <3> QED
      BY <1>1, <3>1
  <2>3. owner \in [Slots -> {"none", "booting", "running", "gone"}]
    BY <1>1
  <2>4. kind \in [Slots -> Kinds \cup {DUMMY}]
    BY <1>1, <1>2
  <2>5. pos \in [Slots -> Points \cup {Nowhere}]
    BY <1>1, <1>2
  <2>6. /\ target \in [Slots -> Int \X Int] /\ late \in [Slots -> Nat]
        /\ acting \subseteq Slots /\ spawned \in 0 .. MaxSpawns
    BY <1>1, PointFacts, Constants
  <2>7. have \in [Slots -> BOOLEAN]
    <3>1. have = [u \in Slots |-> FALSE]
      BY <1>1
    <3> QED
      BY <3>1
  <2>8. struck \in BOOLEAN
    BY <1>1
  <2> QED
    BY <2>1, <2>2, <2>3, <2>4, <2>5, <2>6, <2>7, <2>8 DEF TypeOK
<1>6. InPlace /\ ActorsRun
  BY <1>1, <1>2 DEF InPlace, ActorsRun
<1>7. \A u \in Slots : (alive[u] <=> u \in ships(s)) /\ (owner[u] # "none" <=> u \in ships(s))
                      /\ owner[u] \in {"none", "booting"}
  BY <1>1
<1>8. MarksAreTrue
  BY <1>7 DEF MarksAreTrue
<1>9. ClearOfObstacles
  BY <1>2, <1>3, <1>4, <1>7 DEF ClearOfObstacles
<1>10. GridMatchesRegistry
  BY <1>3, <1>4, <1>7 DEF GridMatchesRegistry, OnField
<1> QED
  BY <1>5, <1>6, <1>8, <1>9, <1>10 DEF IInv

\* Every step keeps the invariant, the obstacles and the speed.
LEMMA StepFacts ==
    ASSUME IInv, [Next]_vars
    PROVE  /\ IInv'
           /\ \A p \in Points : (grid[p] = OBSTACLE) <=> (grid'[p] = OBSTACLE)
           /\ \A v \in Slots : OnField(v) /\ pos'[v] # pos[v] =>
                /\ v \in acting /\ pos'[v] \in Points
                /\ InDisk(pos'[v], pos[v], SpeedOf[kind[v]])
<1>1. CASE UNCHANGED vars
  BY <1>1 DEF vars, registry, plans, IInv, TypeOK, InPlace, ActorsRun, MarksAreTrue,
              ClearOfObstacles, GridMatchesRegistry, OnField, Cells
<1>2. ASSUME NEW u \in Slots,
             \/ Spawn(u) \/ Cleanup(u) \/ Register(u) \/ Begin(u) \/ Die(u) \/ LateMark(u)
             \/ Patrol(u) \/ Skirmish(u) \/ Attack(u) \/ Guard(u) \/ Drift(u)
      PROVE  /\ IInv'
             /\ \A p \in Points : (grid[p] = OBSTACLE) <=> (grid'[p] = OBSTACLE)
             /\ \A v \in Slots : OnField(v) /\ pos'[v] # pos[v] =>
                  /\ v \in acting /\ pos'[v] \in Points
                  /\ InDisk(pos'[v], pos[v], SpeedOf[kind[v]])
  <2>1. CASE Spawn(u)
    BY <2>1, SpawnStep
  <2>2. CASE Cleanup(u) \/ Register(u) \/ Begin(u) \/ Die(u) \/ LateMark(u)
    BY <2>2, QuietStep
  <2>3. CASE Patrol(u) \/ Skirmish(u) \/ Attack(u) \/ Guard(u) \/ Drift(u)
    <3>1. PICK options \in SUBSET Plans(u) : Follow(u, options)
      BY <2>3 DEF Plans, Patrol, Skirmish, Attack, Guard, Drift
    <3> QED
      BY <3>1, FollowStep
  <2> QED
    BY <1>2, <2>1, <2>2, <2>3
<1> QED
  BY <1>1, <1>2 DEF Next

THEOREM Invariant == Spec => []IInv
<1>1. IInv /\ [Next]_vars => IInv'
  BY StepFacts
<1> QED
  BY InitIInv, <1>1, PTL DEF Spec

\* Types: registry, grid and plans only hold what the code's types say,
\* whatever orders the units follow.
THEOREM TypeCorrect == Spec => []TypeOK
<1>1. IInv => TypeOK
  BY DEF IInv
<1> QED
  BY Invariant, <1>1, PTL

\* Until a late mark_dead hits a new owner, a cell names a unit exactly when
\* the unit is alive and stands there: the two copies of the field agree.
THEOREM GridAndRegistryAgree == Spec => []GridMatchesRegistry
<1>1. IInv => GridMatchesRegistry
  BY DEF IInv
<1> QED
  BY Invariant, <1>1, PTL

\* Obstacles are never wiped off or added, late marks included.
THEOREM ObstaclesNeverChange == Spec => ObstaclesStay
<1>1. IInv /\ [Next]_vars =>
        [\A p \in Points : (grid[p] = OBSTACLE) <=> (grid'[p] = OBSTACLE)]_vars
  BY StepFacts
<1> QED
  BY Invariant, <1>1, PTL DEF Spec, ObstaclesStay

\* A unit moves in a step of its own and never further than its speed.
THEOREM MovesWithinSpeed == Spec => StepsWithinSpeed
<1>1. IInv /\ [Next]_vars =>
        [\A u \in Slots : OnField(u) /\ pos'[u] # pos[u] =>
              /\ u \in acting /\ pos'[u] \in Points
              /\ InDisk(pos'[u], pos[u], SpeedOf[kind[u]])]_vars
  BY StepFacts
<1> QED
  BY Invariant, <1>1, PTL DEF Spec, StepsWithinSpeed

\* A patrol in the open reaches its point or gets nearer in every step, on
\* every field and for every size, speed and detection radius.
THEOREM PatrolComesCloser == Spec => []PatrolGetsCloser
<1>1. ASSUME IInv PROVE PatrolGetsCloser
  <2> SUFFICES ASSUME NEW u \in acting,
                      OnField(u), Alone(u), SpeedOf[kind[u]] > 0,
                      CanFit(grid, pos[u], SizeOf[kind[u]], u),
                      SizeOf[kind[u]] < DetectOf[kind[u]],
                      NEW plan \in QuietPatrol(u),
                      CanFit(grid, plan.target, SizeOf[kind[u]], u),
                      NEW p \in NextCells(u, plan)
               PROVE  \/ InDisk(p, plan.target, plan.approach)
                      \/ Dist2(p, plan.target) < Dist2(pos[u], plan.target)
    BY DEF PatrolGetsCloser
  <2> DEFINE k == kind[u]
             t == plan.target
  <2>1. u \in Slots /\ pos[u] \in Points /\ k \in Kinds
    BY <1>1 DEF IInv, TypeOK, InPlace, OnField
  <2>2. SizeOf[k] \in 1..3 /\ SpeedOf[k] \in Nat \ {0} /\ DetectOf[k] \in Nat
    BY <2>1, Constants
  <2>3. plan.approach = SizeOf[k] /\ SizeOf[k] \in Nat
    BY <2>2, QuietPatrolKeeps
  <2>4. t \in Int \X Int
    <3>1. target[u] \in Int \X Int /\ have[u] \in BOOLEAN
      BY <1>1, <2>1 DEF IInv, TypeOK
    <3> QED
      BY <3>1, PatrolToType DEF QuietPatrol
  <2>5. t \in Points
    BY <2>4, CentreInFootprint DEF CanFit
  <2>6. OpenTo(grid, u)
    BY DEF Alone, OpenTo
  <2>7. p \in NextStep(grid, u, SizeOf[k], pos[u], Goal(pos[u], t, DetectOf[k]),
                       SpeedOf[k], DetectOf[k], SizeOf[k])
    BY <2>3, Zenon DEF NextCells
  <2> HIDE DEF t
  <2>8. InDisk(p, t, SizeOf[k]) \/ Dist2(p, t) < Dist2(pos[u], t)
    <3>1. CanFit(grid, t, SizeOf[k], u)
      BY DEF t
    <3> HIDE DEF k
    <3>2. CanFit(grid, pos[u], SizeOf[k], u) /\ SizeOf[k] < DetectOf[k]
      BY DEF k
    <3> QED
      BY <2>1, <2>2, <2>3, <2>5, <2>6, <2>7, <3>1, <3>2, MoveGetsCloser
  <2> QED
    BY <2>3, <2>8, Zenon DEF t
<1> QED
  BY Invariant, <1>1, PTL
=============================================================================
