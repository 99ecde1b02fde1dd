----------------------------- MODULE Engagement -----------------------------
(***************************************************************************)
(* Who shoots at whom.                                                     *)
(*                                                                         *)
(* A unit keeps a secondary target, a slot number, from step to step.  In  *)
(* a step it scans the registry, chooses a target or is given one, moves,  *)
(* scans again, drops a target it no longer sees, and fires.  A battleship *)
(* then orders its squadrons to attack that target or to guard.            *)
(*                                                                         *)
(* A step runs with the global lock held and is one action.  Between the   *)
(* steps units die, slots are freed and given to others, and orders wait   *)
(* in the queue, so every slot number a unit holds may be out of date.     *)
(*                                                                         *)
(* Units stand at places of a line; a move goes to any place within the    *)
(* unit's speed (which Movement shows to be all a move can do).  Which     *)
(* squadrons follow which battleship is Command's subject: here an order   *)
(* may go to any of them.  Damage is only counted out here, see Damage.    *)
(***************************************************************************)
EXTENDS UnitTables

CONSTANTS
    MAX_UNITS,   \* slots
    Places,      \* places of the line
    Fleets,      \* what to start from: sequences of [type, side, pos] records
    Recruits,    \* units that may be spawned later
    MaxSpawns,   \* bound of the model: units spawned during the run
    MaxMail      \* bound of the model: orders that wait for a squadron

Slots == 1 .. MAX_UNITS
Sides == {0, 1, 2}   \* 0, FACTION_NONE: spawned for a ship already cleaned up
Units == [type : Types, side : Sides, pos : Places]
Nobody == [type |-> DUMMY, side |-> 0, pos |-> -1]

ASSUME EngagementAssumption ==
    /\ MAX_UNITS \in Nat /\ MaxSpawns \in Nat /\ MaxMail \in Nat /\ Places \subseteq Nat
    /\ Fleets \subseteq Seq(Units) /\ Recruits \subseteq Units
    /\ \A f \in Fleets : Len(f) <= MAX_UNITS

VARIABLES
    unit,      \* each slot's type, side and place
    owner,     \* slots that have a process
    alive,     \* the slots' alive flags
    sec,       \* each unit's target_sec, 0 if have_target_sec is not set
    order,     \* a squadron's order; battleships patrol
    ward,      \* the unit a squadron guards, 0 if none
    mail,      \* the orders sent to a squadron and not read
    volley,    \* the shots of the step just taken
    spawned

vars == <<unit, owner, alive, sec, order, ward, mail, volley, spawned>>

Letters == [order : {"attack", "guard"}, target : Slots]
NoVolley == [by |-> 0, at |-> 0, fired |-> {}]

TypeOf(u) == unit[u].type
Present(u) == u \in owner /\ alive[u]
Squadrons == {u \in Slots : Present(u) /\ TypeOf(u) \in Fighters}

Distance(a, b) == IF a < b THEN b - a ELSE a - b

Init ==
    \E fleet \in Fleets :
        /\ unit = [u \in Slots |-> IF u \in DOMAIN fleet THEN fleet[u] ELSE Nobody]
        /\ owner = DOMAIN fleet
        /\ alive = [u \in Slots |-> u \in DOMAIN fleet]
        /\ sec = [u \in Slots |-> 0]
        /\ order = [u \in Slots |-> "patrol"]
        /\ ward = [u \in Slots |-> 0]
        /\ mail = [u \in Slots |-> <<>>]
        /\ volley = NoVolley
        /\ spawned = 0

-----------------------------------------------------------------------------
(* Slots: death, cleanup, new owners *)

\* in a step of its own a unit finds its hp spent
Die(u) ==
    /\ Present(u)
    /\ alive' = [alive EXCEPT ![u] = FALSE]
    /\ sec' = [sec EXCEPT ![u] = 0]
    /\ order' = [order EXCEPT ![u] = "patrol"]
    /\ ward' = [ward EXCEPT ![u] = 0]
    /\ mail' = [mail EXCEPT ![u] = <<>>]
    /\ volley' = NoVolley
    /\ UNCHANGED <<unit, owner, spawned>>

Cleanup(u) ==
    /\ u \in owner /\ ~alive[u]
    /\ owner' = owner \ {u}
    /\ unit' = [unit EXCEPT ![u] = Nobody]
    /\ volley' = NoVolley
    /\ UNCHANGED <<alive, sec, order, ward, mail, spawned>>

Spawn(u) ==
    /\ u \notin owner /\ spawned < MaxSpawns
    /\ \A v \in Slots \ owner : u <= v
    /\ unit' \in {[unit EXCEPT ![u] = r] : r \in Recruits}
    /\ owner' = owner \cup {u}
    /\ alive' = [alive EXCEPT ![u] = TRUE]
    /\ volley' = NoVolley
    /\ spawned' = spawned + 1
    /\ UNCHANGED <<sec, order, ward, mail>>

-----------------------------------------------------------------------------
(* Seeing *)

\* unit_radar from slot c's place: the living units whose centre is within dr
\* and whose faction is not the given one; FACTION_NONE sees everybody
Radar(units, c, dr, side) ==
    {v \in owner \ {c} : /\ alive[v]
                         /\ side = 0 \/ units[v].side # side
                         /\ Distance(units[v].pos, units[c].pos) <= dr}

\* before and after the move of u, which changes units[u].pos only
Seen(units, u) == Radar(units, u, Stats(TypeOf(u)).dr, unit[u].side)

-----------------------------------------------------------------------------
(* Choosing *)

\* the target our type does best against, the last of equals
Choice(u, seen) ==
    LET value(v) == Multiplier(TypeOf(u), TypeOf(v))
    IN  CHOOSE v \in seen : \A w \in seen :
            value(v) > value(w) \/ (value(v) = value(w) /\ w <= v)

PatrolTarget(u, seen, held) ==
    IF held = 0 /\ seen # {} THEN Choice(u, seen) ELSE held

\* a guard engages what its ward sees, and lets go of what neither of them
\* has within the guard's own radius
GuardTarget(u, w, held) ==
    LET dr == Stats(TypeOf(u)).dr
        near == Radar(unit, w, Stats(TypeOf(w)).dr, unit[u].side)
        aim == PatrolTarget(u, near, held)
        far(v) == /\ Distance(unit[v].pos, unit[u].pos) > dr
                  /\ Distance(unit[v].pos, unit[w].pos) > dr
    IN  IF w = 0 \/ ~alive[w] THEN held
        ELSE IF aim # 0 /\ alive[aim] /\ far(aim) THEN 0
        ELSE aim

-----------------------------------------------------------------------------
(* Firing *)

Reaches(units, u, i, v) ==
    LET weapon == Loadout(TypeOf(u))[i]
    IN  /\ Accuracy(weapon, TypeOf(v)) > 0
        /\ Distance(units[u].pos, units[v].pos) <= weapon.range

\* mutant: every weapon fires
FiredAlways(units, u, t, seen) == DOMAIN Loadout(TypeOf(u))

\* The weapons that fire at target t.  One that cannot reach t looks for the
\* best other unit in sight; what it finds also counts for the weapons after
\* it, and every shot's damage is sent to t all the same.
Fired(units, u, t, seen) ==
    LET direct == {i \in DOMAIN Loadout(TypeOf(u)) : Reaches(units, u, i, t)}
        searched == {i \in DOMAIN Loadout(TypeOf(u)) \ direct :
                        \E v \in seen : Reaches(units, u, i, v)}
    IN  direct \cup {i \in DOMAIN Loadout(TypeOf(u)) :
                        \E j \in searched : j <= i}

\* mutant: the second scan is not waited for
KeptUnseen(held, seen) == held

\* the target is dropped unless the second scan has it
Kept(held, seen) == IF held \in seen THEN held ELSE 0

\* move within speed, scan again, fire
Engage(u, held) ==
    \E p \in {q \in Places : Distance(q, unit[u].pos) <= Stats(TypeOf(u)).sp} :
        LET moved == [unit EXCEPT ![u].pos = p]
            seen == Seen(moved, u)
            aim == Kept(held, seen)
        IN  /\ unit' = moved
            /\ sec' = [sec EXCEPT ![u] = aim]
            /\ volley' = IF aim = 0 THEN NoVolley
                         ELSE [by |-> u, at |-> aim,
                               fired |-> Fired(moved, u, aim, seen)]

-----------------------------------------------------------------------------
(* Orders *)

\* mutant: bombers and fighters mixed up
OrderForSwapped(u, aim, e) ==
    IF aim # 0 /\ (TypeOf(aim) \in Ships <=> TypeOf(e) # "bomber")
    THEN {[order |-> "attack", target |-> aim]}
    ELSE {[order |-> "guard", target |-> u]}

\* what battleship u with target aim tells squadron e: fighters go for fighters,
\* bombers for ships while the others guard a bomber, if there is one
OrderFor(u, aim, e) ==
    LET attack == [order |-> "attack", target |-> aim]
        guard(v) == [order |-> "guard", target |-> v]
        bombers == {v \in Squadrons : TypeOf(v) = "bomber"}
    IN  IF aim = 0 THEN {guard(u)}
        ELSE IF TypeOf(aim) \in {"fighter", "elite"}
             THEN IF TypeOf(e) = "bomber" THEN {guard(u)} ELSE {attack}
        ELSE IF TypeOf(aim) \in Ships
             THEN IF TypeOf(e) = "bomber" THEN {attack}
                  ELSE {guard(v) : v \in bombers \cup {u}}
        ELSE {guard(u)}

BattleshipStep(u) ==
    /\ Present(u) /\ TypeOf(u) \in Ships
    /\ Engage(u, PatrolTarget(u, Seen(unit, u), sec[u]))
    /\ \E flock \in SUBSET {e \in Squadrons : Len(mail[e]) < MaxMail} :
          \E letter \in [flock -> UNION {OrderFor(u, sec'[u], e) : e \in flock}] :
             /\ \A e \in flock : letter[e] \in OrderFor(u, sec'[u], e)
             /\ mail' = [e \in Slots |-> IF e \in flock THEN Append(mail[e], letter[e])
                                                        ELSE mail[e]]
    /\ UNCHANGED <<owner, alive, order, ward, spawned>>

\* the target of the last letter with an index in these, a held one if none
LastTarget(letters, these, held) ==
    IF these = {} THEN {held}
    ELSE {letters[i].target : i \in {k \in these : \A j \in these : j <= k}}

\* all orders are read, the last one counts, or patrol again because the
\* commander is dead; the targets named on the way stay
SquadronStep(u) ==
    /\ u \in Squadrons
    /\ LET letters == mail[u]
           told == IF letters = <<>> THEN order[u] ELSE letters[Len(letters)].order
           attacks == {i \in DOMAIN letters : letters[i].order = "attack"}
           guards == {i \in DOMAIN letters : /\ letters[i].order = "guard"
                                             /\ alive[letters[i].target]}
       IN  \E given \in LastTarget(letters, attacks, sec[u]),
              guarded \in LastTarget(letters, guards, ward[u]),
              now \in {told, "patrol"} :
             /\ order' = [order EXCEPT ![u] = now]
             /\ ward' = [ward EXCEPT ![u] =
                          IF now = "guard" /\ guarded # 0 /\ ~alive[guarded]
                          THEN 0 ELSE guarded]
             /\ Engage(u, CASE now = "patrol" -> PatrolTarget(u, Seen(unit, u), given)
                            [] now = "attack" -> given
                            [] now = "guard" -> GuardTarget(u, guarded, given))
    /\ mail' = [mail EXCEPT ![u] = <<>>]
    /\ UNCHANGED <<owner, alive, spawned>>

Next ==
    \E u \in Slots :
        \/ Die(u) \/ Cleanup(u) \/ Spawn(u)
        \/ BattleshipStep(u) \/ SquadronStep(u)

Spec == Init /\ [][Next]_vars

-----------------------------------------------------------------------------
(* Properties *)

\* Types.
TypeOK ==
    /\ unit \in [Slots -> Units \cup {Nobody}]
    /\ owner \subseteq Slots
    /\ alive \in [Slots -> BOOLEAN]
    /\ sec \in [Slots -> {0} \cup Slots]
    /\ order \in [Slots -> {"patrol", "attack", "guard"}]
    /\ ward \in [Slots -> {0} \cup Slots]
    /\ mail \in [Slots -> Seq(Letters)]
    /\ volley \in [by : {0} \cup Slots, at : {0} \cup Slots, fired : SUBSET (1..4)]
    /\ spawned \in 0 .. MaxSpawns

\* However old the slot number a unit aims by, and whoever owns that slot now,
\* damage goes only to a living unit of another faction that the shooter sees.
\* (A unit without a faction takes everybody for an enemy, see Sides.)
NoFriendlyFire ==
    volley.at # 0 =>
        LET u == volley.by
            v == volley.at
        IN  /\ Present(v) /\ v # u
            /\ unit[u].side # 0 => unit[v].side # unit[u].side
            /\ Distance(unit[u].pos, unit[v].pos) <= Stats(TypeOf(u)).dr

\* A unit fires only if one of its weapons reaches some enemy: the search for
\* another target, which forgets to start afresh for each weapon, invents none.
FireNeedsReach ==
    volley.fired # {} =>
        \E v \in Seen(unit, volley.by), i \in 1..4 :
            /\ i \in DOMAIN Loadout(TypeOf(volley.by))
            /\ Reaches(unit, volley.by, i, v)

\* A unit that has come as near to its one-cell target as it means to come can
\* fire every weapon that does anything to it.
ArrivedCanFire ==
    volley.at # 0 /\ Stats(TypeOf(volley.at)).si = 1 =>
        LET u == volley.by
            v == volley.at
        IN  Distance(unit[u].pos, unit[v].pos) <= Approach(TypeOf(u), TypeOf(v))
              => Effective(TypeOf(u), TypeOf(v)) \subseteq volley.fired

\* An attack is ordered only of a squadron that can do it: it has a weapon that
\* has an effect on the target.
Suits(e, letter) ==
    letter.order = "attack" => Effective(TypeOf(e), TypeOf(letter.target)) # {}
AttackOrdersSuit ==
    [][\A e \in Slots :
          Len(mail'[e]) > Len(mail[e]) => Suits(e, mail'[e][Len(mail'[e])])]_vars
=============================================================================
