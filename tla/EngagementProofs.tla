-------------------------- MODULE EngagementProofs --------------------------
(***************************************************************************)
(* Proofs about Engagement: whoever owns the slots by now, shots go to     *)
(* enemies in sight and orders to squadrons that can carry them out, for   *)
(* every registry, every fleet and every line of places.                   *)
(***************************************************************************)
EXTENDS Engagement, SequenceTheorems, TLAPS

-----------------------------------------------------------------------------
(* The invariant *)

\* a slot that has a process has a unit
OwnersAreUnits == \A u \in owner : unit[u] \in Units

(***************************************************************************)
(* What a step relies on.  The three properties of the last volley need    *)
(* nothing of the state before: they hold because of what the step looks   *)
(* at after its move, and no step leaves the last volley as it was.        *)
(***************************************************************************)
IInv ==
    /\ TypeOK
    /\ OwnersAreUnits
    /\ NoFriendlyFire
    /\ FireNeedsReach
    /\ ArrivedCanFire

-----------------------------------------------------------------------------
(* The tables *)

LEMMA Weapons ==
    ASSUME NEW type \in Types \cup {DUMMY}
    PROVE  /\ DOMAIN Loadout(type) \subseteq 1..4
           /\ \A i \in DOMAIN Loadout(type) : Loadout(type)[i].range \in {5, 10, 15}
<1> USE DEF Loadout, LongCannon, MediumGun, Weapon
<1>1. CASE type = "flagship"
  BY <1>1
<1>2. CASE type = "destroyer"
  BY <1>2
<1>3. CASE type = "carrier"
  BY <1>3
<1>4. CASE type = "fighter" \/ type = "elite"
  BY <1>4
<1>5. CASE type = "bomber"
  BY <1>5
<1>6. CASE type = DUMMY
  BY <1>6 DEF DUMMY
<1>. QED
  BY <1>1, <1>2, <1>3, <1>4, <1>5, <1>6 DEF Types, Ships, Fighters

\* who is as near as it means to come is within the range of all that matters
LEMMA ApproachIsNear ==
    ASSUME NEW type \in Types \cup {DUMMY}, NEW against,
           NEW i \in Effective(type, against)
    PROVE  /\ Approach(type, against) \in Int
           /\ Approach(type, against) <= Loadout(type)[i].range
<1> DEFINE ranges == {Loadout(type)[j].range : j \in Effective(type, against)}
           least == CHOOSE r \in ranges : \A q \in ranges : r <= q
<1>1. \A j \in Effective(type, against) : Loadout(type)[j].range \in {5, 10, 15}
  BY Weapons DEF Effective
<1>2. /\ \A q \in ranges : q \in {5, 10, 15}
      /\ Loadout(type)[i].range \in ranges
  BY <1>1
<1>3. Approach(type, against) = least - 1
  <2>1. ranges # {}
    BY <1>2
  <2>. QED
    BY <2>1 DEF Approach
<1> HIDE DEF ranges
<1>4. \E r \in ranges : \A q \in ranges : r <= q
  BY <1>2
<1>5. least \in ranges /\ \A q \in ranges : least <= q
  BY <1>4
<1> HIDE DEF least
<1>6. least \in Int /\ least <= Loadout(type)[i].range
  BY <1>2, <1>5
<1>7. Loadout(type)[i].range \in Int
  BY <1>2
<1>. QED
  BY <1>3, <1>6, <1>7

\* a squadron told to attack has a weapon for it
LEMMA AttackersAreArmed ==
    ASSUME NEW type \in Fighters, NEW against,
           \/ against \in {"fighter", "elite"} /\ type # "bomber"
           \/ against \in Ships /\ type = "bomber"
    PROVE  Effective(type, against) # {}
<1>1. 1 \in DOMAIN Loadout(type)
  BY DEF Loadout, Fighters
<1>2. Loadout(type)[1].class = IF type = "bomber" THEN "cannon" ELSE "gun"
  BY DEF Loadout, Weapon, Fighters
<1>3. Accuracy(Loadout(type)[1], against) = 75
  BY <1>2 DEF Accuracy, Fighters, Ships
<1>. QED
  BY <1>1, <1>3 DEF Effective

LEMMA DistanceIsSymmetric ==
    ASSUME NEW a \in Int, NEW b \in Int
    PROVE  Distance(a, b) = Distance(b, a) /\ Distance(a, b) \in Nat
BY DEF Distance

LEMMA Constants ==
    /\ MAX_UNITS \in Nat /\ 0 \notin Slots /\ Places \subseteq Nat
    /\ \A s \in Slots : s \in Nat
    /\ DUMMY \notin Types
<1>1. MAX_UNITS \in Nat /\ Places \subseteq Nat
  BY EngagementAssumption
<1>2. DUMMY \notin Types
  BY DEF DUMMY, Types, Ships, Fighters
<1>3. 0 \notin Slots /\ \A s \in Slots : s \in Nat
  BY <1>1 DEF Slots
<1>. QED
  BY <1>1, <1>2, <1>3

\* every slot has a type and a place, a real one if somebody owns it
LEMMA UnitFields ==
    ASSUME IInv, NEW u \in Slots
    PROVE  /\ unit[u].type \in Types \cup {DUMMY}
           /\ unit[u].pos \in Int
           /\ u \in owner => unit[u] \in Units
<1>1. unit[u] \in Units \/ unit[u] = Nobody
  BY DEF IInv, TypeOK
<1>2. CASE unit[u] \in Units
  <2>1. unit[u].type \in Types /\ unit[u].pos \in Places
    BY <1>2 DEF Units
  <2>2. Places \subseteq Int
    BY Constants
  <2>. QED
    BY <1>2, <2>1, <2>2
<1>3. CASE unit[u] = Nobody
  <2>1. unit[u].type = DUMMY /\ unit[u].pos = -1
    BY <1>3 DEF Nobody
  <2>2. u \in owner => unit[u] \in Units
    BY DEF IInv, OwnersAreUnits
  <2>. QED
    BY <2>1, <2>2
<1>. QED
  BY <1>1, <1>2, <1>3

-----------------------------------------------------------------------------
(* A step of a unit *)

\* what is fired at is seen after the move, and within a weapon's range
LEMMA EngageIsSound ==
    ASSUME IInv, NEW u \in Slots, Present(u), NEW held, Engage(u, held),
           UNCHANGED <<owner, alive>>
    PROVE  /\ unit' \in [Slots -> Units \cup {Nobody}]
           /\ OwnersAreUnits'
           /\ sec' \in [Slots -> {0} \cup Slots]
           /\ volley' \in [by : {0} \cup Slots, at : {0} \cup Slots,
                           fired : SUBSET (1..4)]
           /\ NoFriendlyFire' /\ FireNeedsReach' /\ ArrivedCanFire'
<1>1. PICK p \in Places :
        LET moved == [unit EXCEPT ![u].pos = p]
            seen == Seen(moved, u)
            aim == Kept(held, seen)
        IN  /\ unit' = moved
            /\ sec' = [sec EXCEPT ![u] = aim]
            /\ volley' = IF aim = 0 THEN NoVolley
                         ELSE [by |-> u, at |-> aim,
                               fired |-> Fired(moved, u, aim, seen)]
  BY DEF Engage
<1> DEFINE seen == Seen(unit', u)
           aim == Kept(held, seen)
<1>2. /\ unit' = [unit EXCEPT ![u].pos = p]
      /\ sec' = [sec EXCEPT ![u] = aim]
      /\ volley' = IF aim = 0 THEN NoVolley
                   ELSE [by |-> u, at |-> aim,
                         fired |-> Fired(unit', u, aim, seen)]
  BY <1>1
<1>3. unit \in [Slots -> Units \cup {Nobody}] /\ unit[u] \in Units
  BY UnitFields DEF IInv, TypeOK, Present
<1>4. /\ unit' \in [Slots -> Units \cup {Nobody}]
      /\ unit'[u] \in Units
      /\ \A s \in Slots : /\ s # u => unit'[s] = unit[s]
                          /\ unit'[s].type = unit[s].type
                          /\ unit'[s].side = unit[s].side
                          /\ unit'[s].pos \in Int
  <2>1. [unit[u] EXCEPT !.pos = p] \in Units
    BY <1>3 DEF Units
  <2>2. /\ unit'[u] = [unit[u] EXCEPT !.pos = p]
        /\ \A s \in Slots : s # u => unit'[s] = unit[s]
        /\ unit' \in [Slots -> Units \cup {Nobody}]
    BY <1>2, <1>3, <2>1
  <2>3. /\ unit'[u].type = unit[u].type /\ unit'[u].side = unit[u].side
        /\ unit'[u].pos = p /\ p \in Int
    BY <1>3, <2>2, Constants DEF Units
  <2>. QED
    BY <2>1, <2>2, <2>3, UnitFields
<1>5. OwnersAreUnits'
  BY <1>3, <1>4 DEF IInv, OwnersAreUnits, TypeOK
<1>6. \A s \in Slots : TypeOf(s)' = TypeOf(s)
  BY <1>4 DEF TypeOf
<1>7. Seen(unit, u)' = seen
  BY <1>4, <1>6 DEF Seen, Radar
<1>8. \A v \in seen :
        /\ v \in Slots /\ v \in owner /\ alive[v] /\ v # u
        /\ unit'[u].side = 0 \/ unit'[v].side # unit'[u].side
        /\ Distance(unit'[v].pos, unit'[u].pos) <= Stats(TypeOf(u)').dr
  BY <1>4, <1>6 DEF Seen, Radar, IInv, TypeOK
<1>9. aim = 0 \/ aim \in seen
  BY DEF Kept
<1>10. \A v, i : v \in Slots => (Reaches(unit, u, i, v)' <=> Reaches(unit', u, i, v))
  BY <1>6 DEF Reaches
<1> DEFINE weapons == DOMAIN Loadout(TypeOf(u))
<1>11. weapons \subseteq 1..4 /\ weapons = DOMAIN Loadout(TypeOf(u)')
  BY <1>6, UnitFields, Weapons DEF TypeOf
<1> HIDE DEF seen, aim
<1>12. sec' \in [Slots -> {0} \cup Slots]
  BY <1>2, <1>8, <1>9 DEF IInv, TypeOK
<1>13. CASE aim = 0
  <2>1. volley' = NoVolley
    BY <1>2, <1>13
  <2>2. NoFriendlyFire' /\ FireNeedsReach' /\ ArrivedCanFire'
    BY <2>1 DEF NoVolley, NoFriendlyFire, FireNeedsReach, ArrivedCanFire
  <2>3. volley' \in [by : {0} \cup Slots, at : {0} \cup Slots,
                     fired : SUBSET (1..4)]
    BY <2>1 DEF NoVolley
  <2>. QED
    BY <1>4, <1>5, <1>12, <2>2, <2>3
<1>14. CASE aim # 0
  <2> DEFINE fired == Fired(unit', u, aim, seen)
  <2>1. volley' = [by |-> u, at |-> aim, fired |-> fired]
    BY <1>2, <1>14
  <2>2. aim \in seen /\ aim \in Slots
    BY <1>8, <1>9, <1>14
  <2>3. /\ fired \subseteq weapons
        /\ {i \in weapons : Reaches(unit', u, i, aim)} \subseteq fired
    BY DEF Fired
  <2>4. ASSUME fired # {}
        PROVE  \E v \in seen, i \in weapons : Reaches(unit', u, i, v)
    BY <2>2, <2>4 DEF Fired
  <2> HIDE DEF fired, weapons
  <2>5. volley' \in [by : {0} \cup Slots, at : {0} \cup Slots,
                     fired : SUBSET (1..4)]
    BY <1>11, <2>1, <2>2, <2>3
  <2>6. volley'.by = u /\ volley'.at = aim /\ volley'.fired = fired
    BY <2>1
  <2>7. NoFriendlyFire'
    <3>1. Distance(unit'[u].pos, unit'[aim].pos) <= Stats(TypeOf(u)').dr
      BY <1>4, <1>8, <2>2, DistanceIsSymmetric
    <3>. QED
      BY <1>8, <2>2, <2>6, <3>1 DEF NoFriendlyFire, Present, TypeOf
  <2>8. FireNeedsReach'
    <3> SUFFICES ASSUME fired # {}
                 PROVE  \E v \in Seen(unit, volley.by)', i \in 1..4 :
                            /\ i \in DOMAIN Loadout(TypeOf(volley.by)')
                            /\ Reaches(unit, volley.by, i, v)'
      BY <2>6 DEF FireNeedsReach
    <3>1. PICK v \in seen, i \in weapons : Reaches(unit', u, i, v)
      BY <2>4
    <3>2. v \in Slots /\ i \in 1..4
      BY <1>8, <1>11
    <3>3. Reaches(unit, u, i, v)'
      BY <1>10, <3>1, <3>2
    <3>4. i \in DOMAIN Loadout(TypeOf(u)')
      BY <1>11, <3>1
    <3>. QED
      BY <1>7, <2>6, <3>1, <3>2, <3>3, <3>4 DEF Seen, TypeOf, Reaches
  <2>9. ArrivedCanFire'
    <3>1. PICK v \in Slots : v = aim
      BY <2>2
    <3>2. /\ TypeOf(u)' = TypeOf(u) /\ TypeOf(u) \in Types \cup {DUMMY}
          /\ TypeOf(v)' = TypeOf(v)
      BY <1>6, UnitFields DEF TypeOf
    <3> DEFINE near == Approach(TypeOf(u), TypeOf(v))
    <3> SUFFICES ASSUME Distance(unit'[u].pos, unit'[v].pos) <= near,
                        NEW i \in Effective(TypeOf(u), TypeOf(v))
                 PROVE  i \in fired
      <4>1. /\ unit'[u].type = TypeOf(u) /\ unit'[v].type = TypeOf(v)
        BY <1>4 DEF TypeOf
      <4>. QED
        BY <2>6, <3>1, <4>1 DEF ArrivedCanFire, TypeOf
    <3>3. /\ i \in weapons
          /\ Accuracy(Loadout(TypeOf(u))[i], TypeOf(v)) > 0
      BY DEF Effective, weapons
    <3>4. near \in Int /\ near <= Loadout(TypeOf(u))[i].range
      BY <3>2, ApproachIsNear
    <3>5. Loadout(TypeOf(u))[i].range \in Int
      BY <3>2, <3>3, Weapons DEF weapons
    <3>6. Distance(unit'[u].pos, unit'[v].pos) \in Nat
      BY <1>4, DistanceIsSymmetric
    <3> HIDE DEF near
    <3>7. Distance(unit'[u].pos, unit'[v].pos) <= Loadout(TypeOf(u))[i].range
      BY <3>4, <3>5, <3>6
    <3>8. Reaches(unit', u, i, v)
      BY <3>3, <3>7 DEF Reaches
    <3>. QED
      BY <2>3, <3>1, <3>3, <3>8
  <2>. QED
    BY <1>4, <1>5, <1>12, <2>5, <2>7, <2>8, <2>9
<1>. QED
  BY <1>13, <1>14

-----------------------------------------------------------------------------
(* Orders *)

\* An order names a slot, and one to attack suits the squadron it is sent to.
LEMMA OrderIsSound ==
    ASSUME IInv, NEW u \in Slots, NEW aim \in {0} \cup Slots,
           NEW e \in Squadrons, NEW letter \in OrderFor(u, aim, e)
    PROVE  letter \in Letters /\ Suits(e, letter)
<1> DEFINE attack == [order |-> "attack", target |-> aim]
           guard(v) == [order |-> "guard", target |-> v]
<1>1. TypeOf(e) \in Fighters
  BY DEF Squadrons
<1>2. \/ \E v \in Slots : letter = guard(v)
      \/ /\ aim # 0 /\ letter = attack
         /\ \/ TypeOf(aim) \in {"fighter", "elite"} /\ TypeOf(e) # "bomber"
            \/ TypeOf(aim) \in Ships /\ TypeOf(e) = "bomber"
  BY DEF OrderFor, Squadrons
<1>3. CASE \E v \in Slots : letter = guard(v)
  BY <1>3 DEF Letters, Suits
<1>4. CASE /\ aim # 0 /\ letter = attack
           /\ \/ TypeOf(aim) \in {"fighter", "elite"} /\ TypeOf(e) # "bomber"
              \/ TypeOf(aim) \in Ships /\ TypeOf(e) = "bomber"
  <2>1. Effective(TypeOf(e), TypeOf(aim)) # {}
    BY <1>1, <1>4, AttackersAreArmed
  <2>. QED
    BY <1>4, <2>1 DEF Letters, Suits
<1>. QED
  BY <1>2, <1>3, <1>4

\* what a battleship's step leaves in the queues
LEMMA MailIsSound ==
    ASSUME IInv, NEW u \in Slots, BattleshipStep(u)
    PROVE  /\ mail' \in [Slots -> Seq(Letters)]
           /\ \A e \in Slots :
                \/ mail'[e] = mail[e]
                \/ \E letter \in Letters : /\ mail'[e] = Append(mail[e], letter)
                                          /\ Suits(e, letter)
<1>1. sec'[u] \in {0} \cup Slots
  <2>1. PICK held : Engage(u, held)
    BY DEF BattleshipStep
  <2>2. sec' \in [Slots -> {0} \cup Slots]
    BY <2>1, EngageIsSound DEF BattleshipStep
  <2>. QED
    BY <2>2
<1>2. PICK aim \in {0} \cup Slots : aim = sec'[u]
  BY <1>1
<1>3. PICK flock \in SUBSET Squadrons :
        \E letter \in [flock -> UNION {OrderFor(u, sec'[u], e) : e \in flock}] :
           /\ \A e \in flock : letter[e] \in OrderFor(u, sec'[u], e)
           /\ mail' = [e \in Slots |-> IF e \in flock THEN Append(mail[e], letter[e])
                                                      ELSE mail[e]]
  <2>1. SUBSET {e \in Squadrons : Len(mail[e]) < MaxMail} \subseteq SUBSET Squadrons
    OBVIOUS
  <2>. QED
    BY <2>1, Zenon DEF BattleshipStep
<1>4. PICK letter :
        /\ \A e \in flock : letter[e] \in OrderFor(u, sec'[u], e)
        /\ mail' = [e \in Slots |-> IF e \in flock THEN Append(mail[e], letter[e])
                                                   ELSE mail[e]]
  BY <1>3, Zenon
<1>5. \A e \in flock : letter[e] \in OrderFor(u, aim, e)
  BY <1>2, <1>4
<1>6. \A e \in flock : letter[e] \in Letters /\ Suits(e, letter[e])
  BY <1>5, OrderIsSound
<1>7. mail \in [Slots -> Seq(Letters)] /\ flock \subseteq Slots
  BY DEF IInv, TypeOK, Squadrons
<1>8. \A e \in flock : Append(mail[e], letter[e]) \in Seq(Letters)
  BY <1>6, <1>7, AppendProperties
<1>. QED
  BY <1>4, <1>6, <1>7, <1>8

\* reading the letters gives a target that one of them names, or the one held
LEMMA LastTargetType ==
    ASSUME NEW letters \in Seq(Letters), NEW these \in SUBSET DOMAIN letters,
           NEW held \in {0} \cup Slots
    PROVE  LastTarget(letters, these, held) \subseteq {0} \cup Slots
<1>1. \A i \in these : letters[i] \in Letters
  <2>1. DOMAIN letters = 1..Len(letters)
    BY LenProperties
  <2>. QED
    BY <2>1, ElementOfSeq
<1>2. \A i \in these : letters[i].target \in Slots
  BY <1>1 DEF Letters
<1>. QED
  BY <1>2 DEF LastTarget

-----------------------------------------------------------------------------
(* Every step keeps the invariant *)

LEMMA HeldFire ==
    ASSUME volley' = NoVolley
    PROVE  /\ volley' \in [by : {0} \cup Slots, at : {0} \cup Slots,
                           fired : SUBSET (1..4)]
           /\ NoFriendlyFire' /\ FireNeedsReach' /\ ArrivedCanFire'
BY DEF NoVolley, NoFriendlyFire, FireNeedsReach, ArrivedCanFire

LEMMA InitIInv == Init => IInv
<1> SUFFICES ASSUME Init PROVE IInv
  OBVIOUS
<1>1. PICK fleet \in Fleets :
        /\ unit = [u \in Slots |-> IF u \in DOMAIN fleet THEN fleet[u] ELSE Nobody]
        /\ owner = DOMAIN fleet
        /\ alive = [u \in Slots |-> u \in DOMAIN fleet]
  BY DEF Init
<1>2. fleet \in Seq(Units) /\ Len(fleet) <= MAX_UNITS
  BY EngagementAssumption
<1>3. DOMAIN fleet \subseteq Slots /\ \A u \in DOMAIN fleet : fleet[u] \in Units
  BY <1>2, Constants DEF Slots
<1>4. unit \in [Slots -> Units \cup {Nobody}] /\ OwnersAreUnits
  BY <1>1, <1>3 DEF OwnersAreUnits
<1>5. 0 \in 0 .. MaxSpawns
  BY EngagementAssumption
<1>6. volley \in [by : {0} \cup Slots, at : {0} \cup Slots, fired : SUBSET (1..4)]
  BY DEF Init, NoVolley
<1>7. mail \in [Slots -> Seq(Letters)]
  BY EmptySeq DEF Init
<1>8. TypeOK
  BY <1>1, <1>3, <1>4, <1>5, <1>6, <1>7 DEF Init, TypeOK
<1>9. NoFriendlyFire /\ FireNeedsReach /\ ArrivedCanFire
  BY DEF Init, NoVolley, NoFriendlyFire, FireNeedsReach, ArrivedCanFire
<1>. QED
  BY <1>4, <1>8, <1>9 DEF IInv

LEMMA NextIInv == IInv /\ [Next]_vars => IInv'
<1> SUFFICES ASSUME IInv, [Next]_vars PROVE IInv'
  OBVIOUS
<1>1. ASSUME NEW u \in Slots, Die(u)
      PROVE  IInv'
  <2>1. <<>> \in Seq(Letters)
    BY EmptySeq
  <2>2. TypeOK'
    BY <1>1, <2>1, HeldFire DEF Die, IInv, TypeOK
  <2>3. OwnersAreUnits'
    BY <1>1, Constants DEF Die, IInv, TypeOK, OwnersAreUnits
  <2>. QED
    BY <1>1, <2>2, <2>3, HeldFire DEF Die, IInv
<1>2. ASSUME NEW u \in Slots, Cleanup(u)
      PROVE  IInv'
  <2>1. TypeOK'
    BY <1>2, HeldFire DEF Cleanup, IInv, TypeOK
  <2>2. OwnersAreUnits'
    BY <1>2 DEF Cleanup, IInv, TypeOK, OwnersAreUnits
  <2>. QED
    BY <1>2, <2>1, <2>2, HeldFire DEF Cleanup, IInv
<1>3. ASSUME NEW u \in Slots, Spawn(u)
      PROVE  IInv'
  <2>1. PICK r \in Recruits : unit' = [unit EXCEPT ![u] = r]
    BY <1>3 DEF Spawn
  <2>2. r \in Units
    BY <2>1, EngagementAssumption
  <2>3. spawned' \in 0 .. MaxSpawns
    BY <1>3, EngagementAssumption DEF Spawn, IInv, TypeOK
  <2>4. TypeOK'
    BY <1>3, <2>1, <2>2, <2>3, HeldFire DEF Spawn, IInv, TypeOK
  <2>5. OwnersAreUnits'
    BY <1>3, <2>1, <2>2 DEF Spawn, IInv, TypeOK, OwnersAreUnits
  <2>. QED
    BY <1>3, <2>4, <2>5, HeldFire DEF Spawn, IInv
<1>4. ASSUME NEW u \in Slots, BattleshipStep(u)
      PROVE  IInv'
  <2>1. PICK held : Engage(u, held)
    BY <1>4 DEF BattleshipStep
  <2>2. Present(u) /\ UNCHANGED <<owner, alive, order, ward, spawned>>
    BY <1>4 DEF BattleshipStep
  <2>3. mail' \in [Slots -> Seq(Letters)]
    BY <1>4, MailIsSound
  <2>4. TypeOK'
    BY <2>1, <2>2, <2>3, EngageIsSound DEF IInv, TypeOK
  <2>. QED
    BY <2>1, <2>2, <2>3, <2>4, EngageIsSound DEF IInv
<1>5. ASSUME NEW u \in Slots, SquadronStep(u)
      PROVE  IInv'
  <2>1. PICK held : Engage(u, held)
    BY <1>5 DEF SquadronStep
  <2>2. Present(u) /\ UNCHANGED <<owner, alive, spawned>>
    BY <1>5 DEF SquadronStep, Squadrons
  <2>3. mail' \in [Slots -> Seq(Letters)]
    BY <1>5, EmptySeq DEF SquadronStep, IInv, TypeOK
  <2> DEFINE letters == mail[u]
             told == IF letters = <<>> THEN order[u] ELSE letters[Len(letters)].order
             guards == {i \in DOMAIN letters : /\ letters[i].order = "guard"
                                               /\ alive[letters[i].target]}
             guardeds == LastTarget(letters, guards, ward[u])
  <2>4. letters \in Seq(Letters) /\ told \in {"patrol", "attack", "guard"}
    <3>1. letters \in Seq(Letters) /\ order[u] \in {"patrol", "attack", "guard"}
      BY DEF IInv, TypeOK
    <3>2. ASSUME letters # <<>> PROVE letters[Len(letters)] \in Letters
      <4>1. Len(letters) \in 1..Len(letters)
        BY <3>1, <3>2, LenProperties, EmptySeq
      <4>. QED
        BY <3>1, <4>1, ElementOfSeq
    <3>. QED
      BY <3>1, <3>2 DEF Letters
  <2>5. guardeds \subseteq {0} \cup Slots
    <3>1. guards \in SUBSET DOMAIN letters /\ ward[u] \in {0} \cup Slots
      BY DEF IInv, TypeOK
    <3>. HIDE DEF letters, guards
    <3>. QED
      BY <2>4, <3>1, LastTargetType
  <2> HIDE DEF told, guardeds
  <2>7. /\ order' \in [Slots -> {"patrol", "attack", "guard"}]
        /\ ward' \in [Slots -> {0} \cup Slots]
    <3>1. PICK guarded \in guardeds, now \in {told, "patrol"} :
            /\ order' = [order EXCEPT ![u] = now]
            /\ ward' = [ward EXCEPT ![u] =
                          IF now = "guard" /\ guarded # 0 /\ ~alive[guarded]
                          THEN 0 ELSE guarded]
      BY <1>5 DEF SquadronStep, told, guardeds
    <3>. QED
      BY <2>4, <2>5, <3>1 DEF IInv, TypeOK
  <2>6. TypeOK'
    BY <2>1, <2>2, <2>3, <2>7, EngageIsSound DEF IInv, TypeOK
  <2>. QED
    BY <2>1, <2>2, <2>3, <2>6, EngageIsSound DEF IInv
<1>6. CASE UNCHANGED vars
  BY <1>6 DEF vars, IInv, TypeOK, OwnersAreUnits,
              NoFriendlyFire, FireNeedsReach, ArrivedCanFire, Seen, Radar,
              Present, TypeOf, Reaches
<1>. QED
  BY <1>1, <1>2, <1>3, <1>4, <1>5, <1>6 DEF Next

-----------------------------------------------------------------------------
(* The theorems *)

\* Types, and what a step finds in the slots and the queues: an owned slot has
\* a real unit, and what waits to be read is an order that names a slot.
THEOREM EngagementInvariant == Spec => []IInv
BY InitIInv, NextIInv, PTL DEF Spec

\* Types: unit_ipc's registry, the targets of the units and the orders queued.
THEOREM EngagementTypes == Spec => []TypeOK
BY EngagementInvariant, PTL DEF IInv

\* unit_weapon_shoot: damage goes only to a living unit of another faction, in
\* sight, however old the slot number and whoever owns the slot by now.
THEOREM FriendsAreSpared == Spec => []NoFriendlyFire
BY EngagementInvariant, PTL DEF IInv

\* unit_weapon_shoot: a unit fires only if a weapon of its own reaches an enemy
\* in sight.
THEOREM FireReachesSomebody == Spec => []FireNeedsReach
BY EngagementInvariant, PTL DEF IInv

\* unit_calculate_aproach: at the distance it is content with, a unit fires
\* every weapon that does anything to its one-cell target.
THEOREM ArrivedIsNearEnough == Spec => []ArrivedCanFire
BY EngagementInvariant, PTL DEF IInv

\* battleship_action: an attack is ordered only of a squadron with a weapon
\* that does something to the target.
THEOREM OrdersSuit == Spec => AttackOrdersSuit
<1> DEFINE Suiting == \A e \in Slots :
              Len(mail'[e]) > Len(mail[e]) => Suits(e, mail'[e][Len(mail'[e])])
<1>1. ASSUME IInv, [Next]_vars
      PROVE  [Suiting]_vars
  <2> SUFFICES ASSUME Next PROVE Suiting
    BY <1>1
  <2>1. ASSUME NEW u \in Slots, Die(u) \/ SquadronStep(u)
        PROVE  Suiting
    <3>1. \A e \in Slots : mail[e] \in Seq(Letters) /\ Len(mail[e]) \in Nat
      BY <1>1, LenProperties DEF IInv, TypeOK
    <3>2. \A e \in Slots : mail'[e] = mail[e] \/ mail'[e] = <<>>
      BY <1>1, <2>1 DEF Die, SquadronStep, IInv, TypeOK
    <3>3. Len(<<>>) = 0
      BY EmptySeq
    <3>4. \A e \in Slots : ~(Len(mail'[e]) > Len(mail[e]))
      BY <3>1, <3>2, <3>3
    <3>. QED
      BY <3>4
  <2>2. ASSUME NEW u \in Slots, Cleanup(u) \/ Spawn(u)
        PROVE  Suiting
    <3>1. \A e \in Slots : Len(mail[e]) \in Nat
      BY <1>1, LenProperties DEF IInv, TypeOK
    <3>2. mail' = mail
      BY <2>2 DEF Cleanup, Spawn
    <3>. QED
      BY <3>1, <3>2
  <2>3. ASSUME NEW u \in Slots, BattleshipStep(u)
        PROVE  Suiting
    <3> SUFFICES ASSUME NEW e \in Slots, Len(mail'[e]) > Len(mail[e])
                 PROVE  Suits(e, mail'[e][Len(mail'[e])])
      OBVIOUS
    <3>1. mail[e] \in Seq(Letters) /\ Len(mail[e]) \in Nat
      BY <1>1, LenProperties DEF IInv, TypeOK
    <3>2. PICK letter \in Letters : /\ mail'[e] = Append(mail[e], letter)
                                    /\ Suits(e, letter)
      BY <1>1, <2>3, <3>1, MailIsSound
    <3>3. mail'[e][Len(mail'[e])] = letter
      BY <3>1, <3>2, AppendProperties
    <3>. QED
      BY <3>2, <3>3
  <2>. QED
    BY <2>1, <2>2, <2>3 DEF Next
<1> HIDE DEF Suiting
<1>2. Spec => [][Suiting]_vars
  BY <1>1, EngagementInvariant, PTL DEF Spec
<1>. QED
  BY <1>2 DEF AttackOrdersSuit, Suiting
=============================================================================
