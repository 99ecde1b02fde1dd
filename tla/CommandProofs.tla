--------------------------- MODULE CommandProofs ---------------------------
(***************************************************************************)
(* Proofs about Command, for every fleet, registry and number of           *)
(* processes: whom a squadron belongs to, and what it may be told.         *)
(***************************************************************************)
EXTENDS Command, FiniteSetTheorems, SequenceTheorems, TLAPS

-----------------------------------------------------------------------------
(* Who is where *)

\* the slots that processes, and squadrons, have been given so far
GivenSlots == {slot[p] : p \in {q \in Procs : q <= forked}}
SquadronSlots == {slot[p] : p \in {q \in Squadrons : q <= forked}}

\* Processes are numbered as they are forked.  One that is not born yet has no
\* slot, no mail and no memory.
Births ==
    /\ Len(Scenario) <= forked
    /\ \A p \in Procs :
          /\ p <= forked <=> slot[p] # 0
          /\ p <= forked <=> step[p] # "unborn"
          /\ p > forked => /\ orders[p] = <<>> /\ replies[p] = <<>>
                           /\ announced[p] = <<>> /\ commander[p] = 0
                           /\ order[p] = "patrol" /\ ward[p] = 0
                           /\ p \notin asking
    /\ \A q \in Ships, i \in Slots : q > forked => underlings[q][i] = 0

\* the registry and the units agree on who lives in which slot
Registry ==
    /\ \A p \in Procs : Living(p) => alive[slot[p]] /\ owner[slot[p]] = p
    /\ \A s \in Slots : owner[s] # 0 => owner[s] <= forked /\ slot[owner[s]] = s
    /\ \A s \in Slots : alive[s] => owner[s] # 0 /\ Living(owner[s])

\* a battleship's lists, and the requests, name slots squadrons have had
Lists ==
    /\ \A q \in Ships, i \in Slots :
          underlings[q][i] # 0 => underlings[q][i] \in SquadronSlots
    /\ \A q \in Procs : \A i \in DOMAIN announced[q] : announced[q][i] \in SquadronSlots
    /\ \A i \in DOMAIN reqs :
          reqs[i].from <= forked /\ reqs[i].sender_id = slot[reqs[i].from]

\* whom an order, a ward, a reply or a squadron's memory names has been born
Targets ==
    \A p \in Procs :
        /\ ward[p] # 0 => ward[p] \in GivenSlots
        /\ commander[p] # 0 => commander[p] \in GivenSlots
        /\ \A i \in DOMAIN replies[p] : replies[p][i] \in GivenSlots
        /\ \A i \in DOMAIN orders[p] :
              orders[p][i].target # 0 => orders[p][i].target \in GivenSlots

\* what holds whatever is lost and whoever fights whom
Bookkeeping == TypeOK /\ Births /\ Registry /\ Lists /\ Targets

-----------------------------------------------------------------------------
(* The constants *)

LEMMA Constants ==
    /\ MAX_UNITS \in Nat /\ MaxProcs \in Nat /\ Len(Fleet) \in Nat
    /\ Len(Scenario) \in Nat /\ Len(Fleet) <= Len(Scenario)
    /\ Len(Scenario) <= MAX_UNITS /\ Len(Scenario) <= MaxProcs
    /\ Ships \subseteq Procs
    /\ \A p \in Procs : p \in Nat /\ p # 0
    /\ \A s \in Slots : s \in Nat /\ s # 0
<1>1. /\ MAX_UNITS \in Nat /\ MaxProcs \in Nat
      /\ Fleet \in Seq(Factions) /\ Wing \in Seq([side : Factions, kind : Light])
      /\ Len(Scenario) <= MAX_UNITS /\ Len(Scenario) <= MaxProcs
  BY CommandAssumption
<1>2. Battleships \in Seq([side : Factions, kind : {"ship"}])
      /\ Len(Battleships) = Len(Fleet)
  BY <1>1 DEF Battleships
<1>3. Len(Scenario) = Len(Fleet) + Len(Wing)
  <2> DEFINE Ship == [side : Factions, kind : {"ship"}]
             Craft == [side : Factions, kind : Light]
  <2>1. Battleships \in Seq(Ship) /\ Wing \in Seq(Craft)
    BY <1>1, <1>2
  <2> HIDE DEF Ship, Craft
  <2>2. Len(Battleships \o Wing) = Len(Battleships) + Len(Wing)
    BY <2>1
  <2>. QED
    BY <1>2, <2>2 DEF Scenario
<1>4. Len(Fleet) \in Nat /\ Len(Wing) \in Nat
  BY <1>1
<1>5. DOMAIN Yard \subseteq (Len(Scenario) + 1)..MaxProcs
  BY CommandAssumption
<1>. QED
  BY <1>1, <1>3, <1>4, <1>5 DEF Ships, Procs, Slots

\* a battleship's faction
Flag(q) == IF q \in DOMAIN Yard THEN Yard[q] ELSE Fleet[q]

\* the battleships of the scenario come first in it
LEMMA TheScenario ==
    ASSUME NEW s \in 1..Len(Scenario)
    PROVE  /\ Scenario[s].side \in Factions
           /\ Scenario[s].kind \in Light \cup {"ship"}
           /\ Scenario[s].kind = "ship" => s \in Ships
           /\ s \in Ships => Scenario[s].side = Flag(s)
<1>1. Fleet \in Seq(Factions) /\ Wing \in Seq([side : Factions, kind : Light])
  BY CommandAssumption
<1>2. /\ Battleships \in Seq([side : Factions, kind : {"ship"}])
      /\ Len(Battleships) = Len(Fleet)
  BY <1>1 DEF Battleships
<1>5. s \notin DOMAIN Yard
  <2>1. DOMAIN Yard \subseteq (Len(Scenario) + 1)..MaxProcs
    BY CommandAssumption
  <2>. QED
    BY <2>1, Constants
<1>6. s \in Ships <=> s \in 1..Len(Fleet)
  BY <1>5 DEF Ships
<1>3. CASE s \in Ships
  <2>1. Scenario[s] = Battleships[s]
    BY <1>1, <1>2, <1>3, <1>6 DEF Scenario
  <2>2. Battleships[s] = [side |-> Fleet[s], kind |-> "ship"]
    BY <1>3, <1>6 DEF Battleships
  <2>3. Fleet[s] \in Factions /\ Flag(s) = Fleet[s]
    BY <1>1, <1>3, <1>5, <1>6 DEF Flag
  <2>. QED
    BY <1>3, <2>1, <2>2, <2>3
<1>4. CASE s \notin Ships
  <2>1. /\ Scenario[s] = Wing[s - Len(Fleet)]
        /\ s - Len(Fleet) \in 1..Len(Wing)
    <3>1. Len(Battleships) < s /\ s <= Len(Battleships) + Len(Wing)
      BY <1>1, <1>2, <1>4, <1>6 DEF Scenario
    <3>. QED
      BY <1>1, <1>2, <3>1 DEF Scenario
  <2>2. Wing[s - Len(Fleet)] \in [side : Factions, kind : Light]
    <3> DEFINE Craft == [side : Factions, kind : Light]
    <3>1. Wing \in Seq(Craft)
      BY <1>1
    <3> HIDE DEF Craft
    <3>2. Wing[s - Len(Fleet)] \in Craft
      BY <2>1, <3>1, ElementOfSeq
    <3>. QED
      BY <3>2 DEF Craft
  <2>. QED
    BY <1>4, <2>1, <2>2 DEF Light
<1>. QED
  BY <1>3, <1>4

\* numbers are well ordered: the CHOOSEs of the model choose something
LEMMA LeastNatural ==
    ASSUME NEW S \in SUBSET Nat, S # {}
    PROVE  \E i \in S : \A j \in S : i <= j
<1>1. PICK i \in S : \A j \in S : <<j, i>> \notin OpToRel(<, Nat)
  BY WFMin, NatLessThanWellFounded, Zenon
<1>2. \A j \in S : ~(j < i)
  BY <1>1, Zenon DEF OpToRel
<1>. QED
  BY <1>2

LEMMA GreatestNatural ==
    ASSUME NEW n \in Nat, NEW S \in SUBSET (1..n), S # {}
    PROVE  \E i \in S : \A j \in S : j <= i
<1> DEFINE T == {n - i : i \in S}
<1>1. T \in SUBSET Nat /\ T # {}
  <2>1. \A i \in S : n - i \in Nat
    <3>1. S \subseteq 1..n
      OBVIOUS
    <3>. QED
      BY <3>1
  <2>2. T # {}
    OBVIOUS
  <2>. QED
    BY <2>1, <2>2
<1>2. PICK k \in T : \A j \in T : k <= j
  <2> HIDE DEF T
  <2>. QED
    BY <1>1, LeastNatural
<1>3. PICK i \in S : k = n - i
  BY <1>2
<1>4. \A j \in S : k <= n - j
  BY <1>2
<1>. QED
  BY <1>3, <1>4

-----------------------------------------------------------------------------
(* Entering ids on a list *)

\* how many of the first i entries are empty
rank(entries, i) == Cardinality({j \in 1..i : entries[j] = 0})

LEMMA RankIsCount ==
    ASSUME NEW entries \in [Slots -> Slots \cup {0}], NEW i \in Slots
    PROVE  /\ rank(entries, i) \in Nat /\ Room(entries) \in Nat
           /\ rank(entries, i) <= Room(entries)
           /\ entries[i] = 0 => rank(entries, i) \in 1..Room(entries)
<1> DEFINE before == {j \in 1..i : entries[j] = 0}
           empty == {j \in Slots : entries[j] = 0}
<1>1. IsFiniteSet(Slots)
  BY Constants, FS_Interval DEF Slots
<1>2. before \subseteq empty /\ empty \subseteq Slots
  BY Constants DEF Slots
<1>3. IsFiniteSet(empty) /\ IsFiniteSet(before)
  BY <1>1, <1>2, FS_Subset
<1>4. Cardinality(before) <= Cardinality(empty) /\ Cardinality(before) \in Nat
  BY <1>2, <1>3, FS_Subset, FS_CardinalityType
<1>5. Cardinality(empty) \in Nat
  BY <1>3, FS_CardinalityType
<1>6. entries[i] = 0 => Cardinality(before) >= 1
  <2> SUFFICES ASSUME entries[i] = 0 PROVE Cardinality(before) # 0
    BY <1>4
  <2>1. i \in before
    BY Constants DEF Slots
  <2>. QED
    BY <1>3, <2>1, FS_EmptySet
<1> HIDE DEF before, empty
<1>7. Room(entries) = Cardinality(empty) /\ rank(entries, i) = Cardinality(before)
  BY DEF Room, rank, empty, before
<1>. QED
  BY <1>4, <1>5, <1>6, <1>7

\* no two empty entries have the same rank
LEMMA RankIsInjective ==
    ASSUME NEW entries \in [Slots -> Slots \cup {0}],
           NEW i \in Slots, NEW k \in Slots, i < k, entries[k] = 0
    PROVE  rank(entries, i) < rank(entries, k)
<1> DEFINE upTo(n) == {j \in 1..n : entries[j] = 0}
<1>1. IsFiniteSet(upTo(i)) /\ IsFiniteSet(upTo(k))
  <2>1. IsFiniteSet(1..i) /\ IsFiniteSet(1..k)
    <3>1. i \in Int /\ k \in Int /\ 1 \in Int
      BY Constants
    <3>2. IsFiniteSet(1..i)
      BY <3>1, FS_Interval
    <3>3. IsFiniteSet(1..k)
      BY <3>1, FS_Interval
    <3>. QED
      BY <3>2, <3>3
  <2>2. upTo(i) \subseteq 1..i /\ upTo(k) \subseteq 1..k
    OBVIOUS
  <2> HIDE DEF upTo
  <2>3. IsFiniteSet(upTo(i))
    BY <2>1, <2>2, FS_Subset
  <2>4. IsFiniteSet(upTo(k))
    BY <2>1, <2>2, FS_Subset
  <2>. QED
    BY <2>3, <2>4
<1>2. upTo(i) \cup {k} \subseteq upTo(k) /\ k \notin upTo(i)
  BY Constants
<1>3. /\ IsFiniteSet(upTo(i) \cup {k})
      /\ Cardinality(upTo(i) \cup {k}) = Cardinality(upTo(i)) + 1
  BY <1>1, <1>2, FS_AddElement
<1>4. Cardinality(upTo(i) \cup {k}) <= Cardinality(upTo(k))
  BY <1>1, <1>2, FS_Subset
<1>5. Cardinality(upTo(i)) \in Nat /\ Cardinality(upTo(k)) \in Nat
  BY <1>1, FS_CardinalityType
<1>. QED
  BY <1>3, <1>4, <1>5 DEF rank

\* every rank up to the room there is belongs to an empty entry
LEMMA RanksAreAllTaken ==
    ASSUME NEW entries \in [Slots -> Slots \cup {0}], NEW k \in 1..Room(entries)
    PROVE  \E i \in Slots : entries[i] = 0 /\ rank(entries, i) = k
<1> SUFFICES ASSUME \A i \in Slots : entries[i] = 0 => rank(entries, i) # k
             PROVE  FALSE
  OBVIOUS
<1> DEFINE empty == {i \in Slots : entries[i] = 0}
           others == (1..Room(entries)) \ {k}
           r == [i \in empty |-> rank(entries, i)]
<1>1. IsFiniteSet(empty) /\ Cardinality(empty) = Room(entries)
  <2>1. IsFiniteSet(Slots)
    BY Constants, FS_Interval DEF Slots
  <2>. QED
    BY <2>1, FS_Subset DEF Room
<1>2. Room(entries) \in Nat
  BY <1>1, FS_CardinalityType
<1>3. IsFiniteSet(others) /\ Cardinality(others) = Room(entries) - 1
  <2>1. IsFiniteSet(1..Room(entries)) /\ Cardinality(1..Room(entries)) = Room(entries)
    BY <1>2, FS_Interval
  <2>. QED
    BY <2>1, FS_RemoveElement
<1>4. r \in [empty -> others]
  <2>1. \A i \in empty : rank(entries, i) \in others
    BY RankIsCount
  <2>. QED
    BY <2>1
<1>5. \E i, j \in empty : i # j /\ r[i] = r[j]
  <2>1. Cardinality(others) < Cardinality(empty)
    BY <1>1, <1>2, <1>3
  <2> HIDE DEF others, empty, r
  <2>. QED
    BY <1>1, <1>3, <1>4, <2>1, FS_PigeonHole
<1> PICK i \in Slots, j \in Slots :
      /\ entries[i] = 0 /\ entries[j] = 0
      /\ i # j /\ rank(entries, i) = rank(entries, j)
  BY <1>5
<1>6. /\ rank(entries, i) = rank(entries, j)
      /\ rank(entries, i) \in Nat
      /\ i < j \/ j < i
  BY RankIsCount, Constants
<1>7. i < j => rank(entries, i) < rank(entries, j)
  BY RankIsInjective
<1>8. j < i => rank(entries, j) < rank(entries, i)
  BY RankIsInjective
<1>. QED
  BY <1>6, <1>7, <1>8

\* What is on the list stays, and what is new was to be entered and found room.
LEMMA EnlistKeeps ==
    ASSUME NEW entries \in [Slots -> Slots \cup {0}], NEW ids \in Seq(Slots)
    PROVE  /\ Enlist(entries, ids) \in [Slots -> Slots \cup {0}]
           /\ \A i \in Slots :
                 /\ entries[i] # 0 => Enlist(entries, ids)[i] = entries[i]
                 /\ entries[i] = 0 /\ Enlist(entries, ids)[i] # 0 =>
                       \E k \in DOMAIN ids :
                           k <= Room(entries) /\ Enlist(entries, ids)[i] = ids[k]
<1> DEFINE list == Enlist(entries, ids)
<1>1. \A i \in Slots : list[i] = IF entries[i] = 0 /\ rank(entries, i) <= Len(ids)
                                 THEN ids[rank(entries, i)] ELSE entries[i]
  BY DEF Enlist, rank
<1>2. \A i \in Slots : entries[i] = 0 /\ rank(entries, i) <= Len(ids) =>
          rank(entries, i) \in DOMAIN ids /\ rank(entries, i) <= Room(entries)
  BY RankIsCount
<1>3. list = [i \in Slots |-> list[i]]
  BY DEF Enlist
<1> HIDE DEF list
<1>4. list \in [Slots -> Slots \cup {0}]
  <2>1. \A k \in DOMAIN ids : ids[k] \in Slots
    OBVIOUS
  <2>. QED
    BY <1>1, <1>2, <1>3, <2>1
<1>. QED
  BY <1>1, <1>2, <1>4 DEF list

\* What there is room for is entered.
LEMMA EnlistEnters ==
    ASSUME NEW entries \in [Slots -> Slots \cup {0}], NEW ids \in Seq(Slots),
           NEW k \in DOMAIN ids, k <= Room(entries)
    PROVE  \E i \in Slots : Enlist(entries, ids)[i] = ids[k]
<1>1. k \in 1..Room(entries) /\ k <= Len(ids)
  <2>1. Room(entries) \in Nat
    <3>1. IsFiniteSet(Slots)
      BY Constants, FS_Interval DEF Slots
    <3>. QED
      BY <3>1, FS_Subset, FS_CardinalityType DEF Room
  <2>. QED
    BY <2>1
<1>2. PICK i \in Slots : entries[i] = 0 /\ rank(entries, i) = k
  BY <1>1, RanksAreAllTaken
<1>3. Enlist(entries, ids)[i] = ids[k]
  BY <1>1, <1>2 DEF Enlist, rank
<1>. QED
  BY <1>3

-----------------------------------------------------------------------------
(* A battleship's step, in parts *)

Own(q) == Enlist(underlings[q], announced[q])

\* slot e is on battleship q's list, or a reply about it has not been read
OnList(q, e) ==
    \/ \E i \in Slots : underlings[q][i] = e
    \/ \E i \in DOMAIN announced[q] : announced[q][i] = e

\* request k finds room on battleship q's list
Heard(q, k) == k \in DOMAIN reqs /\ k <= Room(Own(q))

OrderTypes == [order : {"guard", "attack"}, target : Slots \cup {0}]

\* an order names nobody, the battleship, or one of its underlings
LEMMA OrderIsSound ==
    ASSUME NEW self \in Slots, NEW entries \in [Slots -> Slots \cup {0}],
           NEW e, NEW aim
    PROVE  /\ OrderFor(self, entries, e, aim) \in OrderTypes
           /\ LET u == OrderFor(self, entries, e, aim).target
              IN  u = 0 \/ u = self \/ \E i \in Slots : u = entries[i] /\ u # 0
<1> DEFINE bombers == {i \in Slots : entries[i] # 0 /\ kind[entries[i]] = "bomber"}
           first == CHOOSE i \in bombers : \A j \in bombers : i <= j
           b == BomberOr(self, entries)
<1>1. bombers # {} => first \in bombers
  <2>1. bombers \in SUBSET Nat
    BY Constants
  <2>2. bombers # {} => \E i \in bombers : \A j \in bombers : i <= j
    <3> HIDE DEF bombers
    <3>. QED
      BY <2>1, LeastNatural
  <2>. QED
    BY <2>2
<1>2. b = IF bombers = {} THEN self ELSE entries[first]
  BY DEF BomberOr
<1>3. b \in Slots /\ (b = self \/ \E i \in Slots : b = entries[i] /\ b # 0)
  <2>1. CASE bombers = {}
    BY <1>2, <2>1
  <2>2. CASE bombers # {}
    <3>1. first \in Slots /\ entries[first] # 0
      BY <1>1, <2>2
    <3> HIDE DEF first, bombers
    <3>. QED
      BY <1>2, <2>2, <3>1
  <2>. QED
    BY <2>1, <2>2
<1> HIDE DEF b
<1>4. \/ OrderFor(self, entries, e, aim) = [order |-> "attack", target |-> 0]
      \/ OrderFor(self, entries, e, aim) = [order |-> "guard", target |-> self]
      \/ OrderFor(self, entries, e, aim) = [order |-> "guard", target |-> b]
  BY DEF OrderFor, b
<1>. QED
  BY <1>3, <1>4 DEF OrderTypes

LEMMA RequestTypes ==
    ASSUME TypeOK, NEW k \in DOMAIN reqs
    PROVE  reqs[k].from \in Squadrons /\ reqs[k].sender_id \in Slots
<1> DEFINE Requests == [from : Squadrons, sender_id : Slots]
<1>1. reqs \in Seq(Requests)
  BY DEF TypeOK
<1>2. reqs[k] \in Requests
  <2> HIDE DEF Requests
  <2>. QED
    BY <1>1
<1>. QED
  BY <1>2

LEMMA RequestsAreSequence ==
    ASSUME TypeOK, NEW request \in [from : Squadrons, sender_id : Slots]
    PROVE  /\ DOMAIN reqs = 1..Len(reqs) /\ Len(reqs) \in Nat
           /\ DOMAIN Append(reqs, request) = 1..(Len(reqs) + 1)
           /\ \A i \in DOMAIN reqs : Append(reqs, request)[i] = reqs[i]
           /\ Append(reqs, request)[Len(reqs) + 1] = request
<1> DEFINE Requests == [from : Squadrons, sender_id : Slots]
<1>1. reqs \in Seq(Requests)
  BY DEF TypeOK
<1>2. request \in Requests
  OBVIOUS
<1> HIDE DEF Requests
<1>. QED
  BY <1>1, <1>2, AppendProperties, LenProperties

LEMMA ListTypes ==
    ASSUME Bookkeeping, NEW q \in Ships
    PROVE  /\ underlings[q] \in [Slots -> Slots \cup {0}]
           /\ announced[q] \in Seq(Slots)
           /\ Own(q) \in [Slots -> Slots \cup {0}]
           /\ Senders(reqs) \in Seq(Slots) /\ DOMAIN Senders(reqs) = DOMAIN reqs
           /\ \A k \in DOMAIN reqs : Senders(reqs)[k] = reqs[k].sender_id
<1>1. underlings[q] \in [Slots -> Slots \cup {0}] /\ announced[q] \in Seq(Slots)
  BY Constants DEF Bookkeeping, TypeOK
<1>2. Own(q) \in [Slots -> Slots \cup {0}]
  BY <1>1, EnlistKeeps DEF Own
<1>3. DOMAIN reqs = 1..Len(reqs) /\ Len(reqs) \in Nat
  BY DEF Bookkeeping, TypeOK
<1>4. \A k \in DOMAIN reqs : reqs[k].sender_id \in Slots
  BY RequestTypes DEF Bookkeeping
<1>. QED
  BY <1>1, <1>2, <1>3, <1>4 DEF Senders

\* a battleship that lives or asks for a squadron has been born
LEMMA ShipSlots ==
    ASSUME Bookkeeping, NEW q \in Ships, Living(q) \/ q \in asking
    PROVE  q \in Procs /\ q <= forked /\ slot[q] \in Slots
<1>1. q \in Procs
  BY Constants
<1>2. slot \in [Procs -> Slots \cup {0}] /\ forked \in Nat /\ q \in Nat
  BY <1>1, Constants DEF Bookkeeping, TypeOK
<1>3. q <= forked
  BY <1>1, <1>2 DEF Bookkeeping, Births, Living
<1>. QED
  BY <1>1, <1>2, <1>3 DEF Bookkeeping, Births

\* what a battleship makes of its list
Kept(q) ==
    LET all == Enlist(Own(q), Senders(reqs))
    IN  [i \in Slots |-> IF all[i] # 0 /\ alive[all[i]] THEN all[i] ELSE 0]

LEMMA ShipEffects ==
    ASSUME NEW q \in Ships, ShipActs(q)
    PROVE  /\ underlings' = [underlings EXCEPT ![q] = Kept(q)]
           /\ \E aim \in Aims(q), heard \in Reached, told \in Reached :
                 /\ replies' = [p \in Procs |->
                       IF p \in heard /\ {k \in DOMAIN reqs : reqs[k].from = p
                                                          /\ k <= Room(Own(q))} # {}
                       THEN Append(replies[p], slot[q]) ELSE replies[p]]
                 /\ orders' = [p \in Procs |->
                       IF p \in told /\ {i \in Slots : Kept(q)[i] # 0
                                                    /\ owner[Kept(q)[i]] = p} # {}
                       THEN Append(orders[p], OrderFor(slot[q], Kept(q), slot[p], aim))
                       ELSE orders[p]]
<1> DEFINE all == Enlist(Own(q), Senders(reqs))
           kept == [i \in Slots |-> IF all[i] # 0 /\ alive[all[i]] THEN all[i] ELSE 0]
           Answers(heard) ==
              [p \in Procs |->
                  IF p \in heard /\ {k \in DOMAIN reqs : reqs[k].from = p
                                                     /\ k <= Room(Own(q))} # {}
                  THEN Append(replies[p], slot[q]) ELSE replies[p]]
           Orders(told, aim) ==
              [p \in Procs |->
                  IF p \in told /\ {i \in Slots : kept[i] # 0
                                               /\ owner[kept[i]] = p} # {}
                  THEN Append(orders[p], OrderFor(slot[q], kept, slot[p], aim))
                  ELSE orders[p]]
<1>1. \E aim \in Aims(q), heard \in Reached, told \in Reached :
         /\ underlings' = [underlings EXCEPT ![q] = kept]
         /\ replies' = Answers(heard)
         /\ orders' = Orders(told, aim)
  BY SMTT(30) DEF ShipActs, Own
<1>2. /\ underlings' = [underlings EXCEPT ![q] = kept]
      /\ \E aim \in Aims(q), heard \in Reached, told \in Reached :
            /\ replies' = Answers(heard)
            /\ orders' = Orders(told, aim)
  <2> HIDE DEF kept, Answers, Orders
  <2>. QED
    BY <1>1
<1>3. kept = Kept(q)
  BY DEF Kept
<1> HIDE DEF kept
<1>. QED
  BY <1>2, <1>3

\* what becomes of the lists
LEMMA ShipLists ==
    ASSUME Bookkeeping, NEW q \in Ships, ShipActs(q)
    PROVE  /\ underlings' \in [Ships -> [Slots -> Slots \cup {0}]]
           /\ \A r \in Ships : r # q => underlings'[r] = underlings[r]
           /\ \A i \in Slots :
                 /\ underlings'[q][i] # 0 =>
                       /\ alive[underlings'[q][i]]
                       /\ \/ OnList(q, underlings'[q][i])
                          \/ \E k : /\ Heard(q, k)
                                    /\ underlings'[q][i] = reqs[k].sender_id
                 /\ underlings[q][i] # 0 /\ alive[underlings[q][i]] =>
                       underlings'[q][i] = underlings[q][i]
           /\ \A k \in DOMAIN announced[q] :
                 k <= Room(underlings[q]) /\ alive[announced[q][k]] =>
                     \E i \in Slots : underlings'[q][i] = announced[q][k]
           /\ \A k : Heard(q, k) /\ alive[reqs[k].sender_id] =>
                     \E i \in Slots : underlings'[q][i] = reqs[k].sender_id
<1> DEFINE all == Enlist(Own(q), Senders(reqs))
           kept == Kept(q)
<1>1. underlings' = [underlings EXCEPT ![q] = kept]
  BY ShipEffects
<1>2. all \in [Slots -> Slots \cup {0}]
  BY ListTypes, EnlistKeeps
<1>3. \A i \in Slots :
        /\ Own(q)[i] # 0 => all[i] = Own(q)[i]
        /\ Own(q)[i] = 0 /\ all[i] # 0 =>
              \E k : Heard(q, k) /\ all[i] = reqs[k].sender_id
  BY ListTypes, EnlistKeeps DEF Heard
<1>4. \A i \in Slots :
        /\ underlings[q][i] # 0 => Own(q)[i] = underlings[q][i]
        /\ underlings[q][i] = 0 /\ Own(q)[i] # 0 => OnList(q, Own(q)[i])
  BY ListTypes, EnlistKeeps DEF Own, OnList
<1>5. \A k \in DOMAIN announced[q] : k <= Room(underlings[q]) =>
        \E i \in Slots : Own(q)[i] = announced[q][k]
  BY ListTypes, EnlistEnters DEF Own
<1>6. \A k : Heard(q, k) => \E i \in Slots : all[i] = reqs[k].sender_id
  <2> SUFFICES ASSUME NEW k, Heard(q, k)
               PROVE  \E i \in Slots : all[i] = reqs[k].sender_id
    OBVIOUS
  <2>1. k \in DOMAIN Senders(reqs) /\ k <= Room(Own(q))
    BY ListTypes DEF Heard
  <2>2. \E i \in Slots : all[i] = Senders(reqs)[k]
    BY <2>1, ListTypes, EnlistEnters
  <2>. QED
    BY <2>2, ListTypes DEF Heard
<1>7. \A k : Heard(q, k) => reqs[k].sender_id # 0
  BY RequestTypes, Constants DEF Heard, Bookkeeping
<1>8. \A k \in DOMAIN announced[q] : announced[q][k] # 0
  BY ListTypes, Constants
<1>9. kept = [i \in Slots |-> IF all[i] # 0 /\ alive[all[i]] THEN all[i] ELSE 0]
  BY DEF Kept
<1> HIDE DEF all, kept
<1>10. /\ underlings' \in [Ships -> [Slots -> Slots \cup {0}]]
       /\ underlings'[q] = kept
       /\ \A r \in Ships : r # q => underlings'[r] = underlings[r]
  <2>1. kept \in [Slots -> Slots \cup {0}]
    BY <1>2, <1>9
  <2>. QED
    BY <1>1, <2>1 DEF Bookkeeping, TypeOK
<1>11. \A i \in Slots :
         /\ kept[i] # 0 => kept[i] = all[i] /\ alive[all[i]]
         /\ all[i] # 0 /\ alive[all[i]] => kept[i] = all[i]
  BY <1>9
<1>12. ASSUME NEW i \in Slots, underlings'[q][i] # 0
       PROVE  /\ alive[underlings'[q][i]]
              /\ \/ OnList(q, underlings'[q][i])
                 \/ \E k : /\ Heard(q, k)
                           /\ underlings'[q][i] = reqs[k].sender_id
  <2>1. underlings'[q][i] = all[i] /\ alive[all[i]]
    BY <1>10, <1>11, <1>12
  <2>2. CASE Own(q)[i] = 0
    BY <1>3, <1>12, <2>1, <2>2
  <2>3. CASE Own(q)[i] # 0 /\ underlings[q][i] # 0
    BY <1>3, <1>4, <2>1, <2>3 DEF OnList
  <2>4. CASE Own(q)[i] # 0 /\ underlings[q][i] = 0
    BY <1>3, <1>4, <2>1, <2>4
  <2>. QED
    BY <2>2, <2>3, <2>4
<1>13. \A i \in Slots : underlings[q][i] # 0 /\ alive[underlings[q][i]] =>
                           underlings'[q][i] = underlings[q][i]
  BY <1>3, <1>4, <1>10, <1>11
<1>14. ASSUME NEW k \in DOMAIN announced[q],
              k <= Room(underlings[q]), alive[announced[q][k]]
       PROVE  \E i \in Slots : underlings'[q][i] = announced[q][k]
  <2>1. PICK i \in Slots : Own(q)[i] = announced[q][k]
    BY <1>5, <1>14
  <2>2. all[i] = announced[q][k]
    BY <1>3, <1>8, <2>1
  <2>. QED
    BY <1>8, <1>10, <1>11, <1>14, <2>2
<1>15. ASSUME NEW k, Heard(q, k), alive[reqs[k].sender_id]
       PROVE  \E i \in Slots : underlings'[q][i] = reqs[k].sender_id
  BY <1>6, <1>7, <1>10, <1>11, <1>15
<1>. QED
  BY <1>10, <1>12, <1>13, <1>14, <1>15

\* who is replied to
LEMMA ShipReplies ==
    ASSUME Bookkeeping, NEW q \in Ships, ShipActs(q)
    PROVE  /\ replies' \in [Procs -> Seq(Slots)]
           /\ \A p \in Procs :
                 \/ replies'[p] = replies[p]
                 \/ /\ replies'[p] = Append(replies[p], slot[q])
                    /\ \E k : Heard(q, k) /\ reqs[k].from = p
           /\ "traffic" \notin Faults =>
                 \A k : Heard(q, k) =>
                     LET p == reqs[k].from
                     IN  replies'[p] = Append(replies[p], slot[q])
<1> DEFINE Accepted(p) == {i \in DOMAIN reqs : reqs[i].from = p /\ i <= Room(Own(q))}
<1>1. PICK heard \in Reached :
        replies' = [p \in Procs |->
                      IF p \in heard /\ Accepted(p) # {}
                      THEN Append(replies[p], slot[q]) ELSE replies[p]]
  BY ShipEffects
<1>2. slot[q] \in Slots
  BY ShipSlots DEF ShipActs, Living
<1>3. replies \in [Procs -> Seq(Slots)]
  BY DEF Bookkeeping, TypeOK
<1>4. \A p \in Procs : Append(replies[p], slot[q]) \in Seq(Slots)
  BY <1>2, <1>3
<1>5. replies' \in [Procs -> Seq(Slots)]
  BY <1>1, <1>3, <1>4
<1>6. \A p : Accepted(p) # {} <=> \E k : Heard(q, k) /\ reqs[k].from = p
  BY DEF Heard
<1>7. ASSUME "traffic" \notin Faults, NEW k, Heard(q, k)
      PROVE  replies'[reqs[k].from] = Append(replies[reqs[k].from], slot[q])
  <2>1. heard = Procs
    BY <1>7 DEF Reached
  <2>2. reqs[k].from \in Procs
    BY <1>7, RequestTypes DEF Heard, Bookkeeping, Squadrons
  <2>. QED
    BY <1>1, <1>6, <1>7, <2>1, <2>2
<1> HIDE DEF Accepted
<1>. QED
  BY <1>1, <1>5, <1>6, <1>7

\* who is told what
LEMMA ShipOrders ==
    ASSUME Bookkeeping, NEW q \in Ships, ShipActs(q)
    PROVE  /\ orders' \in [Procs -> Seq(OrderTypes)]
           /\ \A p \in Procs :
                 \/ orders'[p] = orders[p]
                 \/ \E o \in OrderTypes :
                       /\ orders'[p] = Append(orders[p], o)
                       /\ \E i \in Slots : /\ underlings'[q][i] # 0
                                           /\ owner[underlings'[q][i]] = p
                       /\ \/ o.target = 0
                          \/ o.target = slot[q]
                          \/ \E i \in Slots : /\ underlings'[q][i] # 0
                                              /\ o.target = underlings'[q][i]
<1> DEFINE kept == Kept(q)
<1>1. PICK aim \in Aims(q), told \in Reached :
        orders' = [p \in Procs |->
            IF p \in told /\ {i \in Slots : kept[i] # 0 /\ owner[kept[i]] = p} # {}
            THEN Append(orders[p], OrderFor(slot[q], kept, slot[p], aim))
            ELSE orders[p]]
  BY ShipEffects
<1>2. kept = underlings'[q] /\ kept \in [Slots -> Slots \cup {0}]
  <2>1. underlings' = [underlings EXCEPT ![q] = kept]
    BY ShipEffects
  <2>2. underlings'[q] = kept
    BY <2>1 DEF Bookkeeping, TypeOK
  <2>. QED
    BY <2>2, ShipLists
<1> HIDE DEF kept
<1>3. slot[q] \in Slots
  BY ShipSlots DEF ShipActs, Living
<1> DEFINE o(p) == OrderFor(slot[q], kept, slot[p], aim)
<1>4. \A p \in Procs :
        /\ o(p) \in OrderTypes
        /\ \/ o(p).target = 0 \/ o(p).target = slot[q]
           \/ \E i \in Slots : kept[i] # 0 /\ o(p).target = kept[i]
  <2> SUFFICES ASSUME NEW p \in Procs
               PROVE  /\ o(p) \in OrderTypes
                      /\ \/ o(p).target = 0 \/ o(p).target = slot[q]
                         \/ \E i \in Slots : kept[i] # 0 /\ o(p).target = kept[i]
    OBVIOUS
  <2>. QED
    BY <1>2, <1>3, OrderIsSound
<1> HIDE DEF o
<1>5. \A p \in Procs :
        orders'[p] = IF p \in told /\ \E i \in Slots : kept[i] # 0 /\ owner[kept[i]] = p
                     THEN Append(orders[p], o(p)) ELSE orders[p]
  BY <1>1 DEF o
<1>6. orders \in [Procs -> Seq(OrderTypes)]
  BY DEF Bookkeeping, TypeOK, OrderTypes
<1>7. \A p \in Procs : orders'[p] \in Seq(OrderTypes)
  <2> TAKE p \in Procs
  <2>1. Append(orders[p], o(p)) \in Seq(OrderTypes)
    <3>1. orders[p] \in Seq(OrderTypes) /\ o(p) \in OrderTypes
      BY <1>4, <1>6
    <3>. QED
      BY <3>1, AppendProperties
  <2>. QED
    BY <1>5, <1>6, <2>1
<1>8. orders' = [p \in Procs |-> orders'[p]]
  BY <1>1
<1>9. orders' \in [Procs -> Seq(OrderTypes)]
  BY <1>7, <1>8
<1>. QED
  BY <1>2, <1>4, <1>5, <1>9

-----------------------------------------------------------------------------
(* A squadron's step, in parts *)

LEMMA OrderElements ==
    ASSUME TypeOK, NEW p \in Procs, NEW i \in DOMAIN orders[p]
    PROVE  orders[p][i] \in OrderTypes
<1>1. orders[p] \in Seq(OrderTypes)
  BY DEF TypeOK, OrderTypes
<1>. QED
  BY <1>1

LEMMA SquadronReads ==
    ASSUME TypeOK, NEW p \in Procs
    PROVE  /\ Promised(p) \in Slots \cup {0}
           /\ replies[p] # <<>> => Promised(p) \in Slots
           /\ Obeyed(p) \in {"patrol", "guard", "attack"}
           /\ Guarded(p) \in Slots \cup {0}
           /\ \/ Guarded(p) = ward[p]
              \/ \E i \in DOMAIN orders[p] : Guarded(p) = orders[p][i].target
<1>1. /\ replies[p] \in Seq(Slots) /\ commander[p] \in Slots \cup {0}
      /\ order[p] \in {"patrol", "guard", "attack"} /\ ward[p] \in Slots \cup {0}
      /\ orders[p] \in Seq(OrderTypes)
  BY DEF TypeOK, OrderTypes
<1>2. replies[p] # <<>> => Last(replies[p]) \in Slots
  BY <1>1 DEF Last
<1>3. orders[p] # <<>> => Last(orders[p]) \in OrderTypes
  BY <1>1 DEF Last
<1>4. Obeyed(p) \in {"patrol", "guard", "attack"}
  BY <1>1, <1>3 DEF Obeyed, OrderTypes
<1> DEFINE valid == {i \in DOMAIN orders[p] :
                       orders[p][i].order = "guard" /\ alive[orders[p][i].target]}
           latest == CHOOSE i \in valid : \A j \in valid : j <= i
<1>5. valid # {} => latest \in valid
  <2>1. valid \in SUBSET (1..Len(orders[p])) /\ Len(orders[p]) \in Nat
    BY <1>1
  <2>2. valid # {} => \E i \in valid : \A j \in valid : j <= i
    <3> HIDE DEF valid
    <3>. QED
      BY <2>1, GreatestNatural
  <2>. QED
    BY <2>2
<1>6. Guarded(p) = IF valid = {} THEN ward[p] ELSE orders[p][latest].target
  BY DEF Guarded
<1>7. \/ Guarded(p) = ward[p]
      \/ \E i \in DOMAIN orders[p] : Guarded(p) = orders[p][i].target
  <2>1. valid # {} => latest \in DOMAIN orders[p]
    BY <1>5
  <2> HIDE DEF valid, latest
  <2>. QED
    BY <1>6, <2>1
<1>8. \A i \in DOMAIN orders[p] : orders[p][i].target \in Slots \cup {0}
  BY OrderElements DEF OrderTypes
<1>. QED
  BY <1>1, <1>2, <1>4, <1>7, <1>8 DEF Promised

LEMMA PromisedIsGiven ==
    ASSUME Bookkeeping, NEW p \in Procs, Promised(p) # 0
    PROVE  Promised(p) \in GivenSlots
<1>1. CASE replies[p] = <<>>
  BY <1>1 DEF Promised, Bookkeeping, Targets
<1>2. CASE replies[p] # <<>>
  <2>1. replies[p] \in Seq(Slots)
    BY DEF Bookkeeping, TypeOK
  <2>2. Len(replies[p]) \in DOMAIN replies[p]
    BY <1>2, <2>1
  <2>. QED
    BY <1>2, <2>2 DEF Promised, Last, Bookkeeping, Targets
<1>. QED
  BY <1>1, <1>2

-----------------------------------------------------------------------------
(* The bookkeeping is kept *)

LEMMA InitBookkeeping == Init => Bookkeeping
<1> SUFFICES ASSUME Init PROVE Bookkeeping
  OBVIOUS
<1> DEFINE first == 1..Len(Scenario)
<1>1. first \subseteq Slots /\ first \subseteq Procs
  BY Constants DEF Slots, Procs
<1>2. ASSUME NEW s \in Slots
      PROVE  side[s] \in Factions \cup {0} /\ kind[s] \in Light \cup {"ship", "none"}
  <2>1. /\ side[s] = (IF s \in first THEN Scenario[s] ELSE Nobody).side
        /\ kind[s] = (IF s \in first THEN Scenario[s] ELSE Nobody).kind
    BY DEF Init
  <2>2. CASE s \in first
    BY <2>1, <2>2, TheScenario
  <2>3. CASE s \notin first
    BY <2>1, <2>3 DEF Nobody
  <2>. QED
    BY <2>2, <2>3
<1>3. TypeOK
  <2>1. forked \in 0..MaxProcs
    BY Constants DEF Init
  <2>2. side \in [Slots -> Factions \cup {0}]
        /\ kind \in [Slots -> Light \cup {"ship", "none"}]
    BY <1>2 DEF Init
  <2>3. /\ alive \in [Slots -> BOOLEAN]
        /\ owner \in [Slots -> Procs \cup {0}]
        /\ step \in [Procs -> {"unborn", "idle", "done", "dead"}]
        /\ slot \in [Procs -> Slots \cup {0}]
    BY <1>1 DEF Init
  <2>4. /\ reqs \in Seq([from : Squadrons, sender_id : Slots])
        /\ orders \in [Procs -> Seq([order : {"guard", "attack"}, target : Slots \cup {0}])]
        /\ replies \in [Procs -> Seq(Slots)]
        /\ announced \in [Procs -> Seq(Slots)]
    BY DEF Init
  <2>5. /\ underlings \in [Ships -> [Slots -> Slots \cup {0}]]
        /\ commander \in [Procs -> Slots \cup {0}]
        /\ order \in [Procs -> {"patrol", "guard", "attack"}]
        /\ ward \in [Procs -> Slots \cup {0}]
    BY DEF Init
  <2>. QED
    BY <2>1, <2>2, <2>3, <2>4, <2>5 DEF Init, TypeOK
<1>4. Births
  BY <1>1, Constants DEF Init, Births
<1>5. Registry
  <2>1. /\ \A p \in Procs : Living(p) <=> p \in first
        /\ \A p \in first : alive[p] /\ owner[p] = p /\ slot[p] = p
        /\ \A s \in Slots : alive[s] <=> s \in first
        /\ \A s \in Slots : s \notin first => owner[s] = 0
        /\ forked = Len(Scenario)
    BY <1>1 DEF Init, Living
  <2>. QED
    BY <1>1, <2>1, Constants DEF Registry
<1>6. Lists /\ Targets
  BY Constants DEF Init, Lists, Targets
<1>. QED
  BY <1>3, <1>4, <1>5, <1>6 DEF Bookkeeping

\* the next process and its slot, before it is spawned
LEMMA TheChild ==
    ASSUME Bookkeeping, forked < MaxProcs
    PROVE  /\ forked \in Nat /\ forked + 1 \in Procs
           /\ slot[forked + 1] = 0 /\ ~Living(forked + 1)
           /\ orders[forked + 1] = <<>> /\ replies[forked + 1] = <<>>
           /\ announced[forked + 1] = <<>> /\ commander[forked + 1] = 0
           /\ order[forked + 1] = "patrol" /\ ward[forked + 1] = 0
           /\ forked + 1 \notin asking
           /\ forked + 1 \in Ships => \A i \in Slots : underlings[forked + 1][i] = 0
<1>1. forked \in Nat /\ forked + 1 \in Procs /\ forked + 1 > forked
  BY Constants DEF Bookkeeping, TypeOK, Procs
<1>. QED
  BY <1>1 DEF Bookkeeping, Births, Living

Spawning == Spawn \/ SpawnShip

\* what is done to spawn a unit, for one choice of slot, battleship, faction
\* and type
Spawns(child, s, boss, f, k) ==
    LET hears == boss # 0 /\ Living(boss)
    IN  /\ \A t \in FreeSlots : s <= t
        /\ boss # 0 => f = side[slot[boss]]
        /\ IF child \in Ships THEN boss = 0 /\ k = "ship" /\ f = Flag(child) ELSE k \in Light
        /\ alive' = [alive EXCEPT ![s] = TRUE]
        /\ owner' = [owner EXCEPT ![s] = child]
        /\ side' = [side EXCEPT ![s] = f]
        /\ kind' = [kind EXCEPT ![s] = k]
        /\ forked' = child
        /\ slot' = [slot EXCEPT ![child] = s]
        /\ step' = [step EXCEPT ![child] = "idle"]
        /\ commander' = [commander EXCEPT ![child] = IF boss = 0 THEN 0 ELSE slot[boss]]
        /\ asking' = asking \ {boss}
        /\ \/ hears /\ announced' = [announced EXCEPT ![boss] = Append(@, s)]
           \/ (~hears \/ "traffic" \in Faults) /\ UNCHANGED announced

LEMMA SpawnIsSpawns ==
    ASSUME Bookkeeping, Spawning, NEW child, child = forked + 1
    PROVE  /\ phase = "between" /\ forked < MaxProcs
           /\ UNCHANGED <<phase, reqs, orders, replies, underlings, order, ward>>
           /\ \E s \in FreeSlots, boss \in {0} \cup asking,
                 f \in Factions \cup {0}, k \in Light \cup {"ship"} :
                    Spawns(child, s, boss, f, k)
<1>1. CASE Spawn
  <2>1. PICK s \in FreeSlots, boss \in {0} \cup asking, f \in Factions \cup {0}, k \in Light :
          LET hears == boss # 0 /\ Living(boss)
          IN  /\ IF boss = 0 THEN [side |-> f, kind |-> k] \in Hired
                                ELSE f = side[slot[boss]]
              /\ Launch(s, f, k)
              /\ commander' = [commander EXCEPT ![forked + 1] =
                                IF boss = 0 THEN 0 ELSE slot[boss]]
              /\ asking' = asking \ {boss}
              /\ \/ hears /\ announced' = [announced EXCEPT ![boss] = Append(@, s)]
                 \/ (~hears \/ "traffic" \in Faults) /\ UNCHANGED announced
    BY <1>1, ZenonT(60) DEF Spawn
  <2>2. child \notin Ships
    BY <1>1 DEF Spawn, Squadrons
  <2>3. Spawns(child, s, boss, f, k)
    BY <2>1, <2>2 DEF Spawns, Launch
  <2>4. UNCHANGED <<phase, reqs, orders, replies, underlings, order, ward>>
    BY <1>1 DEF Spawn
  <2>. QED
    BY <2>1, <2>3, <2>4 DEF Launch
<1>2. CASE SpawnShip
  <2>1. PICK s \in FreeSlots : Launch(s, Yard[child], "ship")
    BY <1>2 DEF SpawnShip
  <2>2. /\ child \in DOMAIN Yard /\ child \in Ships
        /\ UNCHANGED <<phase, queueVars, commandVars>>
    BY <1>2 DEF SpawnShip, Ships
  <2>3. Yard[child] \in Factions /\ Flag(child) = Yard[child]
    BY <2>2, CommandAssumption DEF Flag
  <2>4. commander' = [commander EXCEPT ![child] = 0] /\ asking' = asking \ {0}
    <3>1. commander[child] = 0
      BY <2>1, TheChild DEF Launch
    <3>2. 0 \notin asking
      BY Constants DEF Bookkeeping, TypeOK
    <3>. QED
      BY <2>2, <3>1, <3>2 DEF Bookkeeping, TypeOK, queueVars, commandVars
  <2>5. Spawns(child, s, 0, Yard[child], "ship")
    BY <2>1, <2>2, <2>3, <2>4 DEF Spawns, Launch, queueVars
  <2>. QED
    BY <2>1, <2>2, <2>3, <2>5 DEF Launch, queueVars, commandVars
<1>. QED
  BY <1>1, <1>2 DEF Spawning

LEMMA SpawnBookkeeping == Bookkeeping /\ Spawning => Bookkeeping'
<1> SUFFICES ASSUME Bookkeeping, Spawning PROVE Bookkeeping'
  OBVIOUS
<1> PICK child : child = forked + 1
  OBVIOUS
<1>1. PICK s \in FreeSlots, boss \in {0} \cup asking, f \in Factions \cup {0},
            k \in Light \cup {"ship"} :
        Spawns(child, s, boss, f, k)
  BY SpawnIsSpawns
<1>2. /\ UNCHANGED <<phase, reqs, orders, replies, underlings, order, ward>>
      /\ forked < MaxProcs
  BY SpawnIsSpawns
<1>3. s \in Slots /\ s # 0 /\ ~alive[s] /\ owner[s] = 0
  BY Constants DEF FreeSlots
<1>4. /\ forked \in Nat /\ child \in Procs
      /\ slot[child] = 0 /\ ~Living(child)
  BY <1>2, TheChild
<1>5. boss # 0 => boss \in Ships /\ boss \in Procs /\ slot[boss] \in Slots
                   /\ boss <= forked
  BY ShipSlots DEF Bookkeeping, TypeOK
<1>6. boss # 0 => child \in Squadrons
  BY <1>1, <1>4 DEF Squadrons, Spawns
<1>7. /\ slot'[child] = s /\ forked' = child /\ child = forked + 1
      /\ \A p \in Procs : p # child => slot'[p] = slot[p] /\ step'[p] = step[p]
      /\ step'[child] = "idle"
      /\ \A p \in Procs : p # child => (Living(p)' <=> Living(p))
      /\ Living(child)'
  <2>1. slot' = [slot EXCEPT ![child] = s] /\ step' = [step EXCEPT ![child] = "idle"]
    BY <1>1 DEF Spawns
  <2>2. forked' = child /\ child = forked + 1
    BY <1>1 DEF Spawns
  <2>. QED
    BY <1>4, <2>1, <2>2 DEF Bookkeeping, TypeOK, Living
<1>8. TypeOK'
  <2>1. /\ alive' \in [Slots -> BOOLEAN]
        /\ owner' \in [Slots -> Procs \cup {0}]
        /\ side' \in [Slots -> Factions \cup {0}]
        /\ kind' \in [Slots -> Light \cup {"ship", "none"}]
        /\ step' \in [Procs -> {"unborn", "idle", "done", "dead"}]
        /\ slot' \in [Procs -> Slots \cup {0}]
    BY <1>1, <1>3, <1>4 DEF Spawns, Bookkeeping, TypeOK
  <2>2. forked' \in 0..MaxProcs
    BY <1>2, <1>4, <1>7, Constants
  <2>3. commander' \in [Procs -> Slots \cup {0}]
    BY <1>1, <1>4, <1>5 DEF Spawns, Bookkeeping, TypeOK
  <2>4. announced' \in [Procs -> Seq(Slots)]
    <3>1. \A p \in Procs : Append(announced[p], s) \in Seq(Slots)
      BY <1>3 DEF Bookkeeping, TypeOK
    <3>2. \/ announced' = announced
          \/ /\ boss \in Procs
             /\ announced' = [announced EXCEPT ![boss] = Append(announced[boss], s)]
      BY <1>1, <1>5 DEF Spawns
    <3>3. announced \in [Procs -> Seq(Slots)]
      BY DEF Bookkeeping, TypeOK
    <3>. QED
      BY <3>1, <3>2, <3>3
  <2>5. asking' \subseteq Ships
    BY <1>1 DEF Spawns, Bookkeeping, TypeOK
  <2>. QED
    BY <1>2, <2>1, <2>2, <2>3, <2>4, <2>5 DEF Bookkeeping, TypeOK
<1>9. Births'
  <2>1. Len(Scenario) <= forked'
    BY <1>4, <1>7, Constants DEF Bookkeeping, Births
  <2>2. ASSUME NEW p \in Procs
        PROVE  /\ p <= forked' <=> slot'[p] # 0
               /\ p <= forked' <=> step'[p] # "unborn"
    <3>1. CASE p = child
      BY <1>3, <1>4, <1>7, <3>1
    <3>2. CASE p # child
      <4>1. p <= forked' <=> p <= forked
        BY <1>4, <1>7, <3>2, Constants
      <4>. QED
        BY <1>7, <3>2, <4>1 DEF Bookkeeping, Births
    <3>. QED
      BY <3>1, <3>2
  <2>3. ASSUME NEW p \in Procs, p > forked'
        PROVE  /\ orders'[p] = <<>> /\ replies'[p] = <<>>
               /\ announced'[p] = <<>> /\ commander'[p] = 0
               /\ order'[p] = "patrol" /\ ward'[p] = 0
               /\ p \notin asking'
    <3>1. p > forked /\ p # child
      BY <1>4, <1>7, <2>3, Constants
    <3>2. boss # 0 => p # boss
      BY <1>5, <3>1, <1>4, Constants
    <3>3. announced'[p] = announced[p] /\ commander'[p] = commander[p]
      BY <1>1, <1>4, <1>5, <3>1, <3>2 DEF Spawns, Bookkeeping, TypeOK
    <3>4. p \notin asking'
      BY <1>1, <3>1 DEF Spawns, Bookkeeping, Births
    <3>. QED
      BY <1>2, <3>1, <3>3, <3>4 DEF Bookkeeping, Births
  <2>4. \A q \in Ships, i \in Slots : q > forked' => underlings'[q][i] = 0
    <3>1. \A q \in Ships : q > forked' => q > forked
      BY <1>4, <1>7, Constants
    <3>. QED
      BY <1>2, <3>1 DEF Bookkeeping, Births
  <2>. QED
    BY <2>1, <2>2, <2>3, <2>4 DEF Births
<1>10. /\ owner'[s] = child /\ alive'[s]
       /\ \A t \in Slots : t # s => owner'[t] = owner[t] /\ alive'[t] = alive[t]
  BY <1>1, <1>3 DEF Spawns, Bookkeeping, TypeOK
<1>11. \A p \in Procs : p <= forked => p # child /\ p <= forked' /\ slot'[p] = slot[p]
  BY <1>4, <1>7, Constants
<1>12. Registry'
  <2>1. ASSUME NEW p \in Procs, Living(p)'
        PROVE  alive'[slot'[p]] /\ owner'[slot'[p]] = p
    <3>1. CASE p = child
      BY <1>7, <1>10, <3>1
    <3>2. CASE p # child
      <4>1. Living(p) /\ slot'[p] = slot[p]
        BY <1>7, <2>1, <3>2
      <4>2. alive[slot[p]] /\ owner[slot[p]] = p /\ slot[p] \in Slots
        <5>1. step[p] # "unborn"
          BY <4>1 DEF Living
        <5>2. slot[p] # 0
          BY <5>1 DEF Bookkeeping, Births
        <5>. QED
          BY <4>1, <5>2 DEF Bookkeeping, Registry, TypeOK
      <4>. QED
        BY <1>3, <1>10, <4>1, <4>2
    <3>. QED
      BY <3>1, <3>2
  <2>2. ASSUME NEW t \in Slots, owner'[t] # 0
        PROVE  owner'[t] <= forked' /\ slot'[owner'[t]] = t
    <3>1. CASE t = s
      BY <1>4, <1>7, <1>10, <3>1
    <3>2. CASE t # s
      <4>1. /\ owner'[t] = owner[t] /\ owner[t] \in Procs
            /\ owner[t] <= forked /\ slot[owner[t]] = t
        BY <1>10, <2>2, <3>2 DEF Spawns, Bookkeeping, Registry, TypeOK
      <4>. QED
        BY <1>11, <4>1
    <3>. QED
      BY <3>1, <3>2
  <2>3. ASSUME NEW t \in Slots, alive'[t]
        PROVE  owner'[t] # 0 /\ step'[owner'[t]] \in {"idle", "done"}
    <3>1. CASE t = s
      BY <1>4, <1>7, <1>10, <3>1, Constants
    <3>2. CASE t # s
      <4>1. /\ owner'[t] = owner[t] /\ owner[t] # 0 /\ Living(owner[t])
            /\ owner[t] \in Procs /\ owner[t] <= forked
        BY <1>10, <2>3, <3>2 DEF Spawns, Bookkeeping, Registry, TypeOK
      <4>2. owner[t] # child
        BY <1>11, <4>1
      <4>3. step'[owner[t]] = step[owner[t]]
        BY <1>7, <4>1, <4>2
      <4>. QED
        BY <4>1, <4>3 DEF Living
    <3>. QED
      BY <3>1, <3>2
  <2>. QED
    BY <2>1, <2>2, <2>3 DEF Registry, Living
<1>13. /\ SquadronSlots \subseteq SquadronSlots'
       /\ child \in Squadrons => s \in SquadronSlots'
       /\ GivenSlots \subseteq GivenSlots'
  <2>1. child <= forked'
    BY <1>4, <1>7
  <2>. QED
    BY <1>7, <1>11, <2>1 DEF SquadronSlots, GivenSlots, Squadrons
<1>14. Lists'
  <2>1. \A q \in Ships, i \in Slots :
           underlings'[q][i] # 0 => underlings'[q][i] \in SquadronSlots'
    BY <1>2, <1>13 DEF Bookkeeping, Lists
  <2>2. ASSUME NEW q \in Procs, NEW i \in DOMAIN announced'[q]
        PROVE  announced'[q][i] \in SquadronSlots'
    <3>1. CASE announced'[q] = announced[q]
      BY <1>13, <2>2, <3>1 DEF Spawns, Bookkeeping, Lists
    <3>2. CASE announced'[q] = Append(announced[q], s) /\ boss # 0
      <4>1. announced[q] \in Seq(Slots)
        BY DEF Bookkeeping, TypeOK
      <4>2. CASE i \in DOMAIN announced[q]
        <5>1. announced'[q][i] = announced[q][i]
          BY <3>2, <4>1, <4>2
        <5>. QED
          BY <1>13, <4>2, <5>1 DEF Spawns, Bookkeeping, Lists
      <4>3. CASE i \notin DOMAIN announced[q]
        <5>1. announced'[q][i] = s
          BY <2>2, <3>2, <4>1, <4>3
        <5>. QED
          BY <1>6, <1>13, <3>2, <5>1
      <4>. QED
        BY <4>2, <4>3
    <3>. QED
      BY <1>1, <1>5, <3>1, <3>2 DEF Spawns, Bookkeeping, TypeOK
  <2>3. \A i \in DOMAIN reqs' :
           reqs'[i].from <= forked' /\ reqs'[i].sender_id = slot'[reqs'[i].from]
    BY <1>2, <1>11, RequestTypes DEF Bookkeeping, Lists, Squadrons
  <2>. QED
    BY <2>1, <2>2, <2>3 DEF Lists
<1>15. Targets'
  <2>1. ASSUME NEW p \in Procs, commander'[p] # 0
        PROVE  commander'[p] = commander[p] \/ commander'[p] \in GivenSlots
    <3>1. slot[boss] \in GivenSlots \/ boss = 0
      BY <1>5 DEF GivenSlots
    <3>. QED
      BY <1>1, <2>1, <3>1 DEF Spawns, Bookkeeping, TypeOK
  <2>. QED
    BY <1>2, <1>13, <2>1 DEF Bookkeeping, Targets
<1>. QED
  BY <1>8, <1>9, <1>12, <1>14, <1>15 DEF Bookkeeping

\* a unit that acts or dies has a slot, and is alive in it
LEMMA LivingSlot ==
    ASSUME Bookkeeping, NEW p \in Procs, Living(p)
    PROVE  p <= forked /\ slot[p] \in Slots /\ alive[slot[p]] /\ owner[slot[p]] = p
BY DEF Living, Bookkeeping, Births, Registry, TypeOK

\* and an owner has the slot it owns, and lives if the slot does
LEMMA SlotOwner ==
    ASSUME Bookkeeping, NEW s \in Slots
    PROVE  /\ owner[s] # 0 => owner[s] \in Procs /\ owner[s] <= forked
                               /\ slot[owner[s]] = s
           /\ alive[s] => owner[s] # 0 /\ Living(owner[s])
BY DEF Bookkeeping, Registry, TypeOK

LEMMA TickBookkeeping == Bookkeeping /\ CCStep => Bookkeeping'
<1> SUFFICES ASSUME Bookkeeping, CCStep PROVE Bookkeeping'
  OBVIOUS
<1>1. CASE StartTick
  <2>1. UNCHANGED <<registryVars, procVars, step, reqs, orders, replies,
                    announced, commandVars>> /\ asking' = {}
    BY <1>1 DEF StartTick
  <2>2. TypeOK'
    BY <1>1 DEF StartTick, Bookkeeping, TypeOK, registryVars, procVars, commandVars
  <2>3. Births' /\ Registry' /\ Lists' /\ Targets'
    BY <2>1 DEF Bookkeeping, Births, Registry, Lists, Targets, Living,
                SquadronSlots, GivenSlots, registryVars, procVars, commandVars
  <2>. QED
    BY <2>2, <2>3 DEF Bookkeeping
<1>2. CASE EndTick
  <2>1. /\ phase' = "between"
        /\ owner' = [s \in Slots |-> IF ~alive[s] /\ owner[s] # 0 THEN 0 ELSE owner[s]]
        /\ side' = [s \in Slots |-> IF ~alive[s] /\ owner[s] # 0 THEN 0 ELSE side[s]]
        /\ kind' = [s \in Slots |-> IF ~alive[s] /\ owner[s] # 0 THEN "none" ELSE kind[s]]
        /\ step' = [p \in Procs |-> IF step[p] = "done" THEN "idle" ELSE step[p]]
        /\ UNCHANGED <<alive, procVars, queueVars, commandVars>>
    BY <1>2 DEF EndTick
  <2>2. TypeOK'
    BY <2>1 DEF Bookkeeping, TypeOK, procVars, queueVars, commandVars
  <2>3. \A p \in Procs : /\ Living(p)' <=> Living(p)
                         /\ step'[p] = "unborn" <=> step[p] = "unborn"
    BY <2>1 DEF Living
  <2>4. Births'
    BY <2>1, <2>3 DEF Bookkeeping, Births, procVars, queueVars, commandVars
  <2>5. Registry'
    <3>1. \A s \in Slots : /\ alive[s] => owner'[s] = owner[s]
                           /\ owner'[s] # 0 => owner'[s] = owner[s]
      BY <2>1
    <3>2. alive' = alive /\ forked' = forked /\ slot' = slot
      BY <2>1 DEF procVars
    <3>3. ASSUME NEW p \in Procs, Living(p)'
          PROVE  alive[slot[p]] /\ owner'[slot[p]] = p
      <4>1. Living(p)
        BY <2>3, <3>3 DEF Living
      <4>2. slot[p] \in Slots /\ alive[slot[p]] /\ owner[slot[p]] = p
        BY <4>1, LivingSlot
      <4>. QED
        BY <3>1, <4>2
    <3>4. ASSUME NEW s \in Slots, alive[s]
          PROVE  owner'[s] # 0 /\ step'[owner'[s]] \in {"idle", "done"}
      <4>1. owner'[s] = owner[s] /\ owner[s] \in Procs /\ Living(owner[s])
        BY <3>1, <3>4, SlotOwner DEF Living
      <4>2. step'[owner[s]] \in {"idle", "done"}
        BY <2>1, <4>1 DEF Living
      <4>. QED
        BY <4>1, <4>2, Constants
    <3>5. \A s \in Slots : owner'[s] # 0 => owner'[s] <= forked /\ slot[owner'[s]] = s
      BY <3>1, SlotOwner
    <3>. QED
      BY <3>2, <3>3, <3>4, <3>5 DEF Registry, Living
  <2>6. Lists' /\ Targets'
    BY <2>1 DEF Bookkeeping, Lists, Targets, SquadronSlots, GivenSlots,
                procVars, queueVars, commandVars
  <2>. QED
    BY <2>2, <2>4, <2>5, <2>6 DEF Bookkeeping
<1>. QED
  BY <1>1, <1>2 DEF CCStep

LEMMA DeathBookkeeping ==
    ASSUME Bookkeeping, NEW p \in Procs, UnitDies(p)
    PROVE  Bookkeeping'
<1>1. p <= forked /\ slot[p] \in Slots /\ alive[slot[p]] /\ owner[slot[p]] = p
  BY LivingSlot DEF UnitDies
<1>2. /\ alive' = [alive EXCEPT ![slot[p]] = FALSE]
      /\ step' = [step EXCEPT ![p] = "dead"]
      /\ orders' = [orders EXCEPT ![p] = <<>>]
      /\ replies' = [replies EXCEPT ![p] = <<>>]
      /\ announced' = [announced EXCEPT ![p] = <<>>]
      /\ underlings' = [q \in Ships |->
                          IF q = p THEN [i \in Slots |-> 0] ELSE underlings[q]]
      /\ commander' = [commander EXCEPT ![p] = 0]
      /\ order' = [order EXCEPT ![p] = "patrol"]
      /\ ward' = [ward EXCEPT ![p] = 0]
      /\ UNCHANGED <<phase, owner, side, kind, forked, slot, asking, reqs>>
  BY DEF UnitDies, procVars
<1>3. TypeOK'
  <2>1. <<>> \in Seq(Slots) /\ <<>> \in Seq(OrderTypes)
    OBVIOUS
  <2>2. [i \in Slots |-> 0] \in [Slots -> Slots \cup {0}]
    OBVIOUS
  <2>3. /\ alive' \in [Slots -> BOOLEAN]
        /\ step' \in [Procs -> {"unborn", "idle", "done", "dead"}]
        /\ replies' \in [Procs -> Seq(Slots)]
        /\ announced' \in [Procs -> Seq(Slots)]
        /\ commander' \in [Procs -> Slots \cup {0}]
        /\ order' \in [Procs -> {"patrol", "guard", "attack"}]
        /\ ward' \in [Procs -> Slots \cup {0}]
    BY <1>2, <2>1 DEF Bookkeeping, TypeOK
  <2>4. orders' \in [Procs -> Seq(OrderTypes)]
    BY <1>2, <2>1 DEF Bookkeeping, TypeOK, OrderTypes
  <2>5. underlings' \in [Ships -> [Slots -> Slots \cup {0}]]
    BY <1>2, <2>2 DEF Bookkeeping, TypeOK
  <2>. QED
    BY <1>2, <2>3, <2>4, <2>5 DEF Bookkeeping, TypeOK, OrderTypes
<1>4. Births'
  <2>1. \A r \in Procs : step'[r] = "unborn" <=> step[r] = "unborn"
    BY <1>1, <1>2 DEF Bookkeeping, Births, TypeOK
  <2>2. \A r \in Procs : r > forked =>
           /\ orders'[r] = <<>> /\ replies'[r] = <<>>
           /\ announced'[r] = <<>> /\ commander'[r] = 0
           /\ order'[r] = "patrol" /\ ward'[r] = 0
    BY <1>2 DEF Bookkeeping, Births, TypeOK
  <2>3. \A q \in Ships, i \in Slots : q > forked => underlings'[q][i] = 0
    BY <1>2 DEF Bookkeeping, Births
  <2>. QED
    BY <1>2, <2>1, <2>2, <2>3 DEF Bookkeeping, Births
<1>5. Registry'
  <2>1. \A r \in Procs : Living(r)' => Living(r) /\ r # p
    BY <1>2 DEF Living, Bookkeeping, TypeOK
  <2>2. \A s \in Slots : /\ alive'[s] => alive[s] /\ s # slot[p]
                         /\ alive[s] /\ s # slot[p] => alive'[s]
    BY <1>1, <1>2 DEF Bookkeeping, TypeOK
  <2>3. ASSUME NEW r \in Procs, Living(r)'
        PROVE  alive'[slot'[r]] /\ owner'[slot'[r]] = r
    <3>1. /\ Living(r) /\ r # p /\ slot'[r] = slot[r]
          /\ slot[r] \in Slots /\ alive[slot[r]] /\ owner[slot[r]] = r
      BY <1>2, <2>1, <2>3, LivingSlot
    <3>2. slot[r] # slot[p]
      BY <1>1, <3>1
    <3>. QED
      BY <1>2, <2>2, <3>1, <3>2
  <2>4. ASSUME NEW s \in Slots, alive'[s]
        PROVE  owner'[s] # 0 /\ step'[owner'[s]] \in {"idle", "done"}
    <3>1. /\ s # slot[p] /\ owner'[s] = owner[s] /\ owner[s] # 0
          /\ owner[s] \in Procs /\ Living(owner[s]) /\ slot[owner[s]] = s
      BY <1>2, <2>2, <2>4 DEF Bookkeeping, Registry, TypeOK
    <3>2. step'[owner[s]] = step[owner[s]]
      BY <1>2, <3>1 DEF Bookkeeping, TypeOK
    <3>. QED
      BY <3>1, <3>2 DEF Living
  <2>. QED
    BY <1>2, <2>3, <2>4 DEF Bookkeeping, Registry, Living
<1>6. Lists'
  <2>1. \A q \in Ships, i \in Slots :
           underlings'[q][i] # 0 => underlings'[q][i] = underlings[q][i]
    BY <1>2
  <2>2. \A q \in Procs : announced'[q] = announced[q] \/ announced'[q] = <<>>
    BY <1>2 DEF Bookkeeping, TypeOK
  <2>3. SquadronSlots' = SquadronSlots
    BY <1>2 DEF SquadronSlots
  <2>. QED
    BY <1>2, <2>1, <2>2, <2>3 DEF Bookkeeping, Lists
<1>7. Targets'
  <2>1. \A r \in Procs : /\ (ward'[r] = ward[r] \/ ward'[r] = 0)
                         /\ (orders'[r] = orders[r] \/ orders'[r] = <<>>)
                         /\ (replies'[r] = replies[r] \/ replies'[r] = <<>>)
                         /\ (commander'[r] = commander[r] \/ commander'[r] = 0)
    BY <1>2 DEF Bookkeeping, TypeOK
  <2>2. GivenSlots' = GivenSlots
    BY <1>2 DEF GivenSlots
  <2>. QED
    BY <1>2, <2>1, <2>2 DEF Bookkeeping, Targets
<1>. QED
  BY <1>3, <1>4, <1>5, <1>6, <1>7 DEF Bookkeeping

LEMMA ShipBookkeeping ==
    ASSUME Bookkeeping, NEW q \in Ships, ShipActs(q)
    PROVE  Bookkeeping'
<1>1. /\ reqs' = <<>> /\ asking' \in {asking, asking \cup {q}}
      /\ announced' = [announced EXCEPT ![q] = <<>>]
      /\ step' = [step EXCEPT ![q] = "done"] /\ step[q] = "idle"
      /\ UNCHANGED <<phase, alive, owner, side, kind, forked, slot, commander, order, ward>>
  BY DEF ShipActs, registryVars, procVars
<1>2. /\ underlings' \in [Ships -> [Slots -> Slots \cup {0}]]
      /\ replies' \in [Procs -> Seq(Slots)]
      /\ orders' \in [Procs -> Seq(OrderTypes)]
  BY ShipLists, ShipReplies, ShipOrders
<1>3. TypeOK'
  <2>1. announced' \in [Procs -> Seq(Slots)]
    <3>1. <<>> \in Seq(Slots)
      OBVIOUS
    <3>. QED
      BY <1>1, <3>1 DEF Bookkeeping, TypeOK
  <2>2. step' \in [Procs -> {"unborn", "idle", "done", "dead"}]
    BY <1>1 DEF Bookkeeping, TypeOK
  <2>3. asking' \subseteq Ships
    BY <1>1 DEF Bookkeeping, TypeOK
  <2>4. reqs' \in Seq([from : Squadrons, sender_id : Slots])
    <3> DEFINE Requests == [from : Squadrons, sender_id : Slots]
    <3> HIDE DEF Requests
    <3>1. reqs' \in Seq(Requests)
      BY <1>1
    <3>. QED
      BY <3>1 DEF Requests
  <2>. QED
    BY <1>1, <1>2, <2>1, <2>2, <2>3, <2>4 DEF Bookkeeping, TypeOK, OrderTypes
<1>4. /\ \A p \in Procs : step'[p] = "unborn" <=> step[p] = "unborn"
      /\ \A p \in Procs : step'[p] \in {"idle", "done"} <=> step[p] \in {"idle", "done"}
  BY <1>1 DEF Bookkeeping, TypeOK
<1>5. Births'
  <2>1. ASSUME NEW p \in Procs, p > forked
        PROVE  /\ orders'[p] = <<>> /\ replies'[p] = <<>>
               /\ announced'[p] = <<>> /\ commander'[p] = 0
               /\ order'[p] = "patrol" /\ ward'[p] = 0
    <3>1. /\ orders[p] = <<>> /\ replies[p] = <<>>
          /\ announced[p] = <<>> /\ commander[p] = 0
          /\ order[p] = "patrol" /\ ward[p] = 0
      BY <2>1 DEF Bookkeeping, Births
    <3>2. \A k \in DOMAIN reqs : reqs[k].from <= forked
      BY DEF Bookkeeping, Lists
    <3>3. forked \in Nat
      BY Constants DEF Bookkeeping, TypeOK
    <3>4. replies'[p] = replies[p]
      <4>1. ~ \E k : Heard(q, k) /\ reqs[k].from = p
        BY <2>1, <3>2, <3>3, Constants DEF Heard
      <4>. QED
        BY <4>1, ShipReplies
    <3>5. orders'[p] = orders[p]
      <4>1. ~ \E i \in Slots : underlings'[q][i] # 0 /\ owner[underlings'[q][i]] = p
        <5>1. SUFFICES ASSUME NEW i \in Slots, underlings'[q][i] # 0,
                              owner[underlings'[q][i]] = p
                       PROVE  FALSE
          OBVIOUS
        <5>2. underlings'[q][i] \in Slots
          BY <1>2, <5>1
        <5>3. p <= forked
          BY <5>1, <5>2, SlotOwner, Constants
        <5>. QED
          BY <2>1, <3>3, <5>3, Constants
      <4>. QED
        BY <4>1, ShipOrders
    <3>6. announced'[p] = <<>>
      BY <1>1, <3>1 DEF Bookkeeping, TypeOK
    <3>. QED
      BY <1>1, <3>1, <3>4, <3>5, <3>6
  <2>2. q \in Procs /\ q <= forked
    BY <1>1, ShipSlots DEF Living
  <2>3. \A p \in Procs : p > forked => p \notin asking'
    BY <1>1, <2>2, Constants DEF Bookkeeping, Births, TypeOK
  <2>4. \A r \in Ships, i \in Slots : r > forked => underlings'[r][i] = 0
    <3>1. \A r \in Ships : r > forked => r # q
      BY <2>2, Constants DEF Bookkeeping, TypeOK
    <3>. QED
      BY <3>1, ShipLists DEF Bookkeeping, Births
  <2>. QED
    BY <1>1, <1>4, <2>1, <2>3, <2>4 DEF Bookkeeping, Births
<1>6. Registry'
  <2>1. \A s \in Slots : alive[s] => owner[s] \in Procs
    BY SlotOwner
  <2>. QED
    BY <1>1, <1>4, <2>1 DEF Bookkeeping, Registry, Living
<1>7. SquadronSlots' = SquadronSlots /\ GivenSlots' = GivenSlots
  BY <1>1 DEF SquadronSlots, GivenSlots
<1>8. \A k : Heard(q, k) => reqs[k].sender_id \in SquadronSlots
  <2> SUFFICES ASSUME NEW k \in DOMAIN reqs PROVE reqs[k].sender_id \in SquadronSlots
    BY DEF Heard
  <2>1. reqs[k].from \in Squadrons
    BY RequestTypes DEF Bookkeeping
  <2>2. reqs[k].from <= forked /\ reqs[k].sender_id = slot[reqs[k].from]
    BY DEF Bookkeeping, Lists
  <2>. QED
    BY <2>1, <2>2 DEF SquadronSlots
<1>9. \A i \in Slots : underlings'[q][i] # 0 => underlings'[q][i] \in SquadronSlots
  <2> TAKE i \in Slots
  <2>1. CASE OnList(q, underlings'[q][i])
    BY <2>1, Constants DEF OnList, Bookkeeping, Lists
  <2>2. CASE \E k : Heard(q, k) /\ underlings'[q][i] = reqs[k].sender_id
    BY <1>8, <2>2
  <2>. QED
    BY <2>1, <2>2, ShipLists
<1>10. Lists'
  <2>1. \A r \in Ships, i \in Slots :
           underlings'[r][i] # 0 => underlings'[r][i] \in SquadronSlots
    BY <1>9, ShipLists DEF Bookkeeping, Lists
  <2>2. \A r \in Procs : announced'[r] = announced[r] \/ announced'[r] = <<>>
    BY <1>1 DEF Bookkeeping, TypeOK
  <2>. QED
    BY <1>1, <1>7, <2>1, <2>2 DEF Bookkeeping, Lists
<1>11. Targets'
  <2>1. SquadronSlots \subseteq GivenSlots
    BY DEF SquadronSlots, GivenSlots, Squadrons
  <2>2. slot[q] \in GivenSlots
    BY <1>1, ShipSlots DEF GivenSlots, Living
  <2>3. ASSUME NEW p \in Procs, NEW i \in DOMAIN orders'[p], orders'[p][i].target # 0
        PROVE  orders'[p][i].target \in GivenSlots
    <3>1. CASE orders'[p] = orders[p]
      BY <2>3, <3>1 DEF Bookkeeping, Targets
    <3>2. CASE orders'[p] # orders[p]
      <4>1. PICK o \in OrderTypes :
              /\ orders'[p] = Append(orders[p], o)
              /\ \/ o.target = 0 \/ o.target = slot[q]
                 \/ \E j \in Slots : underlings'[q][j] # 0 /\ o.target = underlings'[q][j]
        BY <3>2, ShipOrders
      <4>2. o.target # 0 => o.target \in GivenSlots
        BY <1>9, <2>1, <2>2, <4>1
      <4>3. orders[p] \in Seq(OrderTypes)
        BY DEF Bookkeeping, TypeOK, OrderTypes
      <4>4. \/ i \in DOMAIN orders[p] /\ orders'[p][i] = orders[p][i]
            \/ orders'[p][i] = o
        BY <2>3, <4>1, <4>3
      <4>. QED
        BY <2>3, <4>2, <4>4 DEF Bookkeeping, Targets
    <3>. QED
      BY <3>1, <3>2
  <2>4. ASSUME NEW p \in Procs, NEW i \in DOMAIN replies'[p]
        PROVE  replies'[p][i] \in GivenSlots
    <3>1. CASE replies'[p] = replies[p]
      BY <2>4, <3>1 DEF Bookkeeping, Targets
    <3>2. CASE replies'[p] = Append(replies[p], slot[q])
      <4>1. replies[p] \in Seq(Slots) /\ slot[q] \in Slots
        BY <1>1, ShipSlots DEF Bookkeeping, TypeOK, Living
      <4>2. \/ i \in DOMAIN replies[p] /\ replies'[p][i] = replies[p][i]
            \/ replies'[p][i] = slot[q]
        BY <2>4, <3>2, <4>1
      <4>. QED
        BY <2>2, <4>2 DEF Bookkeeping, Targets
    <3>. QED
      BY <3>1, <3>2, ShipReplies
  <2>. QED
    BY <1>1, <1>7, <2>3, <2>4 DEF Bookkeeping, Targets
<1>. QED
  BY <1>3, <1>5, <1>6, <1>10, <1>11 DEF Bookkeeping

LEMMA SquadronBookkeeping ==
    ASSUME Bookkeeping, NEW p \in Procs, SquadronActs(p)
    PROVE  Bookkeeping'
<1> DEFINE request == [from |-> p, sender_id |-> slot[p]]
<1>1. /\ step[p] = "idle" /\ p \in Squadrons
      /\ commander' = [commander EXCEPT ![p] =
                         IF Present(Promised(p)) THEN Promised(p) ELSE 0]
      /\ order' = [order EXCEPT ![p] = OrderNow(p, Promised(p))]
      /\ ward' = [ward EXCEPT ![p] =
                    IF OrderNow(p, Promised(p)) = "guard" /\ ~Present(Guarded(p))
                    THEN 0 ELSE Guarded(p)]
      /\ reqs' = Append(reqs, request) \/ reqs' = reqs
      /\ replies' = [replies EXCEPT ![p] = <<>>]
      /\ orders' = [orders EXCEPT ![p] = <<>>]
      /\ step' = [step EXCEPT ![p] = "done"]
      /\ UNCHANGED <<phase, alive, owner, side, kind, forked, slot, asking,
                     announced, underlings>>
  BY DEF SquadronActs, registryVars, procVars
<1>2. p <= forked /\ slot[p] \in Slots
  BY <1>1, LivingSlot DEF Living
<1>3. TypeOK'
  <2>1. Promised(p) \in Slots \cup {0} /\ Guarded(p) \in Slots \cup {0}
        /\ OrderNow(p, Promised(p)) \in {"patrol", "guard", "attack"}
    BY SquadronReads DEF Bookkeeping, OrderNow
  <2>2. /\ commander' \in [Procs -> Slots \cup {0}]
        /\ order' \in [Procs -> {"patrol", "guard", "attack"}]
        /\ ward' \in [Procs -> Slots \cup {0}]
        /\ step' \in [Procs -> {"unborn", "idle", "done", "dead"}]
    BY <1>1, <2>1 DEF Bookkeeping, TypeOK
  <2>3. replies' \in [Procs -> Seq(Slots)] /\ orders' \in [Procs -> Seq(OrderTypes)]
    <3>1. <<>> \in Seq(Slots) /\ <<>> \in Seq(OrderTypes)
      OBVIOUS
    <3>. QED
      BY <1>1, <3>1 DEF Bookkeeping, TypeOK, OrderTypes
  <2>4. reqs' \in Seq([from : Squadrons, sender_id : Slots])
    <3> DEFINE Requests == [from : Squadrons, sender_id : Slots]
    <3>1. request \in Requests /\ reqs \in Seq(Requests)
      BY <1>1, <1>2 DEF Bookkeeping, TypeOK
    <3> HIDE DEF Requests, request
    <3>2. Append(reqs, request) \in Seq(Requests)
      BY <3>1
    <3>3. reqs' \in Seq(Requests)
      BY <1>1, <3>1, <3>2
    <3>. QED
      BY <3>3 DEF Requests
  <2>. QED
    BY <1>1, <2>2, <2>3, <2>4 DEF Bookkeeping, TypeOK, OrderTypes
<1>4. /\ \A r \in Procs : step'[r] = "unborn" <=> step[r] = "unborn"
      /\ \A r \in Procs : step'[r] \in {"idle", "done"} <=> step[r] \in {"idle", "done"}
  BY <1>1 DEF Bookkeeping, TypeOK
<1>5. Births'
  <2>1. ASSUME NEW r \in Procs, r > forked
        PROVE  /\ orders'[r] = <<>> /\ replies'[r] = <<>>
               /\ announced'[r] = <<>> /\ commander'[r] = 0
               /\ order'[r] = "patrol" /\ ward'[r] = 0
    <3>1. r # p
      BY <1>2, <2>1, Constants DEF Bookkeeping, TypeOK
    <3>. QED
      BY <1>1, <2>1, <3>1 DEF Bookkeeping, Births, TypeOK
  <2>2. \A q \in Ships, i \in Slots : q > forked => underlings'[q][i] = 0
    BY <1>1 DEF Bookkeeping, Births
  <2>. QED
    BY <1>1, <1>4, <2>1, <2>2 DEF Bookkeeping, Births
<1>6. Registry'
  <2>1. \A s \in Slots : alive[s] => owner[s] \in Procs
    BY SlotOwner
  <2>. QED
    BY <1>1, <1>4, <2>1 DEF Bookkeeping, Registry, Living
<1>7. SquadronSlots' = SquadronSlots /\ GivenSlots' = GivenSlots
  BY <1>1 DEF SquadronSlots, GivenSlots
<1>8. Lists'
  <2>1. ASSUME NEW i \in DOMAIN reqs'
        PROVE  reqs'[i].from <= forked /\ reqs'[i].sender_id = slot[reqs'[i].from]
    <3>1. DOMAIN reqs = 1..Len(reqs) /\ Len(reqs) \in Nat
      BY DEF Bookkeeping, TypeOK
    <3>2. \/ i \in DOMAIN reqs /\ reqs'[i] = reqs[i]
          \/ reqs'[i] = request
      <4>1. CASE reqs' = reqs
        BY <2>1, <4>1
      <4>2. CASE reqs' = Append(reqs, request)
        <5>1. request \in [from : Squadrons, sender_id : Slots]
          BY <1>1, <1>2
        <5> HIDE DEF request
        <5>. QED
          BY <2>1, <4>2, <5>1, RequestsAreSequence DEF Bookkeeping
      <4>. QED
        BY <1>1, <4>1, <4>2
    <3>. QED
      BY <1>2, <3>2 DEF Bookkeeping, Lists
  <2>. QED
    BY <1>1, <1>7, <2>1 DEF Bookkeeping, Lists
<1>9. Targets'
  <2>1. \A r \in Procs : /\ (r # p => /\ orders'[r] = orders[r] /\ ward'[r] = ward[r]
                                     /\ replies'[r] = replies[r]
                                     /\ commander'[r] = commander[r])
                         /\ (r = p => orders'[r] = <<>> /\ replies'[r] = <<>>)
    BY <1>1 DEF Bookkeeping, TypeOK
  <2>2. ward'[p] = 0 \/ ward'[p] = Guarded(p)
    BY <1>1 DEF Bookkeeping, TypeOK
  <2>3. Guarded(p) # 0 => Guarded(p) \in GivenSlots
    BY SquadronReads DEF Bookkeeping, Targets
  <2>4. commander'[p] = 0 \/ commander'[p] = Promised(p)
    BY <1>1 DEF Bookkeeping, TypeOK
  <2>5. Promised(p) # 0 => Promised(p) \in GivenSlots
    BY PromisedIsGiven
  <2>. QED
    BY <1>7, <2>1, <2>2, <2>3, <2>4, <2>5 DEF Bookkeeping, Targets
<1>. QED
  BY <1>3, <1>5, <1>6, <1>8, <1>9 DEF Bookkeeping

LEMMA NextBookkeeping == Bookkeeping /\ [Next]_vars => Bookkeeping'
<1> SUFFICES ASSUME Bookkeeping, [Next]_vars PROVE Bookkeeping'
  OBVIOUS
<1>1. CASE UNCHANGED vars
  <2>1. TypeOK'
    BY <1>1 DEF vars, registryVars, procVars, queueVars, commandVars, Bookkeeping, TypeOK
  <2>2. Births' /\ Registry' /\ Lists' /\ Targets'
    BY <1>1 DEF vars, registryVars, procVars, queueVars, commandVars, Bookkeeping,
                Births, Registry, Lists, Targets, Living, SquadronSlots, GivenSlots
  <2>. QED
    BY <2>1, <2>2 DEF Bookkeeping
<1>. QED
  BY <1>1, SpawnBookkeeping, TickBookkeeping, ShipBookkeeping,
     SquadronBookkeeping, DeathBookkeeping DEF Next, Spawning

-----------------------------------------------------------------------------
(* Whom a squadron belongs to, when no message is lost and no slot reused *)

Listed(q) == {underlings[q][i] : i \in Slots}
                 \cup {announced[q][i] : i \in DOMAIN announced[q]}
Requesters == {reqs[k].from : k \in DOMAIN reqs}

\* A battleship that has a squadron on its list has promised to command it.
\* Who asks for a commander has none and is on no list.  A reply comes to who
\* waits for one, an order to who has been promised a commander.
Loyal(p) ==
    /\ \A q \in Ships : Living(q) /\ slot[p] \in Listed(q) => Promised(p) = slot[q]
    /\ p \in Requesters => /\ commander[p] = 0 /\ replies[p] = <<>>
                           /\ \A q \in Ships : Living(q) => slot[p] \notin Listed(q)
    /\ replies[p] # <<>> => commander[p] = 0
    /\ orders[p] # <<>> => Promised(p) # 0
    /\ commander[p] = 0 => order[p] = "patrol"

Allegiance == NoReuse => \A p \in Squadrons : Living(p) => Loyal(p)

LEMMA ListedIsEntered ==
    ASSUME NEW q \in Ships, NEW p \in Procs
    PROVE  Entered(q, p) <=> slot[p] \in Listed(q)
BY DEF Entered, Listed

LEMMA OnListIsListed ==
    ASSUME NEW q \in Ships, NEW e
    PROVE  OnList(q, e) <=> e \in Listed(q)
BY DEF OnList, Listed

LEMMA NothingSpawned ==
    ASSUME [Next]_vars, ~Spawning
    PROVE  UNCHANGED <<forked, slot>>
<1>1. CASE CCStep \/ UNCHANGED vars
  BY <1>1 DEF CCStep, StartTick, EndTick, vars, procVars
<1>2. ASSUME NEW q \in Ships, ShipActs(q) PROVE UNCHANGED <<forked, slot>>
  BY <1>2 DEF ShipActs, procVars
<1>3. ASSUME NEW p \in Procs, SquadronActs(p) PROVE UNCHANGED <<forked, slot>>
  BY <1>3 DEF SquadronActs, procVars
<1>4. ASSUME NEW p \in Procs, UnitDies(p) PROVE UNCHANGED <<forked, slot>>
  BY <1>4 DEF UnitDies, procVars
<1>. QED
  BY <1>1, <1>2, <1>3, <1>4 DEF Next, Spawning

\* slots reused stay reused
LEMMA ReuseIsForEver ==
    ASSUME Bookkeeping, [Next]_vars, NoReuse'
    PROVE  /\ NoReuse
           /\ \A p \in Procs : p <= forked => p <= forked' /\ slot'[p] = slot[p]
<1>1. \A p \in Procs : p <= forked => p <= forked' /\ slot'[p] = slot[p]
  <2>1. CASE Spawning
    <3>1. PICK child : child = forked + 1
      OBVIOUS
    <3>2. forked' = child /\ \E s : slot' = [slot EXCEPT ![child] = s]
      BY <2>1, <3>1, SpawnIsSpawns DEF Spawns
    <3>3. forked \in Nat
      BY Constants DEF Bookkeeping, TypeOK
    <3>4. \A p \in Procs : p <= forked => p <= child /\ p # child
      BY <3>1, <3>3, Constants
    <3>. QED
      BY <3>2, <3>4 DEF Bookkeeping, TypeOK
  <2>2. CASE UNCHANGED <<forked, slot>>
    BY <2>2
  <2>3. Spawning \/ UNCHANGED <<forked, slot>>
    BY NothingSpawned
  <2>. QED
    BY <2>1, <2>2, <2>3
<1>2. 1..forked \subseteq Procs
  BY Constants DEF Bookkeeping, TypeOK, Procs
<1>3. \A p \in 1..forked : p \in Procs /\ p <= forked
  BY <1>2, Constants DEF Bookkeeping, TypeOK
<1>4. NoReuse
  <2> SUFFICES ASSUME NEW p \in 1..forked, NEW q \in 1..forked, slot[p] = slot[q]
               PROVE  p = q
    BY DEF NoReuse
  <2>1. slot'[p] = slot'[q] /\ p <= forked' /\ q <= forked'
    BY <1>1, <1>3
  <2>2. p \in 1..forked' /\ q \in 1..forked'
    <3>1. forked' \in Nat
      <4>1. Bookkeeping'
        BY NextBookkeeping
      <4>. QED
        BY <4>1, Constants DEF Bookkeeping, TypeOK
    <3>. QED
      BY <2>1, <3>1, Constants DEF Procs
  <2>. QED
    BY <2>1, <2>2 DEF NoReuse
<1>. QED
  BY <1>1, <1>4

\* two processes born have two slots
LEMMA SlotsDiffer ==
    ASSUME Bookkeeping, NoReuse,
           NEW p \in Procs, NEW r \in Procs, p <= forked, r <= forked,
           slot[p] = slot[r]
    PROVE  p = r
<1>1. p \in 1..forked /\ r \in 1..forked
  BY Constants DEF Bookkeeping, TypeOK, Procs
<1>. QED
  BY <1>1 DEF NoReuse

\* what a step does not touch stays loyal
LEMMA LoyaltyKept ==
    ASSUME NEW p \in Squadrons, Loyal(p),
           slot'[p] = slot[p], p \in Requesters' => p \in Requesters,
           \A q \in Ships : Living(q)' /\ slot[p] \in Listed(q)' =>
               Living(q) /\ slot'[q] = slot[q] /\ slot[p] \in Listed(q),
           orders'[p] = orders[p], replies'[p] = replies[p],
           commander'[p] = commander[p], order'[p] = order[p]
    PROVE  Loyal(p)'
<1>1. Promised(p)' = Promised(p)
  BY DEF Promised, Last
<1>. QED
  BY <1>1 DEF Loyal

\* A slot given anew is on no list but that of the battleship it is for.
Anew(child, s, boss) ==
    /\ child \in Procs
    /\ orders[child] = <<>> /\ replies[child] = <<>> /\ order[child] = "patrol"
    /\ ward[child] = 0 /\ child \notin Requesters'
    /\ slot'[child] = s
    /\ \A r \in Procs : r # child =>
          slot'[r] = slot[r] /\ (Living(r)' <=> Living(r)) /\ commander'[r] = commander[r]
    /\ s \notin GivenSlots /\ \A r \in Procs : r <= forked => slot[r] # s
    /\ \A q \in Ships :
          /\ q \in Procs
          /\ q = child => Listed(q)' \subseteq {0}
          /\ q # child => slot'[q] = slot[q] /\ (Living(q)' => Living(q))
          /\ s \notin Listed(q)
          /\ \A e \in Listed(q)' : e \in Listed(q) \/ (e = s /\ q = boss)

LEMMA SpawnedAnew ==
    ASSUME Bookkeeping, Spawning, NoReuse', NEW child, child = forked + 1,
           NEW s \in FreeSlots, NEW boss \in {0} \cup asking,
           NEW f \in Factions \cup {0}, NEW k \in Light \cup {"ship"},
           Spawns(child, s, boss, f, k)
    PROVE  Anew(child, s, boss)
<1>2. /\ UNCHANGED <<phase, reqs, orders, replies, underlings, order, ward>>
      /\ forked < MaxProcs
  BY SpawnIsSpawns
<1>3. /\ forked \in Nat /\ child \in Procs
      /\ orders[child] = <<>> /\ replies[child] = <<>> /\ order[child] = "patrol"
      /\ ward[child] = 0
  BY <1>2, TheChild
<1>4. child \notin Requesters'
  <2>1. \A i \in DOMAIN reqs : reqs[i].from <= forked
    BY DEF Bookkeeping, Lists
  <2>. QED
    BY <1>2, <1>3, <2>1, Constants DEF Requesters
<1>5. /\ slot' = [slot EXCEPT ![child] = s] /\ step' = [step EXCEPT ![child] = "idle"]
      /\ commander' = [commander EXCEPT ![child] = IF boss = 0 THEN 0 ELSE slot[boss]]
      /\ forked' = child
  BY DEF Spawns
<1>6. /\ slot'[child] = s
      /\ \A r \in Procs : r # child =>
            slot'[r] = slot[r] /\ (Living(r)' <=> Living(r)) /\ commander'[r] = commander[r]
  BY <1>3, <1>5 DEF Bookkeeping, TypeOK, Living
<1>7. \A r \in Procs : r <= forked => slot[r] # s
  <2> SUFFICES ASSUME NEW r \in Procs, r <= forked, slot[r] = s PROVE FALSE
    OBVIOUS
  <2>1. r # child /\ r <= forked' /\ child <= forked'
    BY <1>3, <1>5, Constants
  <2>2. slot'[r] = slot'[child]
    BY <1>6, <2>1
  <2>3. r \in 1..forked' /\ child \in 1..forked'
    BY <1>3, <1>5, <2>1, Constants
  <2>. QED
    BY <2>1, <2>2, <2>3 DEF NoReuse
<1>8. s \notin GivenSlots /\ \A q \in Ships : s \notin Listed(q)
  <2>1. s \notin GivenSlots /\ s \notin SquadronSlots /\ s # 0
    BY <1>7, Constants DEF GivenSlots, SquadronSlots, Squadrons, FreeSlots
  <2>. QED
    BY <2>1, Constants DEF Listed, Bookkeeping, Lists
<1>9. ASSUME NEW q \in Ships
      PROVE  /\ q \in Procs
             /\ q # child => slot'[q] = slot[q] /\ (Living(q)' => Living(q))
             /\ \A e \in Listed(q)' : e \in Listed(q) \/ (e = s /\ q = boss)
  <2>1. q \in Procs /\ (q # child => slot'[q] = slot[q] /\ (Living(q)' => Living(q)))
    BY <1>3, <1>6, Constants
  <2>2. announced[q] \in Seq(Slots) /\ announced \in [Procs -> Seq(Slots)]
    BY <2>1 DEF Bookkeeping, TypeOK
  <2>3. \/ announced'[q] = announced[q]
        \/ q = boss /\ announced'[q] = Append(announced[q], s)
    BY <2>1, <2>2 DEF Spawns
  <2>4. \A i \in DOMAIN announced'[q] :
          \/ i \in DOMAIN announced[q] /\ announced'[q][i] = announced[q][i]
          \/ announced'[q][i] = s /\ q = boss
    <3>1. CASE announced'[q] = announced[q]
      BY <3>1
    <3>2. CASE q = boss /\ announced'[q] = Append(announced[q], s)
      <4>1. s \in Slots
        BY DEF FreeSlots
      <4>2. \A i \in DOMAIN Append(announced[q], s) :
               \/ i \in DOMAIN announced[q] /\ Append(announced[q], s)[i] = announced[q][i]
               \/ Append(announced[q], s)[i] = s
        BY <2>2, <4>1
      <4>. QED
        BY <3>2, <4>2
    <3>. QED
      BY <2>3, <3>1, <3>2
  <2>5. underlings'[q] = underlings[q]
    BY <1>2
  <2> SUFFICES ASSUME NEW e \in Listed(q)', e \notin Listed(q)
               PROVE  e = s /\ q = boss
    BY <2>1
  <2>6. PICK i \in DOMAIN announced'[q] : e = announced'[q][i]
    BY <2>5 DEF Listed
  <2>. QED
    BY <2>4, <2>6 DEF Listed
<1>10. ASSUME child \in Ships PROVE Listed(child)' \subseteq {0}
  <2>1. boss # child
    BY <1>2, <1>3, TheChild, Constants
  <2>2. announced[child] = <<>> /\ \A i \in Slots : underlings[child][i] = 0
    BY <1>2, <1>10, TheChild
  <2>3. Listed(child) \subseteq {0}
    BY <2>2 DEF Listed
  <2>. QED
    BY <1>9, <1>10, <2>1, <2>3
<1>. QED
  BY <1>3, <1>4, <1>6, <1>7, <1>8, <1>9, <1>10 DEF Anew

LEMMA SpawnLoyalty ==
    ASSUME Bookkeeping, Allegiance, Spawning, NoReuse', NoReuse,
           NEW p \in Squadrons, Living(p)'
    PROVE  Loyal(p)'
<1> PICK child : child = forked + 1
  OBVIOUS
<1>1. PICK s \in FreeSlots, boss \in {0} \cup asking, f \in Factions \cup {0},
            k \in Light \cup {"ship"} :
        Spawns(child, s, boss, f, k)
  BY SpawnIsSpawns
<1>0. Anew(child, s, boss)
  BY <1>1, SpawnedAnew
<1>2. UNCHANGED <<reqs, orders, replies, order>>
  BY SpawnIsSpawns
<1>3. /\ child \in Procs
      /\ orders[child] = <<>> /\ replies[child] = <<>> /\ order[child] = "patrol"
      /\ child \notin Requesters'
      /\ \A r \in Procs : r # child =>
            slot'[r] = slot[r] /\ (Living(r)' <=> Living(r)) /\ commander'[r] = commander[r]
      /\ slot'[child] = s /\ \A r \in Procs : r <= forked => slot[r] # s
  BY <1>0 DEF Anew
<1>4. p \in Procs
  BY DEF Squadrons
<1>5. commander' = [commander EXCEPT ![child] = IF boss = 0 THEN 0 ELSE slot[boss]]
  BY <1>1 DEF Spawns
<1>6. \A q \in Ships :
        /\ q \in Procs
        /\ q = child => Listed(q)' \subseteq {0}
        /\ q # child => slot'[q] = slot[q] /\ (Living(q)' => Living(q))
        /\ s \notin Listed(q)
        /\ \A e \in Listed(q)' : e \in Listed(q) \/ (e = s /\ q = boss)
  BY <1>0 DEF Anew
<1>9. s # 0
  BY Constants DEF FreeSlots
<1>7. CASE p = child
  <2>1. /\ orders'[p] = <<>> /\ replies'[p] = <<>> /\ order'[p] = "patrol"
        /\ slot'[p] = s
        /\ commander'[p] = IF boss = 0 THEN 0 ELSE slot[boss]
    BY <1>2, <1>3, <1>5, <1>7 DEF Bookkeeping, TypeOK
  <2>2. p \notin Requesters'
    BY <1>3, <1>7
  <2>3. Promised(p)' = commander'[p]
    BY <2>1 DEF Promised
  <2>4. ASSUME NEW q \in Ships, slot'[p] \in Listed(q)'
        PROVE  Promised(p)' = slot'[q]
    <3>1. q = boss /\ q # child
      BY <1>6, <1>9, <2>1, <2>4
    <3>2. q # 0
      BY <1>6, Constants
    <3>. QED
      BY <1>6, <2>1, <2>3, <3>1, <3>2
  <2>. QED
    BY <2>1, <2>2, <2>4 DEF Loyal
<1>8. CASE p # child
  <2>1. Living(p) /\ slot'[p] = slot[p] /\ commander'[p] = commander[p]
    BY <1>3, <1>4, <1>8
  <2>2. Loyal(p) /\ slot[p] # s /\ slot[p] # 0
    BY <1>3, <1>4, <2>1, LivingSlot, Constants DEF Allegiance
  <2>3. Requesters' = Requesters
    BY <1>2 DEF Requesters
  <2>. QED
    BY <1>2, <1>6, <2>1, <2>2, <2>3, LoyaltyKept
<1>. QED
  BY <1>7, <1>8

LEMMA TickLoyalty ==
    ASSUME Allegiance, CCStep, NoReuse, NEW p \in Squadrons, Living(p)'
    PROVE  Loyal(p)'
<1>1. UNCHANGED <<slot, orders, replies, reqs, announced, underlings, commander, order>>
  BY DEF CCStep, StartTick, EndTick, procVars, queueVars, commandVars
<1>2. \A r \in Procs : Living(r)' => Living(r)
  BY DEF CCStep, StartTick, EndTick, Living
<1>3. Loyal(p)
  BY <1>2 DEF Allegiance, Squadrons
<1>4. Requesters' = Requesters /\ \A q \in Ships : Listed(q)' = Listed(q)
  BY <1>1 DEF Requesters, Listed
<1>. QED
  BY <1>1, <1>2, <1>3, <1>4, Constants, LoyaltyKept

LEMMA DeathLoyalty ==
    ASSUME Bookkeeping, Allegiance, NEW d \in Procs, UnitDies(d), NoReuse,
           NEW p \in Squadrons, Living(p)'
    PROVE  Loyal(p)'
<1>1. /\ step' = [step EXCEPT ![d] = "dead"]
      /\ orders' = [orders EXCEPT ![d] = <<>>]
      /\ replies' = [replies EXCEPT ![d] = <<>>]
      /\ announced' = [announced EXCEPT ![d] = <<>>]
      /\ underlings' = [q \in Ships |->
                          IF q = d THEN [i \in Slots |-> 0] ELSE underlings[q]]
      /\ commander' = [commander EXCEPT ![d] = 0]
      /\ order' = [order EXCEPT ![d] = "patrol"]
      /\ slot' = slot /\ reqs' = reqs
  BY DEF UnitDies, procVars
<1>2. \A r \in Procs : Living(r)' => Living(r) /\ r # d
  BY <1>1 DEF Living, Bookkeeping, TypeOK
<1>3. p \in Procs /\ p # d /\ Loyal(p)
  BY <1>2 DEF Allegiance, Squadrons
<1>4. /\ orders'[p] = orders[p] /\ replies'[p] = replies[p]
      /\ commander'[p] = commander[p] /\ order'[p] = order[p]
  BY <1>1, <1>3 DEF Bookkeeping, TypeOK
<1>5. Requesters' = Requesters
  BY <1>1 DEF Requesters
<1>6. \A q \in Ships : Living(q)' => Living(q) /\ Listed(q)' = Listed(q)
  <2> SUFFICES ASSUME NEW q \in Ships, Living(q)'
               PROVE  Living(q) /\ Listed(q)' = Listed(q)
    OBVIOUS
  <2>1. q \in Procs /\ Living(q) /\ q # d
    BY <1>2, Constants
  <2>2. underlings'[q] = underlings[q] /\ announced'[q] = announced[q]
    BY <1>1, <2>1 DEF Bookkeeping, TypeOK
  <2>. QED
    BY <2>1, <2>2 DEF Listed
<1>. QED
  BY <1>1, <1>3, <1>4, <1>5, <1>6, LoyaltyKept

\* what a battleship's step makes of a squadron's allegiance
LEMMA ShipListed ==
    ASSUME Bookkeeping, NEW q \in Ships, ShipActs(q)
    PROVE  /\ \A r \in Ships : r # q => Listed(r)' = Listed(r)
           /\ \A e \in Slots : e \in Listed(q)' =>
                 \/ e \in Listed(q)
                 \/ \E k : Heard(q, k) /\ e = reqs[k].sender_id
<1>1. announced' = [announced EXCEPT ![q] = <<>>]
  BY DEF ShipActs
<1>2. \A r \in Ships : r # q => Listed(r)' = Listed(r)
  <2> SUFFICES ASSUME NEW r \in Ships, r # q PROVE Listed(r)' = Listed(r)
    OBVIOUS
  <2>1. announced'[r] = announced[r] /\ underlings'[r] = underlings[r]
    <3>1. underlings'[r] = underlings[r]
      BY ShipLists
    <3>. QED
      BY <1>1, <3>1, Constants DEF Bookkeeping, TypeOK
  <2>. QED
    BY <2>1 DEF Listed
<1>3. ASSUME NEW e \in Slots, e \in Listed(q)'
      PROVE  \/ e \in Listed(q)
             \/ \E k : Heard(q, k) /\ e = reqs[k].sender_id
  <2>1. announced'[q] = <<>>
    BY <1>1, Constants DEF Bookkeeping, TypeOK
  <2>2. PICK i \in Slots : e = underlings'[q][i]
    BY <1>3, <2>1 DEF Listed
  <2>3. e # 0
    BY Constants
  <2>. QED
    BY <2>2, <2>3, ShipLists, OnListIsListed
<1>. QED
  BY <1>2, <1>3

LEMMA ShipLoyalty ==
    ASSUME "traffic" \notin Faults, Bookkeeping, Allegiance, NoReuse,
           NEW q \in Ships, ShipActs(q), NEW p \in Squadrons, Living(p)'
    PROVE  Loyal(p)'
<1>1. /\ reqs' = <<>> /\ step' = [step EXCEPT ![q] = "done"] /\ step[q] = "idle"
      /\ UNCHANGED <<slot, commander, order>>
  BY DEF ShipActs, registryVars, procVars
<1>2. p \in Procs /\ q \in Procs
  BY Constants DEF Squadrons
<1>3. \A r \in Procs : Living(r)' => Living(r)
  BY <1>1 DEF Living, Bookkeeping, TypeOK
<1>4. /\ Loyal(p) /\ slot[p] \in Slots /\ p <= forked
      /\ slot[q] \in Slots /\ Living(q)
  BY <1>1, <1>2, <1>3, LivingSlot DEF Allegiance, Living
<1>5. p \notin Requesters'
  BY <1>1 DEF Requesters
<1>6. \A k : Heard(q, k) /\ slot[p] = reqs[k].sender_id => reqs[k].from = p
  <2> SUFFICES ASSUME NEW k \in DOMAIN reqs, slot[p] = reqs[k].sender_id
               PROVE  reqs[k].from = p
    BY DEF Heard
  <2>1. reqs[k].from \in Procs
    BY RequestTypes DEF Bookkeeping, Squadrons
  <2>2. reqs[k].from <= forked /\ reqs[k].sender_id = slot[reqs[k].from]
    BY DEF Bookkeeping, Lists
  <2>. QED
    BY <1>2, <1>4, <2>1, <2>2, SlotsDiffer
<1>7. \/ orders'[p] = orders[p]
      \/ slot[p] \in Listed(q)'
  <2> SUFFICES ASSUME orders'[p] # orders[p] PROVE slot[p] \in Listed(q)'
    OBVIOUS
  <2>1. PICK i \in Slots : underlings'[q][i] # 0 /\ owner[underlings'[q][i]] = p
    BY <1>2, ShipOrders
  <2>2. underlings'[q][i] \in Slots
    BY <2>1, ShipLists
  <2>3. slot[p] = underlings'[q][i]
    BY <1>2, <2>1, <2>2, SlotOwner, Constants
  <2>. QED
    BY <1>1, <2>3 DEF Listed
<1>8. CASE \E k : Heard(q, k) /\ reqs[k].from = p
  <2>1. /\ commander[p] = 0 /\ replies[p] = <<>>
        /\ \A r \in Ships : Living(r) => slot[p] \notin Listed(r)
    <3>1. p \in Requesters
      BY <1>8 DEF Heard, Requesters
    <3>. QED
      BY <1>4, <3>1 DEF Loyal
  <2>2. replies'[p] = Append(replies[p], slot[q])
    <3>1. PICK k : Heard(q, k) /\ reqs[k].from = p
      BY <1>8
    <3>. QED
      BY <3>1, ShipReplies
  <2>3. replies'[p] = <<slot[q]>> /\ Len(replies'[p]) = 1
    BY <1>4, <2>1, <2>2
  <2>4. Promised(p)' = slot[q] /\ slot[q] # 0
    BY <1>4, <2>3, Constants DEF Promised, Last
  <2>5. \A r \in Ships : Living(r)' /\ slot'[p] \in Listed(r)' => r = q
    BY <1>1, <1>3, <2>1, Constants, ShipListed
  <2>. QED
    BY <1>1, <1>4, <1>5, <2>1, <2>4, <2>5 DEF Loyal
<1>9. CASE ~ \E k : Heard(q, k) /\ reqs[k].from = p
  <2>1. replies'[p] = replies[p]
    BY <1>2, <1>9, ShipReplies
  <2>2. Promised(p)' = Promised(p)
    BY <1>1, <2>1 DEF Promised, Last
  <2>3. \A r \in Ships : slot[p] \in Listed(r)' => slot[p] \in Listed(r)
    BY <1>4, <1>6, <1>9, ShipListed
  <2>4. orders'[p] # <<>> => Promised(p) # 0
    BY <1>4, <1>7, <2>3, Constants DEF Loyal
  <2>. QED
    BY <1>1, <1>3, <1>4, <1>5, <2>1, <2>2, <2>3, <2>4, Constants DEF Loyal
<1>. QED
  BY <1>8, <1>9

LEMMA SquadronLoyalty ==
    ASSUME "traffic" \notin Faults, Bookkeeping, Allegiance, NoReuse,
           NEW a \in Procs, SquadronActs(a), NEW p \in Squadrons, Living(p)'
    PROVE  Loyal(p)'
<1> DEFINE boss == Promised(a)
           request == [from |-> a, sender_id |-> slot[a]]
<1>1. /\ step[a] = "idle"
      /\ commander' = [commander EXCEPT ![a] = IF Present(boss) THEN boss ELSE 0]
      /\ order' = [order EXCEPT ![a] = OrderNow(a, boss)]
      /\ (Seeks(a, boss) /\ reqs' = Append(reqs, request)) \/ reqs' = reqs
      /\ replies' = [replies EXCEPT ![a] = <<>>]
      /\ orders' = [orders EXCEPT ![a] = <<>>]
      /\ step' = [step EXCEPT ![a] = "done"]
      /\ UNCHANGED <<slot, announced, underlings>>
      /\ a \in Squadrons
  BY DEF SquadronActs, registryVars, procVars
<1>2. p \in Procs
  BY DEF Squadrons
<1>3. \A r \in Procs : Living(r)' => Living(r)
  BY <1>1 DEF Living, Bookkeeping, TypeOK
<1>4. Loyal(p) /\ slot[p] \in Slots
  BY <1>2, <1>3, LivingSlot DEF Allegiance
<1>5. \A q \in Ships : Listed(q)' = Listed(q)
  BY <1>1 DEF Listed
<1>6. /\ p # a => (p \in Requesters' => p \in Requesters)
      /\ ~Seeks(a, boss) => (p \in Requesters' => p \in Requesters)
  <2>1. request \in [from : Squadrons, sender_id : Slots] /\ request.from = a
    <3>1. slot[a] \in Slots
      BY <1>1, LivingSlot DEF Living
    <3>. QED
      BY <1>1, <3>1
  <2>2. reqs' = reqs => Requesters' = Requesters
    BY DEF Requesters
  <2>3. ASSUME reqs' = Append(reqs, request), p # a, p \in Requesters'
        PROVE  p \in Requesters
    <3>1. PICK i \in DOMAIN reqs' : reqs'[i].from = p
      BY <2>3 DEF Requesters
    <3> HIDE DEF request
    <3>2. (i \in DOMAIN reqs /\ reqs'[i] = reqs[i]) \/ reqs'[i] = request
      BY <2>1, <2>3, <3>1, RequestsAreSequence DEF Bookkeeping
    <3>. QED
      BY <2>1, <2>3, <3>1, <3>2 DEF Requesters
  <2>. QED
    BY <1>1, <2>2, <2>3
<1>7. CASE p # a
  <2>1. /\ orders'[p] = orders[p] /\ replies'[p] = replies[p]
        /\ commander'[p] = commander[p] /\ order'[p] = order[p]
    BY <1>1, <1>2, <1>7 DEF Bookkeeping, TypeOK
  <2>. QED
    BY <1>1, <1>3, <1>4, <1>5, <1>6, <1>7, <2>1, Constants, LoyaltyKept
<1>8. CASE p = a
  <2>1. /\ orders'[p] = <<>> /\ replies'[p] = <<>>
        /\ commander'[p] = (IF Present(boss) THEN boss ELSE 0)
        /\ order'[p] = OrderNow(p, boss)
    BY <1>1, <1>2, <1>8 DEF Bookkeeping, TypeOK
  <2>2. Promised(p)' = IF Present(boss) THEN boss ELSE 0
    BY <2>1 DEF Promised
  <2>3. ASSUME NEW q \in Ships, Living(q)', slot[p] \in Listed(q)
        PROVE  boss = slot[q] /\ Present(boss)
    <3>1. Living(q) /\ q \in Procs
      BY <1>3, <2>3, Constants
    <3>2. slot[q] \in Slots /\ alive[slot[q]]
      BY <3>1, LivingSlot
    <3>. QED
      BY <1>4, <1>8, <2>3, <3>1, <3>2, Constants DEF Loyal, Present
  <2>4. p \in Requesters' => /\ ~Present(boss)
                             /\ \A q \in Ships : Living(q)' => slot[p] \notin Listed(q)
    <3> SUFFICES ASSUME p \in Requesters' PROVE ~Present(boss)
      BY <2>3
    <3>1. CASE Seeks(a, boss)
      BY <3>1 DEF Seeks
    <3>2. CASE ~Seeks(a, boss)
      <4>1. commander[p] = 0 /\ replies[p] = <<>>
        BY <1>4, <1>6, <3>2 DEF Loyal
      <4>. QED
        BY <1>8, <4>1 DEF Promised, Present
    <3>. QED
      BY <3>1, <3>2
  <2>5. commander'[p] = 0 => order'[p] = "patrol"
    <3> SUFFICES ASSUME commander'[p] = 0 PROVE order'[p] = "patrol"
      OBVIOUS
    <3>1. ~Present(boss)
      BY <2>1 DEF Present
    <3>2. CASE boss # 0
      BY <2>1, <3>1, <3>2 DEF OrderNow
    <3>3. CASE boss = 0
      <4>1. replies[p] = <<>>
        BY <1>2, <1>8, <3>3, SquadronReads, Constants DEF Bookkeeping
      <4>2. commander[p] = 0 /\ orders[p] = <<>>
        BY <1>4, <1>8, <3>3, <4>1 DEF Promised, Loyal
      <4>. QED
        BY <1>4, <2>1, <3>3, <4>2 DEF OrderNow, Obeyed, Loyal
    <3>. QED
      BY <3>2, <3>3
  <2>. QED
    BY <1>1, <1>5, <2>1, <2>2, <2>3, <2>4, <2>5 DEF Loyal
<1>. QED
  BY <1>7, <1>8

LEMMA NextAllegiance ==
    "traffic" \notin Faults /\ Bookkeeping /\ Allegiance /\ [Next]_vars => Allegiance'
<1> SUFFICES ASSUME "traffic" \notin Faults, Bookkeeping, Allegiance, [Next]_vars,
                    NoReuse', NEW p \in Squadrons, Living(p)'
             PROVE  Loyal(p)'
  BY DEF Allegiance
<1>1. NoReuse /\ Bookkeeping'
  BY ReuseIsForEver, NextBookkeeping
<1>2. CASE UNCHANGED vars
  BY <1>1, <1>2 DEF vars, registryVars, procVars, queueVars, commandVars, Allegiance,
                    Loyal, Living, Listed, Requesters, Promised
<1>. QED
  BY <1>1, <1>2, SpawnLoyalty, TickLoyalty, ShipLoyalty, SquadronLoyalty, DeathLoyalty
  DEF Next, Spawning

-----------------------------------------------------------------------------
(* Sides *)

\* a battleship keeps its slot's type and faction as long as it lives
Colours ==
    /\ \A s \in Slots : alive[s] /\ kind[s] = "ship" => owner[s] \in Ships
    /\ \A q \in Ships : Living(q) => side[slot[q]] = Flag(q)

\* whom a squadron has been told to guard, or guards
Named(p) == {orders[p][i].target : i \in DOMAIN orders[p]} \cup {ward[p]}

\* A squadron asks its own side, is on its own side's lists, and those alive
\* that it has been told of are of its side.
Kin(p) ==
    /\ p \in Requesters => \E q \in Ships : side[slot[p]] = Flag(q)
    /\ \A q \in Ships : Living(q) /\ slot[p] \in Listed(q) => side[slot[p]] = Flag(q)
    /\ \A t \in Named(p) : t # 0 /\ alive[t] => side[t] = side[slot[p]]

Kinship == NoReuse => \A p \in Squadrons : Living(p) => Kin(p)

OneSide == \A q, r \in Ships : Flag(q) = Flag(r)

\* the registry's entry of a unit that lives on does not change
LEMMA EntriesStay ==
    ASSUME Bookkeeping, [Next]_vars, NEW s \in Slots, alive[s]
    PROVE  owner'[s] = owner[s] /\ side'[s] = side[s] /\ kind'[s] = kind[s]
<1>1. CASE Spawning
  <2>1. PICK child : child = forked + 1
    OBVIOUS
  <2>2. PICK t \in FreeSlots, boss \in {0} \cup asking, f \in Factions \cup {0},
            k \in Light \cup {"ship"} : Spawns(child, t, boss, f, k)
    BY <1>1, <2>1, SpawnIsSpawns
  <2>3. s # t
    BY DEF FreeSlots
  <2>. QED
    BY <2>2, <2>3 DEF Spawns, Bookkeeping, TypeOK
<1>2. CASE EndTick
  BY <1>2 DEF EndTick
<1>3. CASE UNCHANGED <<owner, side, kind>>
  BY <1>3
<1>. QED
  BY <1>1, <1>2, <1>3 DEF Next, Spawning, CCStep, StartTick, ShipActs, SquadronActs,
                          UnitDies, vars, registryVars

\* how a unit gets on in a step
LEMMA StepsTaken ==
    ASSUME [Next]_vars, ~Spawning
    PROVE  \/ UNCHANGED step
           \/ step' = [r \in Procs |-> IF step[r] = "done" THEN "idle" ELSE step[r]]
           \/ \E r \in Procs : step' = [step EXCEPT ![r] = "dead"]
           \/ \E r \in Procs : step[r] = "idle" /\ step' = [step EXCEPT ![r] = "done"]
<1>1. CASE CCStep \/ UNCHANGED vars
  BY <1>1 DEF CCStep, StartTick, EndTick, vars
<1>2. ASSUME NEW q \in Ships, ShipActs(q)
      PROVE  q \in Procs /\ step[q] = "idle" /\ step' = [step EXCEPT ![q] = "done"]
  BY <1>2, Constants DEF ShipActs
<1>3. ASSUME NEW p \in Procs, SquadronActs(p)
      PROVE  step[p] = "idle" /\ step' = [step EXCEPT ![p] = "done"]
  BY <1>3 DEF SquadronActs
<1>4. ASSUME NEW p \in Procs, UnitDies(p) PROVE step' = [step EXCEPT ![p] = "dead"]
  BY <1>4 DEF UnitDies
<1>. QED
  BY <1>1, <1>2, <1>3, <1>4 DEF Next, Spawning

\* and whoever lives after a step of anybody, and was born, lived before
LEMMA LivedBefore ==
    ASSUME Bookkeeping, [Next]_vars, NEW p \in Procs, p <= forked, Living(p)'
    PROVE  Living(p) /\ slot'[p] = slot[p]
<1>1. CASE Spawning
  <2>1. PICK child : child = forked + 1
    OBVIOUS
  <2>2. PICK s : slot' = [slot EXCEPT ![child] = s] /\ step' = [step EXCEPT ![child] = "idle"]
    BY <1>1, <2>1, SpawnIsSpawns DEF Spawns
  <2>3. p # child
    BY <2>1, Constants DEF Bookkeeping, TypeOK
  <2>. QED
    BY <2>2, <2>3 DEF Bookkeeping, TypeOK, Living
<1>2. CASE ~Spawning
  BY <1>2, NothingSpawned, StepsTaken DEF Living, Bookkeeping, TypeOK
<1>. QED
  BY <1>1, <1>2

\* who lives and was not born before a step has been spawned in it
LEMMA JustSpawned ==
    ASSUME Bookkeeping, [Next]_vars, NEW p \in Procs, Living(p)', ~(p <= forked)
    PROVE  Spawning /\ p = forked + 1
<1>1. step[p] = "unborn" /\ step \in [Procs -> {"unborn", "idle", "done", "dead"}]
  BY DEF Bookkeeping, Births, TypeOK
<1>2. Spawning
  BY <1>1, StepsTaken DEF Living
<1>3. PICK child : child = forked + 1
  OBVIOUS
<1>4. step' = [step EXCEPT ![child] = "idle"]
  BY <1>2, <1>3, SpawnIsSpawns DEF Spawns
<1>. QED
  BY <1>1, <1>2, <1>3, <1>4 DEF Living

\* a battleship that comes to life in a step is one
LEMMA AliveBefore ==
    ASSUME Bookkeeping, [Next]_vars, NEW s \in Slots, alive'[s], ~alive[s], kind'[s] = "ship"
    PROVE  owner'[s] \in Ships
<1>1. CASE Spawning
  <2>1. PICK child : child = forked + 1
    OBVIOUS
  <2>2. PICK t \in FreeSlots, boss \in {0} \cup asking, f \in Factions \cup {0},
            k \in Light \cup {"ship"} : Spawns(child, t, boss, f, k)
    BY <1>1, <2>1, SpawnIsSpawns
  <2>3. s = t
    BY <2>2 DEF Spawns, Bookkeeping, TypeOK
  <2>4. kind'[s] = k /\ owner'[s] = child
    BY <2>2, <2>3 DEF Spawns, Bookkeeping, TypeOK
  <2>. QED
    BY <2>2, <2>4 DEF Spawns, Light
<1>2. CASE ~Spawning
  <2>1. CASE CCStep \/ UNCHANGED vars
    BY <2>1 DEF CCStep, StartTick, EndTick, vars, registryVars
  <2>2. ASSUME NEW q \in Ships, ShipActs(q) PROVE alive' = alive
    BY <2>2 DEF ShipActs, registryVars
  <2>3. ASSUME NEW p \in Procs, SquadronActs(p) PROVE alive' = alive
    BY <2>3 DEF SquadronActs, registryVars
  <2>4. ASSUME NEW p \in Procs, UnitDies(p) PROVE alive' = [alive EXCEPT ![slot[p]] = FALSE]
    BY <2>4 DEF UnitDies
  <2>5. alive' = alive \/ \E t : alive' = [alive EXCEPT ![t] = FALSE]
    BY <1>2, <2>1, <2>2, <2>3, <2>4 DEF Next, Spawning, CCStep, StartTick, EndTick,
                                        vars, registryVars
  <2>. QED
    BY <2>5 DEF Bookkeeping, TypeOK
<1>. QED
  BY <1>1, <1>2

LEMMA NextColours == Bookkeeping /\ Colours /\ [Next]_vars => Colours'
<1> SUFFICES ASSUME Bookkeeping, Colours, [Next]_vars PROVE Colours'
  OBVIOUS
<1>1. ASSUME NEW s \in Slots, alive'[s], kind'[s] = "ship" PROVE owner'[s] \in Ships
  <2>1. CASE alive[s]
    BY <1>1, <2>1, EntriesStay DEF Colours
  <2>. QED
    BY <1>1, <2>1, AliveBefore
<1>2. ASSUME NEW q \in Ships, Living(q)' PROVE side'[slot'[q]] = Flag(q)
  <2>1. q \in Procs
    BY Constants
  <2>2. CASE q <= forked
    <3>1. Living(q) /\ slot'[q] = slot[q]
      BY <1>2, <2>1, <2>2, LivedBefore
    <3>2. slot[q] \in Slots /\ alive[slot[q]]
      BY <2>1, <3>1, LivingSlot
    <3>. QED
      BY <3>1, <3>2, EntriesStay DEF Colours
  <2>3. CASE ~(q <= forked)
    <3>1. Spawning /\ q = forked + 1
      BY <1>2, <2>1, <2>3, JustSpawned
    <3>2. PICK s \in FreeSlots, boss \in {0} \cup asking, f \in Factions \cup {0},
              k \in Light \cup {"ship"} : Spawns(q, s, boss, f, k)
      BY <3>1, SpawnIsSpawns
    <3>3. slot'[q] = s /\ side'[s] = f /\ f = Flag(q)
      BY <2>1, <3>2 DEF Spawns, FreeSlots, Bookkeeping, TypeOK
    <3>. QED
      BY <3>3
  <2>. QED
    BY <2>2, <2>3
<1>. QED
  BY <1>1, <1>2 DEF Colours

LEMMA KinKept ==
    ASSUME Bookkeeping, [Next]_vars, NEW p \in Squadrons, Living(p), Living(p)', Kin(p),
           p \in Requesters' => p \in Requesters,
           \A q \in Ships : Living(q)' /\ slot[p] \in Listed(q)' =>
               Living(q) /\ slot[p] \in Listed(q),
           Named(p)' \subseteq Named(p) \cup {0},
           \A t \in Named(p) : t # 0 /\ alive'[t] => alive[t]
    PROVE  Kin(p)'
<1>1. p \in Procs /\ p <= forked /\ slot[p] \in Slots /\ alive[slot[p]]
  BY LivingSlot DEF Squadrons
<1>2. slot'[p] = slot[p] /\ side'[slot[p]] = side[slot[p]]
  BY <1>1, LivedBefore, EntriesStay
<1>4. \A t \in Named(p) : t # 0 => t \in Slots
  <2>1. ward[p] \in Slots \cup {0}
    BY <1>1 DEF Bookkeeping, TypeOK
  <2>2. \A i \in DOMAIN orders[p] : orders[p][i].target \in Slots \cup {0}
    BY <1>1, OrderElements DEF Bookkeeping, OrderTypes
  <2>. QED
    BY <2>1, <2>2 DEF Named
<1>5. \A t \in Named(p) : t # 0 /\ alive'[t] => side'[t] = side[slot[p]]
  BY <1>4, EntriesStay DEF Kin
<1>. QED
  BY <1>2, <1>5 DEF Kin

LEMMA SpawnKinship ==
    ASSUME Bookkeeping, Colours, Kinship, Spawning, NoReuse', NoReuse,
           NEW p \in Squadrons, Living(p)'
    PROVE  Kin(p)'
<1> PICK child : child = forked + 1
  OBVIOUS
<1>1. PICK s \in FreeSlots, boss \in {0} \cup asking, f \in Factions \cup {0},
            k \in Light \cup {"ship"} :
        Spawns(child, s, boss, f, k)
  BY SpawnIsSpawns
<1>0. Anew(child, s, boss)
  BY <1>1, SpawnedAnew
<1>2. UNCHANGED <<reqs, orders, ward>>
  BY SpawnIsSpawns
<1>3. /\ child \in Procs /\ child \notin Requesters'
      /\ orders[child] = <<>> /\ ward[child] = 0
      /\ \A r \in Procs : r # child =>
            slot'[r] = slot[r] /\ (Living(r)' <=> Living(r)) /\ commander'[r] = commander[r]
      /\ slot'[child] = s /\ \A r \in Procs : r <= forked => slot[r] # s
      /\ s \notin GivenSlots
  BY <1>0 DEF Anew
<1>4. p \in Procs /\ s \in Slots /\ s # 0
  BY Constants DEF Squadrons, FreeSlots
<1>5. /\ alive' = [alive EXCEPT ![s] = TRUE] /\ side' = [side EXCEPT ![s] = f]
      /\ boss # 0 => f = side[slot[boss]]
  BY <1>1 DEF Spawns
<1>6. \A q \in Ships :
        /\ q \in Procs /\ q # 0
        /\ q = child => Listed(q)' \subseteq {0}
        /\ q # child => slot'[q] = slot[q] /\ (Living(q)' => Living(q))
        /\ s \notin Listed(q)
        /\ \A e \in Listed(q)' : e \in Listed(q) \/ (e = s /\ q = boss)
  BY <1>0, Constants DEF Anew
<1>7. Requesters' = Requesters /\ Named(p)' = Named(p)
  BY <1>2 DEF Requesters, Named
<1>8. CASE p = child
  <2>1. Named(p) = {0}
    BY <1>3, <1>8 DEF Named
  <2>2. ASSUME NEW q \in Ships, Living(q)', slot'[p] \in Listed(q)'
        PROVE  side'[slot'[p]] = Flag(q)
    <3>1. q = boss /\ Living(q)
      BY <1>3, <1>4, <1>6, <1>8, <2>2
    <3>2. f = Flag(q)
      BY <1>5, <1>6, <3>1 DEF Colours
    <3>. QED
      BY <1>3, <1>4, <1>5, <1>8, <3>2 DEF Bookkeeping, TypeOK
  <2>. QED
    BY <1>3, <1>7, <1>8, <2>1, <2>2 DEF Kin
<1>9. CASE p # child
  <2>1. Living(p) /\ slot'[p] = slot[p] /\ p <= forked /\ slot[p] # s
    BY <1>3, <1>4, <1>9, LivingSlot
  <2>2. Kin(p)
    BY <2>1 DEF Kinship
  <2>3. Named(p) \subseteq GivenSlots \cup {0}
    BY <1>4 DEF Named, Bookkeeping, Targets
  <2>4. \A t \in Named(p) : t # 0 /\ alive'[t] => alive[t]
    BY <1>3, <1>5, <2>3 DEF Bookkeeping, TypeOK
  <2>5. \A q \in Ships : Living(q)' /\ slot[p] \in Listed(q)' =>
           Living(q) /\ slot[p] \in Listed(q)
    <3>1. slot[p] # 0
      BY <1>4, <2>1, LivingSlot, Constants
    <3>. QED
      BY <1>6, <2>1, <3>1
  <2>6. [Next]_vars
    BY DEF Next, Spawning
  <2>. QED
    BY <1>7, <2>1, <2>2, <2>4, <2>5, <2>6, KinKept
<1>. QED
  BY <1>8, <1>9

LEMMA TickKinship ==
    ASSUME Bookkeeping, Kinship, CCStep, NoReuse, NEW p \in Squadrons, Living(p)'
    PROVE  Kin(p)'
<1>1. UNCHANGED <<alive, orders, reqs, announced, underlings, ward>>
  BY DEF CCStep, StartTick, EndTick, registryVars, queueVars, commandVars
<1>2. [Next]_vars
  BY DEF Next
<1>3. Living(p) /\ \A q \in Ships : Living(q)' => Living(q)
  BY Constants DEF CCStep, StartTick, EndTick, Living, Squadrons
<1>4. /\ Requesters' = Requesters /\ Named(p)' = Named(p)
      /\ \A q \in Ships : Listed(q)' = Listed(q)
  BY <1>1 DEF Requesters, Listed, Named
<1>. QED
  BY <1>1, <1>2, <1>3, <1>4, KinKept DEF Kinship

LEMMA DeathKinship ==
    ASSUME Bookkeeping, Kinship, NEW d \in Procs, UnitDies(d), NoReuse,
           NEW p \in Squadrons, Living(p)'
    PROVE  Kin(p)'
<1>1. /\ alive' = [alive EXCEPT ![slot[d]] = FALSE]
      /\ step' = [step EXCEPT ![d] = "dead"]
      /\ orders' = [orders EXCEPT ![d] = <<>>]
      /\ announced' = [announced EXCEPT ![d] = <<>>]
      /\ underlings' = [q \in Ships |->
                          IF q = d THEN [i \in Slots |-> 0] ELSE underlings[q]]
      /\ ward' = [ward EXCEPT ![d] = 0]
      /\ reqs' = reqs
  BY DEF UnitDies
<1>2. \A r \in Procs : Living(r)' => Living(r) /\ r # d
  BY <1>1 DEF Living, Bookkeeping, TypeOK
<1>3. p \in Procs /\ p # d /\ Living(p) /\ Kin(p)
  BY <1>2 DEF Kinship, Squadrons
<1>4. Named(p)' = Named(p) /\ Requesters' = Requesters
  <2>1. orders'[p] = orders[p] /\ ward'[p] = ward[p]
    BY <1>1, <1>3 DEF Bookkeeping, TypeOK
  <2>. QED
    BY <1>1, <2>1 DEF Named, Requesters
<1>5. ASSUME NEW q \in Ships, Living(q)' PROVE Living(q) /\ Listed(q)' = Listed(q)
  <2>1. q \in Procs /\ Living(q) /\ q # d
    BY <1>2, <1>5, Constants
  <2>2. underlings'[q] = underlings[q] /\ announced'[q] = announced[q]
    BY <1>1, <2>1 DEF Bookkeeping, TypeOK
  <2>. QED
    BY <2>1, <2>2 DEF Listed
<1>6. \A t \in Named(p) : t # 0 /\ alive'[t] => alive[t]
  <2>1. Named(p) \subseteq GivenSlots \cup {0}
    BY <1>3 DEF Named, Bookkeeping, Targets
  <2>2. GivenSlots \subseteq Slots \cup {0}
    BY DEF GivenSlots, Bookkeeping, TypeOK
  <2>. QED
    BY <1>1, <2>1, <2>2 DEF Bookkeeping, TypeOK
<1>7. [Next]_vars
  BY DEF Next
<1>. QED
  BY <1>3, <1>4, <1>5, <1>6, <1>7, KinKept

LEMMA ShipKinship ==
    ASSUME OneSide, Bookkeeping, Colours, Kinship, NoReuse,
           NEW q \in Ships, ShipActs(q), NEW p \in Squadrons, Living(p)'
    PROVE  Kin(p)'
<1>1. /\ reqs' = <<>> /\ step' = [step EXCEPT ![q] = "done"] /\ step[q] = "idle"
      /\ UNCHANGED <<alive, owner, side, kind, slot, ward>>
  BY DEF ShipActs, registryVars, procVars
<1>2. q \in Procs /\ slot[q] \in Slots /\ Living(q)
  BY <1>1, ShipSlots DEF Living
<1>3. \A r \in Procs : Living(r)' => Living(r)
  BY <1>1 DEF Living, Bookkeeping, TypeOK
\* whoever is on the list now is of the battleship's side
<1>4. ASSUME NEW m \in Squadrons, Living(m), slot[m] \in Listed(q)'
      PROVE  side[slot[m]] = Flag(q)
  <2>1. m \in Procs /\ slot[m] \in Slots /\ m <= forked /\ Kin(m)
    BY <1>4, LivingSlot DEF Kinship, Squadrons
  <2>2. CASE slot[m] \in Listed(q)
    BY <1>2, <2>1, <2>2 DEF Kin
  <2>3. CASE \E k : Heard(q, k) /\ slot[m] = reqs[k].sender_id
    <3>1. PICK k \in DOMAIN reqs : slot[m] = reqs[k].sender_id
      BY <2>3 DEF Heard
    <3>2. /\ reqs[k].from \in Procs /\ reqs[k].from <= forked
          /\ reqs[k].sender_id = slot[reqs[k].from]
      BY RequestTypes DEF Bookkeeping, Lists, Squadrons
    <3>3. reqs[k].from = m
      BY <2>1, <3>1, <3>2, SlotsDiffer
    <3>4. m \in Requesters
      BY <3>3 DEF Requesters
    <3>. QED
      BY <2>1, <3>4 DEF Kin, OneSide
  <2>. QED
    BY <1>4, <2>1, <2>2, <2>3, ShipListed
<1>5. p \in Procs /\ Living(p) /\ Kin(p)
  BY <1>3 DEF Kinship, Squadrons
<1>6. p \notin Requesters'
  BY <1>1 DEF Requesters
<1>7. ASSUME NEW r \in Ships, Living(r)', slot[p] \in Listed(r)'
      PROVE  side[slot[p]] = Flag(r)
  <2>1. CASE r = q
    BY <1>4, <1>5, <1>7, <2>1
  <2>2. CASE r # q
    BY <1>3, <1>5, <1>7, <2>2, ShipListed, Constants DEF Kin
  <2>. QED
    BY <2>1, <2>2
<1>8. ASSUME NEW t \in Named(p)', t # 0, alive[t] PROVE side[t] = side[slot[p]]
  <2>1. CASE orders'[p] = orders[p]
    BY <1>1, <1>5, <1>8, <2>1 DEF Named, Kin
  <2>2. CASE orders'[p] # orders[p]
    <3>1. PICK o \in OrderTypes :
            /\ orders'[p] = Append(orders[p], o)
            /\ \E i \in Slots : underlings'[q][i] # 0 /\ owner[underlings'[q][i]] = p
            /\ \/ o.target = 0 \/ o.target = slot[q]
               \/ \E i \in Slots : underlings'[q][i] # 0 /\ o.target = underlings'[q][i]
      BY <1>5, <2>2, ShipOrders
    <3>2. side[slot[p]] = Flag(q)
      <4>1. PICK i \in Slots : underlings'[q][i] # 0 /\ owner[underlings'[q][i]] = p
        BY <3>1
      <4>2. underlings'[q][i] \in Slots
        BY <4>1, ShipLists
      <4>3. slot[p] = underlings'[q][i]
        BY <1>5, <4>1, <4>2, SlotOwner, Constants
      <4>4. slot[p] \in Listed(q)'
        BY <4>3 DEF Listed
      <4>. QED
        BY <1>4, <1>5, <4>4
    <3>3. orders[p] \in Seq(OrderTypes)
      BY <1>5 DEF Bookkeeping, TypeOK, OrderTypes
    <3>4. t \in Named(p) \/ t = o.target
      BY <1>1, <1>8, <3>1, <3>3 DEF Named
    <3>5. CASE t \in Named(p)
      BY <1>5, <1>8, <3>5 DEF Kin
    <3>6. CASE t = slot[q]
      BY <1>2, <3>2, <3>6 DEF Colours
    <3>7. CASE \E i \in Slots : underlings'[q][i] # 0 /\ t = underlings'[q][i]
      <4>1. PICK i \in Slots : underlings'[q][i] # 0 /\ t = underlings'[q][i]
        BY <3>7
      <4>2. t \in Slots /\ t \in Listed(q)'
        BY <4>1, ShipLists DEF Listed
      <4>3. /\ owner[t] \in Procs /\ owner[t] <= forked /\ slot[owner[t]] = t
            /\ Living(owner[t])
        BY <1>8, <4>2, SlotOwner
      <4>4. t \in SquadronSlots
        <5>1. Bookkeeping'
          BY ShipBookkeeping
        <5>2. t \in SquadronSlots'
          BY <4>1, <5>1 DEF Bookkeeping, Lists
        <5>. QED
          BY <5>2, <1>1 DEF SquadronSlots, ShipActs, procVars
      <4>5. PICK m \in Squadrons : m <= forked /\ slot[m] = t
        BY <4>4 DEF SquadronSlots
      <4>6. m = owner[t]
        BY <4>3, <4>5, SlotsDiffer DEF Squadrons
      <4>7. side[slot[m]] = Flag(q)
        BY <1>4, <4>2, <4>3, <4>5, <4>6
      <4>. QED
        BY <3>2, <4>5, <4>7
    <3>. QED
      BY <1>8, <3>1, <3>4, <3>5, <3>6, <3>7
  <2>. QED
    BY <2>1, <2>2
<1>. QED
  BY <1>1, <1>6, <1>7, <1>8 DEF Kin

LEMMA SquadronKinship ==
    ASSUME Bookkeeping, Colours, Kinship, NoReuse,
           NEW a \in Procs, SquadronActs(a), NEW p \in Squadrons, Living(p)'
    PROVE  Kin(p)'
<1> DEFINE request == [from |-> a, sender_id |-> slot[a]]
<1>1. /\ step[a] = "idle"
      /\ (Seeks(a, Promised(a)) /\ reqs' = Append(reqs, request)) \/ reqs' = reqs
      /\ orders' = [orders EXCEPT ![a] = <<>>]
      /\ ward' = [ward EXCEPT ![a] =
                    IF OrderNow(a, Promised(a)) = "guard" /\ ~Present(Guarded(a))
                    THEN 0 ELSE Guarded(a)]
      /\ step' = [step EXCEPT ![a] = "done"]
      /\ UNCHANGED <<alive, owner, side, kind, slot, announced, underlings>>
      /\ a \in Squadrons
  BY DEF SquadronActs, registryVars, procVars
<1>2. p \in Procs
  BY DEF Squadrons
<1>3. \A r \in Procs : Living(r)' => Living(r)
  BY <1>1 DEF Living, Bookkeeping, TypeOK
<1>4. Living(p) /\ Kin(p)
  BY <1>2, <1>3 DEF Kinship
<1>5. \A q \in Ships : Listed(q)' = Listed(q)
  BY <1>1 DEF Listed
<1>6. Named(p)' \subseteq Named(p) \cup {0}
  <2>1. CASE p # a
    <3>1. orders'[p] = orders[p] /\ ward'[p] = ward[p]
      BY <1>1, <1>2, <2>1 DEF Bookkeeping, TypeOK
    <3>. QED
      BY <3>1 DEF Named
  <2>2. CASE p = a
    <3>1. orders'[p] = <<>> /\ (ward'[p] = 0 \/ ward'[p] = Guarded(p))
      BY <1>1, <1>2, <2>2 DEF Bookkeeping, TypeOK
    <3>2. Guarded(p) \in Named(p)
      BY <1>2, SquadronReads DEF Bookkeeping, Named
    <3>. QED
      BY <3>1, <3>2 DEF Named
  <2>. QED
    BY <2>1, <2>2
<1>7. p \in Requesters' => p \in Requesters \/ \E q \in Ships : side[slot[p]] = Flag(q)
  <2> SUFFICES ASSUME p \in Requesters', p \notin Requesters
               PROVE  \E q \in Ships : side[slot[p]] = Flag(q)
    OBVIOUS
  <2>1. Seeks(a, Promised(a)) /\ reqs' = Append(reqs, request)
    BY <1>1 DEF Requesters
  <2>2. request \in [from : Squadrons, sender_id : Slots] /\ request.from = a
    <3>1. slot[a] \in Slots
      BY <1>1, LivingSlot DEF Living
    <3>. QED
      BY <1>1, <3>1
  <2>3. p = a
    <3>1. PICK i \in DOMAIN reqs' : reqs'[i].from = p
      BY DEF Requesters
    <3> HIDE DEF request
    <3>2. (i \in DOMAIN reqs /\ reqs'[i] = reqs[i]) \/ reqs'[i] = request
      BY <2>1, <2>2, <3>1, RequestsAreSequence DEF Bookkeeping
    <3>. QED
      BY <2>2, <3>1, <3>2 DEF Requesters
  <2>4. PICK s \in Slots : alive[s] /\ kind[s] = "ship" /\ side[s] = side[slot[p]]
    BY <2>1, <2>3 DEF Seeks, AllyInSight
  <2>5. owner[s] \in Ships /\ Living(owner[s]) /\ slot[owner[s]] = s
    BY <2>4, SlotOwner DEF Colours
  <2>. QED
    BY <2>4, <2>5 DEF Colours
<1>8. slot'[p] = slot[p] /\ side' = side /\ alive' = alive
  BY <1>1
<1>. QED
  BY <1>3, <1>4, <1>5, <1>6, <1>7, <1>8, Constants DEF Kin

LEMMA NextKinship ==
    OneSide /\ Bookkeeping /\ Colours /\ Kinship /\ [Next]_vars => Kinship'
<1> SUFFICES ASSUME OneSide, Bookkeeping, Colours, Kinship, [Next]_vars,
                    NoReuse', NEW p \in Squadrons, Living(p)'
             PROVE  Kin(p)'
  BY DEF Kinship
<1>1. NoReuse
  BY ReuseIsForEver
<1>2. CASE UNCHANGED vars
  BY <1>1, <1>2 DEF vars, registryVars, procVars, queueVars, commandVars, Kinship,
                    Kin, Living, Listed, Requesters, Named
<1>. QED
  BY <1>1, <1>2, SpawnKinship, TickKinship, ShipKinship, SquadronKinship, DeathKinship
  DEF Next, Spawning

-----------------------------------------------------------------------------
(* Nothing is spawned after a death, unless slots are reused *)

\* No dead unit is registered between ticks, slots are given from the first to
\* the last, and nobody asks before there has been a battleship.
Tidy ==
    /\ phase = "between" => \A s \in Slots : owner[s] # 0 => alive[s]
    /\ \A p \in Procs, s \in Slots : p <= forked /\ s < slot[p] => s \in GivenSlots
    /\ reqs # <<>> => \E q \in Ships : q <= forked

LEMMA SpawnTidy == Bookkeeping /\ Tidy /\ Spawning => Tidy'
<1> SUFFICES ASSUME Bookkeeping, Tidy, Spawning PROVE Tidy'
  OBVIOUS
<1> PICK child : child = forked + 1
  OBVIOUS
<1>1. PICK s \in FreeSlots, boss \in {0} \cup asking, f \in Factions \cup {0},
            k \in Light \cup {"ship"} :
        Spawns(child, s, boss, f, k)
  BY SpawnIsSpawns
<1>2. phase = "between" /\ UNCHANGED <<phase, reqs>> /\ forked < MaxProcs
  BY SpawnIsSpawns
<1>3. child \in Procs /\ forked \in Nat /\ s \in Slots
  BY <1>2, TheChild DEF FreeSlots
<1>4. /\ forked' = child /\ slot'[child] = s
      /\ \A r \in Procs : r # child => slot'[r] = slot[r]
      /\ \A t \in Slots : t # s => alive'[t] = alive[t] /\ owner'[t] = owner[t]
      /\ alive'[s]
  BY <1>1, <1>3 DEF Spawns, Bookkeeping, TypeOK
<1>5. \A r \in Procs : /\ r <= forked => r # child /\ r <= forked'
                       /\ r <= forked' => r <= forked \/ r = child
  BY <1>3, <1>4, Constants
<1>6. GivenSlots \subseteq GivenSlots'
  BY <1>4, <1>5 DEF GivenSlots
<1>7. \A t \in Slots : owner'[t] # 0 => alive'[t]
  BY <1>2, <1>4 DEF Tidy
\* the slot is the first free one
<1>8. ASSUME NEW t \in Slots, t < s PROVE t \in GivenSlots
  <2>1. t \notin FreeSlots
    BY <1>1, <1>3, <1>8, Constants DEF Spawns
  <2>2. owner[t] # 0
    BY <2>1, SlotOwner DEF FreeSlots
  <2>. QED
    BY <2>2, SlotOwner DEF GivenSlots
<1>9. \A p \in Procs, t \in Slots : p <= forked' /\ t < slot'[p] => t \in GivenSlots'
  BY <1>4, <1>5, <1>6, <1>8 DEF Tidy
<1>10. reqs' # <<>> => \E q \in Ships : q <= forked'
  BY <1>2, <1>5, Constants DEF Tidy
<1>. QED
  BY <1>7, <1>9, <1>10 DEF Tidy

LEMMA NextTidy == Bookkeeping /\ Colours /\ Tidy /\ [Next]_vars => Tidy'
<1> SUFFICES ASSUME Bookkeeping, Colours, Tidy, [Next]_vars PROVE Tidy'
  OBVIOUS
<1>1. CASE Spawning
  BY <1>1, SpawnTidy
<1>2. CASE ~Spawning
  <2>1. forked' = forked /\ slot' = slot /\ GivenSlots' = GivenSlots
    BY <1>2, NothingSpawned DEF GivenSlots
  <2>2. CASE CCStep \/ UNCHANGED vars
    <3>1. /\ reqs' = reqs
          /\ phase' = "between" => \A s \in Slots : owner'[s] # 0 => alive'[s]
      BY <2>2 DEF CCStep, StartTick, EndTick, vars, registryVars, queueVars, Tidy
    <3>. QED
      BY <2>1, <3>1 DEF Tidy
  <2>3. ASSUME NEW q \in Ships, ShipActs(q) PROVE Tidy'
    <3>1. phase' = "tick" /\ reqs' = <<>>
      BY <2>3 DEF ShipActs
    <3>. QED
      BY <2>1, <3>1 DEF Tidy
  <2>4. ASSUME NEW p \in Procs, SquadronActs(p) PROVE Tidy'
    <3>1. phase' = "tick" /\ (reqs' = reqs \/ Seeks(p, Promised(p)))
      BY <2>4 DEF SquadronActs
    <3>2. Seeks(p, Promised(p)) => \E q \in Ships : q <= forked
      <4>1. SUFFICES ASSUME NEW s \in Slots, alive[s], kind[s] = "ship"
                     PROVE  \E q \in Ships : q <= forked
        BY DEF Seeks, AllyInSight
      <4>2. owner[s] \in Ships /\ owner[s] <= forked
        BY <4>1, SlotOwner DEF Colours
      <4>. QED
        BY <4>2
    <3>. QED
      BY <2>1, <3>1, <3>2 DEF Tidy
  <2>5. ASSUME NEW d \in Procs, UnitDies(d) PROVE Tidy'
    <3>1. phase' = "tick" /\ reqs' = reqs
      BY <2>5 DEF UnitDies
    <3>. QED
      BY <2>1, <3>1 DEF Tidy
  <2>. QED
    BY <1>2, <2>2, <2>3, <2>4, <2>5 DEF Next, Spawning
<1>. QED
  BY <1>1, <1>2

\* The slot of a dead unit would be the first free one, or one after it.
LEMMA NobodyHasDied ==
    ASSUME Bookkeeping, Tidy, Spawning, NoReuse', NEW p \in Procs, p <= forked
    PROVE  Living(p)
<1> SUFFICES ASSUME ~Living(p) PROVE FALSE
  OBVIOUS
<1>0. NoReuse
  BY ReuseIsForEver DEF Next, Spawning
<1> PICK child : child = forked + 1
  OBVIOUS
<1>1. PICK s \in FreeSlots, boss \in {0} \cup asking, f \in Factions \cup {0},
            k \in Light \cup {"ship"} :
        Spawns(child, s, boss, f, k)
  BY SpawnIsSpawns
<1>2. Anew(child, s, boss)
  BY <1>1, SpawnedAnew
<1>3. slot[p] \in Slots
  BY DEF Bookkeeping, Births, TypeOK
<1>4. owner[slot[p]] = 0
  <2> SUFFICES ASSUME owner[slot[p]] # 0 PROVE FALSE
    OBVIOUS
  <2>1. phase = "between"
    BY SpawnIsSpawns
  <2>2. alive[slot[p]]
    BY <1>3, <2>1 DEF Tidy
  <2>3. /\ owner[slot[p]] \in Procs /\ owner[slot[p]] <= forked
        /\ slot[owner[slot[p]]] = slot[p] /\ Living(owner[slot[p]])
    BY <1>3, <2>2, SlotOwner
  <2>4. owner[slot[p]] = p
    BY <1>0, <2>3, SlotsDiffer
  <2>. QED
    BY <2>3, <2>4
<1>5. slot[p] \in FreeSlots
  BY <1>3, <1>4, SlotOwner DEF FreeSlots
<1>6. s < slot[p]
  <2>1. s <= slot[p] /\ s # slot[p]
    BY <1>1, <1>2, <1>5 DEF Spawns, Anew
  <2>. QED
    BY <1>3, <2>1, Constants DEF FreeSlots
<1>7. s \in GivenSlots
  BY <1>6 DEF Tidy, FreeSlots
<1>. QED
  BY <1>2, <1>7 DEF Anew

-----------------------------------------------------------------------------
(* Room for all: how often a squadron asks, and is listed *)

Asked(p) == {k \in DOMAIN reqs : reqs[k].from = p}
ShipHasActed == \E q \in Ships : step[q] = "done"

AtMostTwice(p) == \A i, j, k \in Asked(p) : i = j \/ j = k \/ i = k
AtMostOnce(p) == \A i, j \in Asked(p) : i = j

\* While a battleship lives there are two requests of a squadron at most: the
\* one of this tick and, until a battleship has acted, the one of the last.
Repeats ==
    NoReuse /\ (\E q \in Ships : Living(q)) =>
        \A p \in Squadrons :
            /\ AtMostTwice(p)
            /\ step[p] = "idle" \/ ShipHasActed => AtMostOnce(p)
            /\ step[p] = "idle" /\ ShipHasActed => Asked(p) = {}

\* no unit has three entries of a battleship's list
Twice(q) ==
    \A i, j, k \in Slots :
        underlings[q][i] # 0 /\ underlings[q][i] = underlings[q][j]
                             /\ underlings[q][j] = underlings[q][k]
            => i = j \/ j = k \/ i = k

\* what is announced is announced once, and not on the list
Once(q) ==
    /\ \A i, j \in DOMAIN announced[q] : announced[q][i] = announced[q][j] => i = j
    /\ \A i \in DOMAIN announced[q], j \in Slots : announced[q][i] # underlings[q][j]

Multiplicity == NoReuse => \A q \in Ships : Living(q) => Twice(q) /\ Once(q)

\* KnownToCommander, and already before the reply is read
Known ==
    NoReuse /\ Few =>
        \A p \in Squadrons, q \in Ships :
            Living(p) /\ Living(q) /\ Promised(p) = slot[q] => slot[p] \in Listed(q)

\* a step that only ever idles units and keeps the requests
LEMMA RepeatsKept ==
    ASSUME Repeats, NoReuse, UNCHANGED reqs,
           (\E q \in Ships : Living(q)') => (\E q \in Ships : Living(q)) \/ reqs = <<>>,
           ShipHasActed' => ShipHasActed,
           \A p \in Squadrons : step'[p] = "idle" =>
                step[p] = "idle" \/ Asked(p) = {}
    PROVE  Repeats'
<1>1. \A p \in Squadrons : Asked(p)' = Asked(p)
  BY DEF Asked
<1>2. \A p \in Squadrons : AtMostTwice(p)' = AtMostTwice(p) /\ AtMostOnce(p)' = AtMostOnce(p)
  BY <1>1 DEF AtMostTwice, AtMostOnce
<1>3. \A p : Asked(p) = {} => AtMostOnce(p) /\ AtMostTwice(p)
  BY DEF AtMostOnce, AtMostTwice
<1>4. reqs = <<>> => \A p : Asked(p) = {}
  BY DEF Asked
<1>. QED
  BY <1>1, <1>2, <1>3, <1>4 DEF Repeats

LEMMA NextRepeats ==
    "missed" \notin Faults /\ Bookkeeping /\ Tidy /\ Repeats /\ [Next]_vars => Repeats'
<1> SUFFICES ASSUME "missed" \notin Faults, Bookkeeping, Tidy, Repeats, [Next]_vars, NoReuse'
             PROVE  Repeats'
  BY DEF Repeats
<1>0. NoReuse
  BY ReuseIsForEver
<1>1. ASSUME Spawning PROVE Repeats'
  <2> PICK child : child = forked + 1
    OBVIOUS
  <2>1. /\ UNCHANGED reqs /\ step' = [step EXCEPT ![child] = "idle"] /\ forked < MaxProcs
    BY <1>1, SpawnIsSpawns DEF Spawns
  <2>2. child \in Procs
    BY <2>1, TheChild
  <2>3. \A q \in Ships : step'[q] = "done" => step[q] = "done"
    BY <2>1, <2>2, Constants DEF Bookkeeping, TypeOK
  <2>4. Asked(child) = {}
    <3>1. \A i \in DOMAIN reqs : reqs[i].from <= forked
      BY DEF Bookkeeping, Lists
    <3>. QED
      BY <3>1, Constants DEF Asked, Bookkeeping, TypeOK
  <2>5. \A p \in Squadrons : step'[p] = "idle" => step[p] = "idle" \/ Asked(p) = {}
    BY <2>1, <2>2, <2>4 DEF Squadrons, Bookkeeping, TypeOK
  <2>6. reqs = <<>> \/ \E q \in Ships : Living(q)
    BY <1>1, Constants, NobodyHasDied DEF Tidy
  <2>. QED
    BY <1>0, <2>1, <2>3, <2>5, <2>6, RepeatsKept DEF ShipHasActed
<1>2. ASSUME StartTick \/ UNCHANGED vars PROVE Repeats'
  <2>1. UNCHANGED <<reqs, step>>
    BY <1>2 DEF StartTick, vars, queueVars
  <2>. QED
    BY <1>0, <2>1, RepeatsKept DEF Living, ShipHasActed
<1>3. ASSUME EndTick PROVE Repeats'
  <2>1. /\ UNCHANGED reqs /\ \A p \in Procs : step[p] # "idle"
        /\ step' = [p \in Procs |-> IF step[p] = "done" THEN "idle" ELSE step[p]]
    BY <1>3 DEF EndTick, queueVars
  <2>2. SUFFICES ASSUME NEW q \in Ships, Living(q)', NEW p \in Squadrons
                 PROVE  /\ AtMostTwice(p)' /\ ~ShipHasActed'
                        /\ step'[p] = "idle" => AtMostOnce(p)'
    BY DEF Repeats
  <2>3. Living(q) /\ ShipHasActed
    BY <2>1, <2>2, Constants DEF Living, ShipHasActed
  <2>4. AtMostOnce(p) /\ AtMostTwice(p)
    BY <1>0, <2>2, <2>3 DEF Repeats
  <2>5. Asked(p)' = Asked(p)
    BY <2>1 DEF Asked
  <2>6. ~ShipHasActed'
    BY <2>1, Constants DEF ShipHasActed
  <2>. QED
    BY <2>4, <2>5, <2>6 DEF AtMostOnce, AtMostTwice
<1>4. ASSUME NEW q \in Ships, ShipActs(q) PROVE Repeats'
  <2>1. reqs' = <<>>
    BY <1>4 DEF ShipActs
  <2>2. \A p : Asked(p)' = {}
    BY <2>1 DEF Asked
  <2>. QED
    BY <2>2 DEF Repeats, AtMostTwice, AtMostOnce
<1>5. ASSUME NEW a \in Procs, SquadronActs(a) PROVE Repeats'
  <2> DEFINE request == [from |-> a, sender_id |-> slot[a]]
  <2>1. /\ step[a] = "idle" /\ step' = [step EXCEPT ![a] = "done"] /\ a \in Squadrons
        /\ reqs' = Append(reqs, request) \/ reqs' = reqs
    BY <1>5 DEF SquadronActs
  <2>2. request \in [from : Squadrons, sender_id : Slots] /\ request.from = a
    <3>1. slot[a] \in Slots
      BY <2>1, LivingSlot DEF Living
    <3>. QED
      BY <2>1, <3>1
  <2> HIDE DEF request
  <2>3. \A p \in Squadrons : p # a => Asked(p)' = Asked(p)
    <3>1. CASE reqs' = reqs
      BY <3>1 DEF Asked
    <3>2. CASE reqs' = Append(reqs, request)
      BY <2>2, <3>2, RequestsAreSequence DEF Asked, Bookkeeping
    <3>. QED
      BY <2>1, <3>1, <3>2
  <2>4. Asked(a)' \subseteq Asked(a) \cup {Len(reqs) + 1}
    <3>1. CASE reqs' = reqs
      BY <3>1 DEF Asked
    <3>2. CASE reqs' = Append(reqs, request)
      BY <2>2, <3>2, RequestsAreSequence DEF Asked, Bookkeeping
    <3>. QED
      BY <2>1, <3>1, <3>2
  <2>5. /\ \A q \in Ships : step'[q] = step[q]
        /\ \A p \in Squadrons : p # a => step'[p] = step[p]
        /\ step'[a] = "done"
    BY <2>1, Constants DEF Squadrons, Bookkeeping, TypeOK
  <2>6. SUFFICES ASSUME \E q \in Ships : Living(q), NEW p \in Squadrons
                 PROVE  /\ AtMostTwice(p)'
                        /\ step'[p] = "idle" \/ ShipHasActed => AtMostOnce(p)'
                        /\ step'[p] = "idle" /\ ShipHasActed => Asked(p)' = {}
    BY <2>5 DEF Repeats, Living, ShipHasActed
  <2>7. /\ AtMostTwice(p)
        /\ step[p] = "idle" \/ ShipHasActed => AtMostOnce(p)
        /\ step[p] = "idle" /\ ShipHasActed => Asked(p) = {}
    BY <1>0, <2>6 DEF Repeats
  <2>8. CASE p # a
    BY <2>3, <2>5, <2>7, <2>8 DEF AtMostTwice, AtMostOnce
  <2>9. CASE p = a
    BY <2>1, <2>4, <2>5, <2>7, <2>9 DEF AtMostTwice, AtMostOnce
  <2>. QED
    BY <2>8, <2>9
<1>6. ASSUME NEW d \in Procs, UnitDies(d) PROVE Repeats'
  <2>1. UNCHANGED reqs /\ step' = [step EXCEPT ![d] = "dead"]
    BY <1>6 DEF UnitDies
  <2>2. \A p \in Procs : step'[p] \in {"idle", "done"} => step'[p] = step[p]
    BY <2>1 DEF Bookkeeping, TypeOK
  <2>. QED
    BY <1>0, <2>1, <2>2, RepeatsKept, Constants DEF Living, ShipHasActed, Squadrons
<1>. QED
  BY <1>1, <1>2, <1>3, <1>4, <1>5, <1>6 DEF Next, Spawning, CCStep

\* empty entries are told apart by their ranks
LEMMA RankTells ==
    ASSUME NEW entries \in [Slots -> Slots \cup {0}], NEW i \in Slots, NEW j \in Slots,
           entries[i] = 0, entries[j] = 0, rank(entries, i) = rank(entries, j)
    PROVE  i = j
<1>1. i < j \/ j < i \/ i = j
  BY Constants
<1>2. rank(entries, i) \in Nat
  BY RankIsCount
<1>3. i < j => rank(entries, i) < rank(entries, j)
  BY RankIsInjective
<1>4. j < i => rank(entries, j) < rank(entries, i)
  BY RankIsInjective
<1>. QED
  BY <1>1, <1>2, <1>3, <1>4

\* where each entry of the new list comes from
LEMMA ShipEntries ==
    ASSUME Bookkeeping, NEW q \in Ships, ShipActs(q),
           NEW i \in Slots, underlings'[q][i] # 0
    PROVE  \/ underlings'[q][i] = underlings[q][i]
           \/ /\ underlings[q][i] = 0
              /\ rank(underlings[q], i) \in DOMAIN announced[q]
              /\ underlings'[q][i] = announced[q][rank(underlings[q], i)]
           \/ /\ Own(q)[i] = 0
              /\ rank(Own(q), i) \in DOMAIN reqs
              /\ underlings'[q][i] = reqs[rank(Own(q), i)].sender_id
<1> DEFINE all == Enlist(Own(q), Senders(reqs))
<1>1. underlings'[q] = Kept(q)
  BY ShipEffects DEF Bookkeeping, TypeOK
<1>2. underlings'[q][i] = all[i]
  BY <1>1 DEF Kept
<1>3. all[i] = IF Own(q)[i] = 0 /\ rank(Own(q), i) <= Len(Senders(reqs))
               THEN Senders(reqs)[rank(Own(q), i)] ELSE Own(q)[i]
  BY DEF Enlist, rank
<1>4. Own(q)[i] = IF underlings[q][i] = 0 /\ rank(underlings[q], i) <= Len(announced[q])
                  THEN announced[q][rank(underlings[q], i)] ELSE underlings[q][i]
  BY DEF Own, Enlist, rank
<1>5. /\ Senders(reqs) \in Seq(Slots) /\ DOMAIN Senders(reqs) = DOMAIN reqs
      /\ \A k \in DOMAIN reqs : Senders(reqs)[k] = reqs[k].sender_id
      /\ announced[q] \in Seq(Slots)
      /\ underlings[q] \in [Slots -> Slots \cup {0}] /\ Own(q) \in [Slots -> Slots \cup {0}]
  BY ListTypes
<1> HIDE DEF all
<1>6. CASE Own(q)[i] = 0
  <2>1. rank(Own(q), i) \in 1..Len(Senders(reqs)) /\ all[i] = Senders(reqs)[rank(Own(q), i)]
    BY <1>2, <1>3, <1>5, <1>6, RankIsCount
  <2>2. rank(Own(q), i) \in DOMAIN reqs
    BY <1>5, <2>1
  <2>. QED
    BY <1>2, <1>5, <1>6, <2>1, <2>2
<1>7. CASE Own(q)[i] # 0
  <2>1. all[i] = Own(q)[i]
    BY <1>3, <1>7
  <2>2. CASE underlings[q][i] # 0
    BY <1>2, <1>4, <2>1, <2>2
  <2>3. CASE underlings[q][i] = 0
    <3>1. /\ rank(underlings[q], i) <= Len(announced[q])
          /\ Own(q)[i] = announced[q][rank(underlings[q], i)]
      BY <1>4, <1>7, <2>3
    <3>2. rank(underlings[q], i) \in DOMAIN announced[q]
      <4>1. rank(underlings[q], i) \in 1..Room(underlings[q]) /\ Room(underlings[q]) \in Nat
        BY <1>5, <2>3, RankIsCount
      <4>2. DOMAIN announced[q] = 1..Len(announced[q]) /\ Len(announced[q]) \in Nat
        BY <1>5
      <4>. QED
        BY <3>1, <4>1, <4>2
    <3>. QED
      BY <1>2, <2>1, <2>3, <3>1, <3>2
  <2>. QED
    BY <2>2, <2>3
<1>. QED
  BY <1>6, <1>7

LEMMA ShipMultiplicity ==
    ASSUME Bookkeeping, Allegiance, Repeats, Multiplicity, NoReuse,
           NEW q \in Ships, ShipActs(q)
    PROVE  Twice(q)' /\ Once(q)'
<1>1. Living(q) /\ Twice(q) /\ Once(q) /\ announced'[q] = <<>> /\ UNCHANGED <<forked, slot>>
  BY Constants DEF ShipActs, Living, Multiplicity, Bookkeeping, TypeOK, procVars
<1>2. Once(q)'
  BY <1>1 DEF Once
<1>3. ASSUME NEW i \in Slots, NEW j \in Slots, NEW k \in Slots,
             underlings'[q][i] # 0,
             underlings'[q][i] = underlings'[q][j], underlings'[q][j] = underlings'[q][k]
      PROVE  i = j \/ j = k \/ i = k
  <2>1. PICK e : e = underlings'[q][i]
    OBVIOUS
  <2>2. e \in SquadronSlots /\ e \in Slots /\ e # 0 /\ alive[e]
    <3>1. Bookkeeping'
      BY ShipBookkeeping
    <3>2. e \in SquadronSlots'
      BY <1>3, <2>1, <3>1 DEF Bookkeeping, Lists
    <3>. QED
      BY <1>1, <1>3, <2>1, <3>2, ShipLists DEF SquadronSlots
  <2>3. PICK p \in Squadrons : p <= forked /\ slot[p] = e
    BY <2>2 DEF SquadronSlots
  <2>4. Living(p)
    <3>1. owner[e] \in Procs /\ owner[e] <= forked /\ slot[owner[e]] = e /\ Living(owner[e])
      BY <2>2, SlotOwner
    <3>. QED
      BY <2>3, <3>1, SlotsDiffer DEF Squadrons
  <2>5. Loyal(p) /\ AtMostTwice(p)
    BY <1>1, <2>4 DEF Allegiance, Repeats
  <2>6. \A n \in DOMAIN reqs : reqs[n].sender_id = e => n \in Asked(p)
    <3> SUFFICES ASSUME NEW n \in DOMAIN reqs, reqs[n].sender_id = e
                 PROVE  reqs[n].from = p
      BY DEF Asked
    <3>1. reqs[n].from \in Procs
      BY RequestTypes DEF Bookkeeping, Squadrons
    <3>2. reqs[n].from <= forked /\ slot[reqs[n].from] = e
      BY DEF Bookkeeping, Lists
    <3>. QED
      BY <2>3, <3>1, <3>2, SlotsDiffer DEF Squadrons
  <2>7. e \in Listed(q) => \A n \in DOMAIN reqs : reqs[n].sender_id # e
    BY <1>1, <2>3, <2>5, <2>6 DEF Loyal, Requesters, Asked
  <2>8. /\ underlings'[q][i] = e /\ underlings'[q][j] = e /\ underlings'[q][k] = e
    BY <1>3, <2>1
  <2>9. underlings[q] \in [Slots -> Slots \cup {0}] /\ Own(q) \in [Slots -> Slots \cup {0}]
    BY ListTypes
  \* either the entry was there, or it is announced, or it has been asked for
  <2> DEFINE Old(n) == underlings[q][n] = e
             New(n) == /\ underlings[q][n] = 0
                       /\ rank(underlings[q], n) \in DOMAIN announced[q]
                       /\ e = announced[q][rank(underlings[q], n)]
             Wish(n) == /\ Own(q)[n] = 0
                        /\ rank(Own(q), n) \in DOMAIN reqs
                        /\ e = reqs[rank(Own(q), n)].sender_id
  <2>10. \A n \in {i, j, k} : Old(n) \/ New(n) \/ Wish(n)
    BY <2>2, <2>8, ShipEntries
  <2>11. \A n \in Slots : Old(n) \/ New(n) => e \in Listed(q)
    BY DEF Listed
  <2>12. \A n, m \in Slots : Old(n) => ~New(m)
    BY <1>1 DEF Once
  <2>13. \A n \in Slots : e \in Listed(q) => ~Wish(n)
    BY <2>7
  <2>14. ASSUME NEW n \in Slots, NEW m \in Slots, New(n), New(m) PROVE n = m
    <3>1. rank(underlings[q], n) = rank(underlings[q], m)
      BY <1>1, <2>14 DEF Once
    <3>. QED
      BY <2>9, <2>14, <3>1, RankTells
  <2>15. ASSUME NEW n \in Slots, NEW m \in Slots, Wish(n), Wish(m),
                rank(Own(q), n) = rank(Own(q), m)
         PROVE  n = m
    BY <2>9, <2>15, RankTells
  <2>16. CASE Old(i) /\ Old(j) /\ Old(k)
    BY <1>1, <2>2, <2>16 DEF Twice
  <2>17. CASE New(i) /\ New(j)
    BY <2>14, <2>17
  <2>18. CASE Wish(i) /\ Wish(j) /\ Wish(k)
    <3>1. rank(Own(q), i) \in Asked(p) /\ rank(Own(q), j) \in Asked(p)
          /\ rank(Own(q), k) \in Asked(p)
      BY <2>6, <2>18
    <3>2. \/ rank(Own(q), i) = rank(Own(q), j)
          \/ rank(Own(q), j) = rank(Own(q), k)
          \/ rank(Own(q), i) = rank(Own(q), k)
      BY <2>5, <3>1 DEF AtMostTwice
    <3>. QED
      BY <2>15, <2>18, <3>2
  <2> HIDE DEF Old, New, Wish
  <2>. QED
    BY <2>10, <2>11, <2>12, <2>13, <2>16, <2>17, <2>18
<1>4. Twice(q)'
  BY <1>3 DEF Twice
<1>. QED
  BY <1>2, <1>4

\* whose list a step of another leaves alone
LEMMA OthersLists ==
    ASSUME Bookkeeping, [Next]_vars, ~Spawning, NEW q \in Ships, ~ShipActs(q), Living(q)'
    PROVE  underlings'[q] = underlings[q] /\ announced'[q] = announced[q]
<1>1. q \in Procs
  BY Constants
<1>2. CASE UNCHANGED <<underlings, announced>>
  BY <1>2
<1>3. ASSUME NEW r \in Ships, ShipActs(r)
      PROVE  underlings'[q] = underlings[q] /\ announced'[q] = announced[q]
  <2>1. r # q
    BY <1>3
  <2>2. underlings'[q] = underlings[q]
    BY <1>3, <2>1, ShipLists
  <2>3. announced' = [announced EXCEPT ![r] = <<>>]
    BY <1>3, ZenonT(60) DEF ShipActs
  <2>. QED
    BY <1>1, <2>1, <2>2, <2>3 DEF Bookkeeping, TypeOK
<1>4. ASSUME NEW d \in Procs, UnitDies(d)
      PROVE  underlings'[q] = underlings[q] /\ announced'[q] = announced[q]
  <2>1. /\ step' = [step EXCEPT ![d] = "dead"]
        /\ announced' = [announced EXCEPT ![d] = <<>>]
        /\ underlings' = [r \in Ships |->
                            IF r = d THEN [i \in Slots |-> 0] ELSE underlings[r]]
    BY <1>4 DEF UnitDies
  <2>2. q # d
    BY <1>1, <2>1 DEF Living, Bookkeeping, TypeOK
  <2>. QED
    BY <1>1, <2>1, <2>2 DEF Bookkeeping, TypeOK
<1>. QED
  BY <1>2, <1>3, <1>4 DEF Next, Spawning, CCStep, StartTick, EndTick, SquadronActs,
                          vars, queueVars, commandVars

LEMMA NextMultiplicity ==
    Bookkeeping /\ Allegiance /\ Repeats /\ Multiplicity /\ [Next]_vars => Multiplicity'
<1> SUFFICES ASSUME Bookkeeping, Allegiance, Repeats, Multiplicity, [Next]_vars, NoReuse',
                    NEW q \in Ships, Living(q)'
             PROVE  Twice(q)' /\ Once(q)'
  BY DEF Multiplicity
<1>1. NoReuse
  BY ReuseIsForEver
<1>2. CASE Spawning
  <2> PICK child : child = forked + 1
    OBVIOUS
  <2>1. PICK s \in FreeSlots, boss \in {0} \cup asking, f \in Factions \cup {0},
            k \in Light \cup {"ship"} :
          Spawns(child, s, boss, f, k)
    BY <1>2, SpawnIsSpawns
  <2>2. /\ Anew(child, s, boss) /\ underlings' = underlings
        /\ forked < MaxProcs /\ boss # child
    <3>1. underlings' = underlings /\ forked < MaxProcs
      BY <1>2, SpawnIsSpawns
    <3>2. child \notin asking /\ child # 0
      BY <3>1, TheChild, Constants
    <3>. QED
      BY <1>2, <2>1, <3>1, <3>2, SpawnedAnew
  <2>3. announced[q] \in Seq(Slots) /\ announced \in [Procs -> Seq(Slots)] /\ q \in Procs
    BY Constants DEF Bookkeeping, TypeOK
  <2>4. \/ announced'[q] = announced[q]
        \/ q = boss /\ announced'[q] = Append(announced[q], s)
    BY <2>1, <2>3 DEF Spawns
  <2>7. CASE q = child
    <3>1. announced[q] = <<>> /\ \A i \in Slots : underlings[q][i] = 0
      BY <2>2, <2>7, TheChild
    <3>2. announced'[q] = <<>>
      BY <2>2, <2>4, <2>7, <3>1
    <3>. QED
      BY <2>2, <3>1, <3>2 DEF Twice, Once
  <2>8. CASE q # child
    <3>0. Living(q) /\ Twice(q) /\ Once(q) /\ s \notin Listed(q)
      BY <1>1, <2>2, <2>8 DEF Multiplicity, Anew
    <3>1. CASE announced'[q] = announced[q]
      BY <2>2, <3>0, <3>1 DEF Twice, Once
    <3>2. CASE announced'[q] = Append(announced[q], s)
      <4>1. \A i \in DOMAIN announced'[q] :
              \/ i \in DOMAIN announced[q] /\ announced'[q][i] = announced[q][i]
              \/ i = Len(announced[q]) + 1 /\ announced'[q][i] = s
        BY <2>3, <3>2
      <4>2. /\ \A i \in DOMAIN announced[q] : announced[q][i] # s
            /\ \A j \in Slots : underlings[q][j] # s
        BY <3>0 DEF Listed
      <4>. QED
        BY <2>2, <3>0, <4>1, <4>2 DEF Twice, Once
    <3>. QED
      BY <2>4, <3>1, <3>2
  <2>. QED
    BY <2>7, <2>8
<1>3. ASSUME ~Spawning PROVE Living(q) /\ Twice(q) /\ Once(q)
  <2>1. Living(q)
    BY <1>3, Constants, JustSpawned, LivedBefore
  <2>. QED
    BY <1>1, <2>1 DEF Multiplicity
<1>4. CASE ShipActs(q)
  BY <1>1, <1>4, ShipMultiplicity
<1>5. CASE ~Spawning /\ ~ShipActs(q)
  BY <1>3, <1>5, OthersLists DEF Twice, Once
<1>. QED
  BY <1>2, <1>4, <1>5

LEMMA IntervalSize ==
    ASSUME NEW a \in Nat, NEW b \in Nat, a <= b
    PROVE  IsFiniteSet((a + 1)..b) /\ Cardinality((a + 1)..b) = b - a
<1>1. IsFiniteSet((a + 1)..b)
  BY FS_Interval
<1>2. Cardinality((a + 1)..b) = IF a + 1 > b THEN 0 ELSE b - (a + 1) + 1
  BY FS_Interval
<1>. QED
  BY <1>1, <1>2

LEMMA DisjointSizes ==
    ASSUME NEW S, NEW T, IsFiniteSet(S), IsFiniteSet(T), S \cap T = {}
    PROVE  /\ Cardinality(S) \in Nat /\ Cardinality(T) \in Nat
           /\ IsFiniteSet(S \cup T)
           /\ Cardinality(S \cup T) = Cardinality(S) + Cardinality(T)
<1>1. Cardinality(S) \in Nat /\ Cardinality(T) \in Nat
  BY FS_CardinalityType
<1>2. /\ IsFiniteSet(S \cup T)
      /\ Cardinality(S \cup T) = Cardinality(S) + Cardinality(T) - Cardinality(S \cap T)
  BY FS_Union
<1>3. Cardinality(S \cap T) = 0
  BY FS_EmptySet
<1>. QED
  BY <1>1, <1>2, <1>3

LEMMA SquadronsAreFinite ==
    ASSUME NEW n
    PROVE  /\ IsFiniteSet({p \in Squadrons : p <= n})
           /\ Cardinality({p \in Squadrons : p <= n}) \in Nat
<1>1. IsFiniteSet(Procs)
  BY Constants, FS_Interval DEF Procs
<1>2. {p \in Squadrons : p <= n} \subseteq Procs
  BY DEF Squadrons
<1>3. IsFiniteSet({p \in Squadrons : p <= n})
  BY <1>1, <1>2, FS_Subset
<1>. QED
  BY <1>3, FS_CardinalityType

\* there have not been more squadrons before
LEMMA FewBefore ==
    ASSUME Bookkeeping, [Next]_vars, Few'
    PROVE  Few
<1> DEFINE born == {p \in Squadrons : p <= forked}
<1>1. born \subseteq born'
  <2>1. CASE Spawning
    <3>1. PICK child : child = forked + 1
      OBVIOUS
    <3>2. forked' = child
      BY <2>1, <3>1, SpawnIsSpawns DEF Spawns
    <3>. QED
      BY <3>1, <3>2, Constants DEF Bookkeeping, TypeOK, Squadrons
  <2>2. CASE ~Spawning
    BY <2>2, NothingSpawned
  <2>. QED
    BY <2>1, <2>2
<1>2. /\ IsFiniteSet(born') /\ Cardinality(born') \in Nat
      /\ Cardinality(born) \in Nat
  BY SquadronsAreFinite
<1>3. 2 * Cardinality(born') <= MAX_UNITS
  BY DEF Few
<1> HIDE DEF born
<1>4. Cardinality(born) <= Cardinality(born')
  BY <1>1, <1>2, FS_Subset
<1>5. 2 * Cardinality(born) <= MAX_UNITS
  BY <1>2, <1>3, <1>4, Constants
<1>. QED
  BY <1>5 DEF Few, born

\* If there have been few squadrons, what is announced finds room.
LEMMA RoomForAll ==
    ASSUME Bookkeeping, Few, NEW q \in Ships, Twice(q), Once(q)
    PROVE  Len(announced[q]) <= Room(underlings[q])
<1> DEFINE list == underlings[q]
           news == announced[q]
           born == {p \in Squadrons : p <= forked}
           used == {i \in Slots : list[i] # 0}
           empty == {i \in Slots : list[i] = 0}
           firsts == {i \in used : \A j \in used : j < i => list[j] # list[i]}
           seconds == used \ firsts
           fresh == {news[i] : i \in DOMAIN news}
<1>1. list \in [Slots -> Slots \cup {0}] /\ news \in Seq(Slots)
  BY ListTypes
<1>2. MAX_UNITS \in Nat
  BY Constants
<1>3. /\ IsFiniteSet(Slots) /\ Cardinality(Slots) = MAX_UNITS
      /\ IsFiniteSet(used) /\ IsFiniteSet(firsts) /\ IsFiniteSet(seconds) /\ IsFiniteSet(empty)
  <2>1. IsFiniteSet(Slots) /\ Cardinality(Slots) = MAX_UNITS
    <3>1. 1..MAX_UNITS = (0 + 1)..MAX_UNITS /\ MAX_UNITS - 0 = MAX_UNITS
      BY <1>2
    <3>2. IsFiniteSet((0 + 1)..MAX_UNITS)
          /\ Cardinality((0 + 1)..MAX_UNITS) = MAX_UNITS - 0
      BY <1>2, IntervalSize
    <3>. QED
      BY <3>1, <3>2 DEF Slots
  <2>2. used \subseteq Slots /\ firsts \subseteq Slots /\ seconds \subseteq Slots
        /\ empty \subseteq Slots
    OBVIOUS
  <2> HIDE DEF used, firsts, seconds, empty
  <2>. QED
    BY <2>1, <2>2, FS_Subset
\* there are no more slots of squadrons than squadrons
<1>4. IsFiniteSet(SquadronSlots) /\ Cardinality(SquadronSlots) <= Cardinality(born)
       /\ Cardinality(born) \in Nat
  <2>2. IsFiniteSet(born) /\ Cardinality(born) \in Nat
    BY SquadronsAreFinite
  <2> DEFINE f == [p \in born |-> slot[p]]
  <2>3. SquadronSlots = {f[p] : p \in born}
    BY DEF SquadronSlots
  <2>4. f \in Surjection(born, SquadronSlots)
    BY <2>3 DEF Surjection
  <2> HIDE DEF born, f
  <2>. QED
    BY <2>2, <2>4, FS_Surjection
<1>5. \A i \in used : list[i] \in SquadronSlots
  BY DEF Bookkeeping, Lists
<1>6. fresh \subseteq SquadronSlots
  BY Constants DEF Bookkeeping, Lists
\* the first entries of units, and the fresh ids, are of different units
<1>7. Cardinality(firsts) + Len(news) <= Cardinality(SquadronSlots)
  <2> DEFINE names == {list[i] : i \in firsts}
             g == [i \in firsts |-> list[i]]
             h == [i \in 1..Len(news) |-> news[i]]
  <2>1. g \in Bijection(firsts, names)
    <3>1. \A i, j \in firsts : list[i] = list[j] => i = j
      <4> SUFFICES ASSUME NEW i \in firsts, NEW j \in firsts, list[i] = list[j]
                   PROVE  i = j
        OBVIOUS
      <4>1. ~(i < j) /\ ~(j < i) /\ i \in Slots /\ j \in Slots
        OBVIOUS
      <4>. QED
        BY <4>1, Constants
    <3> HIDE DEF firsts
    <3>. QED
      BY <3>1 DEF Bijection, Injection, Surjection, IsInjective
  <2>2. h \in Bijection(1..Len(news), fresh)
    <3>1. DOMAIN news = 1..Len(news)
      BY <1>1
    <3>2. \A i, j \in 1..Len(news) : news[i] = news[j] => i = j
      BY <3>1 DEF Once
    <3>3. fresh = {news[i] : i \in 1..Len(news)}
      BY <3>1
    <3> HIDE DEF news, fresh
    <3>. QED
      BY <3>2, <3>3 DEF Bijection, Injection, Surjection, IsInjective
  <2>3. names \cap fresh = {} /\ names \subseteq SquadronSlots
    BY <1>5 DEF Once
  <2>4. Len(news) \in Nat
    BY <1>1
  <2>5. IsFiniteSet(1..Len(news)) /\ Cardinality(1..Len(news)) = Len(news)
    BY <2>4, FS_Interval
  <2> HIDE DEF names, g, h, fresh, firsts, news
  <2>6. IsFiniteSet(names) /\ Cardinality(names) = Cardinality(firsts)
    BY <1>3, <2>1, FS_Bijection DEF ExistsBijection
  <2>7. IsFiniteSet(fresh) /\ Cardinality(fresh) = Len(news)
    BY <2>2, <2>5, FS_Bijection DEF ExistsBijection
  <2>8. /\ IsFiniteSet(names \cup fresh)
        /\ Cardinality(names \cup fresh) = Cardinality(firsts) + Len(news)
    BY <2>3, <2>6, <2>7, DisjointSizes
  <2>9. names \cup fresh \in SUBSET SquadronSlots
    BY <1>6, <2>3
  <2>. QED
    BY <1>4, <2>8, <2>9, FS_Subset
\* and so are their second ones
<1>8. Cardinality(seconds) <= Cardinality(SquadronSlots)
  <2> DEFINE g == [i \in seconds |-> list[i]]
  <2>1. \A i, j \in seconds : list[i] = list[j] => i = j
    <3> SUFFICES ASSUME NEW i \in seconds, NEW j \in seconds, list[i] = list[j], i < j
                 PROVE  FALSE
      <4>1. \A i, j \in seconds : i \in Nat /\ j \in Nat
        BY Constants
      <4>2. \A i, j \in seconds : list[i] = list[j] => ~(i < j)
        OBVIOUS
      <4> HIDE DEF seconds, list
      <4>3. ASSUME NEW i \in seconds, NEW j \in seconds, list[i] = list[j] PROVE i = j
        BY <4>1, <4>2, <4>3
      <4>. QED
        BY <4>3
    <3>1. PICK k \in used : k < i /\ list[k] = list[i]
      OBVIOUS
    <3>2. i \in Slots /\ j \in Slots /\ k \in Slots /\ list[k] # 0
      OBVIOUS
    <3>3. k = i \/ i = j \/ k = j
      BY <3>1, <3>2 DEF Twice
    <3>. QED
      BY <3>1, <3>2, <3>3, Constants
  <2>2. g \in [seconds -> SquadronSlots]
    BY <1>5
  <2>3. g \in Injection(seconds, SquadronSlots)
    <3> HIDE DEF seconds
    <3>. QED
      BY <2>1, <2>2 DEF Injection, IsInjective
  <2> HIDE DEF g, seconds
  <2>. QED
    BY <1>4, <2>3, FS_Injection
<1>9. Cardinality(empty) + Cardinality(firsts) + Cardinality(seconds) = MAX_UNITS
  <2>1. firsts \cup seconds = used /\ firsts \cap seconds = {}
        /\ used \cup empty = Slots /\ used \cap empty = {}
    OBVIOUS
  <2> HIDE DEF firsts, seconds, used, empty
  <2>2. Cardinality(used) = Cardinality(firsts) + Cardinality(seconds)
    BY <1>3, <2>1, DisjointSizes
  <2>3. Cardinality(Slots) = Cardinality(used) + Cardinality(empty)
    BY <1>3, <2>1, DisjointSizes
  <2>4. /\ Cardinality(firsts) \in Nat /\ Cardinality(seconds) \in Nat
        /\ Cardinality(empty) \in Nat
    BY <1>3, FS_CardinalityType
  <2>. QED
    BY <1>3, <2>2, <2>3, <2>4
<1>10. /\ Cardinality(firsts) \in Nat /\ Cardinality(seconds) \in Nat
       /\ Cardinality(empty) \in Nat /\ Cardinality(SquadronSlots) \in Nat
       /\ Len(news) \in Nat
  BY <1>1, <1>3, <1>4, FS_CardinalityType
<1>11. Room(underlings[q]) = Cardinality(empty)
  BY DEF Room
<1>12. 2 * Cardinality(born) <= MAX_UNITS
  BY DEF Few
<1> HIDE DEF firsts, seconds, empty, used, fresh, born
<1>. QED
  <2> DEFINE e == Cardinality(empty)
             m == Cardinality(firsts)
             n == Cardinality(seconds)
             s == Cardinality(SquadronSlots)
             b == Cardinality(born)
             l == Len(news)
  <2>1. /\ MAX_UNITS \in Nat /\ e \in Nat /\ m \in Nat /\ n \in Nat
        /\ s \in Nat /\ b \in Nat /\ l \in Nat
    BY <1>2, <1>4, <1>10
  <2>2. /\ s <= b /\ m + l <= s /\ n <= s
        /\ e + m + n = MAX_UNITS /\ 2 * b <= MAX_UNITS
    BY <1>4, <1>7, <1>8, <1>9, <1>12
  <2> HIDE DEF e, m, n, s, b, l
  <2>3. l <= e
    BY <2>1, <2>2
  <2>. QED
    BY <1>11, <2>3 DEF l, e

LEMMA NextKnown ==
    "traffic" \notin Faults /\ Bookkeeping /\ Multiplicity /\ Known /\ [Next]_vars => Known'
<1> SUFFICES ASSUME "traffic" \notin Faults, Bookkeeping, Multiplicity, Known, [Next]_vars,
                    NoReuse', Few', NEW p \in Squadrons, NEW q \in Ships,
                    Living(p)', Living(q)', Promised(p)' = slot'[q]
             PROVE  slot'[p] \in Listed(q)'
  BY DEF Known
<1>1. /\ NoReuse /\ \A r \in Procs : r <= forked => r <= forked' /\ slot'[r] = slot[r]
      /\ Few
  BY ReuseIsForEver, FewBefore
<1>2. p \in Procs /\ q \in Procs
  BY Constants DEF Squadrons
<1>3. CASE Spawning
  <2> PICK child : child = forked + 1
    OBVIOUS
  <2>1. PICK s \in FreeSlots, boss \in {0} \cup asking, f \in Factions \cup {0},
            k \in Light \cup {"ship"} :
          Spawns(child, s, boss, f, k)
    BY <1>3, SpawnIsSpawns
  <2>2. /\ UNCHANGED <<underlings, orders, replies>> /\ child \in Procs
        /\ replies[child] = <<>>
        /\ \A r \in Procs : r # child =>
              slot'[r] = slot[r] /\ (Living(r)' <=> Living(r)) /\ commander'[r] = commander[r]
        /\ slot'[child] = s /\ s \notin GivenSlots
    <3>1. UNCHANGED <<underlings, orders, replies>>
      BY <1>3, SpawnIsSpawns
    <3>2. Anew(child, s, boss)
      BY <1>3, <2>1, SpawnedAnew
    <3>. QED
      BY <3>1, <3>2 DEF Anew
  <2>3. announced[q] \in Seq(Slots) /\ announced \in [Procs -> Seq(Slots)]
    BY <1>2 DEF Bookkeeping, TypeOK
  <2>6. s # 0 /\ (boss # 0 => /\ boss \in Ships /\ boss \in Procs /\ boss <= forked
                              /\ slot[boss] \in GivenSlots)
    <3>1. s # 0
      BY Constants DEF FreeSlots
    <3>2. boss # 0 => boss \in Ships
      BY DEF Bookkeeping, TypeOK
    <3>. QED
      BY <3>1, <3>2, ShipSlots DEF GivenSlots
  \* nobody has been promised the new slot
  <2>7. Promised(p)' # s
    <3>1. CASE p = child
      <4>1. Promised(p)' = IF boss = 0 THEN 0 ELSE slot[boss]
        BY <2>1, <2>2, <3>1 DEF Promised, Spawns, Bookkeeping, TypeOK
      <4>. QED
        BY <2>2, <2>6, <4>1
    <3>2. CASE p # child
      <4>1. Promised(p)' = Promised(p)
        BY <1>2, <2>2, <3>2 DEF Promised, Last
      <4>. QED
        BY <1>2, <2>2, <2>6, <4>1, PromisedIsGiven
    <3>. QED
      BY <3>1, <3>2
  <2>8. q # child
    BY <2>2, <2>7
  <2>9. Living(q) /\ slot'[q] = slot[q] /\ q <= forked /\ slot[q] \in Slots
    BY <1>2, <2>2, <2>8, LivingSlot
  <2>4. CASE p = child
    <3>1. commander'[p] = IF boss = 0 THEN 0 ELSE slot[boss]
      <4>1. commander' = [commander EXCEPT ![p] = IF boss = 0 THEN 0 ELSE slot[boss]]
        BY <2>1, <2>4 DEF Spawns
      <4>. QED
        BY <1>2, <4>1 DEF Bookkeeping, TypeOK
    <3>2. slot[q] = IF boss = 0 THEN 0 ELSE slot[boss]
      BY <2>2, <2>4, <2>9, <3>1 DEF Promised
    <3>3. boss # 0 /\ slot[q] = slot[boss]
      BY <2>9, <3>2, Constants
    <3>5. boss = q
      BY <1>1, <1>2, <2>6, <2>9, <3>3, SlotsDiffer
    <3>6. announced'[q] = Append(announced[q], s)
      BY <1>2, <2>1, <2>3, <3>3, <2>9, <3>5 DEF Spawns
    <3>7. \E i \in DOMAIN announced'[q] : announced'[q][i] = s
      <4>1. s \in Slots
        BY DEF FreeSlots
      <4>2. /\ Len(announced[q]) + 1 \in DOMAIN announced'[q]
            /\ announced'[q][Len(announced[q]) + 1] = s
        BY <2>3, <3>6, <4>1
      <4>. QED
        BY <4>2
    <3>. QED
      BY <2>2, <2>4, <3>7 DEF Listed
  <2>5. CASE p # child
    <3>1. /\ Living(p) /\ slot'[p] = slot[p] /\ Promised(p)' = Promised(p)
      BY <1>2, <2>2, <2>5 DEF Promised, Last
    <3>3. slot[p] \in Listed(q)
      BY <1>1, <2>9, <3>1 DEF Known
    <3>4. announced'[q] = announced[q] \/ announced'[q] = Append(announced[q], s)
      BY <1>2, <2>1, <2>3 DEF Spawns
    <3>5. \A i \in DOMAIN announced[q] :
            i \in DOMAIN announced'[q] /\ announced'[q][i] = announced[q][i]
      BY <2>3, <3>4
    <3>. QED
      BY <2>2, <3>1, <3>3, <3>5 DEF Listed
  <2>. QED
    BY <2>4, <2>5
<1>4. ASSUME ~Spawning PROVE slot'[p] \in Listed(q)'
  <2>1. UNCHANGED <<forked, slot>>
    BY <1>4, NothingSpawned
  <2>2. /\ p <= forked /\ Living(p)
        /\ q <= forked /\ Living(q) /\ slot[q] \in Slots
    BY <1>2, <1>4, JustSpawned, LivedBefore, LivingSlot
  <2>3. slot[p] \in Slots /\ alive[slot[p]]
    BY <1>2, <2>2, LivingSlot
  <2>4. Promised(p) = slot[q] => slot[p] \in Listed(q)
    BY <1>1, <2>2 DEF Known
  <2>5. ASSUME NEW r \in Ships, ShipActs(r) PROVE slot[p] \in Listed(q)'
    <3>1. r \in Procs /\ r <= forked /\ slot[r] \in Slots
      BY <2>5, ShipSlots DEF ShipActs, Living
    <3>2. commander' = commander
      BY <2>5 DEF ShipActs
    <3>3. CASE \E k : Heard(r, k) /\ reqs[k].from = p
      <4>1. PICK k : Heard(r, k) /\ reqs[k].from = p
        BY <3>3
      <4>2. replies'[p] = Append(replies[p], slot[r]) /\ replies[p] \in Seq(Slots)
        BY <1>2, <2>5, <4>1, ShipReplies DEF Bookkeeping, TypeOK
      <4>3. Promised(p)' = slot[r]
        BY <3>1, <4>2 DEF Promised, Last
      <4>4. r = q
        BY <1>1, <1>2, <2>1, <2>2, <3>1, <4>3, SlotsDiffer
      <4>5. reqs[k].sender_id = slot[p]
        BY <4>1 DEF Heard, Bookkeeping, Lists
      <4>6. \E i \in Slots : underlings'[q][i] = slot[p]
        BY <2>3, <2>5, <4>1, <4>4, <4>5, ShipLists
      <4>. QED
        BY <4>6 DEF Listed
    <3>4. CASE ~ \E k : Heard(r, k) /\ reqs[k].from = p
      <4>1. replies'[p] = replies[p]
        BY <1>2, <2>5, <3>4, ShipReplies
      <4>2. Promised(p)' = Promised(p)
        BY <3>2, <4>1 DEF Promised, Last
      <4>3. slot[p] \in Listed(q)
        BY <2>1, <2>4, <4>2
      <4>4. CASE r # q
        BY <2>5, <4>3, <4>4, ShipListed
      <4>5. CASE r = q /\ \E i \in Slots : underlings[q][i] = slot[p]
        <5>1. PICK i \in Slots : underlings[q][i] = slot[p]
          BY <4>5
        <5>2. underlings'[q][i] = slot[p]
          BY <2>3, <2>5, <4>5, <5>1, ShipLists, Constants
        <5>. QED
          BY <5>2 DEF Listed
      <4>6. CASE r = q /\ \E i \in DOMAIN announced[q] : announced[q][i] = slot[p]
        <5>1. PICK i \in DOMAIN announced[q] : announced[q][i] = slot[p]
          BY <4>6
        <5>2. Len(announced[q]) <= Room(underlings[q])
          BY <1>1, <1>2, <2>2, RoomForAll DEF Multiplicity
        <5>3. i <= Room(underlings[q])
          <6>1. announced[q] \in Seq(Slots) /\ Room(underlings[q]) \in Nat
            <7>1. underlings[q] \in [Slots -> Slots \cup {0}] /\ announced[q] \in Seq(Slots)
              BY ListTypes
            <7>. QED
              BY <2>3, <7>1, RankIsCount
          <6>2. i \in Nat /\ i <= Len(announced[q])
            BY <5>1, <6>1
          <6>. QED
            BY <5>2, <6>1, <6>2
        <5>4. \E j \in Slots : underlings'[q][j] = slot[p]
          BY <2>3, <2>5, <4>6, <5>1, <5>3, ShipLists
        <5>. QED
          BY <5>4 DEF Listed
      <4>. QED
        BY <4>3, <4>4, <4>5, <4>6 DEF Listed
    <3>. QED
      BY <3>3, <3>4
  <2>6. ASSUME \A r \in Ships : ~ShipActs(r) PROVE slot[p] \in Listed(q)'
    <3>1. Listed(q)' = Listed(q)
      BY <1>4, <2>6, OthersLists DEF Listed
    <3>2. Promised(p)' = Promised(p) \/ Promised(p)' = 0
      <4>1. ASSUME NEW a \in Procs, SquadronActs(a)
            PROVE  Promised(p)' = Promised(p) \/ Promised(p)' = 0
        <5>1. /\ commander' = [commander EXCEPT ![a] =
                                 IF Present(Promised(a)) THEN Promised(a) ELSE 0]
              /\ replies' = [replies EXCEPT ![a] = <<>>]
          BY <4>1 DEF SquadronActs
        <5>2. CASE p # a
          <6>1. commander'[p] = commander[p] /\ replies'[p] = replies[p]
            BY <1>2, <5>1, <5>2 DEF Bookkeeping, TypeOK
          <6>. QED
            BY <6>1 DEF Promised, Last
        <5>3. CASE p = a
          <6>1. /\ replies'[p] = <<>>
                /\ commander'[p] = Promised(p) \/ commander'[p] = 0
            BY <1>2, <5>1, <5>3 DEF Bookkeeping, TypeOK
          <6>. QED
            BY <6>1 DEF Promised
        <5>. QED
          BY <5>2, <5>3
      <4>2. ASSUME NEW d \in Procs, UnitDies(d)
            PROVE  Promised(p)' = Promised(p) \/ Promised(p)' = 0
        <5>1. /\ commander' = [commander EXCEPT ![d] = 0]
              /\ replies' = [replies EXCEPT ![d] = <<>>]
          BY <4>2 DEF UnitDies
        <5>2. \/ commander'[p] = commander[p] /\ replies'[p] = replies[p]
              \/ commander'[p] = 0 /\ replies'[p] = <<>>
          BY <1>2, <5>1 DEF Bookkeeping, TypeOK
        <5>. QED
          BY <5>2 DEF Promised, Last
      <4>3. ASSUME UNCHANGED <<commander, replies>> PROVE Promised(p)' = Promised(p)
        BY <4>3 DEF Promised, Last
      <4>. QED
        BY <1>4, <2>6, <4>1, <4>2, <4>3
        DEF Next, Spawning, CCStep, StartTick, EndTick, vars, queueVars, commandVars
    <3>. QED
      BY <2>1, <2>2, <2>4, <3>1, <3>2, Constants
  <2>. QED
    BY <2>1, <2>5, <2>6
<1>. QED
  BY <1>3, <1>4

-----------------------------------------------------------------------------
(* Theorems *)

\* Type correctness, and that the registry, the lists, the requests and the
\* units agree on who lives in which slot, whatever is lost.
THEOREM CommandInvariant == Spec => []Bookkeeping
BY InitBookkeeping, NextBookkeeping, PTL DEF Spec

THEOREM CommandTypes == Spec => []TypeOK
<1>1. Bookkeeping => TypeOK
  BY DEF Bookkeeping
<1>. QED
  BY <1>1, CommandInvariant, PTL

LEMMA AllegianceHolds == ASSUME "traffic" \notin Faults PROVE Spec => []Allegiance
<1>1. Init => Allegiance
  <2> SUFFICES ASSUME Init, NEW p \in Squadrons, Living(p) PROVE Loyal(p)
    BY DEF Allegiance
  <2>1. /\ orders[p] = <<>> /\ replies[p] = <<>> /\ order[p] = "patrol"
        /\ Requesters = {}
    BY DEF Init, Squadrons, Requesters
  <2>2. \A q \in Ships : slot[p] \notin Listed(q)
    <3>1. slot[p] \in Slots
      BY InitBookkeeping, LivingSlot DEF Squadrons
    <3>2. \A q \in Ships : Listed(q) \subseteq {0}
      BY Constants DEF Init, Listed
    <3>. QED
      BY <3>1, <3>2, Constants
  <2>. QED
    BY <2>1, <2>2 DEF Loyal
<1>2. Bookkeeping /\ Allegiance /\ [Next]_vars => Allegiance'
  BY NextAllegiance
<1>. QED
  BY <1>1, <1>2, CommandInvariant, PTL DEF Spec

\* However often requests are repeated and whoever takes them, a squadron is
\* never on the lists of two living battleships, if sends do not fail.
THEOREM NeverTwoMasters == ASSUME "traffic" \notin Faults PROVE Spec => []OneMaster
<1>1. Bookkeeping /\ Allegiance => OneMaster
  <2> SUFFICES ASSUME Bookkeeping, Allegiance, NoReuse,
                      NEW p \in Squadrons, NEW q \in Ships, NEW r \in Ships,
                      Living(p), Living(q), Living(r), Entered(q, p), Entered(r, p)
               PROVE  q = r
    BY DEF OneMaster
  <2>1. p \in Procs
    BY DEF Squadrons
  <2>2. Promised(p) = slot[q] /\ Promised(p) = slot[r]
    BY <2>1, ListedIsEntered DEF Allegiance, Loyal
  <2>. QED
    BY <2>2, ShipSlots, SlotsDiffer
<1>. QED
  BY <1>1, CommandInvariant, AllegianceHolds, PTL

\* A squadron without a commander patrols: no order outlives its commander.
THEOREM MasterlessArePatrolling ==
    ASSUME "traffic" \notin Faults PROVE Spec => []MasterlessPatrol
<1>1. Allegiance => MasterlessPatrol
  BY DEF Allegiance, Loyal, MasterlessPatrol
<1>. QED
  BY <1>1, AllegianceHolds, PTL

LEMMA ColoursHold == Spec => []Colours
<1>1. Init => Colours
  <2> SUFFICES ASSUME Init PROVE Colours
    OBVIOUS
  <2>1. /\ \A s \in Slots : alive[s] <=> s \in 1..Len(Scenario)
        /\ \A s \in Slots : alive[s] =>
              owner[s] = s /\ side[s] = Scenario[s].side /\ kind[s] = Scenario[s].kind
    BY DEF Init
  <2>2. \A s \in Slots : alive[s] /\ kind[s] = "ship" => owner[s] \in Ships
    BY <2>1, TheScenario
  <2>3. ASSUME NEW q \in Ships, Living(q) PROVE side[slot[q]] = Flag(q)
    <3>1. q \in 1..Len(Scenario) /\ q \in Slots /\ q \in Procs
      BY <2>3, Constants DEF Init, Living, Slots, Procs
    <3>2. slot[q] = q /\ alive[q]
      BY <2>1, <3>1 DEF Init
    <3>. QED
      BY <2>1, <3>1, <3>2, TheScenario
  <2>. QED
    BY <2>2, <2>3 DEF Colours
<1>. QED
  BY <1>1, NextColours, CommandInvariant, PTL DEF Spec

\* With all battleships of one side, the console's too, squadrons guard their
\* own, though a commander may name a unit that dies before the order is read,
\* messages may be lost, and the console may hire squadrons of the other side.
THEOREM WardsOfOneSide == ASSUME OneSide PROVE Spec => []WardsAreFriends
<1>1. Init => Kinship
  <2> SUFFICES ASSUME Init, NEW p \in Squadrons, Living(p) PROVE Kin(p)
    BY DEF Kinship
  <2>1. p \in Procs
    BY DEF Squadrons
  <2>2. Requesters = {} /\ Named(p) = {0}
    BY <2>1 DEF Init, Requesters, Named
  <2>3. \A q \in Ships : slot[p] \notin Listed(q)
    <3>1. slot[p] \in Slots
      BY <2>1, InitBookkeeping, LivingSlot
    <3>2. \A q \in Ships : Listed(q) \subseteq {0}
      BY Constants DEF Init, Listed
    <3>. QED
      BY <3>1, <3>2, Constants
  <2>. QED
    BY <2>2, <2>3 DEF Kin
<1>2. Bookkeeping /\ Colours /\ Kinship /\ [Next]_vars => Kinship'
  BY NextKinship
<1>3. Kinship => WardsAreFriends
  BY DEF Kinship, Kin, Named, WardsAreFriends
<1>. QED
  BY <1>1, <1>2, <1>3, CommandInvariant, ColoursHold, PTL DEF Spec

\* A battleship has those on its list who follow it, as long as the list is
\* twice as long as there have been squadrons, if sends do not fail and no
\* unit misses a tick.
THEOREM CommandersKnowTheirs ==
    ASSUME "traffic" \notin Faults, "missed" \notin Faults
    PROVE  Spec => []KnownToCommander
<1>1. Init => Tidy /\ Repeats /\ Multiplicity /\ Known
  <2> SUFFICES ASSUME Init PROVE Tidy /\ Repeats /\ Multiplicity /\ Known
    OBVIOUS
  <2>0. Tidy
    <3>1. /\ forked = Len(Scenario) /\ reqs = <<>>
          /\ \A p \in Procs : slot[p] = IF p \in 1..Len(Scenario) THEN p ELSE 0
          /\ \A s \in Slots : owner[s] # 0 => alive[s]
      BY DEF Init
    <3>2. \A s \in Slots : s \in 1..Len(Scenario) => s \in GivenSlots
      BY <3>1, Constants DEF GivenSlots, Procs
    <3>3. \A p \in Procs, s \in Slots : p <= forked /\ s < slot[p] => s \in 1..Len(Scenario)
      BY <3>1, Constants DEF Procs, Slots
    <3>. QED
      BY <3>1, <3>2, <3>3 DEF Tidy
  <2>1. Repeats
    BY DEF Init, Repeats, Asked, AtMostTwice, AtMostOnce
  <2>2. Multiplicity
    BY Constants DEF Init, Multiplicity, Twice, Once
  <2>3. Known
    BY ShipSlots, InitBookkeeping, Constants DEF Init, Known, Promised, Squadrons
  <2>. QED
    BY <2>0, <2>1, <2>2, <2>3
<1>6. Bookkeeping /\ Colours /\ Tidy /\ [Next]_vars => Tidy'
  BY NextTidy
<1>2. Bookkeeping /\ Tidy /\ Repeats /\ [Next]_vars => Repeats'
  BY NextRepeats
<1>3. Bookkeeping /\ Allegiance /\ Repeats /\ Multiplicity /\ [Next]_vars => Multiplicity'
  BY NextMultiplicity
<1>4. Bookkeeping /\ Multiplicity /\ Known /\ [Next]_vars => Known'
  BY NextKnown
<1>5. Bookkeeping /\ Allegiance /\ Known => KnownToCommander
  <2> SUFFICES ASSUME Bookkeeping, Allegiance, Known, NoReuse, Few,
                      NEW p \in Squadrons, NEW q \in Ships,
                      Living(p), Living(q), commander[p] = slot[q]
               PROVE  Entered(q, p)
    BY DEF KnownToCommander
  <2>1. p \in Procs
    BY DEF Squadrons
  <2>2. commander[p] # 0
    BY ShipSlots, Constants
  <2>3. Promised(p) = slot[q]
    BY <2>2 DEF Allegiance, Loyal, Promised
  <2>. QED
    BY <2>1, <2>3, ListedIsEntered DEF Known
<1>. QED
  BY <1>1, <1>2, <1>3, <1>4, <1>5, <1>6, CommandInvariant, ColoursHold, AllegianceHolds,
     PTL DEF Spec
=============================================================================
