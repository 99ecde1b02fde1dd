--------------------------- MODULE ScenarioProofs ---------------------------
(***************************************************************************)
(* Proofs about Scenario, for every file, field and array size: where the  *)
(* units are that the program itself puts up, that an orderly formation    *)
(* keeps its cells and that both sides appear.                             *)
(***************************************************************************)
EXTENDS Scenario, SequenceTheorems, NaturalsInduction, WellFoundedInduction,
        FiniteSetTheorems, TLAPS

\* numbers are well ordered
LEMMA LeastNatural ==
    ASSUME NEW S \in SUBSET Nat, S # {}
    PROVE  \E i \in S : \A j \in S : i <= j
<1>1. PICK i \in S : \A j \in S : <<j, i>> \notin OpToRel(<, Nat)
  BY WFMin, NatLessThanWellFounded, Zenon
<1>2. \A j \in S : ~(j < i)
  BY <1>1, Zenon DEF OpToRel
<1>. QED
  BY <1>2

-----------------------------------------------------------------------------
(* Lines: what the loop variable x of the code runs through *)

\* x for the first n of a fleet
Lined(x, fleet, n) ==
    x = [k \in 1 .. n |->
            IF k = 1 THEN 10 ELSE x[k - 1] + Spacing(fleet[k - 1])]

LEMMA SpacingIsPositive ==
    \A type : Spacing(type) \in Nat /\ Spacing(type) >= 4
BY DEF Spacing

\* one more unit: x goes on where it was
LEMMA LineGrows ==
    ASSUME NEW fleet, NEW n \in Nat, NEW x, Lined(x, fleet, n)
    PROVE  \E y : Lined(y, fleet, n + 1)
<1> DEFINE y == [k \in 1 .. n + 1 |->
                    IF k \in 1 .. n THEN x[k]
                    ELSE IF k = 1 THEN 10 ELSE x[k - 1] + Spacing(fleet[k - 1])]
<1>1. \A k \in 1 .. n :
         x[k] = IF k = 1 THEN 10 ELSE x[k - 1] + Spacing(fleet[k - 1])
  BY DEF Lined
<1>2. \A k \in 1 .. n + 1 : k = 1 \/ y[k - 1] = x[k - 1]
  <2>1. \A k \in 1 .. n + 1 : k = 1 \/ k - 1 \in 1 .. n
    OBVIOUS
  <2>2. \A k \in 1 .. n : k \in 1 .. n + 1
    OBVIOUS
  <2>. QED
    BY <2>1, <2>2
<1>3. \A k \in 1 .. n + 1 :
         y[k] = IF k = 1 THEN 10 ELSE y[k - 1] + Spacing(fleet[k - 1])
  BY <1>1, <1>2
<1>4. y = [k \in 1 .. n + 1 |-> y[k]]
  OBVIOUS
<1> HIDE DEF y
<1>5. y = [k \in 1 .. n + 1 |->
              IF k = 1 THEN 10 ELSE y[k - 1] + Spacing(fleet[k - 1])]
  BY <1>3, <1>4
<1>. QED
  BY <1>5 DEF Lined

LEMMA LineExists ==
    ASSUME NEW fleet, NEW n \in Nat
    PROVE  \E x : Lined(x, fleet, n)
<1> DEFINE Bad == {i \in Nat : ~ \E x : Lined(x, fleet, i)}
<1>1. SUFFICES Bad = {}
  OBVIOUS
<1>2. SUFFICES ASSUME Bad # {} PROVE FALSE
  OBVIOUS
<1>3. PICK b \in Bad : \A i \in Bad : b <= i
  <2>1. Bad \in SUBSET Nat
    OBVIOUS
  <2> HIDE DEF Bad
  <2>. QED
    BY <1>2, <2>1, LeastNatural
<1>4. CASE b = 0
  <2> DEFINE x == [k \in 1 .. 0 |-> 0]
  <2>1. Lined(x, fleet, 0)
    <3>1. 1 .. 0 = {}
      OBVIOUS
    <3>. QED
      BY <3>1 DEF Lined
  <2> HIDE DEF x
  <2>. QED
    BY <1>3, <1>4, <2>1
<1>5. CASE b # 0
  <2>1. b - 1 \in Nat /\ b - 1 \notin Bad
    <3> b \in Nat
      BY <1>3
    <3> HIDE DEF Bad
    <3>. QED
      BY <1>3, <1>5
  <2>2. PICK x : Lined(x, fleet, b - 1)
    BY <2>1
  <2>3. \E y : Lined(y, fleet, b - 1 + 1)
    BY <2>1, <2>2, LineGrows, Zenon
  <2>4. b - 1 + 1 = b
    BY <1>3
  <2>. QED
    BY <1>3, <2>3, <2>4
<1>. QED
  BY <1>4, <1>5

LEMMA LineIsLined ==
    ASSUME NEW fleet \in Seq(Types)
    PROVE  Lined(Line(fleet), fleet, Len(fleet))
<1> DEFINE P(x) == x = [k \in DOMAIN fleet |->
                IF k = 1 THEN 10 ELSE x[k - 1] + Spacing(fleet[k - 1])]
<1>1. Line(fleet) = CHOOSE x : P(x)
  BY Zenon DEF Line
<1>2. DOMAIN fleet = 1 .. Len(fleet) /\ Len(fleet) \in Nat
  OBVIOUS
<1>3. PICK x : Lined(x, fleet, Len(fleet))
  BY <1>2, LineExists, Zenon
<1>4. P(x)
  BY <1>2, <1>3 DEF Lined
<1>5. P(CHOOSE y : P(y))
  <2> HIDE DEF P
  <2>. QED
    BY <1>4
<1>. QED
  BY <1>1, <1>2, <1>5 DEF Lined

\* every unit of a line is behind those before it, by their spacing at least
LEMMA LineIncreases ==
    ASSUME NEW fleet \in Seq(Types)
    PROVE  /\ \A k \in DOMAIN fleet : Line(fleet)[k] \in Nat
           /\ 1 \in DOMAIN fleet => Line(fleet)[1] = 10
           /\ \A j, k \in DOMAIN fleet :
                 j < k => Line(fleet)[j] + Spacing(fleet[j]) <= Line(fleet)[k]
<1> DEFINE x == Line(fleet)
           n == Len(fleet)
<1>1. n \in Nat /\ DOMAIN fleet = 1 .. n
  OBVIOUS
<1>2. \A k \in 1 .. n :
         x[k] = IF k = 1 THEN 10 ELSE x[k - 1] + Spacing(fleet[k - 1])
  <2>1. Lined(x, fleet, n)
    BY LineIsLined
  <2> HIDE DEF x, n
  <2>. QED
    BY <2>1 DEF Lined
<1> HIDE DEF x, n
<1> DEFINE Good(k) ==
        /\ x[k] \in Nat
        /\ \A j \in 1 .. k - 1 : x[j] + Spacing(fleet[j]) <= x[k]
<1>3. \A k \in 1 .. n : Good(k)
  <2> DEFINE Bad == {k \in 1 .. n : ~Good(k)}
  <2>1. SUFFICES ASSUME Bad # {} PROVE FALSE
    OBVIOUS
  <2>2. PICK b \in Bad : \A i \in Bad : b <= i
    <3>1. Bad \in SUBSET Nat
      BY <1>1
    <3> HIDE DEF Bad
    <3>. QED
      BY <2>1, <3>1, LeastNatural
  <2>3. b \in 1 .. n /\ ~Good(b)
    BY <2>2
  <2>4. \A k \in 1 .. n : k < b => Good(k)
    <3>1. \A k \in 1 .. n : ~Good(k) => k \in Bad
      OBVIOUS
    <3> HIDE DEF Bad, Good
    <3>. QED
      BY <1>1, <2>2, <2>3, <3>1
  <2> HIDE DEF Bad
  <2>5. CASE b = 1
    BY <1>1, <1>2, <2>3, <2>5
  <2>6. CASE b # 1
    <3>1. b - 1 \in 1 .. n /\ b - 1 < b
      BY <1>1, <2>3, <2>6
    <3>2. Good(b - 1)
      <4> HIDE DEF Good
      <4>. QED
        BY <2>4, <3>1
    <3>3. x[b] = x[b - 1] + Spacing(fleet[b - 1])
      BY <1>2, <2>3, <2>6
    <3>4. Spacing(fleet[b - 1]) \in Nat
      BY SpacingIsPositive
    <3>5. x[b] \in Nat
      BY <3>2, <3>3, <3>4
    <3>6. \A j \in 1 .. b - 1 : x[j] + Spacing(fleet[j]) <= x[b]
      <4> TAKE j \in 1 .. b - 1
      <4>1. CASE j = b - 1
        BY <3>2, <3>3, <3>4, <3>5, <4>1
      <4>2. CASE j # b - 1
        <5>1. j \in 1 .. (b - 1) - 1 /\ j \in 1 .. n /\ j < b
          BY <1>1, <2>3, <3>1, <4>2
        <5>2. x[j] + Spacing(fleet[j]) <= x[b - 1]
          BY <3>2, <5>1
        <5>3. x[j] \in Nat
          BY <2>4, <5>1
        <5>4. Spacing(fleet[j]) \in Nat
          BY SpacingIsPositive
        <5>. QED
          BY <3>2, <3>3, <3>4, <5>2, <5>3, <5>4
      <4>. QED
        BY <4>1, <4>2
    <3>. QED
      BY <2>3, <3>5, <3>6
  <2>. QED
    BY <2>5, <2>6
<1>4. \A k \in 1 .. n : x[k] \in Nat
  BY <1>3
<1>5. 1 \in 1 .. n => x[1] = 10
  BY <1>2
<1>6. \A j, k \in 1 .. n : j < k => x[j] + Spacing(fleet[j]) <= x[k]
  BY <1>1, <1>3
<1>. QED
  BY <1>1, <1>4, <1>5, <1>6 DEF x, n

-----------------------------------------------------------------------------
(* Fleets: type after type, as the loops of the code put them up *)

Rank(type) ==
    CASE type = "flagship" -> 1 [] type = "carrier" -> 2
      [] type = "destroyer" -> 3 [] type = "fighter" -> 4
      [] type = "bomber" -> 5 [] type = "elite" -> 6

\* how many of a type there are, and these in a row
Number(side, type) == IF count[side][type] < 0 THEN 0 ELSE count[side][type]
Row(type, n) == [i \in 1 .. n |-> type]

\* a fleet of types up to rank r, whose flagships are among the first f
Ranked(s, r, f) ==
    /\ s \in Seq(Types)
    /\ \A i \in DOMAIN s : Rank(s[i]) <= r /\ (s[i] = "flagship" => i <= f)
    /\ \A j, k \in DOMAIN s : j < k => Rank(s[j]) <= Rank(s[k])

Counts == count \in [Sides -> [Types -> Int]]

LEMMA Ranks ==
    \A type \in Types : Rank(type) \in 1 .. 6
BY DEF Rank, Types

LEMMA RowIsRanked ==
    ASSUME NEW type \in Types, NEW n \in Nat
    PROVE  /\ Row(type, n) \in Seq(Types) /\ Len(Row(type, n)) = n
           /\ DOMAIN Row(type, n) = 1 .. n
           /\ \A i \in 1 .. n : Row(type, n)[i] = type
           /\ type = "flagship" => Ranked(Row(type, n), 1, n)
<1>1. /\ Row(type, n) \in Seq(Types) /\ Len(Row(type, n)) = n
      /\ DOMAIN Row(type, n) = 1 .. n
      /\ \A i \in 1 .. n : Row(type, n)[i] = type
  BY DEF Row
<1>2. ASSUME type = "flagship" PROVE Ranked(Row(type, n), 1, n)
  <2>1. Rank(type) = 1
    BY <1>2 DEF Rank
  <2>. QED
    BY <1>1, <2>1 DEF Ranked
<1>. QED
  BY <1>1, <1>2

LEMMA RowAppended ==
    ASSUME NEW s, NEW r \in Nat, NEW f \in Nat, Ranked(s, r, f),
           NEW type \in Types, type # "flagship", r <= Rank(type), NEW n \in Nat
    PROVE  Ranked(s \o Row(type, n), Rank(type), f)
<1> DEFINE w == Row(type, n)
           t == s \o w
<1>1. /\ w \in Seq(Types) /\ Len(w) = n
      /\ \A i \in 1 .. n : w[i] = type
  BY RowIsRanked
<1>2. s \in Seq(Types) /\ Len(s) \in Nat /\ DOMAIN s = 1 .. Len(s)
  BY DEF Ranked
<1> HIDE DEF w
<1>3. /\ t \in Seq(Types) /\ Len(t) = Len(s) + n
      /\ DOMAIN t = 1 .. Len(s) + n
      /\ \A i \in 1 .. Len(s) : t[i] = s[i]
      /\ \A i \in Len(s) + 1 .. Len(s) + n : t[i] = w[i - Len(s)]
  BY <1>1, <1>2
<1>4. \A i \in Len(s) + 1 .. Len(s) + n : t[i] = type
  <2>1. \A i \in Len(s) + 1 .. Len(s) + n : i - Len(s) \in 1 .. n
    BY <1>2
  <2>. QED
    BY <1>1, <1>3, <2>1
<1> HIDE DEF t
<1>5. Rank(type) \in Nat
  BY Ranks
<1>6. \A i \in DOMAIN s : Rank(s[i]) \in Nat /\ Rank(s[i]) <= r
  BY <1>2, Ranks DEF Ranked
<1>7. \A i \in DOMAIN t : i \in DOMAIN s \/ i \in Len(s) + 1 .. Len(s) + n
  BY <1>2, <1>3
<1>8. \A i \in DOMAIN t :
         Rank(t[i]) <= Rank(type) /\ (t[i] = "flagship" => i <= f)
  <2> TAKE i \in DOMAIN t
  <2>1. CASE i \in DOMAIN s
    <3>1. Rank(t[i]) = Rank(s[i]) /\ (t[i] = "flagship" => i <= f)
      BY <1>2, <1>3, <2>1 DEF Ranked
    <3>. QED
      BY <1>5, <1>6, <2>1, <3>1
  <2>2. CASE i \in Len(s) + 1 .. Len(s) + n
    BY <1>4, <1>5, <2>2
  <2>. QED
    BY <1>7, <2>1, <2>2
<1>9. \A j, k \in DOMAIN t : j < k => Rank(t[j]) <= Rank(t[k])
  <2> SUFFICES ASSUME NEW j \in DOMAIN t, NEW k \in DOMAIN t, j < k
               PROVE  Rank(t[j]) <= Rank(t[k])
    OBVIOUS
  <2>1. CASE k \in DOMAIN s
    <3>1. j \in DOMAIN s
      BY <1>2, <1>3, <2>1
    <3>. QED
      BY <1>2, <1>3, <2>1, <3>1 DEF Ranked
  <2>2. CASE k \in Len(s) + 1 .. Len(s) + n
    BY <1>4, <1>8, <2>2
  <2>. QED
    BY <1>7, <2>1, <2>2
<1>10. Ranked(t, Rank(type), f)
  BY <1>3, <1>8, <1>9 DEF Ranked
<1>. QED
  BY <1>10 DEF t, w

LEMMA FleetIsRanked ==
    ASSUME Counts, NEW side \in Sides
    PROVE  Ranked(Fleet(side), 6, Number(side, "flagship"))
<1> DEFINE n(type) == Number(side, type)
           f == n("flagship")
           s1 == Row("flagship", n("flagship"))
           s2 == s1 \o Row("carrier", n("carrier"))
           s3 == s2 \o Row("destroyer", n("destroyer"))
           s4 == s3 \o Row("fighter", n("fighter"))
           s5 == s4 \o Row("bomber", n("bomber"))
           s6 == s5 \o Row("elite", n("elite"))
<1>1. \A type \in Types : n(type) \in Nat
  BY DEF Counts, Number
<1>2. /\ Rank("flagship") = 1 /\ Rank("carrier") = 2
      /\ Rank("destroyer") = 3 /\ Rank("fighter") = 4
      /\ Rank("bomber") = 5 /\ Rank("elite") = 6
  BY DEF Rank
<1>3. /\ "flagship" \in Types /\ "carrier" \in Types /\ "destroyer" \in Types
      /\ "fighter" \in Types /\ "bomber" \in Types /\ "elite" \in Types
  BY DEF Types
<1>4. Fleet(side) = s6
  BY DEF Fleet, Number, Row
<1>5. \A type \in Types : Number(side, type) \in Nat
  BY <1>1
<1> HIDE DEF n
<1>6. Ranked(s1, 1, f)
  BY <1>1, <1>3, RowIsRanked
<1> HIDE DEF s1
<1>7. f \in Nat
  BY <1>1, <1>3
<1> HIDE DEF f
<1>8. Ranked(s2, 2, f)
  BY <1>1, <1>2, <1>3, <1>6, <1>7, RowAppended
<1> HIDE DEF s2
<1>9. Ranked(s3, 3, f)
  BY <1>1, <1>2, <1>3, <1>7, <1>8, RowAppended
<1> HIDE DEF s3
<1>10. Ranked(s4, 4, f)
  BY <1>1, <1>2, <1>3, <1>7, <1>9, RowAppended
<1> HIDE DEF s4
<1>11. Ranked(s5, 5, f)
  BY <1>1, <1>2, <1>3, <1>7, <1>10, RowAppended
<1> HIDE DEF s5
<1>12. Ranked(s6, 6, f)
  BY <1>1, <1>2, <1>3, <1>7, <1>11, RowAppended
<1>. QED
  BY <1>4, <1>12 DEF f, n

LEMMA FleetTypes ==
    ASSUME Counts, NEW side \in Sides
    PROVE  /\ Fleet(side) \in Seq(Types) /\ Len(Fleet(side)) \in Nat
           /\ DOMAIN Fleet(side) = 1 .. Len(Fleet(side))
           /\ \A k \in DOMAIN Fleet(side) : Fleet(side)[k] \in Types
<1>1. Fleet(side) \in Seq(Types)
  BY FleetIsRanked DEF Ranked
<1>. QED
  BY <1>1

\* at most four ships are the first four
LEMMA ShipsComeFirst ==
    ASSUME Counts, NEW side \in Sides,
           Cardinality({k \in DOMAIN Fleet(side) : Fleet(side)[k] \in Ships}) <= 4
    PROVE  \A k \in DOMAIN Fleet(side) : Fleet(side)[k] \in Ships => k <= 4
<1> DEFINE F == Fleet(side)
           S == {k \in DOMAIN F : F[k] \in Ships}
<1> SUFFICES ASSUME NEW k \in DOMAIN F, F[k] \in Ships
             PROVE  k <= 4
  OBVIOUS
<1>1. /\ F \in Seq(Types) /\ Len(F) \in Nat /\ DOMAIN F = 1 .. Len(F)
      /\ \A i \in DOMAIN F : F[i] \in Types
  BY FleetTypes
<1>2. \A i, j \in DOMAIN F : i < j => Rank(F[i]) <= Rank(F[j])
  BY FleetIsRanked DEF Ranked
<1>3. Cardinality(S) <= 4
  OBVIOUS
<1> HIDE DEF F
<1>4. \A t \in Types : t \in Ships <=> Rank(t) <= 3
  BY DEF Types, Ships, Rank
<1>5. 1 .. k \subseteq S
  <2> SUFFICES ASSUME NEW i \in 1 .. k
               PROVE  i \in DOMAIN F /\ F[i] \in Ships
    OBVIOUS
  <2>1. i \in DOMAIN F /\ k \in Nat
    BY <1>1
  <2>2. Rank(F[i]) <= Rank(F[k])
    <3>1. Rank(F[k]) \in Nat
      BY <1>1, Ranks
    <3>. QED
      BY <1>2, <2>1, <3>1
  <2>3. Rank(F[i]) \in Nat /\ Rank(F[k]) \in Nat /\ Rank(F[k]) <= 3
    BY <1>1, <1>4, <2>1, Ranks
  <2>. QED
    BY <1>1, <1>4, <2>1, <2>2, <2>3
<1>6. IsFiniteSet(S)
  <2>1. IsFiniteSet(1 .. Len(F))
    BY <1>1, FS_Interval
  <2>2. S \subseteq 1 .. Len(F)
    BY <1>1
  <2> HIDE DEF S
  <2>. QED
    BY <2>1, <2>2, FS_Subset
<1>7. Cardinality(1 .. k) = k /\ k \in Nat
  <2>1. k \in Nat /\ k >= 1
    BY <1>1
  <2>. QED
    BY <2>1, FS_Interval
<1>8. Cardinality(1 .. k) <= Cardinality(S)
  <2> HIDE DEF S
  <2>. QED
    BY <1>5, <1>6, FS_Subset
<1>9. Cardinality(S) \in Nat
  BY <1>6, FS_CardinalityType
<1>. QED
  BY <1>3, <1>7, <1>8, <1>9

-----------------------------------------------------------------------------
(* Footprints that are apart *)

Gap(i) == IF i < 0 THEN -i ELSE i
Away(p, q) == Gap(p[1] - q[1]) + Gap(p[2] - q[2])

LEMMA FootprintReach ==
    ASSUME NEW c \in Int \X Int, NEW size \in 1 .. 3,
           NEW p \in Footprint(c, size)
    PROVE  p \in Int \X Int /\ Away(p, c) <= size - 1
<1>1. PICK d \in Pattern(size) : p = Plus(c, d)
  BY DEF Footprint
<1>2. d \in Int \X Int /\ Gap(d[1]) + Gap(d[2]) <= size - 1
  BY <1>1 DEF Pattern, Gap
<1>3. c[1] \in Int /\ c[2] \in Int /\ d[1] \in Int /\ d[2] \in Int
  BY <1>2
<1>4. p[1] = c[1] + d[1] /\ p[2] = c[2] + d[2] /\ p = <<p[1], p[2]>>
  BY <1>1 DEF Plus
<1>5. p[1] - c[1] = d[1] /\ p[2] - c[2] = d[2]
  BY <1>3, <1>4
<1>. QED
  BY <1>2, <1>3, <1>4, <1>5 DEF Away

LEMMA FarApart ==
    ASSUME NEW b \in Int \X Int, NEW c \in Int \X Int,
           NEW m \in 1 .. 3, NEW n \in 1 .. 3,
           Away(b, c) > (m - 1) + (n - 1)
    PROVE  Footprint(b, m) \cap Footprint(c, n) = {}
<1> SUFFICES ASSUME NEW p \in Footprint(b, m), p \in Footprint(c, n)
             PROVE  FALSE
  OBVIOUS
<1>1. p \in Int \X Int /\ Away(p, b) <= m - 1 /\ Away(p, c) <= n - 1
  BY FootprintReach
<1>2. /\ p[1] \in Int /\ p[2] \in Int /\ b[1] \in Int /\ b[2] \in Int
      /\ c[1] \in Int /\ c[2] \in Int
  BY <1>1
<1>. QED
  BY <1>1, <1>2 DEF Away, Gap

-----------------------------------------------------------------------------
(* Corners *)

\* how far from its side's corner the k-th of a side is
Diagonal(side, type, k) ==
    CASE type = "flagship"  -> (IF side = "republic" THEN 5 ELSE 6) + (k - 1) * 4
      [] type = "carrier"   -> (IF side = "republic" THEN 5 ELSE 8) + (k - 1) * 3
      [] type = "destroyer" -> (IF side = "republic" THEN 8 ELSE 11) + (k - 1) * 3
      [] type = "fighter"   -> (IF side = "republic" THEN 10 ELSE 13) + (k - 1) * 2
      [] type = "bomber"    -> (IF side = "republic" THEN 12 ELSE 15) + (k - 1) * 2
      [] type = "elite"     -> (IF side = "republic" THEN 14 ELSE 17) + (k - 1) * 2

\* flagships, ships and squadrons as in the tables of the code
Reach(type) ==
    CASE type = "flagship" -> 2 [] type \in {"carrier", "destroyer"} -> 1
      [] OTHER -> 0

LEMMA CornerIsDiagonal ==
    ASSUME Counts, map \in [width : Int, height : Int],
           NEW side \in Sides, NEW k \in DOMAIN Fleet(side)
    PROVE  LET d == Diagonal(side, Fleet(side)[k], k)
           IN  /\ d \in Int
               /\ CornerSpot(side, k) =
                    IF side = "republic" THEN <<d, d>>
                    ELSE <<map.width - d, map.height - d>>
<1> DEFINE t == Fleet(side)[k]
           w == map.width
           h == map.height
<1>1. k \in Nat /\ k >= 1 /\ t \in Types
  BY FleetTypes
<1>2. CornerSpot(side, k) =
         LET step == CASE t = "flagship" -> 4
                       [] t \in {"carrier", "destroyer"} -> 3
                       [] OTHER -> 2
             near == CASE t \in {"flagship", "carrier"} -> 5
                       [] t = "destroyer" -> 8
                       [] t = "fighter" -> 10
                       [] t = "bomber" -> 12
                       [] t = "elite" -> 14
             far == IF t = "flagship" THEN near + 1 ELSE near + 3
             way == (k - 1) * step
         IN  IF side = "republic" THEN <<near + way, near + way>>
             ELSE <<w - far - way, h - far - way>>
  BY Zenon DEF CornerSpot
<1>3. w \in Int /\ h \in Int
  OBVIOUS
<1> HIDE DEF t, w, h
<1>4. CASE t = "flagship"
  BY <1>1, <1>2, <1>3, <1>4 DEF Diagonal, t, w, h
<1>5. CASE t = "carrier"
  BY <1>1, <1>2, <1>3, <1>5 DEF Diagonal, t, w, h
<1>6. CASE t = "destroyer"
  BY <1>1, <1>2, <1>3, <1>6 DEF Diagonal, t, w, h
<1>7. CASE t = "fighter"
  BY <1>1, <1>2, <1>3, <1>7 DEF Diagonal, t, w, h
<1>8. CASE t = "bomber"
  BY <1>1, <1>2, <1>3, <1>8 DEF Diagonal, t, w, h
<1>9. CASE t = "elite"
  BY <1>1, <1>2, <1>3, <1>9 DEF Diagonal, t, w, h
<1>. QED
  BY <1>1, <1>4, <1>5, <1>6, <1>7, <1>8, <1>9 DEF Types

\* with two flagships and four ships at most, those behind are clear of those
\* before
LEMMA DiagonalsAreApart ==
    ASSUME NEW side \in Sides, NEW a \in Types, NEW b \in Types,
           NEW j \in Nat \ {0}, NEW k \in Nat \ {0}, j < k,
           Rank(a) <= Rank(b),
           a = "flagship" => j <= 2, b = "flagship" => k <= 2,
           a \in Ships => j <= 4, b \in Ships => k <= 4
    PROVE  2 * (Diagonal(side, b, k) - Diagonal(side, a, j))
               > Reach(a) + Reach(b)
<1>1. CASE a = "flagship"
  BY <1>1 DEF Types, Rank, Ships, Diagonal, Reach
<1>2. CASE a = "carrier"
  BY <1>2 DEF Types, Rank, Ships, Diagonal, Reach
<1>3. CASE a = "destroyer"
  BY <1>3 DEF Types, Rank, Ships, Diagonal, Reach
<1>4. CASE a = "fighter"
  BY <1>4 DEF Types, Rank, Ships, Diagonal, Reach
<1>5. CASE a = "bomber"
  BY <1>5 DEF Types, Rank, Ships, Diagonal, Reach
<1>6. CASE a = "elite"
  BY <1>6 DEF Types, Rank, Ships, Diagonal, Reach
<1>. QED
  BY <1>1, <1>2, <1>3, <1>4, <1>5, <1>6 DEF Types

-----------------------------------------------------------------------------
(* Spots of an orderly formation *)

\* u is what Generate makes of the k-th of a side
Built(u, side, k) ==
    /\ u \in Units
    /\ k \in DOMAIN Fleet(side)
    /\ u.type = Fleet(side)[k] /\ u.side = side
    /\ u.pos \in Spots(side, k)

Clear(u, v) == Away(u.pos, v.pos) > Reach(u.type) + Reach(v.type)

Maps == map \in [width : Int, height : Int]

LEMMA BuiltOnLine ==
    ASSUME mode = "line", NEW side \in Sides, NEW k, NEW u, Built(u, side, k)
    PROVE  /\ u.pos[1] = Line(Fleet(side))[k]
           /\ u.pos[2] = IF side = "republic" THEN map.height \div 3
                         ELSE (map.height * 2) \div 3
BY DEF Built, Spots, LineSpot

LEMMA BuiltOnDiagonal ==
    ASSUME Counts, Maps, mode # "line", mode # "random",
           NEW side \in Sides, NEW k, NEW u, Built(u, side, k)
    PROVE  LET d == Diagonal(side, u.type, k)
           IN  /\ d \in Int
               /\ u.pos[1] = IF side = "republic" THEN d ELSE map.width - d
               /\ u.pos[2] = IF side = "republic" THEN d ELSE map.height - d
<1>1. u.pos = CornerSpot(side, k) /\ u.type = Fleet(side)[k]
         /\ k \in DOMAIN Fleet(side)
  BY DEF Built, Spots
<1>2. LET d == Diagonal(side, Fleet(side)[k], k)
      IN  /\ d \in Int
          /\ CornerSpot(side, k) =
               IF side = "republic" THEN <<d, d>>
               ELSE <<map.width - d, map.height - d>>
  BY <1>1, CornerIsDiagonal DEF Maps
<1>. QED
  BY <1>1, <1>2

LEMMA UnitParts ==
    ASSUME NEW u \in Units
    PROVE  /\ u.type \in Types /\ u.side \in Sides /\ u.pos \in Int \X Int
           /\ u.pos[1] \in Int /\ u.pos[2] \in Int
           /\ Reach(u.type) \in 0 .. 2
BY DEF Units, Reach

LEMMA SameSideIsClear ==
    ASSUME Counts, Maps, Orderly, NEW side \in Sides,
           NEW j, NEW k, NEW u, NEW v,
           Built(u, side, j), Built(v, side, k), j < k
    PROVE  Clear(u, v)
<1> DEFINE F == Fleet(side)
<1>1. /\ j \in DOMAIN F /\ k \in DOMAIN F
      /\ u.type = F[j] /\ v.type = F[k] /\ u \in Units /\ v \in Units
  BY DEF Built
<1>2. /\ F \in Seq(Types) /\ Len(F) \in Nat /\ DOMAIN F = 1 .. Len(F)
  BY FleetTypes
<1>3. /\ u.pos[1] \in Int /\ u.pos[2] \in Int
      /\ v.pos[1] \in Int /\ v.pos[2] \in Int
      /\ Reach(u.type) \in 0 .. 2 /\ Reach(v.type) \in 0 .. 2
      /\ u.type \in Types /\ v.type \in Types
  BY <1>1, UnitParts
<1> HIDE DEF F
<1>4. CASE mode = "line"
  <2>1. u.pos[1] = Line(F)[j] /\ v.pos[1] = Line(F)[k]
    BY <1>4, BuiltOnLine DEF F
  <2>2. Line(F)[j] + Spacing(F[j]) <= Line(F)[k]
    BY <1>1, <1>2, LineIncreases
  <2>3. Spacing(F[j]) \in Nat /\ Spacing(F[j]) > Reach(F[j]) + 2
    BY <1>1, <1>3 DEF Types, Spacing, Reach
  <2>4. Spacing(F[j]) \in Nat /\ Spacing(F[j]) > Reach(u.type) + Reach(v.type)
    BY <1>1, <1>3, <2>3
  <2>5. Gap(u.pos[1] - v.pos[1]) > Reach(u.type) + Reach(v.type)
    BY <1>1, <1>3, <2>1, <2>2, <2>4 DEF Gap
  <2>6. Gap(u.pos[1] - v.pos[1]) \in Nat /\ Gap(u.pos[2] - v.pos[2]) \in Nat
    BY <1>3 DEF Gap
  <2>. QED
    BY <1>3, <2>5, <2>6 DEF Clear, Away
<1>5. CASE mode # "line"
  <2>1. mode # "random" /\ count[side]["flagship"] <= 2
          /\ Cardinality({i \in DOMAIN F : F[i] \in Ships}) <= 4
    BY <1>5 DEF Orderly, F
  <2>2. \A i \in DOMAIN F : F[i] \in Ships => i <= 4
    BY <2>1, ShipsComeFirst DEF F
  <2>3. /\ \A i \in DOMAIN F : F[i] = "flagship" => i <= Number(side, "flagship")
        /\ Rank(F[j]) <= Rank(F[k])
    BY <1>1, FleetIsRanked DEF Ranked, F
  <2>4. Number(side, "flagship") \in Int /\ Number(side, "flagship") <= 2
    <3>1. count[side]["flagship"] \in Int
      BY DEF Counts, Types
    <3>. QED
      BY <2>1, <3>1 DEF Number
  <2>5. \A i \in DOMAIN F : F[i] = "flagship" => i <= 2
    BY <1>2, <2>3, <2>4
  <2> DEFINE d == Diagonal(side, u.type, j)
             e == Diagonal(side, v.type, k)
  <2>6. 2 * (e - d) > Reach(u.type) + Reach(v.type)
    <3>1. j \in Nat \ {0} /\ k \in Nat \ {0}
      BY <1>1, <1>2
    <3>. QED
      BY <1>1, <1>3, <2>2, <2>3, <2>5, <3>1, DiagonalsAreApart
  <2>7. /\ d \in Int /\ e \in Int
        /\ u.pos[1] = IF side = "republic" THEN d ELSE map.width - d
        /\ u.pos[2] = IF side = "republic" THEN d ELSE map.height - d
        /\ v.pos[1] = IF side = "republic" THEN e ELSE map.width - e
        /\ v.pos[2] = IF side = "republic" THEN e ELSE map.height - e
    BY <1>5, <2>1, BuiltOnDiagonal
  <2> HIDE DEF d, e
  <2>8. map.width \in Int /\ map.height \in Int
    BY DEF Maps
  <2>. QED
    BY <1>3, <2>6, <2>7, <2>8 DEF Clear, Away, Gap
<1>. QED
  BY <1>4, <1>5

LEMMA OtherSideIsClear ==
    ASSUME Counts, Maps, map.height >= 14, Orderly,
           NEW j, NEW k, NEW u, NEW v,
           Built(u, "republic", j), Built(v, "cis", k)
    PROVE  Clear(u, v)
<1>1. "republic" \in Sides /\ "cis" \in Sides /\ "republic" # "cis"
  BY DEF Sides
<1>2. u \in Units /\ v \in Units
  BY DEF Built
<1>3. /\ u.pos[1] \in Int /\ u.pos[2] \in Int
      /\ v.pos[1] \in Int /\ v.pos[2] \in Int
      /\ Reach(u.type) \in 0 .. 2 /\ Reach(v.type) \in 0 .. 2
  BY <1>2, UnitParts
<1>4. map.width \in Int /\ map.height \in Int
  BY DEF Maps
<1>5. CASE mode = "line"
  <2>1. u.pos[2] = map.height \div 3 /\ v.pos[2] = (map.height * 2) \div 3
    BY <1>1, <1>5, BuiltOnLine
  <2>2. v.pos[2] - u.pos[2] > 4
    BY <1>4, <2>1
  <2>. QED
    BY <1>3, <2>2 DEF Clear, Away, Gap
<1>6. CASE mode # "line"
  <2>1. mode # "random" /\ map.width > map.height + 4
    BY <1>6 DEF Orderly
  <2> DEFINE d == Diagonal("republic", u.type, j)
             e == Diagonal("cis", v.type, k)
  <2>2. /\ d \in Int /\ e \in Int
        /\ u.pos[1] = d /\ u.pos[2] = d
        /\ v.pos[1] = map.width - e /\ v.pos[2] = map.height - e
    BY <1>1, <1>6, <2>1, BuiltOnDiagonal
  <2> HIDE DEF d, e
  <2>. QED
    BY <1>3, <1>4, <2>1, <2>2 DEF Clear, Away, Gap
<1>. QED
  BY <1>5, <1>6

LEMMA ClearIsSymmetric ==
    ASSUME NEW u \in Units, NEW v \in Units, Clear(u, v)
    PROVE  Clear(v, u)
BY UnitParts DEF Clear, Away, Gap

LEMMA SpotsAreClear ==
    ASSUME Counts, Maps, map.height >= 14, Orderly,
           NEW r \in Sides, NEW s \in Sides, NEW j, NEW k, NEW u, NEW v,
           Built(u, r, j), Built(v, s, k), r # s \/ j # k
    PROVE  Clear(u, v)
<1>1. u \in Units /\ v \in Units
  BY DEF Built
<1>2. CASE r # s
  <2>1. \/ r = "republic" /\ s = "cis"
        \/ r = "cis" /\ s = "republic"
    BY <1>2 DEF Sides
  <2>. QED
    BY <1>1, <2>1, OtherSideIsClear, ClearIsSymmetric
<1>3. CASE r = s
  <2>1. j \in Nat /\ k \in Nat
    <3>1. j \in DOMAIN Fleet(r) /\ k \in DOMAIN Fleet(s)
      BY DEF Built
    <3>. QED
      BY <3>1, FleetTypes
  <2>2. j < k \/ k < j
    BY <1>3, <2>1
  <2>. QED
    BY <1>1, <1>3, <2>2, SameSideIsClear, ClearIsSymmetric
<1>. QED
  BY <1>2, <1>3

-----------------------------------------------------------------------------
(* Types *)

LEMMA TypedMaps ==
    ASSUME TypeOK
    PROVE  /\ Maps /\ Counts
           /\ map.width \in 40..200 \cup {M} /\ map.height \in 20..100 \cup {N}
           /\ map.width \in Nat /\ map.height \in Nat
<1>1. M \in Nat /\ N \in Nat
  BY GridAssumption
<1>2. /\ map \in [width : 40..200 \cup {M}, height : 20..100 \cup {N}]
      /\ Counts
  BY DEF TypeOK, Counts
<1>3. 40..200 \cup {M} \subseteq Nat /\ 20..100 \cup {N} \subseteq Nat
  BY <1>1
<1>4. map \in [width : Int, height : Int]
  BY <1>2, <1>3
<1>. QED
  BY <1>2, <1>3, <1>4 DEF Maps

LEMMA TypesAtFirst ==
    Init => TypeOK
<1> SUFFICES ASSUME Init PROVE TypeOK
  OBVIOUS
<1> USE ScenarioAssumption DEF Init
<1>1. map \in [width : 40..200 \cup {M}, height : 20..100 \cup {N}]
  OBVIOUS
<1>2. count \in [Sides -> [Types -> Int]]
  <2> DEFINE n(t) == CASE t \in {"carrier", "destroyer"} -> 1
                       [] t = "elite" -> 2
                       [] OTHER -> 0
  <2>1. \A t \in Types : n(t) \in Int
    OBVIOUS
  <2>2. count = [s \in Sides |-> [t \in Types |-> n(t)]]
    OBVIOUS
  <2> HIDE DEF n
  <2>3. [t \in Types |-> n(t)] \in [Types -> Int]
    BY <2>1
  <2>. QED
    BY <2>2, <2>3
<1>3. units \in Seq(Units) /\ Len(units) = 0
  OBVIOUS
<1>4. obstacles \in Seq(Int \X Int) /\ Len(obstacles) = 0
  OBVIOUS
<1>5. slots \in Seq(Units \cup {LEAKED}) /\ DOMAIN cells = {}
  OBVIOUS
<1>6. /\ phase \in {"loading", "generating", "placing", "spawning", "running"}
      /\ lines \in 0 .. MaxLines /\ forks \in 0 .. MaxForkFailures
      /\ mode \in PlacementLines \cup {"corners"} /\ next \in Nat \ {0}
  OBVIOUS
<1>7. generated \in BOOLEAN
  OBVIOUS
<1>. QED
  BY <1>1, <1>2, <1>3, <1>4, <1>5, <1>6, <1>7 DEF TypeOK

\* ADD_UNIT keeps a unit that is on the map or the array as it was
LEMMA UnitsGrow ==
    ASSUME TypeOK, NEW side \in Sides, NEW k \in DOMAIN Fleet(side),
           Generate(side, k)
    PROVE  /\ units' \in Seq(Units) /\ Len(units') <= MAX_INITIAL_UNITS
           /\ \/ units' = units
              \/ \E u : /\ Built(u, side, k) /\ OnMap(u.pos)
                        /\ units' = Append(units, u)
<1>1. /\ units \in Seq(Units) /\ Len(units) <= MAX_INITIAL_UNITS
      /\ Len(units) \in Nat /\ MAX_INITIAL_UNITS \in Nat
  BY ScenarioAssumption DEF TypeOK
<1>2. Fleet(side)[k] \in Types
  BY TypedMaps, FleetTypes
<1>3. map.width \in Nat /\ map.height \in Nat
  BY TypedMaps
<1>4. PICK p \in Spots(side, k) :
         AddUnit([type |-> Fleet(side)[k], side |-> side, pos |-> p])
  BY Zenon DEF Generate
<1> DEFINE u == [type |-> Fleet(side)[k], side |-> side, pos |-> p]
<1>5. \/ units' = units
      \/ Len(units) < MAX_INITIAL_UNITS /\ OnMap(p) /\ units' = Append(units, u)
  BY <1>4 DEF AddUnit
<1>6. CASE units' = units
  BY <1>1, <1>6
<1>7. CASE Len(units) < MAX_INITIAL_UNITS /\ OnMap(p) /\ units' = Append(units, u)
  <2>1. p \in Int \X Int
    BY <1>3, <1>7 DEF OnMap
  <2>2. u \in Units
    BY <1>2, <2>1 DEF Units
  <2>3. Built(u, side, k) /\ OnMap(u.pos)
    BY <1>4, <1>7, <2>2 DEF Built
  <2> HIDE DEF u
  <2>. QED
    BY <1>1, <1>7, <2>2, <2>3
<1>. QED
  BY <1>5, <1>6, <1>7

LEMMA PutKeepsTypes ==
    ASSUME TypeOK, NEW points \in SUBSET Points, NEW value,
           cells' = Put(value, points),
           DOMAIN slots \subseteq DOMAIN slots',
           value \in DOMAIN slots' \cup {OBSTACLE}
    PROVE  /\ DOMAIN cells' = DOMAIN cells \cup points
           /\ DOMAIN cells' \subseteq Points
           /\ \A p \in DOMAIN cells' :
                 /\ cells'[p] \in DOMAIN slots' \cup {OBSTACLE}
                 /\ cells'[p] = IF p \in points THEN value ELSE cells[p]
<1>1. DOMAIN cells \subseteq Points
         /\ \A p \in DOMAIN cells : cells[p] \in DOMAIN slots \cup {OBSTACLE}
  BY DEF TypeOK
<1>2. cells' = [p \in DOMAIN cells \cup points |->
                   IF p \in points THEN value ELSE cells[p]]
  BY DEF Put
<1>. QED
  BY <1>1, <1>2

LEMMA SlotTaken ==
    ASSUME TypeOK, NEW e \in Units \cup {LEAKED}, slots' = Append(slots, e)
    PROVE  /\ slots' \in Seq(Units \cup {LEAKED})
           /\ Len(slots') = Len(slots) + 1 /\ Len(slots) \in Nat
           /\ DOMAIN slots = 1 .. Len(slots)
           /\ DOMAIN slots' = 1 .. Len(slots) + 1
           /\ DOMAIN slots \subseteq DOMAIN slots'
           /\ slots'[Len(slots) + 1] = e
           /\ \A i \in DOMAIN slots : slots'[i] = slots[i]
<1>1. slots \in Seq(Units \cup {LEAKED})
  BY DEF TypeOK
<1> DEFINE S == Units \cup {LEAKED}
<1>2. slots \in Seq(S) /\ e \in S
  BY <1>1
<1> HIDE DEF S
<1>3. /\ slots' \in Seq(S)
      /\ Len(slots') = Len(slots) + 1 /\ Len(slots) \in Nat
      /\ DOMAIN slots = 1 .. Len(slots)
      /\ DOMAIN slots' = 1 .. Len(slots) + 1
      /\ slots'[Len(slots) + 1] = e
      /\ \A i \in DOMAIN slots : slots'[i] = slots[i]
  BY <1>2
<1>4. DOMAIN slots \subseteq DOMAIN slots'
  BY <1>3
<1>. QED
  BY <1>3, <1>4 DEF S

LEMMA TypesKept ==
    TypeOK /\ [Next]_vars => TypeOK'
<1> SUFFICES ASSUME TypeOK, [Next]_vars
             PROVE  TypeOK'
  OBVIOUS
<1> USE ScenarioAssumption, GridAssumption
<1>1. CASE Read /\ UNCHANGED <<obstacles, units>>
           /\ map' \in [width : 40..200 \cup {M}, height : 20..100 \cup {N}]
           /\ mode' \in PlacementLines \cup {"corners"}
           /\ count' \in [Sides -> [Types -> Int]]
  BY <1>1 DEF TypeOK, Read
<1>2. CASE ReadMap
  <2>1. PICK n \in MapLines :
           \/ map' = [map EXCEPT !.width = IF n \in 40..200 THEN n ELSE M]
           \/ map' = [map EXCEPT !.height = IF n \in 20..100 THEN n ELSE N]
    BY <1>2 DEF ReadMap
  <2>2. map' \in [width : 40..200 \cup {M}, height : 20..100 \cup {N}]
    <3> DEFINE W == 40..200 \cup {M}
               H == 20..100 \cup {N}
               w == IF n \in 40..200 THEN n ELSE M
               h == IF n \in 20..100 THEN n ELSE N
    <3>1. w \in W /\ h \in H
      OBVIOUS
    <3>2. map \in [width : W, height : H]
      BY DEF TypeOK
    <3>3. map' = [map EXCEPT !.width = w] \/ map' = [map EXCEPT !.height = h]
      BY <2>1
    <3> HIDE DEF W, H, w, h
    <3>4. map' \in [width : W, height : H]
      BY <3>1, <3>2, <3>3
    <3>. QED
      BY <3>4 DEF W, H
  <2>. QED
    BY <1>1, <1>2, <2>2 DEF ReadMap, TypeOK
<1>3. CASE ReadObstacle
  <2>1. PICK p \in ObstacleLines : obstacles' = Append(obstacles, p)
    BY <1>3 DEF ReadObstacle
  <2>2. /\ obstacles' \in Seq(Int \X Int)
        /\ Len(obstacles') <= MAX_OBSTACLES
    <3> DEFINE P == Int \X Int
    <3>1. p \in P /\ obstacles \in Seq(P) /\ Len(obstacles) < MAX_OBSTACLES
      BY <1>3 DEF TypeOK, ReadObstacle
    <3> HIDE DEF P
    <3>2. obstacles' \in Seq(P) /\ Len(obstacles') <= MAX_OBSTACLES
      BY <2>1, <3>1
    <3>. QED
      BY <3>2 DEF P
  <2>. QED
    BY <1>3, <2>2 DEF ReadObstacle, Read, TypeOK
<1>4. CASE ReadCount
  <2>1. PICK l \in CountLines : count' = [count EXCEPT ![l.side][l.type] = l.n]
    BY <1>4 DEF ReadCount
  <2>2. l.side \in Sides /\ l.type \in Types /\ l.n \in Int
    OBVIOUS
  <2>3. count' \in [Sides -> [Types -> Int]]
    BY <2>1, <2>2 DEF TypeOK
  <2>. QED
    BY <1>1, <1>4, <2>3 DEF ReadCount, TypeOK
<1>5. CASE ReadPlacement
  BY <1>1, <1>5 DEF ReadPlacement, TypeOK
<1>6. CASE ReadUnit
  <2>1. PICK u \in UnitLines : units' = Append(units, u)
    BY <1>6 DEF ReadUnit
  <2>2. units' \in Seq(Units) /\ Len(units') <= MAX_INITIAL_UNITS
    <3>1. u \in Units /\ units \in Seq(Units) /\ Len(units) < MAX_INITIAL_UNITS
      BY <1>6 DEF TypeOK, ReadUnit
    <3>. QED
      BY <2>1, <3>1
  <2>. QED
    BY <1>6, <2>2 DEF ReadUnit, Read, scenario, TypeOK
<1>7. CASE Loaded
  BY <1>7 DEF Loaded, scenario, TypeOK
<1>8. ASSUME NEW side \in Sides, NEW k \in DOMAIN Fleet(side),
             Generate(side, k)
      PROVE  TypeOK'
  <2>1. units' \in Seq(Units) /\ Len(units') <= MAX_INITIAL_UNITS
    BY <1>8, UnitsGrow
  <2>2. /\ UNCHANGED <<phase, lines, map, mode, count, obstacles>>
        /\ UNCHANGED <<generated, cells, slots, forks>>
        /\ next' = next + 1
    BY <1>8 DEF Generate, scenario
  <2>. QED
    BY <2>1, <2>2 DEF TypeOK
<1>9. CASE Generated
  BY <1>9 DEF Generated, scenario, TypeOK
<1>10. CASE PutObstacles
  <2>1. /\ ToSet(obstacles) \cap Points \in SUBSET Points
        /\ cells' = Put(OBSTACLE, ToSet(obstacles) \cap Points)
        /\ slots' = slots
    BY <1>10 DEF PutObstacles
  <2>2. /\ DOMAIN cells' \subseteq Points
        /\ \A p \in DOMAIN cells' : cells'[p] \in DOMAIN slots' \cup {OBSTACLE}
    BY <2>1, PutKeepsTypes
  <2>. QED
    BY <1>10, <2>2 DEF PutObstacles, scenario, TypeOK
<1>11. ASSUME NextUnit PROVE units[next] \in Units \cup {LEAKED}
                             /\ next' \in Nat \ {0}
  BY <1>11 DEF NextUnit, TypeOK
<1>12. CASE SpawnUnit
  <2>1. /\ slots' = Append(slots, units[next])
        /\ cells' = Put(Len(slots'), Footprint(units[next].pos,
                            SizeOf[units[next].type]) \cap Points)
        /\ NextUnit /\ forks' = forks
    BY <1>12, Zenon DEF SpawnUnit
  <2>2. /\ slots' \in Seq(Units \cup {LEAKED})
        /\ DOMAIN slots \subseteq DOMAIN slots'
        /\ Len(slots') \in DOMAIN slots'
    BY <1>11, <2>1, SlotTaken
  <2>3. /\ DOMAIN cells' \subseteq Points
        /\ \A p \in DOMAIN cells' : cells'[p] \in DOMAIN slots' \cup {OBSTACLE}
    BY <2>1, <2>2, PutKeepsTypes
  <2>. QED
    BY <1>11, <2>1, <2>2, <2>3 DEF NextUnit, scenario, TypeOK
<1>13. ASSUME NextUnit, slots' = Append(slots, LEAKED), cells' = cells,
              forks' \in 0 .. MaxForkFailures
       PROVE  TypeOK'
  <2>1. /\ slots' \in Seq(Units \cup {LEAKED})
        /\ DOMAIN slots \subseteq DOMAIN slots'
    BY <1>13, SlotTaken
  <2>. QED
    BY <1>11, <1>13, <2>1 DEF NextUnit, scenario, TypeOK
<1>14. CASE SkipUnit
  BY <1>13, <1>14 DEF SkipUnit, TypeOK
<1>15. CASE ForkFails
  <2>1. forks' \in 0 .. MaxForkFailures
    BY <1>15 DEF ForkFails, TypeOK
  <2>. QED
    BY <1>13, <1>15, <2>1 DEF ForkFails
<1>16. CASE Spawned
  BY <1>16 DEF Spawned, scenario, TypeOK
<1>17. CASE UNCHANGED vars
  BY <1>17 DEF vars, scenario, TypeOK
<1>. QED
  BY <1>2, <1>3, <1>4, <1>5, <1>6, <1>7, <1>8, <1>9, <1>10, <1>12, <1>14,
     <1>15, <1>16, <1>17 DEF Next

\* Types, for every file, field and array size: the arrays of units and of
\* obstacles are never written behind their end, whatever scenario_load reads
THEOREM ScenarioTypes ==
    Spec => []TypeOK
<1>1. Init => TypeOK
  BY TypesAtFirst
<1>2. TypeOK /\ [Next]_vars => TypeOK'
  BY TypesKept
<1>. QED
  BY <1>1, <1>2, PTL DEF Spec

-----------------------------------------------------------------------------
(* Units put up by the program *)

Phases ==
    /\ phase = "loading" => generated = FALSE
    /\ phase = "generating" => generated = TRUE
    /\ phase \in {"loading", "placing"} => next = 1
    /\ phase \in {"loading", "generating", "placing"} => slots = <<>>

\* when the k-th of a side is put up, and what has been put up
Turn(side, k) ==
    IF side = "republic" THEN k ELSE Len(Fleet("republic")) + k
PutUp == {units[i] : i \in DOMAIN units}

\* each unit is on the map, on a spot of its own turn
Placement ==
    generated =>
        \A u \in PutUp :
            /\ OnMap(u.pos)
            /\ \E s \in Sides, k \in Nat :
                  Built(u, s, k) /\ (phase = "generating" => Turn(s, k) < next)

LEMMA PhasesKept ==
    ASSUME Phases, [Next]_vars
    PROVE  Phases'
<1> USE DEF Phases
<1>1. CASE ReadMap \/ ReadObstacle \/ ReadCount \/ ReadPlacement \/ ReadUnit
  BY <1>1 DEF ReadMap, ReadObstacle, ReadCount, ReadPlacement, ReadUnit, Read
<1>2. CASE Loaded
  BY <1>2 DEF Loaded
<1>3. ASSUME NEW side \in Sides, NEW k \in DOMAIN Fleet(side),
             Generate(side, k)
      PROVE  Phases'
  BY <1>3 DEF Generate
<1>4. CASE Generated \/ PutObstacles \/ Spawned
  BY <1>4 DEF Generated, PutObstacles, Spawned
<1>5. CASE SpawnUnit \/ SkipUnit \/ ForkFails
  <2>1. NextUnit
    BY <1>5, Zenon DEF SpawnUnit, SkipUnit, ForkFails
  <2>. QED
    BY <2>1 DEF NextUnit
<1>6. CASE UNCHANGED vars
  BY <1>6 DEF vars
<1>. QED
  BY <1>1, <1>2, <1>3, <1>4, <1>5, <1>6 DEF Next

\* what a step may do to the units put up by the program
LEMMA UnitSteps ==
    ASSUME Phases, [Next]_vars
    PROVE  \/ generated' = FALSE
           \/ /\ units' = <<>> /\ phase' = "generating" /\ next' = 1
              /\ UNCHANGED <<map, mode, count>>
           \/ \E s \in Sides : \E k \in DOMAIN Fleet(s) : Generate(s, k)
           \/ /\ UNCHANGED <<map, mode, count, units, generated>>
              /\ \/ Generated /\ phase' = "placing"
                 \/ phase # "generating" /\ phase' # "generating"
                 \/ phase' = phase /\ next' = next
<1>1. CASE ReadMap \/ ReadObstacle \/ ReadCount \/ ReadPlacement \/ ReadUnit
  BY <1>1 DEF Phases, ReadMap, ReadObstacle, ReadCount, ReadPlacement,
              ReadUnit, Read
<1>2. CASE Loaded
  BY <1>2 DEF Phases, Loaded, scenario
<1>3. CASE Generated \/ PutObstacles \/ Spawned
  BY <1>3 DEF Generated, PutObstacles, Spawned, scenario
<1>4. CASE SpawnUnit \/ SkipUnit \/ ForkFails
  <2>1. NextUnit
    BY <1>4, Zenon DEF SpawnUnit, SkipUnit, ForkFails
  <2>. QED
    BY <2>1 DEF NextUnit, scenario
<1>5. CASE UNCHANGED vars
  BY <1>5 DEF vars, scenario
<1>. QED
  BY <1>1, <1>2, <1>3, <1>4, <1>5 DEF Next

\* fleets and formations are those of the file: nothing changes them later
LEMMA SameScenario ==
    ASSUME map' = map, mode' = mode, count' = count
    PROVE  /\ \A s : Fleet(s)' = Fleet(s)
           /\ \A s, k : Spots(s, k)' = Spots(s, k)
           /\ \A p : OnMap(p)' <=> OnMap(p)
           /\ \A u, s, k : Built(u, s, k)' <=> Built(u, s, k)
           /\ \A s, k : Turn(s, k)' = Turn(s, k)
           /\ Orderly' <=> Orderly
<1>1. \A s : Fleet(s)' = Fleet(s)
  BY DEF Fleet
<1>2. \A s, k : Spots(s, k)' = Spots(s, k)
  <2>1. \A s, k : LineSpot(s, k)' = LineSpot(s, k)
    BY <1>1 DEF LineSpot
  <2>2. \A s, k : CornerSpot(s, k)' = CornerSpot(s, k)
    <3> SUFFICES ASSUME NEW s, NEW k
                 PROVE  CornerSpot(s, k)' = CornerSpot(s, k)
      OBVIOUS
    <3>1. Fleet(s)' = Fleet(s)
      BY <1>1
    <3>2. (Fleet(s)[k])' = Fleet(s)[k]
      BY <3>1
    <3>3. map' = map
      OBVIOUS
    <3>. QED
      BY <3>1, <3>2, <3>3 DEF CornerSpot
  <2>3. \A s, d : RandomSpot(s, d)' = RandomSpot(s, d)
    BY DEF RandomSpot
  <2>. QED
    BY <2>1, <2>2, <2>3, Zenon DEF Spots
<1>3. \A p : OnMap(p)' <=> OnMap(p)
  BY DEF OnMap
<1>4. \A u, s, k : Built(u, s, k)' <=> Built(u, s, k)
  BY <1>1, <1>2 DEF Built
<1>5. \A s, k : Turn(s, k)' = Turn(s, k)
  BY <1>1 DEF Turn
<1>6. Orderly' <=> Orderly
  BY <1>1 DEF Orderly
<1>. QED
  BY <1>1, <1>2, <1>3, <1>4, <1>5, <1>6

\* a turn of Generate, seen from the units
LEMMA TurnTaken ==
    ASSUME TypeOK, NEW side \in Sides, NEW k \in DOMAIN Fleet(side),
           Generate(side, k)
    PROVE  /\ phase = "generating" /\ phase' = phase
           /\ k \in Nat /\ next = Turn(side, k) /\ next' = next + 1
           /\ UNCHANGED <<map, mode, count, generated>>
           /\ \/ units' = units
              \/ \E u : /\ Built(u, side, k) /\ OnMap(u.pos)
                        /\ units' = Append(units, u)
                        /\ PutUp' = PutUp \cup {u}
<1>1. /\ phase = "generating" /\ phase' = phase
      /\ next = Turn(side, k) /\ next' = next + 1
      /\ UNCHANGED <<map, mode, count, generated>>
  BY DEF Generate, Turn, scenario
<1>2. k \in Nat
  BY TypedMaps, FleetTypes
<1>3. ASSUME NEW u, Built(u, side, k), units' = Append(units, u)
      PROVE  PutUp' = PutUp \cup {u}
  <2>1. u \in Units /\ units \in Seq(Units)
    BY <1>3 DEF Built, TypeOK
  <2>2. /\ DOMAIN units = 1 .. Len(units) /\ Len(units) \in Nat
        /\ DOMAIN units' = 1 .. Len(units) + 1
        /\ units'[Len(units) + 1] = u
        /\ \A i \in DOMAIN units : units'[i] = units[i]
    BY <1>3, <2>1
  <2>3. DOMAIN units' = DOMAIN units \cup {Len(units) + 1}
    BY <2>2
  <2>. QED
    BY <2>2, <2>3 DEF PutUp
<1>4. \/ units' = units
      \/ \E u : /\ Built(u, side, k) /\ OnMap(u.pos)
                /\ units' = Append(units, u)
  BY UnitsGrow, Zenon
<1>. QED
  BY <1>1, <1>2, <1>3, <1>4

LEMMA PlacementKept ==
    ASSUME TypeOK, Phases, Placement, [Next]_vars
    PROVE  Placement'
<1> SUFFICES ASSUME generated', NEW u \in PutUp'
             PROVE  /\ OnMap(u.pos)'
                    /\ \E s \in Sides, k \in Nat :
                          /\ Built(u, s, k)'
                          /\ phase' = "generating" => Turn(s, k)' < next'
  BY DEF Placement
<1>0. next \in Nat
  BY DEF TypeOK
<1>1. CASE units' = <<>>
  BY <1>1 DEF PutUp
<1>2. ASSUME NEW side \in Sides, NEW n \in DOMAIN Fleet(side),
             Generate(side, n)
      PROVE  /\ OnMap(u.pos)'
             /\ \E s \in Sides, k \in Nat :
                   /\ Built(u, s, k)'
                   /\ phase' = "generating" => Turn(s, k)' < next'
  <2>1. /\ phase = "generating" /\ phase' = phase
        /\ n \in Nat /\ next = Turn(side, n) /\ next' = next + 1
        /\ UNCHANGED <<map, mode, count, generated>>
        /\ \/ units' = units
           \/ \E v : /\ Built(v, side, n) /\ OnMap(v.pos)
                     /\ units' = Append(units, v)
                     /\ PutUp' = PutUp \cup {v}
    BY <1>2, TurnTaken, Zenon
  <2>2. CASE u \in PutUp
    <3>1. PICK s \in Sides, k \in Nat :
             OnMap(u.pos) /\ Built(u, s, k) /\ Turn(s, k) < next
      BY <2>1, <2>2 DEF Placement
    <3>2. Turn(s, k) \in Int
      BY <3>1, TypedMaps, FleetTypes DEF Turn, Sides
    <3>3. Built(u, s, k)' /\ Turn(s, k)' = Turn(s, k) /\ OnMap(u.pos)'
      BY <2>1, <3>1, SameScenario
    <3>. QED
      BY <1>0, <2>1, <3>1, <3>2, <3>3
  <2>3. CASE u \notin PutUp
    <3>1. Built(u, side, n) /\ OnMap(u.pos)
      BY <2>1, <2>3 DEF PutUp
    <3>2. Built(u, side, n)' /\ Turn(side, n)' = next /\ OnMap(u.pos)'
      BY <2>1, <3>1, SameScenario
    <3>. QED
      BY <1>0, <2>1, <3>2
  <2>. QED
    BY <2>2, <2>3
<1>3. CASE /\ UNCHANGED <<map, mode, count, units, generated>>
           /\ phase' # "generating" \/ (phase' = phase /\ next' = next)
  <2>1. u \in PutUp /\ generated
    BY <1>3 DEF PutUp
  <2>2. PICK s \in Sides, k \in Nat :
             /\ OnMap(u.pos) /\ Built(u, s, k)
             /\ phase = "generating" => Turn(s, k) < next
    BY <2>1 DEF Placement
  <2>3. Built(u, s, k)' /\ Turn(s, k)' = Turn(s, k) /\ OnMap(u.pos)'
    BY <1>3, <2>2, SameScenario
  <2>. QED
    BY <1>3, <2>2, <2>3
<1>4. generated' # FALSE
  OBVIOUS
<1>5. \/ generated' = FALSE
      \/ units' = <<>>
      \/ \E s \in Sides : \E k \in DOMAIN Fleet(s) : Generate(s, k)
      \/ /\ UNCHANGED <<map, mode, count, units, generated>>
         /\ \/ Generated /\ phase' = "placing"
            \/ phase # "generating" /\ phase' # "generating"
            \/ phase' = phase /\ next' = next
  BY UnitSteps, Zenon
<1>6. CASE \E s \in Sides : \E k \in DOMAIN Fleet(s) : Generate(s, k)
  BY <1>2, <1>6, Zenon
<1>. QED
  BY <1>1, <1>3, <1>4, <1>5, <1>6

LEMMA AtFirst ==
    Init => Phases /\ Placement
BY DEF Init, Phases, Placement

\* Whatever the file says, a unit that the program puts up is on the map; where
\* the map is no larger than the grid, the cell the main loop tests for an
\* obstacle before it spawns the unit is therefore on the grid
THEOREM UnitsPlacedOnGrid ==
    Spec => []PlacedOnGrid
<1> DEFINE Inv == TypeOK /\ Phases /\ Placement
<1>1. Init => Inv
  BY TypesAtFirst, AtFirst
<1>2. Inv /\ [Next]_vars => Inv'
  BY TypesKept, PhasesKept, PlacementKept
<1>3. Inv => PlacedOnGrid
  <2> SUFFICES ASSUME Inv, generated, map.width <= M, map.height <= N,
                      NEW i \in DOMAIN units
               PROVE  units[i].pos \in Points
    BY DEF PlacedOnGrid
  <2>1. OnMap(units[i].pos)
    BY DEF Placement, PutUp
  <2>2. map.width \in Nat /\ map.height \in Nat /\ M \in Nat /\ N \in Nat
    BY TypedMaps, GridAssumption
  <2>. QED
    BY <2>1, <2>2 DEF OnMap, Points
<1> HIDE DEF Inv
<1>. QED
  BY <1>1, <1>2, <1>3, PTL DEF Spec

-----------------------------------------------------------------------------
(* Formations *)

\* no size of a type is beyond the tables of the code
Sized == \A type \in Types : SizeOf[type] <= Reach(type) + 1

\* the units of an orderly formation are clear of each other
Formed ==
    generated /\ Orderly =>
        \A i, j \in DOMAIN units : i # j => Clear(units[i], units[j])

\* the slots taken are those of the first units, in order
Registry ==
    phase \in {"spawning", "running"} =>
        /\ Len(slots) = next - 1
        /\ \A i \in DOMAIN slots :
              i \in DOMAIN units /\ slots[i] \in {LEAKED, units[i]}

LEMMA HighMaps ==
    ASSUME TypeOK, N >= 14
    PROVE  map.height >= 14
BY TypedMaps, GridAssumption

LEMMA FormedKept ==
    ASSUME TypeOK, Phases, Placement, Formed, [Next]_vars, N >= 14
    PROVE  Formed'
<1> SUFFICES ASSUME generated', Orderly',
                    NEW i \in DOMAIN units', NEW j \in DOMAIN units', i # j
             PROVE  Clear(units'[i], units'[j])
  BY DEF Formed, Clear, Away
<1>1. CASE units' = <<>>
  BY <1>1
<1>2. ASSUME NEW side \in Sides, NEW n \in DOMAIN Fleet(side),
             Generate(side, n)
      PROVE  Clear(units'[i], units'[j])
  <2>1. /\ phase = "generating" /\ phase' = phase
        /\ n \in Nat /\ next = Turn(side, n) /\ next' = next + 1
        /\ UNCHANGED <<map, mode, count, generated>>
        /\ \/ units' = units
           \/ \E v : /\ Built(v, side, n) /\ OnMap(v.pos)
                     /\ units' = Append(units, v)
                     /\ PutUp' = PutUp \cup {v}
    BY <1>2, TurnTaken, Zenon
  <2>2. Orderly /\ generated
    BY <2>1, SameScenario
  <2>3. CASE units' = units
    BY <2>2, <2>3 DEF Formed
  <2>4. ASSUME NEW v, Built(v, side, n), units' = Append(units, v)
        PROVE  Clear(units'[i], units'[j])
    <3>1. v \in Units /\ units \in Seq(Units)
      BY <2>4 DEF Built, TypeOK
    <3>2. /\ DOMAIN units = 1 .. Len(units) /\ Len(units) \in Nat
          /\ DOMAIN units' = 1 .. Len(units) + 1
          /\ units'[Len(units) + 1] = v
          /\ \A k \in DOMAIN units : units'[k] = units[k] /\ units[k] \in Units
      BY <2>4, <3>1
    <3>3. \A k \in DOMAIN units : Clear(units[k], v)
      <4> TAKE k \in DOMAIN units
      <4>1. PICK s \in Sides, m \in Nat :
               Built(units[k], s, m) /\ Turn(s, m) < next
        BY <2>1, <2>2 DEF Placement, PutUp
      <4>2. Turn(s, m) # Turn(side, n)
        <5>1. Turn(s, m) \in Int /\ Turn(side, n) \in Int
          BY <2>1, <4>1, TypedMaps, FleetTypes DEF Turn, Sides
        <5>. QED
          BY <2>1, <4>1, <5>1
      <4>3. s # side \/ m # n
        BY <4>2
      <4>. QED
        BY <2>2, <2>4, <4>1, <4>3, TypedMaps, HighMaps, SpotsAreClear
    <3>4. CASE i \in DOMAIN units /\ j \in DOMAIN units
      BY <2>2, <3>2, <3>4 DEF Formed
    <3>5. CASE i \in DOMAIN units /\ j = Len(units) + 1
      BY <3>2, <3>3, <3>5
    <3>6. CASE i = Len(units) + 1 /\ j \in DOMAIN units
      BY <3>1, <3>2, <3>3, <3>6, ClearIsSymmetric
    <3>. QED
      BY <3>2, <3>4, <3>5, <3>6
  <2>. QED
    BY <2>1, <2>3, <2>4
<1>3. CASE UNCHANGED <<map, mode, count, units, generated>>
  <2>1. Orderly /\ generated
    BY <1>3, SameScenario
  <2>. QED
    BY <1>3, <2>1 DEF Formed
<1>4. generated' # FALSE
  OBVIOUS
<1>5. CASE \E s \in Sides : \E k \in DOMAIN Fleet(s) : Generate(s, k)
  BY <1>2, <1>5, Zenon
<1>6. \/ generated' = FALSE
      \/ units' = <<>>
      \/ \E s \in Sides : \E k \in DOMAIN Fleet(s) : Generate(s, k)
      \/ UNCHANGED <<map, mode, count, units, generated>>
  BY UnitSteps, Zenon
<1>. QED
  BY <1>1, <1>3, <1>4, <1>5, <1>6, Zenon

\* what a step of the main loop does to slots and cells
LEMMA SlotSteps ==
    ASSUME TypeOK, Phases, Registry, [Next]_vars
    PROVE  \/ phase' \notin {"spawning", "running"} /\ slots' = <<>>
           \/ phase' = "spawning" /\ next' = next /\ slots' = <<>>
                /\ next = 1
           \/ /\ phase' \in {"spawning", "running"} /\ next' = next
              /\ phase \in {"spawning", "running"}
              /\ UNCHANGED <<units, generated, slots, cells>>
              /\ UNCHANGED <<map, mode, count>>
           \/ /\ phase = "spawning" /\ phase' = "spawning"
              /\ UNCHANGED <<map, mode, count, units, generated>>
              /\ next \in DOMAIN units /\ next' = next + 1
              /\ \/ slots' = Append(slots, LEAKED) /\ cells' = cells
                 \/ /\ slots' = Append(slots, units[next])
                    /\ cells' = Put(Len(slots'), Footprint(units[next].pos,
                                   SizeOf[units[next].type]) \cap Points)
<1>1. CASE ReadMap \/ ReadObstacle \/ ReadCount \/ ReadPlacement \/ ReadUnit
  BY <1>1 DEF Phases, ReadMap, ReadObstacle, ReadCount, ReadPlacement,
              ReadUnit, Read
<1>2. CASE Loaded
  BY <1>2 DEF Phases, Loaded
<1>3. CASE \E s \in Sides : \E k \in DOMAIN Fleet(s) : Generate(s, k)
  BY <1>3 DEF Phases, Generate
<1>4. CASE Generated
  BY <1>4 DEF Phases, Generated
<1>5. CASE PutObstacles
  BY <1>5 DEF Phases, PutObstacles
<1>6. CASE Spawned
  BY <1>6 DEF Spawned, scenario
<1>7. CASE SpawnUnit
  <2>1. NextUnit /\ slots' = Append(slots, units[next])
           /\ cells' = Put(Len(slots'), Footprint(units[next].pos,
                           SizeOf[units[next].type]) \cap Points)
    BY <1>7, Zenon DEF SpawnUnit
  <2>. QED
    BY <2>1 DEF NextUnit, scenario
<1>8. CASE SkipUnit \/ ForkFails
  <2>1. NextUnit /\ slots' = Append(slots, LEAKED) /\ cells' = cells
    BY <1>8, Zenon DEF SkipUnit, ForkFails
  <2>. QED
    BY <2>1 DEF NextUnit, scenario
<1>9. CASE UNCHANGED vars
  BY <1>9 DEF vars, scenario, Phases, TypeOK
<1>. QED
  BY <1>1, <1>2, <1>3, <1>4, <1>5, <1>6, <1>7, <1>8, <1>9 DEF Next

LEMMA RegistryKept ==
    ASSUME TypeOK, Phases, Registry, [Next]_vars
    PROVE  Registry'
<1> DEFINE busy == {"spawning", "running"}
<1>1. CASE phase' \notin busy
  BY <1>1 DEF Registry
<1>2. CASE slots' = <<>> /\ next' = 1
  BY <1>2 DEF Registry
<1>3. CASE /\ phase \in busy /\ next' = next
           /\ UNCHANGED <<units, slots>>
  BY <1>3 DEF Registry
<1>4. CASE /\ phase = "spawning" /\ units' = units
           /\ next \in DOMAIN units /\ next' = next + 1
           /\ slots' = Append(slots, LEAKED) \/ slots' = Append(slots, units[next])
  <2>1. units[next] \in Units /\ next \in Nat
    BY <1>4 DEF TypeOK
  <2>2. PICK e \in {LEAKED, units[next]} : slots' = Append(slots, e)
    BY <1>4
  <2>3. e \in Units \cup {LEAKED}
    BY <2>1
  <2>4. /\ Len(slots') = Len(slots) + 1 /\ Len(slots) \in Nat
        /\ DOMAIN slots = 1 .. Len(slots)
        /\ DOMAIN slots' = 1 .. Len(slots) + 1
        /\ slots'[Len(slots) + 1] = e
        /\ \A i \in DOMAIN slots : slots'[i] = slots[i]
    BY <2>2, <2>3, SlotTaken
  <2>5. Len(slots) = next - 1
    BY <1>4 DEF Registry
  <2>6. Len(slots') = next' - 1
    BY <1>4, <2>1, <2>4, <2>5
  <2>7. \A i \in DOMAIN slots' : i \in DOMAIN slots \/ i = next
    BY <2>1, <2>4, <2>5
  <2>8. \A i \in DOMAIN slots' :
           i \in DOMAIN units /\ slots'[i] \in {LEAKED, units[i]}
    <3> TAKE i \in DOMAIN slots'
    <3>1. CASE i \in DOMAIN slots
      BY <1>4, <2>4, <3>1 DEF Registry
    <3>2. CASE i = next
      <4>1. slots'[i] = e
        BY <2>1, <2>4, <2>5, <3>2
      <4>. QED
        BY <1>4, <2>2, <3>2, <4>1
    <3>. QED
      BY <2>7, <3>1, <3>2
  <2>. QED
    BY <1>4, <2>6, <2>8 DEF Registry
<1>. QED
  BY <1>1, <1>2, <1>3, <1>4, SlotSteps

\* units that are clear of each other share no cell
LEMMA ClearCells ==
    ASSUME Sized, NEW u \in Units, NEW v \in Units, Clear(u, v)
    PROVE  Footprint(u.pos, SizeOf[u.type]) \cap
               Footprint(v.pos, SizeOf[v.type]) = {}
<1> DEFINE m == SizeOf[u.type]
           n == SizeOf[v.type]
<1>1. /\ u.pos \in Int \X Int /\ v.pos \in Int \X Int
      /\ Reach(u.type) \in 0 .. 2 /\ Reach(v.type) \in 0 .. 2
      /\ u.type \in Types /\ v.type \in Types
  BY UnitParts
<1>2. m \in 1 .. 3 /\ n \in 1 .. 3 /\ m <= Reach(u.type) + 1
         /\ n <= Reach(v.type) + 1
  BY <1>1, ScenarioAssumption DEF Sized
<1>3. /\ u.pos[1] \in Int /\ u.pos[2] \in Int
      /\ v.pos[1] \in Int /\ v.pos[2] \in Int
  BY <1>1
<1>4. Away(u.pos, v.pos) \in Int
  BY <1>3 DEF Away, Gap
<1> HIDE DEF m, n
<1>5. Away(u.pos, v.pos) > (m - 1) + (n - 1)
  BY <1>1, <1>2, <1>4 DEF Clear
<1>6. Footprint(u.pos, m) \cap Footprint(v.pos, n) = {}
  BY <1>1, <1>2, <1>5, FarApart
<1>. QED
  BY <1>6 DEF m, n

LEMMA IntactKept ==
    ASSUME TypeOK, Phases, Formed, Registry, FormationIntact, Sized,
           [Next]_vars
    PROVE  FormationIntact'
<1> SUFFICES ASSUME generated', Orderly', NEW w \in DOMAIN slots',
                    InSlots(w)', NEW p \in CellsOf(w)'
             PROVE  p \in DOMAIN cells' /\ cells'[p] = w
  BY DEF FormationIntact
<1>1. slots'[w] # LEAKED
  BY DEF InSlots
<1>2. p \in Footprint(slots'[w].pos, SizeOf[slots'[w].type]) \cap Points
  BY DEF CellsOf
<1>3. CASE slots' = <<>>
  BY <1>3
<1>4. ASSUME w \in DOMAIN slots, slots'[w] = slots[w],
             UNCHANGED <<map, mode, count, generated>>
      PROVE  p \in DOMAIN cells /\ cells[p] = w
  <2>1. Orderly /\ generated
    BY <1>4, SameScenario
  <2>2. InSlots(w) /\ p \in CellsOf(w)
    BY <1>1, <1>2, <1>4 DEF InSlots, CellsOf
  <2>. QED
    BY <1>4, <2>1, <2>2 DEF FormationIntact
<1>5. CASE UNCHANGED <<slots, cells, map, mode, count, generated>>
  BY <1>4, <1>5
<1>6. CASE /\ phase = "spawning"
           /\ UNCHANGED <<map, mode, count, units, generated>>
           /\ next \in DOMAIN units
           /\ slots' = Append(slots, LEAKED) /\ cells' = cells
  <2>1. /\ DOMAIN slots' = 1 .. Len(slots) + 1
        /\ DOMAIN slots = 1 .. Len(slots) /\ Len(slots) \in Nat
        /\ slots'[Len(slots) + 1] = LEAKED
        /\ \A i \in DOMAIN slots : slots'[i] = slots[i]
    BY <1>6, SlotTaken
  <2>2. w \in DOMAIN slots
    BY <1>1, <2>1
  <2>. QED
    BY <1>4, <1>6, <2>1, <2>2
<1>7. CASE /\ phase = "spawning"
           /\ UNCHANGED <<map, mode, count, units, generated>>
           /\ next \in DOMAIN units
           /\ slots' = Append(slots, units[next])
           /\ cells' = Put(Len(slots'), Footprint(units[next].pos,
                           SizeOf[units[next].type]) \cap Points)
  <2> DEFINE area == Footprint(units[next].pos, SizeOf[units[next].type])
  <2>1. units[next] \in Units /\ next \in Nat /\ units \in Seq(Units)
    BY <1>7 DEF TypeOK
  <2>2. /\ Len(slots') = Len(slots) + 1
        /\ DOMAIN slots' = 1 .. Len(slots) + 1
        /\ DOMAIN slots = 1 .. Len(slots) /\ Len(slots) \in Nat
        /\ DOMAIN slots \subseteq DOMAIN slots'
        /\ slots'[Len(slots) + 1] = units[next]
        /\ \A i \in DOMAIN slots : slots'[i] = slots[i]
    BY <1>7, <2>1, SlotTaken
  <2>3. Len(slots) = next - 1 /\ Len(slots') = next
    BY <1>7, <2>1, <2>2 DEF Registry
  <2> HIDE DEF area
  <2>4. cells' = Put(next, area \cap Points)
    BY <1>7, <2>3 DEF area
  <2>5. /\ DOMAIN cells' = DOMAIN cells \cup (area \cap Points)
        /\ \A q \in DOMAIN cells' :
              cells'[q] = IF q \in area \cap Points THEN next ELSE cells[q]
    BY <2>4 DEF Put
  <2>6. CASE w = next
    <3>1. p \in area \cap Points
      BY <1>2, <2>2, <2>3, <2>6 DEF area
    <3>. QED
      BY <2>5, <2>6, <3>1
  <2>7. CASE w # next
    <3>1. w \in DOMAIN slots
      BY <2>1, <2>2, <2>3, <2>7
    <3>2. p \in DOMAIN cells /\ cells[p] = w
      BY <1>4, <1>7, <2>2, <3>1
    <3>3. w \in DOMAIN units /\ slots[w] = units[w] /\ units[w] \in Units
      BY <1>1, <1>7, <2>1, <2>2, <3>1 DEF Registry
    <3>4. Clear(units[w], units[next])
      <4>1. Orderly /\ generated
        BY <1>7, SameScenario
      <4>. QED
        BY <1>7, <2>7, <3>3, <4>1 DEF Formed
    <3>5. Footprint(units[w].pos, SizeOf[units[w].type]) \cap area = {}
      BY <2>1, <3>3, <3>4, ClearCells DEF area
    <3>6. p \notin area
      BY <1>2, <2>2, <3>1, <3>3, <3>5
    <3>. QED
      BY <2>5, <3>2, <3>6
  <2>. QED
    BY <2>6, <2>7
<1>8. \/ slots' = <<>>
      \/ UNCHANGED <<slots, cells, map, mode, count, generated>>
      \/ /\ phase = "spawning"
         /\ UNCHANGED <<map, mode, count, units, generated>>
         /\ next \in DOMAIN units
         /\ \/ slots' = Append(slots, LEAKED) /\ cells' = cells
            \/ /\ slots' = Append(slots, units[next])
               /\ cells' = Put(Len(slots'), Footprint(units[next].pos,
                               SizeOf[units[next].type]) \cap Points)
  BY SlotSteps, Zenon
<1>. QED
  BY <1>3, <1>5, <1>6, <1>7, <1>8, Zenon

\* On a field at least 14 cells high, with sizes up to those of the tables, an
\* orderly formation stands as it was put up: no unit, when spawned, overwrites
\* a cell of another, although place_unit_on_grid asks nobody
THEOREM FormationsStayIntact ==
    ASSUME N >= 14, Sized
    PROVE  Spec => []FormationIntact
<1> DEFINE Inv == /\ TypeOK /\ Phases /\ Placement
                  /\ Formed /\ Registry /\ FormationIntact
<1>1. Init => Inv
  <2> SUFFICES ASSUME Init PROVE Inv
    OBVIOUS
  <2>1. generated = FALSE /\ phase = "loading"
    BY DEF Init
  <2>2. Formed /\ Registry /\ FormationIntact
    BY <2>1 DEF Formed, Registry, FormationIntact
  <2>. QED
    BY <2>2, TypesAtFirst, AtFirst
<1>2. Inv /\ [Next]_vars => Inv'
  BY TypesKept, PhasesKept, PlacementKept, FormedKept, RegistryKept, IntactKept
<1>3. Inv => FormationIntact
  OBVIOUS
<1> HIDE DEF Inv
<1>. QED
  BY <1>1, <1>2, <1>3, PTL DEF Spec

-----------------------------------------------------------------------------
(* Both sides appear *)

\* the first of a side has its spot on the map, with room in the array unless
\* the fleet put up before has taken it
RoomFor(side) ==
    /\ Fleet(side) # <<>>
    /\ side = "cis" => Len(Fleet("republic")) < MAX_INITIAL_UNITS

\* while the fleets are put up no turn yields more than a unit; a side whose
\* first turn is over has one
Appearing ==
    generated =>
        /\ phase = "generating" => Len(units) < next
        /\ \A s \in Sides :
              RoomFor(s) /\ (phase = "generating" => Turn(s, 1) < next) =>
                  \E i \in DOMAIN units : units[i].side = s

FieldIsLarge == M >= 17 /\ N >= 17 /\ MAX_INITIAL_UNITS >= 1

LEMMA FirstSpotOnMap ==
    ASSUME TypeOK, FieldIsLarge, NEW side \in Sides, 1 \in DOMAIN Fleet(side),
           NEW p \in Spots(side, 1)
    PROVE  OnMap(p)
<1> DEFINE w == map.width
           h == map.height
<1>1. w \in Nat /\ h \in Nat /\ w >= 17 /\ h >= 17
  BY TypedMaps, GridAssumption DEF FieldIsLarge
<1>2. CASE mode = "line"
  <2>1. Line(Fleet(side))[1] = 10
    BY TypedMaps, FleetTypes, LineIncreases
  <2>2. p = <<10, IF side = "republic" THEN h \div 3 ELSE (h * 2) \div 3>>
    BY <1>2, <2>1 DEF Spots, LineSpot
  <2> HIDE DEF w, h
  <2>3. h \div 3 \in 0 .. h - 1 /\ (h * 2) \div 3 \in 0 .. h - 1
    BY <1>1
  <2>4. p \in (0 .. w - 1) \X (0 .. h - 1)
    BY <1>1, <2>2, <2>3
  <2>. QED
    BY <2>4 DEF OnMap, w, h
<1>3. CASE mode = "random"
  <2> DEFINE half == w \div 2
  <2>1. PICK d \in Draws :
           p = <<(IF side = "cis" THEN half ELSE 0) + (d[1] % half), d[2] % h>>
    BY <1>3, Zenon DEF Spots, RandomSpot
  <2>2. d[1] \in Nat /\ d[2] \in Nat
    BY ScenarioAssumption
  <2> HIDE DEF w, h
  <2>3. half \in Nat /\ half > 0 /\ 2 * half <= w
    BY <1>1
  <2> HIDE DEF half
  <2>4. d[1] % half \in 0 .. half - 1 /\ d[2] % h \in 0 .. h - 1
    BY <1>1, <2>2, <2>3
  <2>5. (IF side = "cis" THEN half ELSE 0) + (d[1] % half) \in 0 .. w - 1
    BY <1>1, <2>3, <2>4
  <2>6. p \in (0 .. w - 1) \X (0 .. h - 1)
    BY <2>1, <2>4, <2>5
  <2>. QED
    BY <2>6 DEF OnMap, w, h
<1>4. CASE mode # "line" /\ mode # "random"
  <2> DEFINE t == Fleet(side)[1]
             d == Diagonal(side, t, 1)
  <2>1. p = IF side = "republic" THEN <<d, d>> ELSE <<w - d, h - d>>
    <3>1. p = CornerSpot(side, 1)
      BY <1>4 DEF Spots
    <3>. QED
      BY <3>1, TypedMaps, CornerIsDiagonal DEF Maps
  <2>2. t \in Types
    BY TypedMaps, FleetTypes
  <2>3. d \in 5 .. 17 /\ (side = "republic" => d <= 14)
    <3> HIDE DEF t
    <3>. QED
      BY <2>2 DEF Types, Diagonal
  <2> HIDE DEF w, h, d
  <2>4. p \in (0 .. w - 1) \X (0 .. h - 1)
    BY <1>1, <2>1, <2>3
  <2>. QED
    BY <2>4 DEF OnMap, w, h
<1>. QED
  BY <1>2, <1>3, <1>4

LEMMA AppearingKept ==
    ASSUME TypeOK, Phases, Appearing, FieldIsLarge, [Next]_vars
    PROVE  Appearing'
<1> SUFFICES ASSUME generated'
             PROVE  /\ phase' = "generating" => Len(units') < next'
                    /\ \A s \in Sides :
                          /\ RoomFor(s)'
                          /\ phase' = "generating" => Turn(s, 1)' < next'
                          => \E i \in DOMAIN units' : units'[i].side = s
  BY DEF Appearing
<1>0. next \in Nat /\ units \in Seq(Units) /\ Len(units) \in Nat
         /\ DOMAIN units = 1 .. Len(units)
  BY DEF TypeOK
<1>1. \A s \in Sides : /\ Len(Fleet(s)) \in Nat /\ Turn(s, 1) \in Nat
                       /\ Turn(s, 1) >= 1
                       /\ Fleet(s) # <<>> => 1 \in DOMAIN Fleet(s)
  <2> TAKE s \in Sides
  <2>1. Fleet(s) \in Seq(Types) /\ Fleet("republic") \in Seq(Types)
    BY TypedMaps, FleetTypes DEF Sides
  <2>. QED
    BY <2>1 DEF Turn
<1>2. ASSUME map' = map, mode' = mode, count' = count, NEW s \in Sides
      PROVE  (RoomFor(s)' <=> RoomFor(s)) /\ Turn(s, 1)' = Turn(s, 1)
             /\ Fleet(s)' = Fleet(s)
  BY <1>2, SameScenario DEF RoomFor
<1>3. CASE /\ units' = <<>> /\ phase' = "generating" /\ next' = 1
           /\ UNCHANGED <<map, mode, count>>
  <2>1. \A s \in Sides : Turn(s, 1)' >= 1 /\ Turn(s, 1)' \in Nat
    BY <1>1, <1>2, <1>3
  <2>. QED
    BY <1>3, <2>1
<1>4. ASSUME NEW side \in Sides, NEW n \in DOMAIN Fleet(side),
             Generate(side, n)
      PROVE  /\ phase' = "generating" => Len(units') < next'
             /\ \A s \in Sides :
                   /\ RoomFor(s)'
                   /\ phase' = "generating" => Turn(s, 1)' < next'
                   => \E i \in DOMAIN units' : units'[i].side = s
  <2>1. /\ phase = "generating" /\ phase' = phase
        /\ n \in Nat /\ next = Turn(side, n) /\ next' = next + 1
        /\ UNCHANGED <<map, mode, count, generated>>
        /\ \/ units' = units
           \/ \E v : /\ Built(v, side, n) /\ OnMap(v.pos)
                     /\ units' = Append(units, v)
                     /\ PutUp' = PutUp \cup {v}
    BY <1>4, TurnTaken, Zenon
  <2>2. /\ Len(units) < next
        /\ \A s \in Sides : RoomFor(s) /\ Turn(s, 1) < next =>
              \E i \in DOMAIN units : units[i].side = s
    BY <2>1 DEF Appearing
  <2>3. /\ Len(units') \in Nat /\ Len(units') < next'
        /\ DOMAIN units \subseteq DOMAIN units'
        /\ \A i \in DOMAIN units : units'[i] = units[i]
    <3>1. CASE units' = units
      BY <1>0, <2>1, <2>2, <3>1
    <3>2. ASSUME NEW v, Built(v, side, n), units' = Append(units, v)
          PROVE  /\ Len(units') \in Nat /\ Len(units') < next'
                 /\ DOMAIN units \subseteq DOMAIN units'
                 /\ \A i \in DOMAIN units : units'[i] = units[i]
      <4>1. v \in Units
        BY <3>2 DEF Built
      <4>2. /\ Len(units') = Len(units) + 1
            /\ DOMAIN units' = 1 .. Len(units) + 1
            /\ \A i \in 1 .. Len(units) : units'[i] = units[i]
        BY <1>0, <3>2, <4>1
      <4>. QED
        BY <1>0, <2>1, <2>2, <4>2
    <3>. QED
      BY <2>1, <3>1, <3>2
  <2>4. \A s \in Sides :
           RoomFor(s)' /\ Turn(s, 1)' < next' =>
               \E i \in DOMAIN units' : units'[i].side = s
    <3> SUFFICES ASSUME NEW s \in Sides, RoomFor(s)', Turn(s, 1)' < next'
                 PROVE  \E i \in DOMAIN units' : units'[i].side = s
      OBVIOUS
    <3>1. RoomFor(s) /\ Turn(s, 1) \in Nat /\ Turn(s, 1) < next + 1
            /\ 1 \in DOMAIN Fleet(s)
      BY <1>1, <1>2, <2>1 DEF RoomFor
    <3>2. CASE Turn(s, 1) < next
      BY <2>2, <2>3, <3>1, <3>2
    <3>3. CASE Turn(s, 1) = next
      <4>1. s = side /\ n = 1
        <5>1. n \in 1 .. Len(Fleet(side)) /\ Len(Fleet(side)) \in Nat
                /\ Len(Fleet("republic")) \in Nat
          BY TypedMaps, FleetTypes DEF Sides
        <5>2. Len(Fleet(s)) >= 1
          BY <3>1, TypedMaps, FleetTypes
        <5>. QED
          BY <2>1, <3>3, <5>1, <5>2 DEF Turn, Sides
      <4>2. Len(units) < MAX_INITIAL_UNITS
        <5>1. MAX_INITIAL_UNITS \in Nat /\ MAX_INITIAL_UNITS >= 1
          BY ScenarioAssumption DEF FieldIsLarge
        <5>2. CASE s = "republic"
          BY <1>0, <2>2, <3>3, <5>1, <5>2 DEF Turn
        <5>3. CASE s = "cis"
          <6>1. Len(Fleet("republic")) \in Nat
            BY <1>1 DEF Sides
          <6>2. next = Len(Fleet("republic")) + 1
            BY <3>3, <5>3 DEF Turn
          <6>3. Len(Fleet("republic")) < MAX_INITIAL_UNITS
            BY <3>1, <5>3 DEF RoomFor
          <6>. QED
            BY <1>0, <2>2, <5>1, <6>1, <6>2, <6>3
        <5>. QED
          BY <5>2, <5>3 DEF Sides
      <4>3. PICK p \in Spots(side, n) :
               AddUnit([type |-> Fleet(side)[n], side |-> side, pos |-> p])
        BY <1>4, Zenon DEF Generate
      <4> DEFINE u == [type |-> Fleet(side)[n], side |-> side, pos |-> p]
      <4>4. OnMap(u.pos)
        BY <3>1, <4>1, <4>3, FirstSpotOnMap
      <4>5. units' = Append(units, u) /\ u.side = s
        BY <4>1, <4>2, <4>3, <4>4 DEF AddUnit
      <4>6. u \in Units
        <5>1. Fleet(side)[n] \in Types
          BY TypedMaps, FleetTypes
        <5>2. p \in Int \X Int
          BY <4>4, TypedMaps DEF OnMap
        <5>. QED
          BY <5>1, <5>2 DEF Units
      <4> HIDE DEF u
      <4>7. Len(units) + 1 \in DOMAIN units' /\ units'[Len(units) + 1] = u
        BY <1>0, <4>5, <4>6
      <4>. QED
        BY <4>5, <4>7
    <3>. QED
      BY <1>0, <3>1, <3>2, <3>3
  <2>. QED
    BY <2>1, <2>3, <2>4
<1>5. CASE /\ UNCHANGED <<map, mode, count, units, generated>>
           /\ \/ Generated /\ phase' = "placing"
              \/ phase # "generating" /\ phase' # "generating"
              \/ phase' = phase /\ next' = next
  <2>1. phase' = "generating" => Len(units') < next'
    BY <1>5 DEF Appearing
  <2>2. ASSUME NEW s \in Sides, RoomFor(s)',
               phase' = "generating" => Turn(s, 1)' < next'
        PROVE  \E i \in DOMAIN units' : units'[i].side = s
    <3>1. RoomFor(s) /\ Turn(s, 1)' = Turn(s, 1)
      BY <1>2, <1>5, <2>2
    <3>2. phase = "generating" => Turn(s, 1) < next
      <4>1. CASE Generated
        <5>1. next > Len(Fleet("republic")) + Len(Fleet("cis"))
          BY <4>1 DEF Generated
        <5>2. Fleet(s) \in Seq(Types) /\ Fleet(s) # <<>>
          BY <3>1, TypedMaps, FleetTypes DEF RoomFor
        <5>3. Len(Fleet("republic")) \in Nat /\ Len(Fleet("cis")) \in Nat
          BY <1>1 DEF Sides
        <5>4. Len(Fleet(s)) >= 1
          BY <5>2
        <5>. QED
          BY <1>0, <5>1, <5>3, <5>4 DEF Turn, Sides
      <4>2. CASE phase # "generating"
        BY <4>2
      <4>3. CASE phase' = phase /\ next' = next
        BY <2>2, <3>1, <4>3
      <4>. QED
        BY <1>5, <4>1, <4>2, <4>3
    <3>. QED
      BY <1>5, <3>1, <3>2 DEF Appearing
  <2>. QED
    BY <2>1, <2>2
<1>6. generated' # FALSE
  OBVIOUS
<1>7. CASE \E s \in Sides : \E k \in DOMAIN Fleet(s) : Generate(s, k)
  BY <1>4, <1>7, Zenon
<1>8. \/ generated' = FALSE
      \/ /\ units' = <<>> /\ phase' = "generating" /\ next' = 1
         /\ UNCHANGED <<map, mode, count>>
      \/ \E s \in Sides : \E k \in DOMAIN Fleet(s) : Generate(s, k)
      \/ /\ UNCHANGED <<map, mode, count, units, generated>>
         /\ \/ Generated /\ phase' = "placing"
            \/ phase # "generating" /\ phase' # "generating"
            \/ phase' = phase /\ next' = next
  BY UnitSteps, Zenon
<1>. QED
  BY <1>3, <1>5, <1>6, <1>7, <1>8, Zenon

\* On a field of at least 17 by 17 cells, and with an array that holds a unit,
\* the first of each side has a spot on every map the loader lets pass: a side
\* with a fleet is in the battle, unless the republic fills the array alone
THEOREM SidesAppear ==
    ASSUME FieldIsLarge
    PROVE  Spec => []BothSidesAppear
<1> DEFINE Inv == TypeOK /\ Phases /\ Appearing
<1>1. Init => Inv
  <2>1. Init => Appearing
    BY DEF Init, Appearing
  <2>. QED
    BY <2>1, TypesAtFirst, AtFirst
<1>2. Inv /\ [Next]_vars => Inv'
  BY TypesKept, PhasesKept, AppearingKept
<1>3. Inv => BothSidesAppear
  BY DEF Appearing, RoomFor, BothSidesAppear
<1> HIDE DEF Inv
<1>. QED
  BY <1>1, <1>2, <1>3, PTL DEF Spec
=============================================================================
