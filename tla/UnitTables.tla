----------------------------- MODULE UnitTables -----------------------------
(***************************************************************************)
(* What the source's tables say of a type of unit: statistics, weapons,    *)
(* and how well a weapon or a type does against a type.  Multipliers are   *)
(* tenths, accuracies hundredths.                                          *)
(***************************************************************************)
EXTENDS Integers, FiniteSets, Sequences

CONSTANT M      \* width of the field: a flagship sees that far

Ships == {"flagship", "destroyer", "carrier"}
Fighters == {"fighter", "bomber", "elite"}
Types == Ships \cup Fighters
DUMMY == "dummy"

ASSUME TablesAssumption == M \in Nat

Stats(type) ==
    CASE type = "flagship"  -> [hp |-> 200, sp |-> 2, si |-> 3, dr |-> M]
      [] type = "destroyer" -> [hp |-> 100, sp |-> 3, si |-> 2, dr |-> 20]
      [] type = "carrier"   -> [hp |-> 100, sp |-> 6, si |-> 2, dr |-> 20]
      [] type = "fighter"   -> [hp |-> 20,  sp |-> 5, si |-> 1, dr |-> 10]
      [] type = "bomber"    -> [hp |-> 30,  sp |-> 4, si |-> 1, dr |-> 15]
      [] type = "elite"     -> [hp |-> 20,  sp |-> 6, si |-> 1, dr |-> 15]
      [] OTHER              -> [hp |-> 200, sp |-> 0, si |-> 1, dr |-> 20]

Weapon(class, range) == [class |-> class, range |-> range]
LongCannon == Weapon("cannon", 15)
MediumGun == Weapon("gun", 10)

Loadout(type) ==
    CASE type = "flagship"  -> <<LongCannon, LongCannon, MediumGun, MediumGun>>
      [] type = "destroyer" -> <<LongCannon, LongCannon, MediumGun>>
      [] type = "carrier"   -> <<LongCannon, MediumGun, MediumGun>>
      [] type = "bomber"    -> <<Weapon("cannon", 5)>>
      [] type \in {"fighter", "elite"} -> <<Weapon("gun", 5)>>
      [] OTHER -> <<>>

\* guns do nothing to ships
Accuracy(weapon, type) ==
    CASE weapon.class = "cannon" /\ type \in Ships    -> 75
      [] weapon.class = "cannon" /\ type \in Fighters -> 25
      [] weapon.class = "gun" /\ type \in Fighters    -> 75
      [] OTHER -> 0

Multiplier(type, against) ==
    CASE type = "flagship" /\ against = "carrier"              -> 15
      [] type = "destroyer" /\ against \in Ships               -> 15
      [] type = "carrier" /\ against \in Fighters              -> 15
      [] type = "fighter" /\ against \in {"fighter", "bomber"} -> 15
      [] type = "bomber" /\ against \in Ships                  -> 30
      [] type = "elite" /\ against \in Fighters                -> 20
      [] OTHER -> 10

Effective(type, against) ==
    {i \in DOMAIN Loadout(type) : Accuracy(Loadout(type)[i], against) > 0}

\* mutant: the longest range
ApproachLongest(type, against) ==
    LET ranges == {Loadout(type)[i].range : i \in Effective(type, against)}
    IN  IF ranges = {} THEN 32766
        ELSE (CHOOSE r \in ranges : \A q \in ranges : r >= q) - 1

\* INT16_MAX - 1 if no weapon does anything: the unit is content where it is
Approach(type, against) ==
    LET ranges == {Loadout(type)[i].range : i \in Effective(type, against)}
    IN  IF ranges = {} THEN 32766
        ELSE (CHOOSE r \in ranges : \A q \in ranges : r <= q) - 1
=============================================================================
