----------------------------- MODULE MCMovement -----------------------------
(* Small fields with small and large units *)
EXTENDS Movement

Types == {"wing", "ship", "flag"}
All == Types \cup {"dummy"}
Sizes == [k \in All |-> CASE k = "ship" -> 2 [] k = "flag" -> 3 [] OTHER -> 1]
Speeds == [k \in All |-> CASE k = "wing" -> 2 [] k = "dummy" -> 0 [] OTHER -> 1]
Radii == [k \in All |-> IF k = "flag" THEN 4 ELSE 3]

Distances == {1, 32766}

At(k, x, y) == [kind |-> k, pos |-> <<x, y>>]
Maps == {[obstacles |-> {<<0, 2>>}, fleet |-> <<At("wing", 3, 0), At("ship", 1, 1)>>],
         [obstacles |-> {}, fleet |-> <<At("flag", 2, 1)>>],
         [obstacles |-> {}, fleet |-> <<At("wing", 0, 0)>>]}
Asked == {At("ship", 2, 1), At("ship", 3, 1), At("wing", -1, 0)}
=============================================================================
