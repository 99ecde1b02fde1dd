----------------------------- MODULE MCSpawnBay -----------------------------
(* Finite instances of SpawnBay and of its refinement *)
EXTENDS SpawnRefinement

OneShip == <<1>>
TwoShips == <<1, 2>>
=============================================================================
