--------------------------- MODULE TickRefinement ---------------------------
(***************************************************************************)
(* The tick barrier implements the gate: CC's part of the loop between the *)
(* first start permit and the last done permit is the open gate, and the   *)
(* units that owe a done permit are inside.                                *)
(***************************************************************************)
EXTENDS TickBarrier

Gate == INSTANCE TickGate
        WITH Units <- Procs,
             open <- ccpc \in CCInTick,
             inside <- InTick,
             stopping <- ccStop

(***************************************************************************)
(* PROJECT.md: "All units complete tick N before CC advances to tick N+1". *)
(* True of every unit that takes part: CC never leaves a tick, unless it   *)
(* is told to stop, while a unit that took a start permit is still busy,   *)
(* and no unit starts while no tick is running.                            *)
(***************************************************************************)
ImplementsGate == Gate!Spec
=============================================================================
