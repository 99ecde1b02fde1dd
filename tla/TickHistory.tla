----------------------------- MODULE TickHistory -----------------------------
(***************************************************************************)
(* TickBarrier with the history of one tick: which units were registered   *)
(* when the tick began, and which have acted in it.  The history only      *)
(* observes.                                                               *)
(***************************************************************************)
EXTENDS TickBarrier

VARIABLES
    due,    \* units registered alive when the tick began
    acted   \* units that have acted since

historyVars == <<vars, due, acted>>

RegisteredUnits == {pid[s] : s \in {r \in Slots : alive[r] # 0}} \ {NoProc}

TickBegins == ccpc = "drain" /\ ccpc' = "post"

\* process p performs its action of the tick
Performs(p) == upc[p] = "act" /\ upc'[p] = "doneLoop"

\* CC has collected every done permit
TickEnds == ccpc = "doneCheck" /\ collected = expected /\ ccpc' \in AfterTick

HistoryInit == Init /\ due = {} /\ acted = {}

HistoryNext ==
    /\ Next
    /\ due' = IF TickBegins THEN RegisteredUnits ELSE due
    /\ acted' = IF TickBegins THEN {}
                ELSE acted \cup {p \in Procs : Performs(p)}

HistorySpec == HistoryInit /\ [][HistoryNext]_historyVars

(***************************************************************************)
(* battleship.c: "ensure at most one action per tick".  A unit may take    *)
(* several start permits of a tick; it acts on one of them only.           *)
(***************************************************************************)
AtMostOneAction == [][\A p \in Procs : Performs(p) => p \notin acted]_historyVars

(***************************************************************************)
(* PROJECT.md: "All units complete tick N before CC advances to tick N+1". *)
(* When CC has collected the done permits, every unit registered at the    *)
(* start that is still in its loop has acted.                              *)
(***************************************************************************)
AllUnitsAct ==
    [][TickEnds => \A p \in due : upc[p] \in UnitPlaces \ {"exit", "gone"} =>
                      p \in acted]_historyVars
=============================================================================
