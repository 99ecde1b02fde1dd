------------------------------ MODULE TickGate ------------------------------
(***************************************************************************)
(* What the tick barrier promises, without semaphores, locks or slots: a   *)
(* gate that opens for a tick.  Units go in only while it is open, and it  *)
(* closes only when all of them have come out.  An order to stop may close *)
(* it at once, and then whoever is inside, or still on the way in, no      *)
(* longer matters; but the gate never opens again over somebody inside.    *)
(***************************************************************************)
CONSTANT Units

VARIABLES
    open,      \* a tick is running
    inside,    \* units that take part in it at this moment
    stopping   \* the simulation has been told to stop

gateVars == <<open, inside, stopping>>

Init == open = FALSE /\ inside = {} /\ stopping = FALSE

Open == ~open /\ inside = {} /\ open' = TRUE /\ UNCHANGED <<inside, stopping>>

Enter(u) ==
    /\ open \/ stopping
    /\ u \in Units \ inside
    /\ inside' = inside \cup {u}
    /\ UNCHANGED <<open, stopping>>

\* one unit comes out, or an order to stop throws out several
Leave(leaving) ==
    /\ leaving \subseteq inside /\ leaving # {}
    /\ stopping \/ \E u \in Units : leaving = {u}
    /\ inside' = inside \ leaving
    /\ UNCHANGED <<open, stopping>>

Close ==
    /\ open /\ (inside = {} \/ stopping)
    /\ open' = FALSE
    /\ UNCHANGED <<inside, stopping>>

Stop ==
    /\ stopping' = TRUE
    /\ open' = open \/ open' = FALSE
    /\ UNCHANGED inside

Next ==
    \/ Open \/ Close \/ Stop
    \/ \E u \in Units : Enter(u)
    \/ \E leaving \in SUBSET inside : Leave(leaving)

Spec == Init /\ [][Next]_gateVars
=============================================================================
