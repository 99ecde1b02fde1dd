-------------------------- MODULE SpawnRefinement --------------------------
(***************************************************************************)
(* The spawn protocol implements the account: the pending request of a     *)
(* battleship is wherever its one message is, in q_req or in q_rep.        *)
(***************************************************************************)
EXTENDS SpawnBay

PendingOf(p) ==
    IF Asking(p) # {} THEN "asked"
    ELSE IF reps[p] = <<>> THEN "none"
    ELSE IF reps[p][1].status = "ok" THEN "granted" ELSE "refused"

Account == INSTANCE BayAccount
           WITH Units <- Procs, pending <- [p \in Procs |-> PendingOf(p)]

(***************************************************************************)
(* With every fault and with replies lost, a battleship still asks for one *)
(* squadron at a time, and counts one only after CC has said ok to a       *)
(* request of its own.                                                     *)
(***************************************************************************)
ImplementsAccount == Account!Spec
=============================================================================
