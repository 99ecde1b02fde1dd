---------------------------- MODULE DamageProofs ----------------------------
(***************************************************************************)
(* Proofs about Damage: types, no lost wakeup, no message for a unit that  *)
(* died of its wounds, settled accounts before a unit acts, and the        *)
(* refinement of HitPoints, for every registry, number of processes and    *)
(* strength of units and weapons.                                          *)
(***************************************************************************)
EXTENDS Damage, TLAPS

-----------------------------------------------------------------------------
(* The inductive invariant *)

\* The pid in a slot is that of a process of the unit, which has been born.
\* So messages reach the unit they are meant for, even when slots are reused,
\* processes register late and marks hit the wrong owner.
RightRecipient ==
    \A u \in Units : pid[u] # 0 => slot[pid[u]] = u /\ proc[pid[u]] # "unborn"

\* nobody has messages before its handler is there: the first hit kills it
EmptyUntilArmed ==
    \A p \in Processes : proc[p] \in {"unborn", "boot"} => inbox[p].n = 0

\* no damage without a message
MessagesCarryDamage == \A p \in Processes : inbox[p].n = 0 => inbox[p].total = 0

\* a process still in its loop has nothing to leave for, and hit points; those
\* run out only for one that leaves for that reason
AliveAndWell ==
    \A p \in Processes :
        /\ proc[p] \notin Leaving => cause[p] = "none"
        /\ hp[p] = 0 <=> cause[p] = "damage"

\* as long as the slot names a process that died of its wounds, it is marked
DeadStayMarked ==
    \A u \in Units : pid[u] # 0 /\ cause[pid[u]] = "damage" => ~alive[u]

IInv ==
    /\ TypeOK
    /\ RightRecipient
    /\ EmptyUntilArmed
    /\ MessagesCarryDamage
    /\ AliveAndWell
    /\ DeadStayMarked
    /\ NoLostWakeup
    /\ OrphansExplained

-----------------------------------------------------------------------------
LEMMA Constants ==
    /\ MaxHP \in Nat \ {0} /\ MaxVolley \in Nat
    /\ MaxDamage \in Nat \ {0} /\ MaxQueued \in Nat
    /\ 0 \notin Processes
BY DamageAssumption

\* messages that are not sent carry no damage
LEMMA VolleyFacts ==
    ASSUME NEW v \in Volleys
    PROVE  /\ v[1] \in Nat /\ v[2] \in Nat
           /\ v[1] = 0 => v[2] = 0
<1>1. /\ v[1] \in 0 .. MaxVolley
      /\ v[2] \in 0 .. MaxVolley * MaxDamage
      /\ v[2] <= v[1] * MaxDamage
  BY DEF Volleys
<1>2. v[1] \in Nat /\ v[2] \in Nat
  BY <1>1, Constants
<1>3. ASSUME v[1] = 0 PROVE v[2] = 0
  <2>1. v[1] * MaxDamage = 0
    BY <1>3, Constants
  <2> QED
    BY <1>1, <1>2, <2>1
<1> QED
  BY <1>2, <1>3

\* what is left after a drain
LEMMA Settling ==
    ASSUME TypeOK, NEW p \in Processes
    PROVE  /\ Wounded(p) \in 0 .. MaxHP
           /\ Wounded(p) = IF hp[p] <= inbox[p].total THEN 0 ELSE hp[p] - inbox[p].total
           /\ NoMail \in Mail /\ NoMail.n = 0 /\ NoMail.total = 0
           /\ Drained(p) = NoMail
BY Constants DEF TypeOK, Wounded, Drained, NoMail, Mail

LEMMA InitIInv == Init => IInv
<1> SUFFICES ASSUME Init PROVE IInv
  OBVIOUS
<1>1. NoMail \in Mail /\ NoMail.n = 0 /\ NoMail.total = 0
  BY Constants DEF NoMail, Mail
<1>2. TypeOK
  <2>1. inbox \in [Processes -> Mail]
    BY <1>1 DEF Init
  <2>2. hp \in [Processes -> 0 .. MaxHP]
    BY Constants DEF Init
  <2> QED
    BY <2>1, <2>2 DEF Init, TypeOK
<1>3. RightRecipient /\ DeadStayMarked
  BY DEF Init, RightRecipient, DeadStayMarked
<1>4. EmptyUntilArmed /\ MessagesCarryDamage /\ NoLostWakeup
  BY <1>1 DEF Init, EmptyUntilArmed, MessagesCarryDamage, NoLostWakeup
<1>5. AliveAndWell /\ OrphansExplained
  BY Constants DEF Init, AliveAndWell, OrphansExplained
<1> QED
  BY <1>2, <1>3, <1>4, <1>5 DEF IInv

-----------------------------------------------------------------------------
(* Every step preserves the invariant *)

\* SIGTERM to a process that some slot names
LEMMA SignalsAreHarmless ==
    ASSUME IInv, NEW u \in Units, pid[u] # 0, Terminates(pid[u]),
           UNCHANGED <<alive, slot, hp, pending, inbox, closing>>,
           pid' \in {pid, [pid EXCEPT ![u] = 0]}
    PROVE  IInv'
<1> DEFINE p == pid[u]
<1>1. p \in Processes
  BY DEF IInv, TypeOK
<1>2. pid' \in [Units -> Processes \cup {0}]
  BY DEF IInv, TypeOK
<1>3. \A w \in Units : pid'[w] # 0 => pid'[w] = pid[w]
  BY DEF IInv, TypeOK
<1>4. CASE proc[p] = "boot" /\ UNCHANGED <<proc, cause, stop>>
  BY <1>1, <1>2, <1>3, <1>4
     DEF IInv, TypeOK, RightRecipient, EmptyUntilArmed, MessagesCarryDamage,
         AliveAndWell, DeadStayMarked, NoLostWakeup, OrphansExplained, Leaving
<1>5. CASE /\ proc[p] = "boot"
           /\ proc' = [proc EXCEPT ![p] = "gone"]
           /\ cause' = [cause EXCEPT ![p] = "boot"]
           /\ UNCHANGED stop
  <2>1. TypeOK'
    BY <1>1, <1>2, <1>5 DEF IInv, TypeOK, Leaving
  <2>2. \A q \in Processes : q # p => proc'[q] = proc[q] /\ cause'[q] = cause[q]
    BY <1>5 DEF IInv, TypeOK
  <2>3. proc'[p] = "gone" /\ cause'[p] = "boot" /\ cause[p] = "none" /\ hp[p] # 0
    BY <1>1, <1>5 DEF IInv, TypeOK, AliveAndWell, Leaving
  <2>4. RightRecipient' /\ DeadStayMarked'
    BY <1>1, <1>2, <1>3, <2>2, <2>3 DEF IInv, TypeOK, RightRecipient, DeadStayMarked
  <2>5. EmptyUntilArmed' /\ MessagesCarryDamage' /\ AliveAndWell' /\ NoLostWakeup'
        /\ OrphansExplained'
    BY <2>2, <2>3 DEF IInv, EmptyUntilArmed, MessagesCarryDamage, AliveAndWell,
                      NoLostWakeup, OrphansExplained, Leaving
  <2> QED
    BY <2>1, <2>4, <2>5 DEF IInv
<1>6. CASE proc[p] # "boot" /\ stop' = [stop EXCEPT ![p] = TRUE] /\ UNCHANGED <<proc, cause>>
  <2>1. stop' \in [Processes -> BOOLEAN]
    BY <1>1, <1>6 DEF IInv, TypeOK
  <2> QED
    BY <1>1, <1>2, <1>3, <1>6, <2>1
       DEF IInv, TypeOK, RightRecipient, EmptyUntilArmed, MessagesCarryDamage,
           AliveAndWell, DeadStayMarked, NoLostWakeup, OrphansExplained, Leaving
<1> QED
  BY <1>4, <1>5, <1>6 DEF Terminates

\* a process moves to the end of main, and changes nothing else
LEMMA LeavingIsHarmless ==
    ASSUME IInv, NEW p \in Processes, NEW why \in {"marked", "signal"},
           proc[p] \in {"run", "acting"}, Leaves(p, why),
           UNCHANGED <<pid, alive, slot, hp, pending, stop, inbox, closing>>
    PROVE  IInv'
<1>1. TypeOK'
  BY DEF IInv, TypeOK, Leaves, Leaving
<1>2. \A q \in Processes : q # p => proc'[q] = proc[q] /\ cause'[q] = cause[q]
  BY DEF IInv, TypeOK, Leaves
<1>3. proc'[p] = "late" /\ cause'[p] = why /\ cause[p] = "none" /\ hp[p] # 0
  BY DEF IInv, TypeOK, Leaves, AliveAndWell, Leaving
<1>4. RightRecipient' /\ DeadStayMarked'
  BY <1>2, <1>3 DEF IInv, TypeOK, RightRecipient, DeadStayMarked
<1>5. EmptyUntilArmed' /\ MessagesCarryDamage' /\ AliveAndWell' /\ NoLostWakeup'
      /\ OrphansExplained'
  BY <1>2, <1>3 DEF IInv, EmptyUntilArmed, MessagesCarryDamage, AliveAndWell,
                    NoLostWakeup, OrphansExplained, Leaving
<1> QED
  BY <1>1, <1>4, <1>5 DEF IInv

LEMMA EnterPreserves ==
    ASSUME IInv, NEW p \in Processes, Enter(p)
    PROVE  IInv'
<1> DEFINE left == IF pending[p] THEN Wounded(p) ELSE hp[p]
<1>type. TypeOK
  BY DEF IInv
<1>1. /\ left \in 0 .. MaxHP
      /\ NoMail \in Mail /\ NoMail.n = 0 /\ NoMail.total = 0
      /\ Drained(p) = NoMail
  BY <1>type, Settling DEF TypeOK
<1>2. /\ hp' = [hp EXCEPT ![p] = left]
      /\ inbox' = [inbox EXCEPT ![p] = IF pending[p] THEN NoMail ELSE @]
      /\ pending' = [pending EXCEPT ![p] = FALSE]
      /\ UNCHANGED <<pid, slot, stop, closing>>
  BY <1>1 DEF Enter
<1>3. /\ proc[p] = "run" /\ cause[p] = "none"
      /\ ~pending[p] => inbox[p].n = 0 /\ inbox[p] \in Mail
  BY <1>type DEF Enter, IInv, AliveAndWell, NoLostWakeup, Leaving, TypeOK, Mail
<1>4. /\ inbox' \in [Processes -> Mail]
      /\ inbox'[p].n = 0 /\ inbox'[p].total = 0
      /\ hp'[p] = left
      /\ \A q \in Processes : q # p => /\ hp'[q] = hp[q] /\ inbox'[q] = inbox[q]
                                       /\ pending'[q] = pending[q]
  <2>1. inbox'[p] = IF pending[p] THEN NoMail ELSE inbox[p]
    BY <1>2, <1>type DEF TypeOK
  <2>2. ~pending[p] => inbox[p].total = 0
    BY <1>3 DEF IInv, MessagesCarryDamage
  <2> QED
    BY <1>1, <1>2, <1>3, <1>type, <2>1, <2>2 DEF TypeOK
<1>5. CASE /\ left = 0
           /\ alive' = [alive EXCEPT ![slot[p]] = FALSE]
           /\ Leaves(p, "damage")
  <2>1. TypeOK'
    BY <1>1, <1>2, <1>4, <1>5, <1>type DEF TypeOK, Leaves, Leaving
  <2>2. /\ proc'[p] = "late" /\ cause'[p] = "damage"
        /\ \A q \in Processes : q # p => proc'[q] = proc[q] /\ cause'[q] = cause[q]
        /\ alive'[slot[p]] = FALSE
        /\ \A u \in Units : alive'[u] => alive[u]
    BY <1>5, <1>type DEF TypeOK, Leaves
  <2>3. RightRecipient' /\ DeadStayMarked'
    BY <1>2, <2>2, <1>type DEF IInv, TypeOK, RightRecipient, DeadStayMarked
  <2>4. inbox'[p] = NoMail
    BY <1>4 DEF Mail, NoMail
  <2>5. EmptyUntilArmed' /\ MessagesCarryDamage' /\ NoLostWakeup'
    BY <1>4, <2>2, <2>4 DEF IInv, EmptyUntilArmed, MessagesCarryDamage, NoLostWakeup
  <2>6. AliveAndWell' /\ OrphansExplained'
    BY <1>4, <1>5, <2>2, <2>4 DEF IInv, AliveAndWell, OrphansExplained, Leaving
  <2> QED
    BY <2>1, <2>3, <2>5, <2>6 DEF IInv
<1>6. CASE /\ left # 0
           /\ proc' \in {proc, [proc EXCEPT ![p] = "acting"]}
           /\ UNCHANGED <<alive, cause>>
  <2>1. TypeOK'
    BY <1>1, <1>2, <1>4, <1>6, <1>type DEF TypeOK
  <2>2. /\ proc'[p] \in {"run", "acting"}
        /\ \A q \in Processes : q # p => proc'[q] = proc[q]
    BY <1>3, <1>6, <1>type DEF TypeOK
  <2>3. RightRecipient' /\ DeadStayMarked'
    BY <1>2, <1>6, <2>2, <1>type DEF IInv, TypeOK, RightRecipient, DeadStayMarked
  <2>4. EmptyUntilArmed' /\ MessagesCarryDamage' /\ NoLostWakeup'
    BY <1>4, <2>2 DEF IInv, EmptyUntilArmed, MessagesCarryDamage, NoLostWakeup
  <2>5. AliveAndWell' /\ OrphansExplained'
    BY <1>3, <1>4, <1>6, <2>2 DEF IInv, AliveAndWell, OrphansExplained, Leaving
  <2> QED
    BY <2>1, <2>3, <2>4, <2>5 DEF IInv
<1> QED
  BY <1>5, <1>6 DEF Enter

\* whom a volley hits: a process that is born, is not the one that shoots and
\* has not died of wounds
LEMMA TargetOf ==
    ASSUME IInv, NEW p \in Processes, NEW u \in Units, NEW n, NEW damage,
           Shoot(p, u, n, damage)
    PROVE  /\ pid[u] \in Processes /\ pid[u] # p
           /\ proc[pid[u]] # "unborn" /\ cause[pid[u]] # "damage"
BY DEF IInv, TypeOK, RightRecipient, DeadStayMarked, Shoot

LEMMA ShootPreserves ==
    ASSUME IInv, NEW p \in Processes, NEW u \in Units,
           NEW n \in Nat, NEW damage \in Nat, n = 0 => damage = 0,
           Shoot(p, u, n, damage)
    PROVE  IInv'
<1> DEFINE t == pid[u]
           mail == [n |-> inbox[t].n + n, total |-> inbox[t].total + damage]
<1>type. TypeOK
  BY DEF IInv
<1>1. t \in Processes /\ t # p /\ proc[t] # "unborn" /\ cause[t] # "damage"
  BY TargetOf
<1>2. /\ inbox[t] \in Mail
      /\ mail.n = inbox[t].n + n /\ mail.total = inbox[t].total + damage
      /\ mail \in Mail
  BY <1>1, <1>type, Constants DEF TypeOK, Shoot, Mail
<1>3. mail.n = 0 => mail.total = 0
  BY <1>1, <1>2 DEF IInv, MessagesCarryDamage, Mail
<1>4. /\ inbox' = [inbox EXCEPT ![t] = mail]
      /\ UNCHANGED <<pid, alive, slot, hp, stop, closing>>
      /\ proc[p] = "acting"
  BY DEF Shoot
<1>5. /\ inbox' \in [Processes -> Mail]
      /\ inbox'[t] = mail
      /\ \A q \in Processes : q # t => inbox'[q] = inbox[q]
  BY <1>1, <1>2, <1>4, <1>type DEF TypeOK
<1>6. MessagesCarryDamage'
  BY <1>3, <1>5 DEF IInv, MessagesCarryDamage
<1>7. CASE /\ proc[t] = "boot"
           /\ proc' = [proc EXCEPT ![p] = "run", ![t] = "gone"]
           /\ cause' = [cause EXCEPT ![t] = "boot"]
           /\ UNCHANGED pending
  <2>1. TypeOK'
    BY <1>1, <1>4, <1>5, <1>7, <1>type DEF TypeOK, Leaving
  <2>2. /\ proc'[t] = "gone" /\ proc'[p] = "run" /\ cause'[t] = "boot"
        /\ \A q \in Processes : q # t /\ q # p => proc'[q] = proc[q]
        /\ \A q \in Processes : q # t => cause'[q] = cause[q]
    BY <1>1, <1>7, <1>type DEF TypeOK
  <2>3. RightRecipient' /\ DeadStayMarked'
    BY <1>4, <2>2, <1>type DEF IInv, TypeOK, RightRecipient, DeadStayMarked
  <2>4. EmptyUntilArmed' /\ NoLostWakeup'
    BY <1>4, <1>5, <1>7, <2>2 DEF IInv, EmptyUntilArmed, NoLostWakeup
  <2>5. AliveAndWell' /\ OrphansExplained'
    <3>1. \A q \in Processes : hp'[q] = hp[q]
      BY <1>4
    <3>2. AliveAndWell'
      BY <1>1, <1>4, <2>2, <3>1 DEF IInv, AliveAndWell, Leaving
    <3>3. OrphansExplained'
      BY <1>5, <2>2, <3>1 DEF IInv, OrphansExplained
    <3> QED
      BY <3>2, <3>3
  <2> QED
    BY <1>6, <2>1, <2>3, <2>4, <2>5 DEF IInv
<1>8. CASE /\ proc[t] # "boot"
           /\ proc' = [proc EXCEPT ![p] = "run"]
           /\ pending' = [pending EXCEPT ![t] = TRUE]
           /\ UNCHANGED cause
  <2>1. TypeOK'
    BY <1>1, <1>4, <1>5, <1>8, <1>type DEF TypeOK
  <2>2. /\ proc'[p] = "run" /\ pending'[t] = TRUE
        /\ \A q \in Processes : q # p => proc'[q] = proc[q]
        /\ \A q \in Processes : q # t => pending'[q] = pending[q]
    BY <1>1, <1>8, <1>type DEF TypeOK
  <2>3. RightRecipient' /\ DeadStayMarked'
    BY <1>4, <1>8, <2>2, <1>type DEF IInv, TypeOK, RightRecipient, DeadStayMarked
  <2>4. EmptyUntilArmed' /\ NoLostWakeup'
    BY <1>1, <1>4, <1>5, <1>8, <2>2 DEF IInv, EmptyUntilArmed, NoLostWakeup
  <2>5. AliveAndWell' /\ OrphansExplained'
    BY <1>1, <1>4, <1>5, <2>2, <1>8 DEF IInv, AliveAndWell, OrphansExplained, Leaving
  <2> QED
    BY <1>6, <2>1, <2>3, <2>4, <2>5 DEF IInv
<1> QED
  BY <1>4, <1>7, <1>8 DEF Shoot

LEMMA NextPreserves == IInv /\ [Next]_vars => IInv'
<1> SUFFICES ASSUME IInv, [Next]_vars PROVE IInv'
  OBVIOUS
<1>type. TypeOK
  BY DEF IInv
<1>1. CASE UNCHANGED vars
  BY <1>1 DEF vars, IInv, TypeOK, RightRecipient, EmptyUntilArmed, MessagesCarryDamage,
              AliveAndWell, DeadStayMarked, NoLostWakeup, OrphansExplained
<1>2. CASE BeginShutdown
  BY <1>2 DEF BeginShutdown, IInv, TypeOK, RightRecipient, EmptyUntilArmed,
              MessagesCarryDamage, AliveAndWell, DeadStayMarked, NoLostWakeup, OrphansExplained
<1>3. ASSUME NEW u \in Units, NEW p \in Processes, Fork(u, p)
      PROVE  IInv'
  <2>1. /\ proc[p] = "unborn" /\ slot[p] = u /\ cause[p] = "none" /\ p # 0
        /\ pid'[u] = p /\ proc'[p] = "boot"
        /\ \A w \in Units : w # u => pid'[w] = pid[w] /\ alive'[w] = alive[w]
        /\ \A q \in Processes : q # p => proc'[q] = proc[q]
        /\ UNCHANGED <<slot, hp, pending, stop, inbox, cause, closing>>
    BY <1>3, <1>type, Constants DEF Fork, TypeOK, IInv, AliveAndWell, Leaving
  <2>2. TypeOK'
    BY <1>3, <1>type DEF Fork, TypeOK
  <2>3. RightRecipient' /\ DeadStayMarked'
    BY <2>1, <1>type DEF IInv, TypeOK, RightRecipient, DeadStayMarked
  <2>4. EmptyUntilArmed' /\ MessagesCarryDamage' /\ NoLostWakeup'
    BY <2>1 DEF IInv, EmptyUntilArmed, MessagesCarryDamage, NoLostWakeup
  <2>5. AliveAndWell' /\ OrphansExplained'
    BY <2>1 DEF IInv, AliveAndWell, OrphansExplained, Leaving
  <2> QED
    BY <2>2, <2>3, <2>4, <2>5 DEF IInv
<1>4. ASSUME NEW u \in Units, Cleanup(u) PROVE IInv'
  BY <1>4, SignalsAreHarmless DEF Cleanup
<1>5. ASSUME NEW u \in Units, Shutdown(u) PROVE IInv'
  BY <1>5, SignalsAreHarmless DEF Shutdown
<1>6. ASSUME NEW p \in Processes, Arm(p) PROVE IInv'
  <2>1. /\ proc[p] = "boot" /\ proc'[p] = "armed" /\ cause[p] = "none"
        /\ \A q \in Processes : q # p => proc'[q] = proc[q]
        /\ UNCHANGED <<pid, alive, slot, hp, pending, stop, inbox, cause, closing>>
    BY <1>6, <1>type DEF Arm, TypeOK, IInv, AliveAndWell, Leaving
  <2>2. TypeOK'
    BY <1>6, <1>type DEF Arm, TypeOK
  <2>3. RightRecipient' /\ DeadStayMarked'
    BY <2>1, <1>type DEF IInv, TypeOK, RightRecipient, DeadStayMarked
  <2>4. EmptyUntilArmed' /\ MessagesCarryDamage' /\ NoLostWakeup'
    BY <2>1, <1>type DEF IInv, EmptyUntilArmed, MessagesCarryDamage, NoLostWakeup, TypeOK, Mail
  <2>5. AliveAndWell' /\ OrphansExplained'
    BY <2>1 DEF IInv, AliveAndWell, OrphansExplained, Leaving
  <2> QED
    BY <2>2, <2>3, <2>4, <2>5 DEF IInv
<1>7. ASSUME NEW p \in Processes, RegisterSelf(p) PROVE IInv'
  <2>1. /\ proc[p] = "armed" /\ proc'[p] = "run" /\ cause[p] = "none" /\ p # 0
        /\ \A q \in Processes : q # p => proc'[q] = proc[q]
        /\ pid'[slot[p]] = p
        /\ \A w \in Units : w # slot[p] => pid'[w] = pid[w] /\ alive'[w] = alive[w]
        /\ UNCHANGED <<slot, hp, pending, stop, inbox, cause, closing>>
    BY <1>7, <1>type, Constants DEF RegisterSelf, TypeOK, IInv, AliveAndWell, Leaving
  <2>2. TypeOK'
    BY <1>7, <1>type DEF RegisterSelf, TypeOK
  <2>3. RightRecipient' /\ DeadStayMarked'
    BY <2>1, <1>type DEF IInv, TypeOK, RightRecipient, DeadStayMarked
  <2>4. EmptyUntilArmed' /\ MessagesCarryDamage' /\ NoLostWakeup'
    BY <2>1 DEF IInv, EmptyUntilArmed, MessagesCarryDamage, NoLostWakeup
  <2>5. AliveAndWell' /\ OrphansExplained'
    BY <2>1 DEF IInv, AliveAndWell, OrphansExplained, Leaving
  <2> QED
    BY <2>2, <2>3, <2>4, <2>5 DEF IInv
<1>8. ASSUME NEW p \in Processes, Enter(p) PROVE IInv'
  BY <1>8, EnterPreserves
<1>9. ASSUME NEW p \in Processes, FoundDead(p) PROVE IInv'
  BY <1>9, LeavingIsHarmless DEF FoundDead
<1>10. ASSUME NEW p \in Processes, Interrupted(p) PROVE IInv'
  BY <1>10, LeavingIsHarmless DEF Interrupted
<1>11. ASSUME NEW p \in Processes, HoldFire(p) PROVE IInv'
  <2>1. /\ proc[p] = "acting" /\ proc'[p] = "run"
        /\ \A q \in Processes : q # p => proc'[q] = proc[q]
        /\ UNCHANGED <<pid, alive, slot, hp, pending, stop, inbox, cause, closing>>
    BY <1>11, <1>type DEF HoldFire, TypeOK
  <2>2. TypeOK'
    BY <1>11, <1>type DEF HoldFire, TypeOK
  <2>3. RightRecipient' /\ DeadStayMarked'
    BY <2>1, <1>type DEF IInv, TypeOK, RightRecipient, DeadStayMarked
  <2>4. EmptyUntilArmed' /\ MessagesCarryDamage' /\ NoLostWakeup'
    BY <2>1 DEF IInv, EmptyUntilArmed, MessagesCarryDamage, NoLostWakeup
  <2>5. AliveAndWell' /\ OrphansExplained'
    BY <2>1 DEF IInv, AliveAndWell, OrphansExplained, Leaving
  <2> QED
    BY <2>2, <2>3, <2>4, <2>5 DEF IInv
<1>12. ASSUME NEW p \in Processes, NEW u \in Units, NEW v \in Volleys, Shoot(p, u, v[1], v[2])
       PROVE  IInv'
  BY <1>12, VolleyFacts, ShootPreserves
<1>13. ASSUME NEW p \in Processes, LateMark(p) PROVE IInv'
  <2>1. /\ proc[p] = "late" /\ proc'[p] = "gone"
        /\ \A q \in Processes : q # p => proc'[q] = proc[q]
        /\ \A w \in Units : alive'[w] => alive[w]
        /\ UNCHANGED <<pid, slot, hp, pending, stop, inbox, cause, closing>>
    BY <1>13, <1>type DEF LateMark, TypeOK
  <2>2. TypeOK'
    BY <1>13, <1>type DEF LateMark, TypeOK, Leaving
  <2>3. RightRecipient' /\ DeadStayMarked'
    BY <2>1, <1>type DEF IInv, TypeOK, RightRecipient, DeadStayMarked
  <2>4. EmptyUntilArmed' /\ MessagesCarryDamage' /\ NoLostWakeup'
    BY <2>1 DEF IInv, EmptyUntilArmed, MessagesCarryDamage, NoLostWakeup
  <2>5. AliveAndWell' /\ OrphansExplained'
    BY <2>1 DEF IInv, AliveAndWell, OrphansExplained, Leaving
  <2> QED
    BY <2>2, <2>3, <2>4, <2>5 DEF IInv
<1> QED
  BY <1>1, <1>2, <1>3, <1>4, <1>5, <1>6, <1>7, <1>8, <1>9, <1>10, <1>11, <1>12, <1>13
     DEF Next, Act

-----------------------------------------------------------------------------
(* The invariant as theorems *)

LEMMA Invariance == Spec => []IInv
<1>1. Init => IInv
  BY InitIInv
<1>2. IInv /\ [Next]_vars => IInv'
  BY NextPreserves
<1> QED
  BY <1>1, <1>2, PTL DEF Spec

\* the registry, processes, flags and queues keep their types
THEOREM TypeCorrect == Spec => []TypeOK
<1>1. IInv => TypeOK
  BY DEF IInv
<1> QED
  BY <1>1, Invariance, PTL

\* a message in the queue of a unit that can still drain it has raised its flag
THEOREM MessagesAreAnnounced == Spec => []NoLostWakeup
<1>1. IInv => NoLostWakeup
  BY DEF IInv
<1> QED
  BY <1>1, Invariance, PTL

\* who died of its wounds leaves nothing in the request queue, ever
THEOREM TheDeadGetNoMail == Spec => []OrphansExplained
<1>1. IInv => OrphansExplained
  BY DEF IInv
<1> QED
  BY <1>1, Invariance, PTL

-----------------------------------------------------------------------------
(* Accounts are settled before a unit acts *)

LEMMA StepsSettle ==
    ASSUME IInv, [Next]_vars, NEW p \in Processes, proc[p] = "run", proc'[p] = "acting"
    PROVE  hp'[p] > 0 /\ inbox'[p] = NoMail
<1>type. TypeOK
  BY DEF IInv
<1>1. Enter(p)
  <2>1. \A q \in Processes : Enter(q) => q = p
    BY <1>type DEF Enter, TypeOK, Leaves
  <2>2. ~ UNCHANGED proc
    OBVIOUS
  <2>3. \A u \in Units : ~ (Cleanup(u) \/ Shutdown(u))
    BY <1>type DEF Cleanup, Shutdown, Terminates, TypeOK
  <2>4. \A q \in Processes, u \in Units : ~ Fork(u, q)
    BY <1>type DEF Fork, TypeOK
  <2>5. \A q \in Processes : ~ (Arm(q) \/ RegisterSelf(q) \/ FoundDead(q)
                                \/ Interrupted(q) \/ LateMark(q) \/ HoldFire(q))
    BY <1>type DEF Arm, RegisterSelf, FoundDead, Interrupted, LateMark, HoldFire, Leaves, TypeOK
  <2>6. \A q \in Processes, u \in Units : \A v \in Volleys : ~ Shoot(q, u, v[1], v[2])
    BY <1>type DEF Shoot, TypeOK
  <2> QED
    BY <2>1, <2>2, <2>3, <2>4, <2>5, <2>6 DEF Next, Act, BeginShutdown, vars
<1>2. /\ ~pending[p] => inbox[p].n = 0 /\ inbox[p].total = 0 /\ inbox[p] \in Mail
      /\ ~pending[p] => hp[p] > 0
  BY <1>type DEF IInv, NoLostWakeup, MessagesCarryDamage, AliveAndWell, TypeOK, Leaving, Mail
<1>3. ~pending[p] => inbox[p] = NoMail
  BY <1>2 DEF Mail, NoMail
<1>4. inbox'[p] = NoMail
  BY <1>1, <1>3, <1>type DEF Enter, TypeOK, Drained
<1>5. hp'[p] = IF pending[p] THEN Wounded(p) ELSE hp[p]
  BY <1>1, <1>type DEF Enter, TypeOK
<1>6. (IF pending[p] THEN Wounded(p) ELSE hp[p]) # 0
  BY <1>1, <1>type DEF Enter, Leaves, TypeOK
<1> QED
  BY <1>4, <1>5, <1>6, <1>type, Settling, Constants DEF TypeOK

\* a unit goes on to act only when what was owed to it is paid and it lives
THEOREM ActorsAreSettled == Spec => SettledBeforeActing
<1>1. IInv /\ [Next]_vars =>
        [\A p \in Processes : (proc[p] = "run" /\ proc'[p] = "acting")
                                 => hp'[p] > 0 /\ inbox'[p] = NoMail]_vars
  BY StepsSettle
<1> QED
  BY <1>1, Invariance, PTL DEF Spec, SettledBeforeActing

-----------------------------------------------------------------------------
(* The refinement of HitPoints *)

Owed == [p \in Processes |-> inbox[p].total]
Phases == [p \in Processes |-> PhaseOf(p)]

LEMMA InitOpensAccounts == Init => Account!Init
<1> SUFFICES ASSUME Init PROVE Account!Init
  OBVIOUS
<1>1. \A p \in Processes : inbox[p].total = 0 /\ PhaseOf(p) = "unborn"
  BY DEF Init, NoMail, PhaseOf
<1> QED
  BY <1>1 DEF Init, Account!Init

LEMMA AccountStutters ==
    ASSUME UNCHANGED hp,
           \A p \in Processes : inbox'[p].total = inbox[p].total /\ PhaseOf(p)' = PhaseOf(p)
    PROVE  UNCHANGED <<hp, Owed, Phases>>
BY DEF Owed, Phases

\* one process leaves, the accounts stay
LEMMA LeaveMaps ==
    ASSUME NEW p \in Processes, UNCHANGED <<hp, inbox>>,
           PhaseOf(p) = "alive", PhaseOf(p)' = "dead",
           \A q \in Processes : q # p => PhaseOf(q)' = PhaseOf(q)
    PROVE  Account!Leave(p)
BY DEF Account!Leave

LEMMA EnterMaps ==
    ASSUME IInv, NEW p \in Processes, Enter(p)
    PROVE  Account!Settle(p)
<1>type. TypeOK
  BY DEF IInv
<1>1. ~pending[p] => inbox[p].total = 0 /\ hp[p] # 0
  <2>1. proc[p] = "run" /\ cause[p] # "damage"
    BY DEF Enter, IInv, AliveAndWell, Leaving
  <2>2. hp[p] # 0
    BY <2>1 DEF IInv, AliveAndWell
  <2>3. inbox[p].n \in Nat
    BY <1>type, Constants DEF TypeOK, Mail
  <2>4. ~pending[p] => inbox[p].n = 0
    BY <2>1, <2>3 DEF IInv, NoLostWakeup
  <2> QED
    BY <2>2, <2>4 DEF IInv, MessagesCarryDamage
<1>2. NoMail.total = 0 /\ Drained(p) = NoMail
  BY DEF Drained, NoMail
<1>3. /\ inbox'[p].total = 0
      /\ \A q \in Processes : q # p => inbox'[q] = inbox[q]
  BY <1>1, <1>2, <1>type DEF Enter, TypeOK
<1>4. /\ inbox[p].total \in Nat /\ hp[p] \in Nat
      /\ Wounded(p) = IF hp[p] <= inbox[p].total THEN 0 ELSE hp[p] - inbox[p].total
  BY <1>type, Settling, Constants DEF TypeOK, Mail
<1>5. hp' = [hp EXCEPT ![p] = Account!Less(@, inbox[p].total)]
  <2>1. Account!Less(hp[p], inbox[p].total) = IF pending[p] THEN Wounded(p) ELSE hp[p]
    BY <1>1, <1>4 DEF Account!Less
  <2>2. hp' = [hp EXCEPT ![p] = IF pending[p] THEN Wounded(p) ELSE hp[p]]
    BY DEF Enter
  <2> QED
    BY <2>1, <2>2, <1>type DEF TypeOK
<1>6. /\ PhaseOf(p) = "alive"
      /\ PhaseOf(p)' = IF hp'[p] = 0 THEN "dead" ELSE "alive"
      /\ \A q \in Processes : q # p => PhaseOf(q)' = PhaseOf(q)
  BY <1>type DEF Enter, Leaves, PhaseOf, Leaving, TypeOK
<1> QED
  BY <1>3, <1>5, <1>6 DEF Account!Settle

LEMMA ShootMaps ==
    ASSUME IInv, NEW p \in Processes, NEW u \in Units,
           NEW n \in Nat, NEW damage \in Nat, Shoot(p, u, n, damage),
           NEW t, t = pid[u]
    PROVE  Account!Hit(t)
<1>type. TypeOK
  BY DEF IInv
<1>1. t \in Processes /\ t # p /\ proc[t] # "unborn" /\ cause[t] # "damage"
  BY TargetOf
<1>2. hp[t] # 0
  BY <1>1 DEF IInv, AliveAndWell
<1>3. /\ inbox[t].total \in Nat
      /\ inbox'[t].total = inbox[t].total + damage
      /\ \A q \in Processes : q # t => inbox'[q] = inbox[q]
      /\ UNCHANGED hp
  BY <1>1, <1>type DEF Shoot, TypeOK, Mail
<1>4. Owed' = [Owed EXCEPT ![t] = Owed'[t]] /\ Owed'[t] >= Owed[t]
  BY <1>1, <1>3 DEF Owed
<1>5. PhaseOf(t) # "unborn"
  BY <1>1 DEF PhaseOf
<1>6. CASE proc[t] = "boot" /\ proc' = [proc EXCEPT ![p] = "run", ![t] = "gone"]
  <2>1. /\ PhaseOf(t)' = "dead"
        /\ \A q \in Processes : q # t => PhaseOf(q)' = PhaseOf(q)
    BY <1>1, <1>6, <1>type DEF PhaseOf, Leaving, TypeOK, Shoot
  <2>2. Phases' = [Phases EXCEPT ![t] = "dead"]
    BY <1>1, <2>1 DEF Phases
  <2> QED
    BY <1>1, <1>2, <1>3, <1>4, <1>5, <2>2 DEF Account!Hit, Owed, Phases
<1>7. CASE proc' = [proc EXCEPT ![p] = "run"]
  <2>1. \A q \in Processes : PhaseOf(q)' = PhaseOf(q)
    BY <1>1, <1>7, <1>type DEF PhaseOf, Leaving, TypeOK, Shoot
  <2>2. Phases' = Phases
    BY <2>1 DEF Phases
  <2> QED
    BY <1>1, <1>2, <1>3, <1>4, <1>5, <2>2 DEF Account!Hit, Owed, Phases
<1> QED
  BY <1>6, <1>7 DEF Shoot

LEMMA TerminatesMaps ==
    ASSUME IInv, NEW p \in Processes, Terminates(p), UNCHANGED <<hp, inbox>>
    PROVE  Account!Next \/ UNCHANGED <<hp, Owed, Phases>>
<1>type. TypeOK
  BY DEF IInv
<1>2. CASE UNCHANGED proc
  BY <1>2, AccountStutters DEF PhaseOf
<1>3. CASE proc[p] = "boot" /\ proc' = [proc EXCEPT ![p] = "gone"]
  <2>1. /\ PhaseOf(p) = "alive" /\ PhaseOf(p)' = "dead"
        /\ \A q \in Processes : q # p => PhaseOf(q)' = PhaseOf(q)
    BY <1>3, <1>type DEF PhaseOf, Leaving, TypeOK
  <2> QED
    BY <2>1, LeaveMaps DEF Account!Next
<1> QED
  BY <1>2, <1>3 DEF Terminates

LEMMA StepsKeepAccount == IInv /\ [Next]_vars => [Account!Next]_<<hp, Owed, Phases>>
<1> SUFFICES ASSUME IInv, [Next]_vars
             PROVE  Account!Next \/ UNCHANGED <<hp, Owed, Phases>>
  OBVIOUS
<1>type. TypeOK
  BY DEF IInv
<1>1. CASE UNCHANGED vars \/ BeginShutdown
  BY <1>1, AccountStutters DEF vars, BeginShutdown, PhaseOf
<1>2. ASSUME NEW u \in Units, NEW p \in Processes, Fork(u, p)
      PROVE  Account!Next
  <2>1. /\ PhaseOf(p) = "unborn" /\ PhaseOf(p)' = "alive"
        /\ \A q \in Processes : q # p => PhaseOf(q)' = PhaseOf(q)
        /\ UNCHANGED <<hp, inbox>>
    BY <1>2, <1>type DEF Fork, PhaseOf, Leaving, TypeOK
  <2>2. Account!Born(p)
    BY <2>1 DEF Account!Born
  <2> QED
    BY <2>2 DEF Account!Next
<1>3. ASSUME NEW u \in Units, Cleanup(u) \/ Shutdown(u)
      PROVE  Account!Next \/ UNCHANGED <<hp, Owed, Phases>>
  <2>1. pid[u] \in Processes
    BY <1>3, <1>type DEF Cleanup, Shutdown, TypeOK
  <2> QED
    BY <1>3, <2>1, TerminatesMaps DEF Cleanup, Shutdown
<1>4. ASSUME NEW p \in Processes, Arm(p) \/ RegisterSelf(p) \/ HoldFire(p) \/ LateMark(p)
      PROVE  UNCHANGED <<hp, Owed, Phases>>
  <2>1. \A q \in Processes : PhaseOf(q)' = PhaseOf(q)
    BY <1>4, <1>type DEF Arm, RegisterSelf, HoldFire, LateMark, PhaseOf, Leaving, TypeOK
  <2>2. UNCHANGED <<hp, inbox>>
    BY <1>4 DEF Arm, RegisterSelf, HoldFire, LateMark
  <2> QED
    BY <2>1, <2>2, AccountStutters
<1>5. ASSUME NEW p \in Processes, Enter(p) PROVE Account!Next
  BY <1>5, EnterMaps DEF Account!Next
<1>6. ASSUME NEW p \in Processes, FoundDead(p) \/ Interrupted(p) PROVE Account!Next
  <2>1. /\ PhaseOf(p) = "alive" /\ PhaseOf(p)' = "dead"
        /\ \A q \in Processes : q # p => PhaseOf(q)' = PhaseOf(q)
        /\ UNCHANGED <<hp, inbox>>
    BY <1>6, <1>type DEF FoundDead, Interrupted, Leaves, PhaseOf, Leaving, TypeOK
  <2> QED
    BY <2>1, LeaveMaps DEF Account!Next
<1>7. ASSUME NEW p \in Processes, NEW u \in Units, NEW v \in Volleys, Shoot(p, u, v[1], v[2])
      PROVE  Account!Next
  <2>1. pid[u] \in Processes /\ v[1] \in Nat /\ v[2] \in Nat
    BY <1>7, VolleyFacts, TargetOf
  <2>2. PICK t \in Processes : t = pid[u]
    BY <2>1
  <2>3. Account!Hit(t)
    BY <1>7, <2>1, <2>2, ShootMaps
  <2> QED
    BY <2>3 DEF Account!Next
<1> QED
  BY <1>1, <1>2, <1>3, <1>4, <1>5, <1>6, <1>7 DEF Next, Act

\* the messages, flags and processes keep the account HitPoints describes
THEOREM DamageIsAccounted == Spec => KeepsAccount
<1>1. Init => Account!Init
  BY InitOpensAccounts
<1>2. IInv /\ [Next]_vars => [Account!Next]_<<hp, Owed, Phases>>
  BY StepsKeepAccount
<1> QED
  BY <1>1, <1>2, Invariance, PTL DEF Spec, KeepsAccount, Account!Spec, Owed, Phases
=============================================================================
