-------------------------- MODULE TickBarrierProofs --------------------------
(***************************************************************************)
(* Proofs about TickBarrier, for any number of slots, processes and        *)
(* scenario units, any tick limit and any combination of faults (the count *)
(* of running units: without faults); that it implements TickGate, that no *)
(* unit acts twice in a tick (TickHistory), and that without faults CC and *)
(* the units never come to a stand while every process has its own slot.   *)
(***************************************************************************)
EXTENDS TickRefinement, TickHistory, FiniteSetTheorems, TLAPS

(***************************************************************************)
(* Where CC stands in a tick.  Once it waits, all permits are posted; when *)
(* it left its waiting loop without being stopped, all are collected.  It  *)
(* tests g_stop before it goes for the lock, so a round that follows a     *)
(* tick broken off by a stop never gets that far.                          *)
(***************************************************************************)
PermitsCollected ==
    /\ ccpc \in {"doneCheck", "doneSem"} => posted = expected
    /\ /\ ccpc \notin CCInTick
       /\ ~ccStop \/ ccpc \in {"scenario", "lockSem", "drain"}
       => posted = collected

(***************************************************************************)
(* The inductive invariant.  None of its parts is inductive alone: the     *)
(* type of the lock needs mutual exclusion, the bound on collected permits *)
(* needs their conservation, and conservation at a new tick needs the      *)
(* previous tick to have been collected.                                   *)
(***************************************************************************)
IInv ==
    /\ TypeOK
    /\ MutualExclusion
    /\ PermitsConserved
    /\ PermitsCollected
    /\ StepsInCurrentTick

-----------------------------------------------------------------------------
(* How a step of one unit changes the set of units inside the tick *)

LEMMA InTickFinite ==
    /\ IsFiniteSet(InTick)
    /\ Cardinality(InTick) \in Nat
<1>1. InTick \subseteq Procs
  BY DEF InTick
<1> QED
  BY <1>1, ConstantsAssumption, FS_Subset, FS_CardinalityType

LEMMA UnitEnters ==
    ASSUME TypeOK, NEW p \in Procs, p \notin InTick,
           NEW place \in UnitInTick, UnitGoto(p, place)
    PROVE  Cardinality(InTick') = Cardinality(InTick) + 1
<1>1. InTick' = InTick \cup {p}
  BY DEF TypeOK, InTick, UnitGoto
<1> QED
  BY <1>1, InTickFinite, FS_AddElement

LEMMA UnitLeaves ==
    ASSUME TypeOK, NEW p \in InTick,
           NEW place, place \notin UnitInTick, UnitGoto(p, place)
    PROVE  Cardinality(InTick') = Cardinality(InTick) - 1
<1>1. InTick' = InTick \ {p}
  BY DEF TypeOK, InTick, UnitGoto
<1> QED
  BY <1>1, InTickFinite, FS_RemoveElement

LEMMA UnitStays ==
    ASSUME TypeOK, NEW p \in Procs, NEW place, UnitGoto(p, place),
           p \in InTick <=> place \in UnitInTick
    PROVE  InTick' = InTick
BY DEF TypeOK, InTick, UnitGoto

LEMMA TerminateCounts ==
    ASSUME TypeOK, NEW P, NEW missed, Terminate(P, missed)
    PROVE  /\ Cardinality(InTick') \in Nat /\ lost' \in Nat
           /\ Cardinality(InTick') + lost' = Cardinality(InTick) + lost
<1> DEFINE out == {p \in P \ missed : upc[p] \in UnitSemop} \cap InTick
<1>1. InTick' = InTick \ out
  BY DEF TypeOK, InTick, Terminate, UnitInTick
<1>2. lost' = lost + Cardinality(out)
  BY DEF Terminate
<1>3. out \subseteq InTick /\ InTick \cap out = out
  OBVIOUS
<1> HIDE DEF out
<1>4. Cardinality(out) \in Nat
  BY <1>3, InTickFinite, FS_Subset, FS_CardinalityType
<1>5. /\ Cardinality(InTick \ out) \in Nat
      /\ Cardinality(InTick \ out) = Cardinality(InTick) - Cardinality(out)
  BY <1>3, InTickFinite, FS_Difference, FS_CardinalityType
<1> QED
  BY <1>1, <1>2, <1>4, <1>5, InTickFinite DEF TypeOK
-----------------------------------------------------------------------------
(* Each part of the invariant is kept by every step *)

LEMMA TypeKept == IInv /\ [Next]_vars => TypeOK'
<1> SUFFICES ASSUME IInv, [Next]_vars
             PROVE  TypeOK'
  OBVIOUS
<1> USE ConstantsAssumption DEF IInv, TypeOK
<1>1. CASE UNCHANGED vars
  BY <1>1 DEF vars, registryVars, ccVars, unitVars
<1>2. ASSUME NEW s \in Slots, NEW p \in Procs, SpawnUnit(s, p)
      PROVE  /\ alive' \in [Slots -> {0, 1, Reserved}]
             /\ pid' \in [Slots -> Procs \cup {NoProc}]
             /\ placed' \in [Slots -> BOOLEAN]
             /\ upc' \in [Procs -> UnitPlaces]
             /\ slot' \in [Procs -> Slots \cup {0}]
             /\ \A q \in Procs : upc'[q] # "unborn" => slot'[q] \in Slots
             /\ ustop' \in [Procs -> BOOLEAN]
  BY <1>2 DEF SpawnUnit, UnitPlaces
<1>3. ASSUME NEW P, NEW missed, Terminate(P, missed)
      PROVE  /\ upc' \in [Procs -> UnitPlaces]
             /\ slot' \in [Procs -> Slots \cup {0}]
             /\ \A q \in Procs : upc'[q] # "unborn" => slot'[q] \in Slots
             /\ ustop' \in [Procs -> BOOLEAN]
             /\ lost' \in Nat
  <2>1. Cardinality({q \in P \ missed : upc[q] \in UnitSemop} \cap InTick) \in Nat
    BY InTickFinite, FS_Subset, FS_CardinalityType
  <2> QED
    BY <1>3, <2>1 DEF Terminate, UnitPlaces, UnitSemop
<1>4. CASE ScenarioSpawn
  BY <1>2, <1>4 DEF ScenarioSpawn
<1>5. CASE ScenarioLeak
  BY <1>5 DEF ScenarioLeak, NextFree, FreeSlots, unitVars
<1>6. CASE ScenarioFull
  BY <1>6 DEF ScenarioFull, registryVars, unitVars
<1>7. CASE ScenarioDone
  BY <1>7 DEF ScenarioDone, registryVars, unitVars, MutualExclusion,
              CCCritical, CCPlaces
<1>8. CASE CCTop \/ CCAllPosted \/ CCDoneCheck \/ CCPrintGrid \/ CCExit
  BY <1>8 DEF CCTop, CCAllPosted, CCDoneCheck, CCPrintGrid, CCExit, CCGoto,
              AfterTick, CCPlaces, registryVars, unitVars
<1>9. CASE CCLock
  BY <1>9 DEF CCLock, registryVars, unitVars, CCPlaces
<1>10. CASE CCSpawn
  BY <1>2, <1>10 DEF CCSpawn, ccVars
<1>11. CASE CCFrozen
  BY <1>11 DEF CCFrozen, registryVars, unitVars, MutualExclusion, CCCritical,
               CCPlaces
<1>12. CASE CCNewTick
  <2>1. CountAlive \in Nat
    <3>1. IsFiniteSet(Slots)
      BY FS_Interval DEF Slots
    <3> QED
      BY <3>1, FS_Subset, FS_CardinalityType DEF CountAlive
  <2> QED
    BY <1>12, <2>1 DEF CCNewTick, registryVars, unitVars, MutualExclusion,
                       CCCritical, CCPlaces
<1>13. CASE CCPost
  BY <1>13 DEF CCPost, registryVars, unitVars
<1>14. CASE CCCollect
  <2>1. collected < expected
    BY <1>14, InTickFinite DEF CCCollect, PermitsConserved, PermitsCollected
  <2> QED
    BY <1>14, <2>1 DEF CCCollect, registryVars, unitVars, CCPlaces
<1>15. CASE CCCleanup
  BY <1>3, <1>15 DEF CCCleanup, CCPlaces
<1>16. CASE CCTerminate
  BY <1>3, <1>16 DEF CCTerminate, CCPlaces, registryVars
<1>17. CASE StopBySignal
  BY <1>17 DEF StopBySignal, AfterTick, CCPlaces, registryVars, unitVars
<1>18. CASE StopByConsole \/ Freeze
  BY <1>18 DEF StopByConsole, Freeze, registryVars, unitVars, ccVars
<1>19. ASSUME NEW p \in Procs, UnitStep(p)
       PROVE  TypeOK'
  <2> USE DEF UnitGoto, CCUnchanged, UnitPlaces, registryVars, ccVars
  <2>1. CASE UnitBoot(p) \/ UnitBootFails(p) \/ UnitRegister(p)
    BY <2>1 DEF UnitBoot, UnitBootFails, UnitRegister
  <2>2. CASE UnitTop(p) \/ UnitTakeStart(p) \/ UnitLockCheck(p) \/ UnitAbandon(p)
    BY <2>2 DEF UnitTop, UnitTakeStart, UnitLockCheck, UnitAbandon
  <2>3. CASE UnitLock(p)
    BY <2>3 DEF UnitLock
  <2>4. ASSUME p \in Holders
        PROVE  globalLock = 0
    BY <2>4 DEF MutualExclusion
  <2>5. CASE UnitFindsDead(p) \/ UnitDies(p) \/ UnitSkips(p) \/ UnitSteps(p)
             \/ UnitActs(p)
    <3>1. globalLock = 0 /\ slot[p] \in Slots
      BY <2>4, <2>5 DEF UnitFindsDead, UnitDies, UnitSkips, UnitSteps, UnitActs,
                        Holders, UnitCritical
    <3>2. CASE UnitFindsDead(p) \/ UnitSkips(p) \/ UnitSteps(p)
      BY <3>1, <3>2 DEF UnitFindsDead, UnitSkips, UnitSteps
    <3>3. CASE UnitDies(p)
      BY <3>1, <3>3 DEF UnitDies, MarkDead
    <3>4. CASE UnitActs(p)
      <4>1. placed' = placed \/ placed' = [placed EXCEPT ![slot[p]] = TRUE]
        BY <3>4 DEF UnitActs
      <4>2. placed' \in [Slots -> BOOLEAN]
        BY <4>1
      <4> QED
        BY <3>1, <3>4, <4>2 DEF UnitActs
    <3> QED
      BY <2>5, <3>2, <3>3, <3>4
  <2>6. CASE UnitPostDone(p)
    BY <2>6 DEF UnitPostDone
  <2>7. CASE UnitExit(p)
    <3>1. slot[p] \in Slots
      BY <2>7 DEF UnitExit
    <3> QED
      BY <2>7, <3>1 DEF UnitExit, MarkDead
  <2> QED
    BY <1>19, <2>1, <2>2, <2>3, <2>5, <2>6, <2>7 DEF UnitStep
<1> QED
  BY <1>1, <1>4, <1>5, <1>6, <1>7, <1>8, <1>9, <1>10, <1>11, <1>12, <1>13,
     <1>14, <1>15, <1>16, <1>17, <1>18, <1>19 DEF Next, CCStep, Terminated

LEMMA MutualExclusionKept == IInv /\ [Next]_vars => MutualExclusion'
<1> SUFFICES ASSUME IInv, [Next]_vars
             PROVE  MutualExclusion'
  OBVIOUS
<1> USE DEF IInv, MutualExclusion, CCCritical
<1>1. CASE UNCHANGED vars
  BY <1>1 DEF vars, ccVars, unitVars, Holders
<1>2. ASSUME NEW s \in Slots, NEW p \in Procs, SpawnUnit(s, p)
      PROVE  Holders' = Holders
  BY <1>2 DEF SpawnUnit, Holders, UnitCritical, TypeOK
<1>3. ASSUME NEW P, NEW missed, Terminate(P, missed)
      PROVE  Holders' = Holders
  BY <1>3 DEF Terminate, Holders, UnitCritical, UnitSemop, TypeOK
<1>4. CASE ScenarioSpawn \/ CCSpawn
  BY <1>2, <1>4 DEF ScenarioSpawn, CCSpawn, ccVars
<1>5. CASE ScenarioLeak \/ ScenarioFull \/ ScenarioDone
  BY <1>5 DEF ScenarioLeak, ScenarioFull, ScenarioDone, unitVars, Holders, TypeOK
<1>6. CASE CCTop \/ CCAllPosted \/ CCDoneCheck \/ CCPrintGrid \/ CCExit
  BY <1>6 DEF CCTop, CCAllPosted, CCDoneCheck, CCPrintGrid, CCExit, CCGoto,
              AfterTick, unitVars, Holders
<1>7. CASE CCLock \/ CCFrozen \/ CCNewTick
  BY <1>7 DEF CCLock, CCFrozen, CCNewTick, unitVars, Holders, TypeOK
<1>8. CASE CCPost \/ CCCollect
  BY <1>8 DEF CCPost, CCCollect, unitVars, Holders
<1>9. CASE CCCleanup \/ CCTerminate
  BY <1>3, <1>9 DEF CCCleanup, CCTerminate
<1>10. CASE StopBySignal
  BY <1>10 DEF StopBySignal, AfterTick, unitVars, Holders
<1>11. CASE StopByConsole \/ Freeze
  BY <1>11 DEF StopByConsole, Freeze, unitVars, ccVars, Holders
<1>12. ASSUME NEW p \in Procs, UnitStep(p)
       PROVE  MutualExclusion'
  <2> USE DEF UnitGoto, CCUnchanged, ccVars, UnitCritical, Holders
  <2>1. CASE UnitBoot(p) \/ UnitBootFails(p) \/ UnitRegister(p) \/ UnitTop(p)
             \/ UnitTakeStart(p) \/ UnitLockCheck(p) \/ UnitAbandon(p)
             \/ UnitPostDone(p) \/ UnitExit(p)
    <3>1. Holders' = Holders /\ UNCHANGED <<globalLock, ccpc>>
      BY <2>1 DEF UnitBoot, UnitBootFails, UnitRegister, UnitTop,
                  UnitTakeStart, UnitLockCheck, UnitAbandon, UnitPostDone,
                  UnitExit, TypeOK
    <3> QED
      BY <3>1
  <2>2. CASE UnitLock(p)
    <3>1. /\ Holders' = Holders \cup {p} /\ Holders = {}
          /\ ccpc \notin CCCritical
          /\ globalLock' = 0 /\ ccpc' = ccpc
      BY <2>2 DEF UnitLock, TypeOK
    <3> QED
      BY <3>1
  <2>3. CASE UnitFindsDead(p) \/ UnitDies(p) \/ UnitSkips(p) \/ UnitSteps(p)
             \/ UnitActs(p)
    <3>1. /\ p \in Holders /\ Holders' = Holders \ {p}
          /\ globalLock' = globalLock + 1 /\ ccpc' = ccpc
      BY <2>3 DEF UnitFindsDead, UnitDies, UnitSkips, UnitSteps, UnitActs,
                  TypeOK
    <3>2. Holders' = {} /\ globalLock' = 1 /\ ccpc' \notin CCCritical
      BY <3>1 DEF TypeOK
    <3> QED
      BY <3>2
  <2> QED
    BY <1>12, <2>1, <2>2, <2>3 DEF UnitStep
<1> QED
  BY <1>1, <1>4, <1>5, <1>6, <1>7, <1>8, <1>9, <1>10, <1>11, <1>12
     DEF Next, CCStep, Terminated

LEMMA PermitsConservedKept == IInv /\ [Next]_vars => PermitsConserved'
<1> SUFFICES ASSUME IInv, [Next]_vars
             PROVE  PermitsConserved'
  OBVIOUS
<1> USE InTickFinite DEF IInv, PermitsConserved, TypeOK
<1>1. CASE UNCHANGED vars
  BY <1>1 DEF vars, ccVars, unitVars, InTick
<1>2. ASSUME NEW s \in Slots, NEW p \in Procs, SpawnUnit(s, p)
      PROVE  InTick' = InTick
  BY <1>2 DEF SpawnUnit, InTick, UnitInTick
<1>3. CASE ScenarioSpawn \/ CCSpawn
  BY <1>2, <1>3 DEF ScenarioSpawn, CCSpawn, ccVars
<1>4. CASE ScenarioLeak \/ ScenarioFull \/ ScenarioDone
  BY <1>4 DEF ScenarioLeak, ScenarioFull, ScenarioDone, unitVars, InTick
<1>5. CASE CCTop \/ CCAllPosted \/ CCDoneCheck \/ CCPrintGrid \/ CCExit
  BY <1>5 DEF CCTop, CCAllPosted, CCDoneCheck, CCPrintGrid, CCExit, CCGoto,
              unitVars, InTick
<1>6. CASE CCLock \/ CCFrozen
  BY <1>6 DEF CCLock, CCFrozen, unitVars, InTick
<1>7. CASE CCNewTick
  <2>1. posted = collected
    BY <1>7 DEF CCNewTick, PermitsCollected, CCInTick
  <2>2. InTick' = InTick
    BY <1>7 DEF CCNewTick, unitVars, InTick
  <2> QED
    BY <1>7, <2>1, <2>2 DEF CCNewTick
<1>8. CASE CCPost \/ CCCollect
  <2>1. InTick' = InTick
    BY <1>8 DEF CCPost, CCCollect, unitVars, InTick
  <2> QED
    BY <1>8, <2>1 DEF CCPost, CCCollect
<1>9. ASSUME CCCleanup \/ CCTerminate
      PROVE  PermitsConserved'
  <2>1. PICK P, missed : Terminate(P, missed)
    BY <1>9 DEF CCCleanup, CCTerminate
  <2>2. /\ Cardinality(InTick') \in Nat /\ lost' \in Nat
        /\ Cardinality(InTick') + lost' = Cardinality(InTick) + lost
    BY <2>1, TerminateCounts
  <2>3. UNCHANGED <<posted, tickStart, tickDone, collected>>
    BY <1>9 DEF CCCleanup, CCTerminate
  <2> QED
    BY <2>2, <2>3
<1>10. CASE StopBySignal \/ StopByConsole \/ Freeze
  BY <1>10 DEF StopBySignal, StopByConsole, Freeze, unitVars, ccVars, InTick
<1>11. ASSUME NEW p \in Procs, UnitStep(p)
       PROVE  PermitsConserved'
  <2> USE DEF CCUnchanged, ccVars
  <2>1. CASE UnitBoot(p) \/ UnitBootFails(p) \/ UnitRegister(p) \/ UnitTop(p)
             \/ UnitLockCheck(p) \/ UnitLock(p) \/ UnitFindsDead(p)
             \/ UnitDies(p) \/ UnitSkips(p) \/ UnitSteps(p) \/ UnitActs(p)
             \/ UnitExit(p)
    <3>1. InTick' = InTick
      BY <2>1 DEF UnitBoot, UnitBootFails, UnitRegister, UnitTop,
                  UnitLockCheck, UnitLock, UnitFindsDead, UnitDies, UnitSkips,
                  UnitSteps, UnitActs, UnitExit, UnitGoto, InTick, UnitInTick
    <3>2. UNCHANGED <<posted, tickStart, tickDone, collected, lost>>
      BY <2>1 DEF UnitBoot, UnitBootFails, UnitRegister, UnitTop,
                  UnitLockCheck, UnitLock, UnitFindsDead, UnitDies, UnitSkips,
                  UnitSteps, UnitActs, UnitExit
    <3> QED
      BY <3>1, <3>2
  <2>2. CASE UnitTakeStart(p)
    <3>1. p \notin InTick /\ "lockCheck" \in UnitInTick
      BY <2>2 DEF UnitTakeStart, InTick, UnitInTick
    <3>2. Cardinality(InTick') = Cardinality(InTick) + 1
      BY <2>2, <3>1, UnitEnters DEF UnitTakeStart
    <3> QED
      BY <2>2, <3>2 DEF UnitTakeStart
  <2>3. CASE UnitAbandon(p)
    <3>1. p \in InTick /\ "exit" \notin UnitInTick
      BY <2>3 DEF UnitAbandon, InTick, UnitInTick
    <3>2. Cardinality(InTick') = Cardinality(InTick) - 1
      BY <2>3, <3>1, UnitLeaves DEF UnitAbandon
    <3> QED
      BY <2>3, <3>2 DEF UnitAbandon
  <2>4. CASE UnitPostDone(p)
    <3>1. p \in InTick /\ "exit" \notin UnitInTick /\ "top" \notin UnitInTick
      BY <2>4 DEF UnitPostDone, InTick, UnitInTick
    <3>2. Cardinality(InTick') = Cardinality(InTick) - 1
      BY <2>4, <3>1, UnitLeaves DEF UnitPostDone
    <3> QED
      BY <2>4, <3>2 DEF UnitPostDone
  <2> QED
    BY <1>11, <2>1, <2>2, <2>3, <2>4 DEF UnitStep
<1> QED
  BY <1>1, <1>3, <1>4, <1>5, <1>6, <1>7, <1>8, <1>9, <1>10, <1>11
     DEF Next, CCStep, Terminated

LEMMA PermitsCollectedKept == IInv /\ [Next]_vars => PermitsCollected'
<1> SUFFICES ASSUME IInv, [Next]_vars
             PROVE  PermitsCollected'
  OBVIOUS
<1> USE DEF IInv, PermitsCollected, CCInTick, AfterTick
<1>1. CASE UNCHANGED vars
  BY <1>1 DEF vars, ccVars
<1>2. CASE ScenarioSpawn \/ ScenarioLeak \/ ScenarioFull \/ ScenarioDone
  BY <1>2 DEF ScenarioSpawn, ScenarioLeak, ScenarioFull, ScenarioDone
<1>3. CASE CCTop \/ CCAllPosted \/ CCPrintGrid \/ CCExit
  BY <1>3 DEF CCTop, CCAllPosted, CCPrintGrid, CCExit, CCGoto
<1>4. CASE CCDoneCheck
  BY <1>4 DEF CCDoneCheck, CCGoto
<1>5. CASE CCLock \/ CCSpawn \/ CCFrozen \/ CCNewTick \/ CCPost \/ CCCollect
  BY <1>5 DEF CCLock, CCSpawn, CCFrozen, CCNewTick, CCPost, CCCollect, ccVars
<1>6. CASE CCCleanup \/ CCTerminate
  BY <1>6 DEF CCCleanup, CCTerminate
<1>7. CASE StopBySignal \/ StopByConsole \/ Freeze
  BY <1>7 DEF StopBySignal, StopByConsole, Freeze, ccVars, CCSemop
<1>8. ASSUME NEW p \in Procs, UnitStep(p)
      PROVE  PermitsCollected'
  <2>1. UNCHANGED <<ccpc, posted, collected, expected, ccStop>>
    BY <1>8 DEF UnitStep, UnitBoot, UnitBootFails, UnitRegister, UnitTop,
                UnitTakeStart, UnitLockCheck, UnitAbandon, UnitLock,
                UnitFindsDead, UnitDies, UnitSkips, UnitSteps, UnitActs,
                UnitPostDone, UnitExit, CCUnchanged, ccVars
  <2> QED
    BY <2>1
<1> QED
  BY <1>1, <1>2, <1>3, <1>4, <1>5, <1>6, <1>7, <1>8 DEF Next, CCStep, Terminated

(***************************************************************************)
(* When a tick begins, the previous one has left nothing behind.           *)
(***************************************************************************)
LEMMA NewTickIsQuiet ==
    ASSUME IInv, CCNewTick
    PROVE  InTick = {} /\ tickStart = 0 /\ tickDone = 0
<1>1. posted = collected
  BY DEF IInv, CCNewTick, PermitsCollected, CCInTick
<1>2. Cardinality(InTick) = 0 /\ tickStart = 0 /\ tickDone = 0
  BY <1>1, InTickFinite DEF IInv, TypeOK, PermitsConserved
<1> QED
  BY <1>2, InTickFinite, FS_EmptySet

LEMMA TicksMoveOnlyInNewTick ==
    ASSUME [Next]_vars, ~CCNewTick
    PROVE  UNCHANGED ticks
BY DEF Next, CCStep, vars, ScenarioSpawn, ScenarioLeak, ScenarioFull,
       ScenarioDone, CCTop, CCLock, CCSpawn, CCFrozen, CCPost,
       CCAllPosted, CCDoneCheck, CCCollect, CCPrintGrid, CCCleanup,
       CCTerminate, CCExit, CCGoto, StopBySignal, StopByConsole, Freeze,
       Terminated, UnitStep, UnitBoot, UnitBootFails, UnitRegister, UnitTop,
       UnitTakeStart, UnitLockCheck, UnitAbandon, UnitLock, UnitFindsDead,
       UnitDies, UnitSkips, UnitSteps, UnitActs, UnitPostDone, UnitExit,
       CCUnchanged

LEMMA StepsInCurrentTickKept == IInv /\ [Next]_vars => StepsInCurrentTick'
<1> SUFFICES ASSUME IInv, [Next]_vars,
                    NEW q \in Procs, upc'[q] \in UnitStepping
             PROVE  lastStep'[slot'[q]] = ticks'
  BY DEF StepsInCurrentTick
<1> USE DEF IInv, StepsInCurrentTick, UnitStepping, TypeOK
<1>1. CASE CCNewTick
  <2>1. upc' = upc
    BY <1>1 DEF CCNewTick, unitVars
  <2>2. q \in InTick
    BY <2>1 DEF InTick, UnitInTick
  <2> QED
    BY <1>1, <2>2, NewTickIsQuiet
<1>2. CASE ~CCNewTick
  <2> ticks' = ticks
    BY <1>2, TicksMoveOnlyInNewTick
  <2>1. CASE UNCHANGED vars
    BY <2>1 DEF vars, unitVars
  <2>2. ASSUME NEW s \in Slots, NEW p \in Procs, SpawnUnit(s, p),
               UNCHANGED lastStep
        PROVE  lastStep'[slot'[q]] = ticks
    BY <2>2 DEF SpawnUnit
  <2>3. CASE ScenarioSpawn \/ CCSpawn
    BY <2>2, <2>3 DEF ScenarioSpawn, CCSpawn
  <2>4. CASE CCCleanup \/ CCTerminate
    <3>1. PICK P, missed : Terminate(P, missed)
      BY <2>4 DEF CCCleanup, CCTerminate
    <3>2. upc'[q] = upc[q] /\ UNCHANGED <<slot, lastStep>>
      BY <2>4, <3>1 DEF CCCleanup, CCTerminate, Terminate
    <3> QED
      BY <3>2
  <2>5. CASE \/ ScenarioLeak \/ ScenarioFull \/ ScenarioDone
             \/ CCTop \/ CCLock \/ CCFrozen
             \/ CCPost \/ CCAllPosted \/ CCDoneCheck \/ CCCollect
             \/ CCPrintGrid \/ CCExit
             \/ StopBySignal \/ StopByConsole \/ Freeze
    <3>1. UNCHANGED <<upc, slot, lastStep>>
      BY <2>5 DEF ScenarioLeak, ScenarioFull, ScenarioDone, CCTop, CCLock,
                  CCFrozen, CCPost, CCAllPosted, CCDoneCheck,
                  CCCollect, CCPrintGrid, CCExit, CCGoto, StopBySignal,
                  StopByConsole, Freeze, unitVars
    <3> QED
      BY <3>1
  <2>6. ASSUME NEW p \in Procs, UnitStep(p)
        PROVE  lastStep'[slot'[q]] = ticks
    <3>1. CASE UnitSteps(p)
      <4>1. slot[p] \in Slots /\ slot[q] \in Slots
        BY <3>1 DEF UnitSteps, UnitGoto
      <4> QED
        BY <3>1, <4>1 DEF UnitSteps, UnitGoto
    <3>2. CASE ~UnitSteps(p)
      <4>1. upc[q] \in UnitStepping /\ UNCHANGED <<slot, lastStep>>
        BY <2>6, <3>2 DEF UnitStep, UnitBoot, UnitBootFails, UnitRegister,
              UnitTop, UnitTakeStart, UnitLockCheck, UnitAbandon, UnitLock,
              UnitFindsDead, UnitDies, UnitSkips, UnitActs, UnitPostDone,
              UnitExit, UnitGoto
      <4> QED
        BY <4>1
    <3> QED
      BY <3>1, <3>2
  <2> QED
    BY <1>2, <2>1, <2>3, <2>4, <2>5, <2>6 DEF Next, CCStep, Terminated
<1> QED
  BY <1>1, <1>2

-----------------------------------------------------------------------------
(* The theorems *)

(***************************************************************************)
(* The invariant holds in every reachable state.                           *)
(***************************************************************************)
THEOREM InductiveInvariant == Spec => []IInv
<1>1. Init => IInv
  <2> SUFFICES ASSUME Init
               PROVE  IInv
    OBVIOUS
  <2>1. TypeOK
    <3>1. /\ placed \in [Slots -> BOOLEAN]
          /\ ustop \in [Procs -> BOOLEAN]
          /\ ccStop \in BOOLEAN /\ frozen \in BOOLEAN
      BY DEF Init
    <3>2. /\ upc \in [Procs -> UnitPlaces]
          /\ slot \in [Procs -> Slots \cup {0}]
          /\ \A p \in Procs : upc[p] # "unborn" => slot[p] \in Slots
      BY DEF Init, UnitPlaces
    <3> QED
      BY <3>1, <3>2, ConstantsAssumption DEF Init, TypeOK, CCPlaces
  <2>2. InTick = {} /\ Holders = {}
    BY DEF Init, InTick, Holders, UnitInTick, UnitCritical
  <2>3. PermitsConserved
    BY <2>2, FS_EmptySet DEF Init, PermitsConserved
  <2> QED
    BY <2>1, <2>2, <2>3 DEF Init, IInv, MutualExclusion, CCCritical,
                            PermitsCollected, StepsInCurrentTick, UnitStepping
<1>2. IInv /\ [Next]_vars => IInv'
  BY TypeKept, MutualExclusionKept, PermitsConservedKept,
     PermitsCollectedKept, StepsInCurrentTickKept DEF IInv
<1> QED
  BY <1>1, <1>2, PTL DEF Spec

(***************************************************************************)
(* Every variable of the barrier keeps its range: the lock is a binary     *)
(* semaphore, and CC never collects more permits than it expects.          *)
(***************************************************************************)
THEOREM TypeInvariant == Spec => []TypeOK
BY InductiveInvariant, PTL DEF IInv

(***************************************************************************)
(* SEM_GLOBAL_LOCK excludes CC and all units from each other's critical    *)
(* sections.                                                               *)
(***************************************************************************)
THEOREM LockIsExclusive == Spec => []MutualExclusion
BY InductiveInvariant, PTL DEF IInv

(***************************************************************************)
(* No start permit is created, duplicated or dropped on any path.          *)
(***************************************************************************)
THEOREM PermitConservation == Spec => []PermitsConserved
BY InductiveInvariant, PTL DEF IInv

(***************************************************************************)
(* CC's work between two ticks meets no unit inside a tick.                *)
(***************************************************************************)
THEOREM QuietInvariant == Spec => []QuietBetweenTicks
<1>1. IInv => QuietBetweenTicks
  <2> SUFFICES ASSUME IInv, ccpc \notin CCInTick, ~ccStop
               PROVE  InTick = {} /\ tickStart = 0 /\ tickDone = 0 /\ lost = 0
    BY DEF QuietBetweenTicks
  <2>1. posted = collected
    BY DEF IInv, PermitsCollected
  <2>2. Cardinality(InTick) = 0 /\ tickStart = 0 /\ tickDone = 0 /\ lost = 0
    BY <2>1, InTickFinite DEF IInv, TypeOK, PermitsConserved
  <2> QED
    BY <2>2, InTickFinite, FS_EmptySet
<1> QED
  BY <1>1, InductiveInvariant, PTL

(***************************************************************************)
(* A unit acts in the tick it has recorded.                                *)
(***************************************************************************)
THEOREM StepTickInvariant == Spec => []StepsInCurrentTick
BY InductiveInvariant, PTL DEF IInv

(***************************************************************************)
(* S->ticks never moves while a unit is inside a tick.                     *)
(***************************************************************************)
THEOREM TicksMoveQuietly == Spec => TicksMoveWhenQuiet
<1>1. IInv /\ [Next]_vars =>
        [ticks' # ticks => InTick = {} /\ tickStart = 0 /\ tickDone = 0]_vars
  BY NewTickIsQuiet, TicksMoveOnlyInNewTick
<1> QED
  BY <1>1, InductiveInvariant, PTL DEF Spec, TicksMoveWhenQuiet

-----------------------------------------------------------------------------
(* Who is counted *)

\* the process registered in a slot was forked for it
OwnersAreForked ==
    \A s \in Slots :
        pid[s] # NoProc => slot[pid[s]] = s /\ upc[pid[s]] # "unborn"

LEMMA OwnersAreForkedKept ==
    IInv /\ OwnersAreForked /\ [Next]_vars => OwnersAreForked'
<1> SUFFICES ASSUME IInv, OwnersAreForked, [Next]_vars
             PROVE  OwnersAreForked'
  OBVIOUS
<1> USE ConstantsAssumption DEF IInv, TypeOK, OwnersAreForked
<1>1. CASE ScenarioSpawn \/ CCSpawn
  <2>1. PICK s \in Slots, p \in Procs : SpawnUnit(s, p)
    BY <1>1 DEF ScenarioSpawn, CCSpawn
  <2>. QED
    BY <2>1 DEF SpawnUnit
<1>2. CASE CCCleanup \/ CCTerminate
  <2>1. \A s \in Slots : pid'[s] = pid[s] \/ pid'[s] = NoProc
    BY <1>2 DEF CCCleanup, CCTerminate, registryVars
  <2>2. PICK P, missed : Terminate(P, missed)
    BY <1>2 DEF CCCleanup, CCTerminate
  <2>3. UNCHANGED slot /\ \A p \in Procs : upc[p] # "unborn" => upc'[p] # "unborn"
    BY <2>2 DEF Terminate
  <2>. QED
    BY <2>1, <2>3
<1>3. CASE \/ ScenarioLeak \/ ScenarioFull \/ ScenarioDone
           \/ CCTop \/ CCLock \/ CCFrozen \/ CCNewTick
           \/ CCPost \/ CCAllPosted \/ CCDoneCheck \/ CCCollect
           \/ CCPrintGrid \/ CCExit
           \/ StopBySignal \/ StopByConsole \/ Freeze \/ UNCHANGED vars
  <2>1. UNCHANGED <<pid, upc, slot>>
    BY <1>3 DEF ScenarioLeak, ScenarioFull, ScenarioDone, CCTop, CCLock,
                CCFrozen, CCNewTick, CCPost, CCAllPosted, CCDoneCheck,
                CCCollect, CCPrintGrid, CCExit, CCGoto, StopBySignal,
                StopByConsole, Freeze, unitVars, registryVars, vars
  <2>. QED
    BY <2>1
<1>4. ASSUME NEW p \in Procs, UnitStep(p)
      PROVE  OwnersAreForked'
  <2>1. /\ UNCHANGED slot /\ slot[p] \in Slots /\ p # NoProc
        /\ \A q \in Procs : upc[q] # "unborn" => upc'[q] # "unborn"
        /\ upc'[p] # "unborn"
    BY <1>4 DEF UnitStep, UnitBoot, UnitBootFails, UnitRegister, UnitTop,
          UnitTakeStart, UnitLockCheck, UnitAbandon, UnitLock, UnitFindsDead,
          UnitDies, UnitSkips, UnitSteps, UnitActs, UnitPostDone, UnitExit,
          UnitGoto
  <2>2. pid' = pid \/ pid' = [pid EXCEPT ![slot[p]] = p]
    BY <1>4 DEF UnitStep, UnitBoot, UnitBootFails, UnitRegister, UnitTop,
          UnitTakeStart, UnitLockCheck, UnitAbandon, UnitLock, UnitFindsDead,
          UnitDies, UnitSkips, UnitSteps, UnitActs, UnitPostDone, UnitExit,
          MarkDead, registryVars
  <2>. QED
    BY <2>1, <2>2
<1>. QED
  BY <1>1, <1>2, <1>3, <1>4 DEF Next, CCStep, Terminated

LEMMA CountedUnitsRunKept ==
    ASSUME Faults = {}, IInv, OwnersAreForked, CountedUnitsRun, [Next]_vars
    PROVE  CountedUnitsRun'
<1> USE ConstantsAssumption DEF IInv, TypeOK, OwnersAreForked
<1> SUFFICES ASSUME ccpc' \notin {"reap", "exit"},
                    NEW s \in Slots, alive'[s] # 0
             PROVE  pid'[s] # NoProc /\ upc'[pid'[s]] # "gone"
  BY DEF CountedUnitsRun
<1>0. ccpc \notin {"reap", "exit"}
  BY DEF Next, CCStep, vars, ccVars, ScenarioSpawn, ScenarioLeak, ScenarioFull,
         ScenarioDone, CCTop, CCLock, CCSpawn, CCFrozen, CCNewTick, CCPost,
         CCAllPosted, CCDoneCheck, CCCollect, CCPrintGrid, CCCleanup,
         CCTerminate, CCExit, CCGoto, StopBySignal, StopByConsole, Freeze,
         Terminated, UnitStep, UnitBoot, UnitBootFails, UnitRegister, UnitTop,
         UnitTakeStart, UnitLockCheck, UnitAbandon, UnitLock, UnitFindsDead,
         UnitDies, UnitSkips, UnitSteps, UnitActs, UnitPostDone, UnitExit,
         CCUnchanged
<1> USE <1>0 DEF CountedUnitsRun
<1>1. CASE ScenarioSpawn \/ CCSpawn
  <2>1. PICK t \in Slots, p \in Procs : SpawnUnit(t, p)
    BY <1>1 DEF ScenarioSpawn, CCSpawn
  <2>. QED
    BY <2>1 DEF SpawnUnit
<1>2. CASE CCCleanup
  <2>1. /\ UNCHANGED alive
        /\ pid' = [t \in Slots |-> IF t \in DeadSlots THEN NoProc ELSE pid[t]]
        /\ \E missed : Terminate({pid[t] : t \in DeadSlots}, missed)
    BY <1>2 DEF CCCleanup
  <2>2. PICK missed : Terminate({pid[t] : t \in DeadSlots}, missed)
    BY <2>1
  <2>3. pid[s] # NoProc /\ upc[pid[s]] # "gone" /\ pid'[s] = pid[s]
    BY <2>1 DEF DeadSlots
  <2>4. pid[s] \notin {pid[t] : t \in DeadSlots}
    BY <2>1, <2>3 DEF DeadSlots
  <2>5. upc'[pid[s]] # "gone"
    BY <2>2, <2>3, <2>4 DEF Terminate
  <2>. QED
    BY <2>3, <2>5
<1>3. ~CCTerminate /\ ~ScenarioLeak
  BY DEF CCTerminate, ScenarioLeak
<1>4. CASE \/ ScenarioFull \/ ScenarioDone
           \/ CCTop \/ CCLock \/ CCFrozen \/ CCNewTick
           \/ CCPost \/ CCAllPosted \/ CCDoneCheck \/ CCCollect
           \/ CCPrintGrid \/ CCExit
           \/ StopBySignal \/ StopByConsole \/ Freeze \/ UNCHANGED vars
  <2>1. UNCHANGED <<alive, pid, upc>>
    BY <1>4 DEF ScenarioFull, ScenarioDone, CCTop, CCLock,
                CCFrozen, CCNewTick, CCPost, CCAllPosted, CCDoneCheck,
                CCCollect, CCPrintGrid, CCExit, CCGoto, StopBySignal,
                StopByConsole, Freeze, unitVars, registryVars, vars
  <2>. QED
    BY <2>1
<1>5. ASSUME NEW p \in Procs, UnitStep(p)
      PROVE  pid'[s] # NoProc /\ upc'[pid'[s]] # "gone"
  <2>1. CASE UnitExit(p)
    BY <2>1 DEF UnitExit, UnitGoto, MarkDead
  <2>2. CASE UnitRegister(p)
    BY <2>2 DEF UnitRegister, UnitGoto
  <2>3. CASE ~UnitExit(p) /\ ~UnitRegister(p)
    <3>1. /\ UNCHANGED pid /\ alive[s] # 0
          /\ \A q \in Procs : upc'[q] = "gone" => upc[q] = "gone"
      BY <1>5, <2>3 DEF UnitStep, UnitBoot, UnitBootFails, UnitTop,
            UnitTakeStart, UnitLockCheck, UnitAbandon, UnitLock,
            UnitFindsDead, UnitDies, UnitSkips, UnitSteps, UnitActs,
            UnitPostDone, UnitGoto, MarkDead, registryVars
    <3>. QED
      BY <3>1
  <2>. QED
    BY <2>1, <2>2, <2>3
<1>. QED
  BY <1>1, <1>2, <1>3, <1>4, <1>5 DEF Next, CCStep, Terminated

(***************************************************************************)
(* Without faults of the environment, every slot CC counts belongs to a    *)
(* process that still runs and can answer the start permit.                *)
(***************************************************************************)
THEOREM CountedRun ==
    ASSUME Faults = {} PROVE Spec => []CountedUnitsRun
<1>1. Init => OwnersAreForked /\ CountedUnitsRun
  BY DEF Init, OwnersAreForked, CountedUnitsRun
<1>. QED
  BY <1>1, InductiveInvariant, OwnersAreForkedKept, CountedUnitsRunKept,
     PTL DEF Spec

-----------------------------------------------------------------------------
(* The barrier implements the gate *)

LEMMA InitOpensNothing == Init => Gate!Init
BY DEF Init, Gate!Init, CCInTick, InTick, UnitInTick

\* a step that moves neither CC across a tick boundary nor a unit across the
\* gate, and stops nothing, is a stuttering step of the gate
LEMMA GateStutters ==
    ASSUME InTick' = InTick, ccStop' = ccStop,
           (ccpc \in CCInTick) = (ccpc \in CCInTick)'
    PROVE  UNCHANGED Gate!gateVars
BY DEF Gate!gateVars

LEMMA StepsImplementGate == IInv /\ [Next]_vars => [Gate!Next]_(Gate!gateVars)
<1> SUFFICES ASSUME IInv, [Next]_vars
             PROVE  Gate!Next \/ UNCHANGED Gate!gateVars
  OBVIOUS
<1> DEFINE Stutter == /\ InTick' = InTick
                      /\ ccStop' = ccStop
                      /\ ccpc \in CCInTick <=> ccpc' \in CCInTick
<1>stutter. Stutter => UNCHANGED Gate!gateVars
  BY GateStutters
<1>type. TypeOK
  BY DEF IInv
<1>1. CASE UNCHANGED vars
  <2> Stutter
    BY <1>1 DEF vars, ccVars, unitVars, InTick
  <2> QED
    BY <1>stutter
<1>2. CASE ScenarioSpawn \/ CCSpawn
  <2>1. PICK s \in Slots, p \in Procs : SpawnUnit(s, p)
    BY <1>2 DEF ScenarioSpawn, CCSpawn
  <2> Stutter
    BY <1>2, <2>1, <1>type DEF ScenarioSpawn, CCSpawn, ccVars, SpawnUnit, InTick,
                            UnitInTick, TypeOK
  <2> QED
    BY <1>stutter
<1>3. CASE \/ ScenarioLeak \/ ScenarioFull \/ ScenarioDone
           \/ CCTop \/ CCLock \/ CCFrozen \/ CCPost \/ CCAllPosted \/ CCCollect
           \/ CCPrintGrid \/ CCExit \/ Freeze
  <2> Stutter
    BY <1>3 DEF ScenarioLeak, ScenarioFull, ScenarioDone, CCTop, CCLock,
                CCFrozen, CCPost, CCAllPosted, CCCollect, CCPrintGrid, CCExit,
                CCGoto, Freeze, InTick, CCInTick, unitVars, ccVars
  <2> QED
    BY <1>stutter
<1>4. CASE CCNewTick
  <2>1. InTick = {}
    BY <1>4, NewTickIsQuiet
  <2>2. Gate!Open
    BY <1>4, <2>1 DEF CCNewTick, Gate!Open, unitVars, InTick, CCInTick
  <2> QED
    BY <2>2 DEF Gate!Next
<1>5. CASE CCDoneCheck
  <2>1. UNCHANGED <<InTick, ccStop>>
    BY <1>5 DEF CCDoneCheck, CCGoto, unitVars, InTick
  <2>2. CASE collected = expected \/ ccStop
    <3>1. InTick = {} \/ ccStop
      <4>1. CASE collected = expected
        <5>1. Cardinality(InTick) = 0
          BY <1>5, <4>1, InTickFinite
             DEF CCDoneCheck, IInv, TypeOK, PermitsConserved, PermitsCollected
        <5> QED
          BY <5>1, InTickFinite, FS_EmptySet
      <4> QED
        BY <2>2, <4>1
    <3>2. ccpc \in CCInTick /\ ccpc' \notin CCInTick
      BY <1>5, <2>2 DEF CCDoneCheck, CCGoto, CCInTick, AfterTick
    <3>3. Gate!Close
      BY <2>1, <3>1, <3>2 DEF Gate!Close
    <3> QED
      BY <3>3 DEF Gate!Next
  <2>3. CASE ~(collected = expected \/ ccStop)
    <3> Stutter
      BY <1>5, <2>1, <2>3 DEF CCDoneCheck, CCGoto, CCInTick
    <3> QED
      BY <1>stutter
  <2> QED
    BY <2>2, <2>3
<1>6. ASSUME CCCleanup \/ CCTerminate
      PROVE  Gate!Next \/ UNCHANGED Gate!gateVars
  <2>1. PICK P, missed : Terminate(P, missed)
    BY <1>6 DEF CCCleanup, CCTerminate
  <2>2. InTick' \subseteq InTick
    BY <2>1, <1>type DEF Terminate, InTick, UnitInTick, TypeOK
  <2>3. /\ ccStop' = ccStop
        /\ ccpc \notin CCInTick /\ ccpc' \notin CCInTick
    BY <1>6 DEF CCCleanup, CCTerminate, CCInTick
  <2>4. CASE InTick' = InTick
    <3> Stutter
      BY <2>3, <2>4
    <3> QED
      BY <1>stutter
  <2>5. CASE InTick' # InTick
    <3> DEFINE leaving == InTick \ InTick'
    <3>1. leaving \subseteq InTick /\ leaving # {} /\ InTick' = InTick \ leaving
      BY <2>2, <2>5
    <3>2. ccStop
      <4>1. Cardinality(InTick) # 0
        BY <3>1, InTickFinite, FS_EmptySet
      <4>2. posted # collected
        BY <4>1, InTickFinite DEF IInv, TypeOK, PermitsConserved
      <4> QED
        BY <2>3, <4>2, <1>type DEF IInv, PermitsCollected, TypeOK
    <3> HIDE DEF leaving
    <3>3. Gate!Leave(leaving)
      BY <2>3, <3>1, <3>2 DEF Gate!Leave
    <3> QED
      BY <3>1, <3>3 DEF Gate!Next
  <2> QED
    BY <2>4, <2>5
<1>7. CASE StopBySignal \/ StopByConsole
  <2>1. ccStop' = TRUE /\ InTick' = InTick
    BY <1>7 DEF StopBySignal, StopByConsole, unitVars, InTick
  <2>2. (ccpc' \in CCInTick <=> ccpc \in CCInTick) \/ ccpc' \notin CCInTick
    BY <1>7 DEF StopBySignal, StopByConsole, ccVars, CCInTick, AfterTick
  <2>3. Gate!Stop
    BY <2>1, <2>2 DEF Gate!Stop
  <2> QED
    BY <2>3 DEF Gate!Next
<1>8. ASSUME NEW p \in Procs, UnitStep(p)
      PROVE  Gate!Next \/ UNCHANGED Gate!gateVars
  <2>1. UNCHANGED <<ccpc, ccStop>>
    BY <1>8 DEF UnitStep, UnitBoot, UnitBootFails, UnitRegister, UnitTop,
                UnitTakeStart, UnitLockCheck, UnitAbandon, UnitLock,
                UnitFindsDead, UnitDies, UnitSkips, UnitSteps, UnitActs,
                UnitPostDone, UnitExit, CCUnchanged, ccVars
  <2>2. CASE UnitTakeStart(p)
    <3>1. p \in Procs \ InTick /\ InTick' = InTick \cup {p}
      BY <2>2, <1>type DEF UnitTakeStart, UnitGoto, InTick, UnitInTick, TypeOK
    <3>2. ccpc \in CCInTick \/ ccStop
      <4>1. posted # collected
        BY <2>2, InTickFinite DEF UnitTakeStart, IInv, TypeOK, PermitsConserved
      <4> QED
        BY <4>1 DEF IInv, PermitsCollected
    <3>3. Gate!Enter(p)
      BY <2>1, <3>1, <3>2 DEF Gate!Enter
    <3> QED
      BY <3>3 DEF Gate!Next
  <2>3. CASE UnitAbandon(p) \/ UnitPostDone(p)
    <3>1. p \in InTick /\ InTick' = InTick \ {p}
      BY <2>3, <1>type DEF UnitAbandon, UnitPostDone, UnitGoto, InTick, UnitInTick,
                        TypeOK
    <3>2. Gate!Leave({p})
      BY <2>1, <3>1 DEF Gate!Leave
    <3>3. {p} \in SUBSET InTick
      BY <3>1
    <3> QED
      BY <3>2, <3>3 DEF Gate!Next
  <2>4. CASE ~(UnitTakeStart(p) \/ UnitAbandon(p) \/ UnitPostDone(p))
    <3>1. InTick' = InTick
      BY <1>8, <2>4, <1>type DEF UnitStep, UnitBoot, UnitBootFails, UnitRegister,
            UnitTop, UnitLockCheck, UnitLock, UnitFindsDead, UnitDies,
            UnitSkips, UnitSteps, UnitActs, UnitExit, UnitGoto, InTick,
            UnitInTick, TypeOK
    <3> QED
      BY <1>stutter, <2>1, <3>1
  <2> QED
    BY <2>2, <2>3, <2>4
<1> QED
  BY <1>1, <1>2, <1>3, <1>4, <1>5, <1>6, <1>7, <1>8 DEF Next, CCStep, Terminated

(***************************************************************************)
(* Each behaviour of the barrier is a behaviour of the gate: CC never      *)
(* leaves a tick, unless told to stop, while a unit owes a done permit,    *)
(* and never opens one over a unit still inside.                           *)
(***************************************************************************)
THEOREM BarrierImplementsGate == Spec => ImplementsGate
<1> QED
  BY InitOpensNothing, StepsImplementGate, InductiveInvariant, PTL
     DEF Spec, ImplementsGate, Gate!Spec

-----------------------------------------------------------------------------
(* No unit acts twice in a tick, however many start permits it takes *)

(***************************************************************************)
(* A unit that has acted is out of its step, and its slot remembers the    *)
(* tick; both stay so until the next tick, even if another process has     *)
(* been given the same slot meanwhile.                                     *)
(***************************************************************************)
ActedRemembered ==
    \A p \in acted :
        /\ p \in Procs /\ slot[p] \in Slots
        /\ upc[p] # "unborn" /\ upc[p] \notin UnitStepping
        /\ lastStep[slot[p]] = ticks

LEMMA HistoryObserves == HistorySpec => Spec
<1>1. HistoryInit => Init
  BY DEF HistoryInit
<1>2. [HistoryNext]_historyVars => [Next]_vars
  BY DEF HistoryNext, historyVars
<1> QED
  BY <1>1, <1>2, PTL DEF HistorySpec, Spec

\* what happens to the record of one unit in a step that begins no tick
LEMMA RecordKept ==
    ASSUME IInv, [Next]_vars, ~CCNewTick,
           NEW p \in Procs, upc[p] # "unborn", upc[p] \notin UnitStepping,
           lastStep[slot[p]] = ticks
    PROVE  /\ slot'[p] = slot[p] /\ upc'[p] # "unborn"
           /\ upc'[p] \notin UnitStepping
           /\ lastStep'[slot[p]] = ticks'
<1> USE DEF IInv, TypeOK, UnitStepping
<1>1. ticks' = ticks
  BY TicksMoveOnlyInNewTick
<1>2. slot[p] \in Slots
  OBVIOUS
<1>3. CASE UNCHANGED vars
  BY <1>3 DEF vars, unitVars
<1>4. CASE ScenarioSpawn \/ CCSpawn
  <2>1. PICK s \in Slots, q \in Procs : SpawnUnit(s, q)
    BY <1>4 DEF ScenarioSpawn, CCSpawn
  <2>2. UNCHANGED lastStep
    BY <1>4 DEF ScenarioSpawn, CCSpawn
  <2> QED
    BY <1>1, <2>1, <2>2 DEF SpawnUnit
<1>5. CASE CCCleanup \/ CCTerminate
  <2>1. PICK P, missed : Terminate(P, missed)
    BY <1>5 DEF CCCleanup, CCTerminate
  <2>2. UNCHANGED lastStep
    BY <1>5 DEF CCCleanup, CCTerminate
  <2> QED
    BY <1>1, <2>1, <2>2 DEF Terminate
<1>6. CASE \/ ScenarioLeak \/ ScenarioFull \/ ScenarioDone
           \/ CCTop \/ CCLock \/ CCFrozen
           \/ CCPost \/ CCAllPosted \/ CCDoneCheck \/ CCCollect
           \/ CCPrintGrid \/ CCExit
           \/ StopBySignal \/ StopByConsole \/ Freeze
  <2>1. UNCHANGED <<upc, slot, lastStep>>
    BY <1>6 DEF ScenarioLeak, ScenarioFull, ScenarioDone, CCTop, CCLock,
                CCFrozen, CCPost, CCAllPosted, CCDoneCheck,
                CCCollect, CCPrintGrid, CCExit, CCGoto, StopBySignal,
                StopByConsole, Freeze, unitVars
  <2> QED
    BY <1>1, <2>1
<1>7. ASSUME NEW q \in Procs, UnitStep(q)
      PROVE  /\ slot'[p] = slot[p] /\ upc'[p] # "unborn"
             /\ upc'[p] \notin UnitStepping
             /\ lastStep'[slot[p]] = ticks'
  <2>1. CASE UnitSteps(q)
    <3>1. q # p
      BY <2>1 DEF UnitSteps
    <3>2. slot[q] \in Slots
      BY <2>1 DEF UnitSteps
    <3> QED
      BY <1>1, <1>2, <2>1, <3>1, <3>2 DEF UnitSteps, UnitGoto
  <2>2. CASE ~UnitSteps(q)
    <3>1. UNCHANGED <<slot, lastStep>>
      BY <1>7, <2>2 DEF UnitStep, UnitBoot, UnitBootFails, UnitRegister,
            UnitTop, UnitTakeStart, UnitLockCheck, UnitAbandon, UnitLock,
            UnitFindsDead, UnitDies, UnitSkips, UnitActs, UnitPostDone,
            UnitExit
    <3>2. upc'[p] # "unborn" /\ upc'[p] \notin UnitStepping
      BY <1>7, <2>2 DEF UnitStep, UnitBoot, UnitBootFails, UnitRegister,
            UnitTop, UnitTakeStart, UnitLockCheck, UnitAbandon, UnitLock,
            UnitFindsDead, UnitDies, UnitSkips, UnitActs, UnitPostDone,
            UnitExit, UnitGoto
    <3> QED
      BY <1>1, <3>1, <3>2
  <2> QED
    BY <2>1, <2>2
<1> QED
  BY <1>3, <1>4, <1>5, <1>6, <1>7 DEF Next, CCStep, Terminated

LEMMA ActedRememberedKept ==
    IInv /\ ActedRemembered /\ [HistoryNext]_historyVars => ActedRemembered'
<1> SUFFICES ASSUME IInv, ActedRemembered, [HistoryNext]_historyVars,
                    NEW p \in acted'
             PROVE  /\ p \in Procs /\ slot'[p] \in Slots
                    /\ upc'[p] # "unborn" /\ upc'[p] \notin UnitStepping
                    /\ lastStep'[slot'[p]] = ticks'
  BY DEF ActedRemembered
<1>1. [Next]_vars
  BY DEF HistoryNext, historyVars
<1>2. ~CCNewTick
  BY DEF HistoryNext, historyVars, vars, ccVars, TickBegins, CCNewTick
<1>3. CASE p \in acted
  <2>1. /\ p \in Procs /\ slot[p] \in Slots
        /\ upc[p] # "unborn" /\ upc[p] \notin UnitStepping
        /\ lastStep[slot[p]] = ticks
    BY <1>3 DEF ActedRemembered
  <2> QED
    BY <1>1, <1>2, <2>1, RecordKept
<1>4. CASE p \notin acted
  <2>1. p \in Procs /\ Performs(p)
    BY <1>4 DEF HistoryNext, historyVars
  <2>2. /\ slot[p] \in Slots
        /\ lastStep[slot[p]] = ticks
    BY <2>1 DEF Performs, IInv, TypeOK, StepsInCurrentTick, UnitStepping
  <2>3. ticks' = ticks
    BY <1>1, <1>2, TicksMoveOnlyInNewTick
  <2>4. UNCHANGED <<slot, lastStep>>
    <3>1. UnitActs(p)
      <4> USE DEF Performs, IInv, TypeOK
      <4>1. CASE ScenarioSpawn \/ CCSpawn \/ CCCleanup \/ CCTerminate
        BY <2>1, <4>1 DEF ScenarioSpawn, CCSpawn, SpawnUnit, CCCleanup,
                          CCTerminate, Terminate
      <4>2. CASE \/ UNCHANGED vars
                 \/ ScenarioLeak \/ ScenarioFull \/ ScenarioDone
                 \/ CCTop \/ CCLock \/ CCFrozen
                 \/ CCPost \/ CCAllPosted \/ CCDoneCheck \/ CCCollect
                 \/ CCPrintGrid \/ CCExit
                 \/ StopBySignal \/ StopByConsole \/ Freeze
        BY <2>1, <4>2 DEF ScenarioLeak, ScenarioFull, ScenarioDone, CCTop,
              CCLock, CCFrozen, CCPost, CCAllPosted, CCDoneCheck, CCCollect,
              CCPrintGrid, CCExit, CCGoto, StopBySignal, StopByConsole,
              Freeze, unitVars, vars
      <4>3. ASSUME NEW q \in Procs, UnitStep(q)
            PROVE  UnitActs(p)
        BY <2>1, <4>3 DEF UnitStep, UnitBoot, UnitBootFails, UnitRegister,
              UnitTop, UnitTakeStart, UnitLockCheck, UnitAbandon, UnitLock,
              UnitFindsDead, UnitDies, UnitSkips, UnitSteps, UnitPostDone,
              UnitExit, UnitActs, UnitGoto
      <4> QED
        BY <1>1, <1>2, <4>1, <4>2, <4>3 DEF Next, CCStep, Terminated
    <3> QED
      BY <3>1 DEF UnitActs
  <2> QED
    BY <2>1, <2>2, <2>3, <2>4 DEF Performs, UnitStepping
<1> QED
  BY <1>3, <1>4

(***************************************************************************)
(* battleship.c: "ensure at most one action per tick".                     *)
(***************************************************************************)
THEOREM OneActionPerTick == HistorySpec => AtMostOneAction
<1>1. HistoryInit => ActedRemembered
  BY DEF HistoryInit, ActedRemembered
<1>2. HistorySpec => []IInv
  BY HistoryObserves, InductiveInvariant, PTL
<1>3. ActedRemembered =>
        [\A p \in Procs : Performs(p) => p \notin acted]_historyVars
  BY DEF ActedRemembered, Performs, UnitStepping
<1> QED
  BY <1>1, <1>2, <1>3, ActedRememberedKept, PTL DEF HistorySpec, AtMostOneAction

-----------------------------------------------------------------------------
(* Somebody can always go on *)

\* units that have no permit and will come for one
Waiting == {p \in Procs : upc[p] \in {"boot", "reg", "top", "startSem"}}

\* no tick has been broken off: once one has, CC begins no other
Unbroken == ~ccStop \/ ccpc \in CCInTick \cup {"lockSem", "drain"}

\* CC ends its loop only on a stop
StopIsKnown == ccpc \in {"term", "reap", "exit"} => ccStop

\* a unit that has been signalled is born and does not wait for a semaphore
SignalsWake == \A p \in Procs : upc[p] \in UnitSemop \cup {"unborn"} => ~ustop[p]

\* every process is in its slot, has been signalled or is leaving
NobodyForgotten ==
    \A p \in Living : pid[slot[p]] = p \/ ustop[p] \/ upc[p] = "exit"

\* whoever has not found itself dead is marked alive
MarkedAlive ==
    \A p \in Living : upc[p] \notin {"doneExit", "exit"} => alive[slot[p]] # 0

\* before CC is stopped, only units that are dead in the registry leave
OnlyTheDeadLeave ==
    Unbroken => \A p \in Living :
                   /\ upc[p] \in {"doneExit", "exit"} => alive[slot[p]] = 0
                   /\ ustop[p] => upc[p] = "exit"

\* and in a tick there is a unit for each permit
TakersForAll ==
    Unbroken =>
        /\ lost = 0
        /\ ccpc \in CCInTick => Cardinality(Waiting) >= tickStart + (expected - posted)

\* at the end, all have been told
AllAreTold == ccpc = "reap" => \A p \in Living : ustop[p] \/ upc[p] = "exit"

\* a process is left for each unit of the scenario
ProcsForScenario ==
    ccpc = "scenario" => Cardinality({p \in Procs : upc[p] = "unborn"}) >= toSpawn

\* CC waits for permits that it still needs
StillNeeded == ccpc = "doneSem" => collected # expected

Progress ==
    /\ StillNeeded /\ StopIsKnown /\ SignalsWake /\ NobodyForgotten /\ MarkedAlive
    /\ OnlyTheDeadLeave /\ TakersForAll /\ AllAreTold /\ ProcsForScenario

\* what the steps below start from
Unshared ==
    /\ Faults = {} /\ SlotsUnshared /\ SlotsUnshared'
    /\ IInv /\ IInv' /\ OwnersAreForked /\ CountedUnitsRun /\ Progress

\* what a unit's step leaves alone
LEMMA UnitFrame ==
    ASSUME TypeOK, NEW p \in Procs, UnitStep(p)
    PROVE  /\ UNCHANGED <<ccpc, toSpawn, expected, posted, collected, ccStop, slot, ustop>>
           /\ upc' = [upc EXCEPT ![p] = upc'[p]]
           /\ p \in Living /\ upc'[p] # "unborn"
           /\ Living' \subseteq Living
           /\ slot[p] \in Slots
<1>1. UNCHANGED <<ccpc, toSpawn, expected, posted, collected, ccStop, slot, ustop>>
  BY DEF UnitStep, UnitBoot, UnitBootFails, UnitRegister, UnitTop,
         UnitTakeStart, UnitLockCheck, UnitAbandon, UnitLock,
         UnitFindsDead, UnitDies, UnitSkips, UnitSteps, UnitActs,
         UnitPostDone, UnitExit, CCUnchanged, ccVars
<1>2. upc[p] \notin {"unborn", "gone"} /\ \E place \in UnitPlaces \ {"unborn"} : UnitGoto(p, place)
  BY DEF UnitStep, UnitBoot, UnitBootFails, UnitRegister, UnitTop,
         UnitTakeStart, UnitLockCheck, UnitAbandon, UnitLock,
         UnitFindsDead, UnitDies, UnitSkips, UnitSteps, UnitActs,
         UnitPostDone, UnitExit, UnitPlaces, UnitGoto
<1>3. upc' = [upc EXCEPT ![p] = upc'[p]] /\ upc'[p] # "unborn"
  BY <1>2 DEF UnitGoto, TypeOK
<1> QED
  BY <1>1, <1>2, <1>3 DEF Living, TypeOK

\* what the steps of CC and its helpers that move no unit leave alone
StillUnits ==
    \/ ScenarioLeak \/ ScenarioFull \/ ScenarioDone
    \/ CCTop \/ CCLock \/ CCFrozen \/ CCNewTick
    \/ CCPost \/ CCAllPosted \/ CCDoneCheck \/ CCCollect
    \/ CCPrintGrid \/ CCExit
    \/ StopBySignal \/ StopByConsole \/ Freeze \/ UNCHANGED vars

LEMMA StillFrame ==
    ASSUME Faults = {}, StillUnits
    PROVE  UNCHANGED <<alive, pid, upc, slot, ustop, lost>> /\ ~ScenarioLeak
BY DEF StillUnits, ScenarioLeak, ScenarioFull, ScenarioDone, CCTop, CCLock,
       CCFrozen, CCNewTick, CCPost, CCAllPosted, CCDoneCheck, CCCollect,
       CCPrintGrid, CCExit, CCGoto, StopBySignal, StopByConsole, Freeze,
       unitVars, registryVars, vars

\* the units CC tells to leave
Tells(P) == \E missed \in CanMiss(P) : Terminate(P, missed)

LEMMA TellFrame ==
    ASSUME TypeOK, Faults = {}, NEW P, Tells(P)
    PROVE  /\ UNCHANGED slot
           /\ \A p \in Procs :
                upc'[p] = IF p \in P /\ upc[p] = "boot" THEN "gone"
                          ELSE IF p \in P /\ upc[p] \in UnitSemop THEN "exit" ELSE upc[p]
           /\ \A p \in Procs : ustop'[p] = (ustop[p] \/ p \in P)
           /\ Living' \subseteq Living
<1>0. PICK missed : Terminate(P, missed) /\ missed = {}
  BY DEF Tells, CanMiss
<1>2. \A p \in Procs : upc'[p] = IF p \in P /\ upc[p] = "boot" THEN "gone"
                          ELSE IF p \in P /\ upc[p] \in UnitSemop THEN "exit" ELSE upc[p]
  BY <1>0 DEF Terminate
<1>3. \A p \in Procs : ustop'[p] = (ustop[p] \/ p \in P)
  <2>1. ustop' = [p \in Procs |->
                    ustop[p] \/ p \in P \ ({q \in P : upc[q] = "boot"} \cap missed)]
    BY <1>0, Zenon DEF Terminate
  <2>2. P \ ({q \in P : upc[q] = "boot"} \cap missed) = P
    BY <1>0
  <2>3. ustop' = [p \in Procs |-> ustop[p] \/ p \in P]
    BY <2>1, <2>2, Zenon
  <2> QED
    BY <2>3, Zenon
<1>4. UNCHANGED slot
  BY <1>0 DEF Terminate
<1>5. Living' \subseteq Living
  BY <1>2 DEF Living, UnitSemop
<1> QED
  BY <1>2, <1>3, <1>4, <1>5, Zenon

\* they have all been forked
LEMMA ToldAreBorn ==
    ASSUME OwnersAreForked, CCCleanup \/ CCTerminate
    PROVE  \E P : Tells(P) /\ \A p \in P : upc[p] # "unborn"
<1>1. CASE CCCleanup
  <2>1. Tells({pid[s] : s \in DeadSlots})
    BY <1>1 DEF CCCleanup, Tells
  <2>2. \A p \in {pid[s] : s \in DeadSlots} : upc[p] # "unborn"
    BY DEF DeadSlots, OwnersAreForked
  <2> QED
    BY <2>1, <2>2
<1>2. CASE CCTerminate
  <2>1. Tells({pid[s] : s \in Slots} \ {NoProc})
    BY <1>2 DEF CCTerminate, Tells
  <2>2. \A p \in {pid[s] : s \in Slots} \ {NoProc} : upc[p] # "unborn"
    BY DEF OwnersAreForked
  <2> QED
    BY <2>1, <2>2
<1> QED
  BY <1>1, <1>2

\* the ways a step can go
LEMMA StepCases ==
    ASSUME [Next]_vars
    PROVE  \/ StillUnits \/ ScenarioSpawn \/ CCSpawn \/ CCCleanup \/ CCTerminate
           \/ \E p \in Procs : UnitStep(p)
BY DEF Next, CCStep, Terminated, StillUnits

LEMMA StopIsKnownKept ==
    ASSUME IInv, StopIsKnown, [Next]_vars
    PROVE  StopIsKnown' /\ (Unbroken' => Unbroken)
<1> USE DEF StopIsKnown, Unbroken, CCInTick, AfterTick, IInv, TypeOK, CCPlaces
<1>1. CASE StillUnits
  BY <1>1 DEF StillUnits, ScenarioLeak, ScenarioFull, ScenarioDone, CCTop,
       CCLock, CCFrozen, CCNewTick, CCPost, CCAllPosted, CCDoneCheck, CCCollect,
       CCPrintGrid, CCExit, CCGoto, StopBySignal, StopByConsole, Freeze,
       vars, ccVars
<1>2. CASE ScenarioSpawn \/ CCSpawn \/ CCCleanup \/ CCTerminate
  BY <1>2 DEF ScenarioSpawn, CCSpawn, CCCleanup, CCTerminate, ccVars
<1>3. ASSUME NEW p \in Procs, UnitStep(p)
      PROVE  UNCHANGED <<ccpc, ccStop>>
  BY <1>3, UnitFrame
<1> QED
  BY <1>1, <1>2, <1>3, StepCases

LEMMA StillNeededKept ==
    ASSUME IInv, StillNeeded, [Next]_vars
    PROVE  StillNeeded'
<1> USE DEF StillNeeded, AfterTick, CCGoto
<1>1. CASE StillUnits
  BY <1>1 DEF StillUnits, ScenarioLeak, ScenarioFull, ScenarioDone, CCTop,
       CCLock, CCFrozen, CCNewTick, CCPost, CCAllPosted, CCDoneCheck, CCCollect,
       CCPrintGrid, CCExit, StopBySignal, StopByConsole, Freeze, vars, ccVars
<1>2. CASE ScenarioSpawn \/ CCSpawn \/ CCCleanup \/ CCTerminate
  BY <1>2 DEF ScenarioSpawn, CCSpawn, CCCleanup, CCTerminate, ccVars
<1>3. ASSUME NEW p \in Procs, UnitStep(p)
      PROVE  UNCHANGED <<ccpc, collected, expected>>
  BY <1>3, UnitFrame DEF IInv
<1> QED
  BY <1>1, <1>2, <1>3, StepCases

LEMMA SpawnFrame ==
    ASSUME TypeOK, ScenarioSpawn \/ CCSpawn
    PROVE  \E s \in Slots, p \in Procs :
             /\ upc[p] = "unborn" /\ upc' = [upc EXCEPT ![p] = "boot"]
             /\ slot' = [slot EXCEPT ![p] = s]
             /\ alive[s] = 0 /\ pid[s] = NoProc
             /\ alive' = [alive EXCEPT ![s] = 1] /\ pid' = [pid EXCEPT ![s] = p]
             /\ UNCHANGED <<ustop, lost, tickStart, ccStop, ccpc, expected, posted>>
             /\ Living' = Living \cup {p}
<1>1. PICK s \in Slots, p \in Procs : SpawnUnit(s, p)
  BY DEF ScenarioSpawn, CCSpawn
<1>2. /\ upc[p] = "unborn" /\ upc' = [upc EXCEPT ![p] = "boot"]
      /\ slot' = [slot EXCEPT ![p] = s]
      /\ alive[s] = 0 /\ pid[s] = NoProc
      /\ alive' = [alive EXCEPT ![s] = 1] /\ pid' = [pid EXCEPT ![s] = p]
      /\ UNCHANGED ustop
  BY <1>1 DEF SpawnUnit, NextFree, FreeSlots
<1>3. UNCHANGED <<lost, tickStart, ccStop, ccpc, expected, posted>>
  BY DEF ScenarioSpawn, CCSpawn, ccVars
<1>4. Living' = Living \cup {p}
  BY <1>2 DEF Living, TypeOK
<1> QED
  BY <1>2, <1>3, <1>4

LEMMA SignalsWakeKept ==
    ASSUME Unshared, [Next]_vars
    PROVE  SignalsWake'
<1> SUFFICES ASSUME NEW p \in Procs, upc'[p] \in UnitSemop \cup {"unborn"}
             PROVE  ~ustop'[p]
  BY DEF SignalsWake
<1> USE DEF Unshared, Progress, SignalsWake, IInv, TypeOK
<1>1. CASE StillUnits
  BY <1>1, StillFrame
<1>2. CASE ScenarioSpawn \/ CCSpawn
  BY <1>2, SpawnFrame DEF UnitSemop
<1>3. CASE CCCleanup \/ CCTerminate
  <2>1. PICK P : Tells(P) /\ \A q \in P : upc[q] # "unborn"
    BY <1>3, ToldAreBorn
  <2> QED
    BY <2>1, TellFrame DEF UnitSemop
<1>4. ASSUME NEW q \in Procs, UnitStep(q)
      PROVE  ~ustop'[p]
  <2>1. upc'[p] = upc[p] \/ p = q
    BY <1>4, UnitFrame
  <2>2. CASE p = q /\ upc[p] \notin UnitSemop
    BY <1>4, <2>2 DEF UnitStep, UnitBoot, UnitBootFails, UnitRegister, UnitTop,
         UnitTakeStart, UnitLockCheck, UnitAbandon, UnitLock,
         UnitFindsDead, UnitDies, UnitSkips, UnitSteps, UnitActs,
         UnitPostDone, UnitExit, UnitGoto, UnitSemop
  <2> QED
    BY <1>4, <2>1, <2>2, UnitFrame
<1> QED
  BY <1>1, <1>2, <1>3, <1>4, StepCases

LEMMA MarkedAliveKept ==
    ASSUME Unshared, [Next]_vars
    PROVE  MarkedAlive'
<1> SUFFICES ASSUME NEW p \in Living', upc'[p] \notin {"doneExit", "exit"}
             PROVE  alive'[slot'[p]] # 0
  BY DEF MarkedAlive
<1> USE DEF Unshared, Progress, MarkedAlive, IInv, TypeOK
<1>0. p \in Procs
  BY DEF Living
<1>1. CASE StillUnits
  BY <1>1, StillFrame DEF Living
<1>2. CASE ScenarioSpawn \/ CCSpawn
  BY <1>0, <1>2, SpawnFrame DEF Living
<1>3. CASE CCCleanup \/ CCTerminate
  <2>1. PICK P : Tells(P)
    BY <1>3 DEF CCCleanup, CCTerminate, Tells
  <2>2. UNCHANGED <<alive, slot>> /\ p \in Living /\ upc'[p] = upc[p]
    BY <1>0, <1>3, <2>1, TellFrame DEF CCCleanup, CCTerminate, registryVars, Living
  <2> QED
    BY <2>2
<1>4. ASSUME NEW q \in Procs, UnitStep(q)
      PROVE  alive'[slot'[p]] # 0
  <2>1. p \in Living /\ q \in Living /\ slot' = slot /\ slot[p] \in Slots /\ slot[q] \in Slots
    BY <1>4, UnitFrame DEF Living
  <2>2. p # q => slot[p] # slot[q] /\ upc'[p] = upc[p]
    BY <1>0, <1>4, <2>1, UnitFrame DEF SlotsUnshared
  <2>3. \/ UNCHANGED alive
        \/ UnitRegister(q) /\ alive' = [alive EXCEPT ![slot[q]] = 1]
        \/ alive' = [alive EXCEPT ![slot[q]] = 0] /\ upc'[q] \in {"doneExit", "gone"}
    BY <1>4 DEF UnitStep, UnitBoot, UnitBootFails, UnitRegister, UnitTop,
         UnitTakeStart, UnitLockCheck, UnitAbandon, UnitLock,
         UnitFindsDead, UnitDies, UnitSkips, UnitSteps, UnitActs,
         UnitPostDone, UnitExit, UnitGoto, MarkDead, registryVars
  <2>4. upc[q] \in {"doneExit", "exit"} => upc'[q] \in {"exit", "gone"}
    BY <1>4 DEF UnitStep, UnitBoot, UnitBootFails, UnitRegister, UnitTop,
         UnitTakeStart, UnitLockCheck, UnitAbandon, UnitLock,
         UnitFindsDead, UnitDies, UnitSkips, UnitSteps, UnitActs,
         UnitPostDone, UnitExit, UnitGoto
  <2>5. upc[p] \notin {"doneExit", "exit"}
    BY <2>2, <2>4 DEF Living
  <2> QED
    BY <2>1, <2>2, <2>3, <2>5 DEF Living
<1> QED
  BY <1>1, <1>2, <1>3, <1>4, StepCases

LEMMA NobodyForgottenKept ==
    ASSUME Unshared, [Next]_vars
    PROVE  NobodyForgotten'
<1> SUFFICES ASSUME NEW p \in Living'
             PROVE  pid'[slot'[p]] = p \/ ustop'[p] \/ upc'[p] = "exit"
  BY DEF NobodyForgotten
<1> USE DEF Unshared, Progress, NobodyForgotten, IInv, TypeOK
<1>0. p \in Procs
  BY DEF Living
<1>1. CASE StillUnits
  BY <1>1, StillFrame DEF Living
<1>2. CASE ScenarioSpawn \/ CCSpawn
  <2>1. PICK s \in Slots, q \in Procs :
             /\ upc[q] = "unborn" /\ slot' = [slot EXCEPT ![q] = s]
             /\ pid[s] = NoProc /\ pid' = [pid EXCEPT ![s] = q]
             /\ upc' = [upc EXCEPT ![q] = "boot"]
             /\ UNCHANGED ustop
             /\ Living' = Living \cup {q}
    BY <1>2, SpawnFrame
  <2>2. CASE p = q
    BY <2>1, <2>2
  <2>3. CASE p # q
    <3>1. p \in Living /\ slot'[p] = slot[p] /\ slot'[q] = s /\ upc'[p] = upc[p]
      BY <1>0, <2>1, <2>3
    <3>2. slot[p] # s
      BY <2>1, <2>3, <3>1 DEF SlotsUnshared
    <3>3. slot[p] \in Slots
      BY <1>0, <3>1 DEF Living
    <3> QED
      BY <2>1, <3>1, <3>2, <3>3
  <2> QED
    BY <2>2, <2>3
<1>3. CASE CCCleanup
  <2> DEFINE P == {pid[s] : s \in DeadSlots}
  <2>1. /\ Tells(P)
        /\ pid' = [s \in Slots |-> IF s \in DeadSlots THEN NoProc ELSE pid[s]]
    BY <1>3 DEF CCCleanup, Tells
  <2>2. /\ p \in Living /\ slot' = slot /\ slot[p] \in Slots
        /\ upc'[p] = upc[p] \/ upc'[p] = "exit"
        /\ ustop'[p] = (ustop[p] \/ p \in P)
    <3> HIDE DEF P
    <3> QED
      BY <1>0, <2>1, TellFrame DEF Living
  <2>3. CASE pid[slot[p]] = p /\ slot[p] \in DeadSlots
    <3>1. p \in P
      BY <2>3
    <3> HIDE DEF P
    <3> QED
      BY <2>2, <3>1, Zenon
  <2>4. CASE pid[slot[p]] = p /\ slot[p] \notin DeadSlots
    BY <2>1, <2>2, <2>4
  <2>5. CASE ustop[p]
    BY <2>2, <2>5
  <2>6. CASE upc[p] = "exit"
    BY <2>2, <2>6
  <2> QED
    BY <2>2, <2>3, <2>4, <2>5, <2>6
<1>4. CASE CCTerminate
  <2>1. PICK P : Tells(P)
    BY <1>4 DEF CCTerminate, Tells
  <2>2. UNCHANGED pid
    BY <1>4 DEF CCTerminate, registryVars
  <2>3. /\ p \in Living /\ slot' = slot
        /\ upc'[p] = upc[p] \/ upc'[p] = "exit"
        /\ ustop'[p] = (ustop[p] \/ p \in P)
    BY <1>0, <2>1, TellFrame DEF Living
  <2> QED
    BY <2>2, <2>3
<1>5. ASSUME NEW q \in Procs, UnitStep(q)
      PROVE  pid'[slot'[p]] = p \/ ustop'[p] \/ upc'[p] = "exit"
  <2>1. p \in Living /\ q \in Living /\ slot' = slot /\ slot[p] \in Slots /\ slot[q] \in Slots
        /\ ustop' = ustop
    BY <1>5, UnitFrame DEF Living
  <2>2. p # q => slot[p] # slot[q] /\ upc'[p] = upc[p]
    BY <1>0, <1>5, <2>1, UnitFrame DEF SlotsUnshared
  <2>3. UNCHANGED pid \/ pid' = [pid EXCEPT ![slot[q]] = q]
    BY <1>5 DEF UnitStep, UnitBoot, UnitBootFails, UnitRegister, UnitTop,
         UnitTakeStart, UnitLockCheck, UnitAbandon, UnitLock,
         UnitFindsDead, UnitDies, UnitSkips, UnitSteps, UnitActs,
         UnitPostDone, UnitExit, UnitGoto, MarkDead, registryVars
  <2>4. upc[q] = "exit" => upc'[q] = "gone"
    BY <1>5 DEF UnitStep, UnitBoot, UnitBootFails, UnitRegister, UnitTop,
         UnitTakeStart, UnitLockCheck, UnitAbandon, UnitLock,
         UnitFindsDead, UnitDies, UnitSkips, UnitSteps, UnitActs,
         UnitPostDone, UnitExit, UnitGoto
  <2> QED
    BY <2>1, <2>2, <2>3, <2>4 DEF Living
<1> QED
  BY <1>1, <1>2, <1>3, <1>4, <1>5, StepCases

LEMMA CleanupIsQuiet ==
    ASSUME IInv, ccpc = "cleanup", ~ccStop
    PROVE  InTick = {}
<1>1. posted = collected
  BY DEF IInv, PermitsCollected, CCInTick
<1>2. Cardinality(InTick) = 0
  BY <1>1, InTickFinite DEF IInv, TypeOK, PermitsConserved
<1> QED
  BY <1>2, InTickFinite, FS_EmptySet

LEMMA OnlyTheDeadLeaveKept ==
    ASSUME Unshared, [Next]_vars
    PROVE  OnlyTheDeadLeave'
<1> SUFFICES ASSUME Unbroken', NEW p \in Living'
             PROVE  /\ upc'[p] \in {"doneExit", "exit"} => alive'[slot'[p]] = 0
                    /\ ustop'[p] => upc'[p] = "exit"
  BY DEF OnlyTheDeadLeave
<1> USE DEF Unshared, Progress, IInv, TypeOK
<1>0. p \in Procs /\ Unbroken
  BY StopIsKnownKept DEF Living
<1> USE DEF OnlyTheDeadLeave
<1>1. CASE StillUnits
  BY <1>0, <1>1, StillFrame DEF Living
<1>2. CASE ScenarioSpawn \/ CCSpawn
  <2>1. PICK s \in Slots, q \in Procs :
             /\ upc[q] = "unborn" /\ slot' = [slot EXCEPT ![q] = s]
             /\ upc' = [upc EXCEPT ![q] = "boot"]
             /\ alive' = [alive EXCEPT ![s] = 1]
             /\ UNCHANGED ustop
             /\ Living' = Living \cup {q}
    BY <1>2, SpawnFrame
  <2>2. CASE p = q
    <3>1. ~ustop[q]
      BY <2>1 DEF SignalsWake
    <3> QED
      BY <2>1, <2>2, <3>1
  <2>3. CASE p # q
    <3>1. p \in Living /\ slot'[p] = slot[p] /\ slot'[q] = s /\ upc'[p] = upc[p]
      BY <1>0, <2>1, <2>3
    <3>2. slot[p] # s
      BY <2>1, <2>3, <3>1 DEF SlotsUnshared
    <3>3. slot[p] \in Slots
      BY <1>0, <3>1 DEF Living
    <3> QED
      BY <1>0, <2>1, <3>1, <3>2, <3>3
  <2> QED
    BY <2>2, <2>3
<1>3. CASE CCCleanup
  <2> DEFINE P == {pid[s] : s \in DeadSlots}
  <2>1. Tells(P) /\ UNCHANGED alive /\ ccpc = "cleanup" /\ ~ccStop
    BY <1>0, <1>3 DEF CCCleanup, Tells, Unbroken, CCInTick
  <2>2. InTick = {}
    <3> HIDE DEF P
    <3> QED
      BY <2>1, CleanupIsQuiet
  <2>3. ASSUME NEW q \in Living, q \in P
        PROVE  upc[q] = "exit"
    <3>1. PICK s \in DeadSlots : q = pid[s]
      BY <2>3
    <3>2. slot[q] = s /\ alive[slot[q]] = 0
      BY <3>1 DEF DeadSlots, OwnersAreForked
    <3>3. upc[q] \in {"doneExit", "exit"}
      BY <3>2 DEF MarkedAlive
    <3> QED
      BY <2>2, <3>3 DEF InTick, UnitInTick, Living
  <2>4. p \in Living /\ slot' = slot /\ (p \in P => upc[p] = "exit")
        /\ ustop'[p] = (ustop[p] \/ p \in P)
        /\ (p \notin P => upc'[p] = upc[p])
        /\ (upc[p] = "exit" => upc'[p] = "exit")
    <3> HIDE DEF P
    <3>1. p \in Living
      BY <2>1, TellFrame
    <3> QED
      BY <1>0, <2>1, <2>3, <3>1, TellFrame DEF UnitSemop
  <2> HIDE DEF P
  <2> QED
    BY <1>0, <2>1, <2>4
<1>4. ~CCTerminate
  <2>1. CCTerminate => ccStop /\ ccpc = "term"
    BY DEF CCTerminate, StopIsKnown
  <2> QED
    BY <1>0, <2>1 DEF Unbroken, CCInTick
<1>5. ASSUME NEW q \in Procs, UnitStep(q)
      PROVE  /\ upc'[p] \in {"doneExit", "exit"} => alive'[slot'[p]] = 0
             /\ ustop'[p] => upc'[p] = "exit"
  <2>1. p \in Living /\ q \in Living /\ slot' = slot /\ slot[p] \in Slots /\ slot[q] \in Slots
        /\ ustop' = ustop
    BY <1>5, UnitFrame DEF Living
  <2>2. p # q => slot[p] # slot[q] /\ upc'[p] = upc[p]
    BY <1>0, <1>5, <2>1, UnitFrame DEF SlotsUnshared
  <2>3. \/ UNCHANGED alive
        \/ upc[q] = "reg" /\ upc'[q] = "top" /\ alive' = [alive EXCEPT ![slot[q]] = 1]
        \/ alive' = [alive EXCEPT ![slot[q]] = 0]
    BY <1>5 DEF UnitStep, UnitBoot, UnitBootFails, UnitRegister, UnitTop,
         UnitTakeStart, UnitLockCheck, UnitAbandon, UnitLock,
         UnitFindsDead, UnitDies, UnitSkips, UnitSteps, UnitActs,
         UnitPostDone, UnitExit, UnitGoto, MarkDead, registryVars
  <2>4. upc'[q] \in {"doneExit", "exit"} =>
          ustop[q] \/ upc[q] = "doneExit" \/ alive'[slot[q]] = 0
    BY <1>5, <2>1 DEF UnitStep, UnitBoot, UnitBootFails, UnitRegister, UnitTop,
         UnitTakeStart, UnitLockCheck, UnitAbandon, UnitLock,
         UnitFindsDead, UnitDies, UnitSkips, UnitSteps, UnitActs,
         UnitPostDone, UnitExit, UnitGoto, MarkDead, registryVars
  <2>5. upc[q] = "exit" => upc'[q] = "gone"
    BY <1>5 DEF UnitStep, UnitBoot, UnitBootFails, UnitRegister, UnitTop,
         UnitTakeStart, UnitLockCheck, UnitAbandon, UnitLock,
         UnitFindsDead, UnitDies, UnitSkips, UnitSteps, UnitActs,
         UnitPostDone, UnitExit, UnitGoto
  <2>6. CASE p = q
    BY <1>0, <2>1, <2>3, <2>4, <2>5, <2>6 DEF Living
  <2>7. CASE p # q
    BY <1>0, <2>1, <2>2, <2>3, <2>7
  <2> QED
    BY <2>6, <2>7
<1> QED
  BY <1>1, <1>2, <1>3, <1>4, <1>5, StepCases

LEMMA WaitingFinite ==
    /\ IsFiniteSet(Waiting)
    /\ Cardinality(Waiting) \in Nat
<1>1. Waiting \subseteq Procs
  BY DEF Waiting
<1> QED
  BY <1>1, ConstantsAssumption, FS_Subset, FS_CardinalityType

\* When a tick begins, every unit that is counted waits.
LEMMA CountedWait ==
    ASSUME Unshared, CCNewTick, Unbroken
    PROVE  Cardinality(Waiting) >= CountAlive
<1> USE DEF Unshared, Progress, IInv, TypeOK
<1> DEFINE counted == {s \in Slots : alive[s] # 0}
           takers == [s \in counted |-> pid[s]]
<1>1. InTick = {}
  BY NewTickIsQuiet
<1>2. ASSUME NEW s \in counted
      PROVE  pid[s] \in Waiting /\ slot[pid[s]] = s
  <2>1. pid[s] # NoProc /\ upc[pid[s]] # "gone"
    BY DEF CountedUnitsRun, CCNewTick
  <2>2. pid[s] \in Procs /\ slot[pid[s]] = s /\ upc[pid[s]] # "unborn"
    BY <2>1 DEF OwnersAreForked
  <2>3. upc[pid[s]] # "exit"
    BY <2>1, <2>2 DEF OnlyTheDeadLeave, Living
  <2>4. upc[pid[s]] \notin UnitInTick
    BY <1>1, <2>2 DEF InTick
  <2> QED
    BY <2>1, <2>2, <2>3, <2>4 DEF Waiting, UnitPlaces, UnitInTick
<1>3. takers \in Injection(counted, Waiting)
  BY <1>2 DEF Injection, IsInjective
<1> HIDE DEF takers, counted
<1>4. Cardinality(counted) <= Cardinality(Waiting)
  BY <1>3, WaitingFinite, FS_Injection
<1> QED
  BY <1>4 DEF CountAlive, counted

\* how a step of one unit changes the set of those that wait
LEMMA WaitingMoves ==
    ASSUME TypeOK, NEW p \in Procs, NEW place, upc' = [upc EXCEPT ![p] = place]
    PROVE  /\ place \in {"boot", "reg", "top", "startSem"} =>
                Cardinality(Waiting') >= Cardinality(Waiting)
           /\ p \notin Waiting => Cardinality(Waiting') >= Cardinality(Waiting)
           /\ Cardinality(Waiting') >= Cardinality(Waiting) - 1
<1>1. CASE place \in {"boot", "reg", "top", "startSem"}
  <2>1. Waiting' = Waiting \cup {p}
    BY <1>1 DEF Waiting, TypeOK
  <2>2. Cardinality(Waiting \cup {p})
            = IF p \in Waiting THEN Cardinality(Waiting) ELSE Cardinality(Waiting) + 1
    BY WaitingFinite, FS_AddElement
  <2> QED
    BY <1>1, <2>1, <2>2, WaitingFinite
<1>2. CASE place \notin {"boot", "reg", "top", "startSem"}
  <2>1. Waiting' = Waiting \ {p}
    BY <1>2 DEF Waiting, TypeOK
  <2>2. Cardinality(Waiting \ {p})
            = IF p \in Waiting THEN Cardinality(Waiting) - 1 ELSE Cardinality(Waiting)
    BY WaitingFinite, FS_RemoveElement
  <2> QED
    BY <1>2, <2>1, <2>2, WaitingFinite
<1> QED
  BY <1>1, <1>2

LEMMA TakersForAllKept ==
    ASSUME Unshared, [Next]_vars
    PROVE  TakersForAll'
<1> SUFFICES ASSUME Unbroken'
             PROVE  /\ lost' = 0
                    /\ ccpc' \in CCInTick =>
                         Cardinality(Waiting') >= tickStart' + (expected' - posted')
  BY DEF TakersForAll
<1>0. Unbroken /\ StopIsKnown
  BY StopIsKnownKept DEF Unshared, Progress
<1>a. Unbroken => /\ lost = 0
                  /\ ccpc \in CCInTick => Cardinality(Waiting) >= tickStart + (expected - posted)
  BY DEF Unshared, Progress, TakersForAll
<1>b. /\ tickStart \in Nat /\ expected \in Nat /\ posted \in 0..expected /\ lost \in Nat
      /\ Faults = {} /\ TypeOK /\ IInv
  BY DEF Unshared, IInv, TypeOK
<1>1. CASE StillUnits
  <2>1. Waiting' = Waiting /\ lost' = 0
    BY <1>0, <1>a, <1>b, <1>1, StillFrame DEF Waiting
  <2>2. CASE CCNewTick
    <3>1. Cardinality(Waiting) >= CountAlive
      BY <1>0, <2>2, CountedWait
    <3>2. tickStart = 0
      BY <1>b, <2>2, NewTickIsQuiet
    <3>3. tickStart' = 0 /\ expected' = CountAlive /\ posted' = 0
      BY <2>2, <3>2 DEF CCNewTick
    <3>4. CountAlive \in Nat
      BY <3>3 DEF Unshared, IInv, TypeOK
    <3> QED
      BY <2>1, <3>1, <3>3, <3>4
  <2>3. CASE CCPost
    <3>1. tickStart' = tickStart + 1 /\ posted' = posted + 1 /\ expected' = expected /\ ccpc \in CCInTick
      BY <2>3 DEF CCPost, CCInTick
    <3> QED
      BY <1>0, <1>a, <1>b, <2>1, <3>1
  <2>4. CASE ~CCNewTick /\ ~CCPost
    <3>1. UNCHANGED <<tickStart, expected, posted>> /\ (ccpc' \in CCInTick => ccpc \in CCInTick)
      BY <1>1, <2>4 DEF StillUnits, ScenarioLeak, ScenarioFull, ScenarioDone, CCTop,
           CCLock, CCFrozen, CCAllPosted, CCDoneCheck, CCCollect, AfterTick, CCInTick,
           CCPrintGrid, CCExit, CCGoto, StopBySignal, StopByConsole, Freeze,
           vars, ccVars
    <3> QED
      BY <1>0, <1>a, <2>1, <3>1
  <2> QED
    BY <2>2, <2>3, <2>4
<1>2. CASE ScenarioSpawn \/ CCSpawn
  <2>1. UNCHANGED <<lost, ccpc>>
    BY <1>2, <1>b, SpawnFrame
  <2>2. ccpc \in {"scenario", "drain"}
    BY <1>2 DEF ScenarioSpawn, CCSpawn
  <2> QED
    BY <1>0, <1>a, <2>1, <2>2 DEF CCInTick
<1>3. CASE CCCleanup
  <2>1. ccpc' = "top" /\ posted' = posted /\ ~ccStop'
    BY <1>3 DEF CCCleanup, Unbroken, CCInTick
  <2>2. posted' = collected'
    BY <2>1 DEF Unshared, IInv, PermitsCollected, CCInTick
  <2>3. lost' = 0
    <3>1. IsFiniteSet(InTick') /\ Cardinality(InTick') \in Nat
      <4>1. InTick' \subseteq Procs
        BY DEF InTick
      <4> QED
        BY <4>1, ConstantsAssumption, FS_Subset, FS_CardinalityType
    <3>2. /\ posted' = tickStart' + Cardinality(InTick') + tickDone' + collected' + lost'
          /\ tickStart' \in Nat /\ tickDone' \in Nat /\ lost' \in Nat /\ collected' \in Int
          /\ posted' \in Int
      BY DEF Unshared, IInv, TypeOK, PermitsConserved
    <3> QED
      BY <2>2, <3>1, <3>2
  <2> QED
    BY <2>1, <2>3 DEF CCInTick
<1>4. ~CCTerminate
  <2>1. CCTerminate => ccStop /\ ccpc = "term"
    BY <1>0 DEF CCTerminate, StopIsKnown
  <2> QED
    BY <1>0, <2>1 DEF Unbroken, CCInTick
<1>5. ASSUME NEW p \in Procs, UnitStep(p)
      PROVE  /\ lost' = 0
             /\ ccpc' \in CCInTick =>
                  Cardinality(Waiting') >= tickStart' + (expected' - posted')
  <2>1. /\ upc' = [upc EXCEPT ![p] = upc'[p]] /\ p \in Living
        /\ UNCHANGED <<ccpc, expected, posted>>
    BY <1>5, <1>b, UnitFrame
  <2>2. ustop[p] => upc[p] = "exit"
    BY <1>0, <2>1 DEF Unshared, Progress, OnlyTheDeadLeave
  <2>3. CASE UnitTakeStart(p)
    <3>1. tickStart' = tickStart - 1 /\ lost' = lost
      BY <2>3 DEF UnitTakeStart
    <3>2. Cardinality(Waiting') >= Cardinality(Waiting) - 1
      BY <1>b, <2>1, WaitingMoves
    <3>3. Cardinality(Waiting) \in Nat /\ Cardinality(Waiting') \in Nat
      <4>1. Waiting' \subseteq Procs
        BY DEF Waiting
      <4> QED
        BY <4>1, WaitingFinite, ConstantsAssumption, FS_Subset, FS_CardinalityType
    <3> QED
      BY <1>0, <1>a, <1>b, <2>1, <3>1, <3>2, <3>3
  <2>4. CASE ~UnitTakeStart(p)
    <3>1. tickStart' = tickStart /\ lost' = lost
      BY <1>5, <1>b, <2>2, <2>4 DEF UnitStep, UnitBoot, UnitBootFails, UnitRegister, UnitTop,
         UnitLockCheck, UnitAbandon, UnitLock,
         UnitFindsDead, UnitDies, UnitSkips, UnitSteps, UnitActs,
         UnitPostDone, UnitExit
    <3>2. upc'[p] \in {"boot", "reg", "top", "startSem"} \/ p \notin Waiting
      BY <1>5, <1>b, <2>2, <2>4 DEF UnitStep, UnitBoot, UnitBootFails, UnitRegister, UnitTop,
         UnitLockCheck, UnitAbandon, UnitLock,
         UnitFindsDead, UnitDies, UnitSkips, UnitSteps, UnitActs,
         UnitPostDone, UnitExit, UnitGoto, Waiting, TypeOK
    <3>3. Cardinality(Waiting') >= Cardinality(Waiting)
      BY <1>b, <2>1, <3>2, WaitingMoves
    <3>4. Cardinality(Waiting) \in Nat /\ Cardinality(Waiting') \in Nat
      <4>1. Waiting' \subseteq Procs
        BY DEF Waiting
      <4> QED
        BY <4>1, WaitingFinite, ConstantsAssumption, FS_Subset, FS_CardinalityType
    <3> QED
      BY <1>0, <1>a, <1>b, <2>1, <3>1, <3>3, <3>4
  <2> QED
    BY <2>3, <2>4
<1> QED
  BY <1>1, <1>2, <1>3, <1>4, <1>5, StepCases

LEMMA AllAreToldKept ==
    ASSUME Unshared, [Next]_vars
    PROVE  AllAreTold'
<1> SUFFICES ASSUME ccpc' = "reap", NEW p \in Living'
             PROVE  ustop'[p] \/ upc'[p] = "exit"
  BY DEF AllAreTold
<1> USE DEF Unshared, Progress, AllAreTold, IInv, TypeOK
<1>0. p \in Procs
  BY DEF Living
<1>1. CASE StillUnits
  <2>1. ccpc = "reap"
    BY <1>1 DEF StillUnits, ScenarioLeak, ScenarioFull, ScenarioDone, CCTop,
       CCLock, CCFrozen, CCNewTick, CCPost, CCAllPosted, CCDoneCheck, CCCollect,
       CCPrintGrid, CCExit, CCGoto, StopBySignal, StopByConsole, Freeze,
       vars, ccVars, AfterTick
  <2> QED
    BY <1>1, <2>1, StillFrame DEF Living
<1>2. CASE ScenarioSpawn \/ CCSpawn \/ CCCleanup
  BY <1>2 DEF ScenarioSpawn, CCSpawn, CCCleanup, ccVars
<1>3. CASE CCTerminate
  <2> DEFINE P == {pid[s] : s \in Slots} \ {NoProc}
  <2>1. Tells(P)
    BY <1>3 DEF CCTerminate, Tells
  <2>2. p \in Living /\ slot[p] \in Slots
        /\ (upc[p] = "exit" => upc'[p] = "exit")
        /\ (ustop[p] => ustop'[p])
        /\ (p \in P => ustop'[p])
    <3> HIDE DEF P
    <3> QED
      BY <1>0, <2>1, TellFrame DEF Living, UnitSemop
  <2>3. pid[slot[p]] = p => p \in P
    BY <1>0, <2>2, ConstantsAssumption
  <2> HIDE DEF P
  <2> QED
    BY <2>2, <2>3 DEF NobodyForgotten
<1>4. ASSUME NEW q \in Procs, UnitStep(q)
      PROVE  ustop'[p] \/ upc'[p] = "exit"
  <2>1. p \in Living /\ q \in Living /\ ccpc = "reap" /\ ustop' = ustop
        /\ (p # q => upc'[p] = upc[p])
    BY <1>0, <1>4, UnitFrame
  <2>2. upc[q] = "exit" => upc'[q] = "gone"
    BY <1>4 DEF UnitStep, UnitBoot, UnitBootFails, UnitRegister, UnitTop,
         UnitTakeStart, UnitLockCheck, UnitAbandon, UnitLock,
         UnitFindsDead, UnitDies, UnitSkips, UnitSteps, UnitActs,
         UnitPostDone, UnitExit, UnitGoto
  <2> QED
    BY <2>1, <2>2 DEF Living
<1> QED
  BY <1>1, <1>2, <1>3, <1>4, StepCases

LEMMA ProcsForScenarioKept ==
    ASSUME Unshared, [Next]_vars
    PROVE  ProcsForScenario'
<1> DEFINE unborn == {p \in Procs : upc[p] = "unborn"}
<1> SUFFICES ASSUME ccpc' = "scenario"
             PROVE  Cardinality(unborn') >= toSpawn'
  BY DEF ProcsForScenario
<1> USE DEF Unshared, Progress, IInv, TypeOK
<1>0. IsFiniteSet(unborn) /\ Cardinality(unborn) \in Nat
  <2>1. unborn \subseteq Procs
    OBVIOUS
  <2> QED
    BY <2>1, ConstantsAssumption, FS_Subset, FS_CardinalityType
<1>a. ccpc = "scenario" => Cardinality(unborn) >= toSpawn
  BY DEF ProcsForScenario
<1>1. CASE StillUnits
  <2>1. unborn' = unborn
    BY <1>1, StillFrame
  <2>2. ccpc = "scenario" /\ toSpawn' <= toSpawn /\ toSpawn' \in Int
    BY <1>1 DEF StillUnits, ScenarioLeak, ScenarioFull, ScenarioDone, CCTop,
       CCLock, CCFrozen, CCNewTick, CCPost, CCAllPosted, CCDoneCheck, CCCollect,
       CCPrintGrid, CCExit, CCGoto, StopBySignal, StopByConsole, Freeze,
       vars, ccVars, AfterTick
  <2> HIDE DEF unborn
  <2> QED
    BY <1>0, <1>a, <2>1, <2>2
<1>2. CASE ScenarioSpawn
  <2>1. PICK p \in unborn : upc' = [upc EXCEPT ![p] = "boot"]
    BY <1>2, SpawnFrame
  <2>2. unborn' = unborn \ {p}
    BY <2>1
  <2>3. toSpawn' = toSpawn - 1 /\ ccpc = "scenario" /\ toSpawn \in Nat
    BY <1>2 DEF ScenarioSpawn
  <2> HIDE DEF unborn
  <2>4. Cardinality(unborn') = Cardinality(unborn) - 1
    BY <1>0, <2>1, <2>2, FS_RemoveElement
  <2> QED
    BY <1>0, <1>a, <2>3, <2>4
<1>3. CASE CCSpawn \/ CCCleanup \/ CCTerminate
  BY <1>3 DEF CCSpawn, CCCleanup, CCTerminate, ccVars
<1>4. ASSUME NEW q \in Procs, UnitStep(q)
      PROVE  Cardinality(unborn') >= toSpawn'
  <2>1. unborn' = unborn /\ UNCHANGED <<ccpc, toSpawn>>
    BY <1>4, UnitFrame DEF Living
  <2> HIDE DEF unborn
  <2> QED
    BY <1>a, <2>1
<1> QED
  BY <1>1, <1>2, <1>3, <1>4, StepCases

\* Where all this holds, somebody can go on.
LEMMA ProgressMeans ==
    ASSUME IInv, Progress
    PROVE  NeverStuck
<1> SUFFICES ASSUME ccpc # "exit", ~CCReady, \A p \in Procs : ~UnitReady(p)
             PROVE  FALSE
  BY DEF NeverStuck
<1> USE DEF IInv, TypeOK
<1>1. Holders = {}
  BY DEF Holders, UnitCritical, UnitReady
<1>2. ccpc \notin CCCritical => globalLock > 0
  BY <1>1 DEF MutualExclusion
<1>3. CASE ccpc = "scenario"
  <2>1. {p \in Procs : upc[p] = "unborn"} = {} /\ toSpawn # 0
    BY <1>3 DEF CCReady
  <2>2. Cardinality({p \in Procs : upc[p] = "unborn"}) = 0
    BY <2>1, FS_EmptySet
  <2> QED
    BY <1>3, <2>1, <2>2 DEF Progress, ProcsForScenario
<1>4. CASE ccpc = "doneSem"
  <2>1. tickDone = 0 /\ globalLock > 0
    BY <1>2, <1>4 DEF CCReady, CCCritical
  <2>2. InTick = {}
    BY <2>1 DEF InTick, UnitInTick, UnitReady
  <2>3. Cardinality(InTick) = 0
    BY <2>2, FS_EmptySet
  <2>4. lost = 0 /\ posted = expected /\ Cardinality(Waiting) >= tickStart + (expected - posted)
    BY <1>4 DEF Progress, TakersForAll, Unbroken, CCInTick, PermitsCollected
  <2>5. tickStart = posted - collected
    BY <2>1, <2>3, <2>4 DEF PermitsConserved
  <2>6. CASE tickStart = 0
    <3>1. collected = expected
      BY <2>4, <2>5, <2>6
    <3> QED
      BY <1>4, <3>1 DEF Progress, StillNeeded
  <2>7. CASE tickStart > 0
    <3>1. Waiting # {}
      <4>1. Cardinality(Waiting) >= tickStart
        <5>1. tickStart + (expected - posted) = tickStart
          BY <2>4
        <5> QED
          BY <2>4, <5>1, Zenon
      <4>2. Waiting = {} => Cardinality(Waiting) = 0
        BY FS_EmptySet
      <4>3. ~(0 >= tickStart)
        BY <2>7
      <4> QED
        BY <4>1, <4>2, <4>3
    <3> QED
      BY <2>1, <2>7, <3>1 DEF Waiting, UnitReady
  <2> QED
    BY <2>6, <2>7
<1>5. CASE ccpc = "reap"
  <2>1. PICK p \in Living : TRUE
    BY <1>5 DEF CCReady, Living
  <2>2. globalLock > 0
    BY <1>2, <1>5 DEF CCCritical
  <2>3. upc[p] = "startSem" /\ p \in Procs
    BY <2>1, <2>2 DEF Living, UnitReady, UnitPlaces
  <2> QED
    BY <1>5, <2>3 DEF Progress, AllAreTold, SignalsWake, UnitSemop
<1>6. CASE ccpc \notin {"scenario", "doneSem", "reap"}
  BY <1>2, <1>6 DEF CCReady, CCPlaces, CCCritical
<1> QED
  BY <1>3, <1>4, <1>5, <1>6

(***************************************************************************)
(* Without faults of the environment, and as long as no slot is given away *)
(* before its last owner has left it, CC and the units never all wait for  *)
(* each other: neither in a tick, nor between two, nor at the end.         *)
(***************************************************************************)
THEOREM SomebodyCanGoOn ==
    ASSUME Faults = {} PROVE Spec /\ []SlotsUnshared => []NeverStuck
<1>1. Init => OwnersAreForked /\ Progress
  <2> SUFFICES ASSUME Init PROVE OwnersAreForked /\ Progress
    OBVIOUS
  <2>1. OwnersAreForked
    BY DEF Init, OwnersAreForked
  <2>2. Living = {} /\ {p \in Procs : upc[p] = "unborn"} = Procs
    BY DEF Init, Living
  <2>3. SignalsWake
    BY DEF Init, SignalsWake
  <2>4. ProcsForScenario
    BY <2>2, ConstantsAssumption, FS_CardinalityType DEF Init, ProcsForScenario
  <2>5. StillNeeded /\ StopIsKnown /\ NobodyForgotten /\ MarkedAlive
        /\ OnlyTheDeadLeave /\ TakersForAll /\ AllAreTold
    BY <2>2 DEF Init, StillNeeded, StopIsKnown, NobodyForgotten, MarkedAlive,
                OnlyTheDeadLeave, TakersForAll, AllAreTold, CCInTick
  <2> QED
    BY <2>1, <2>3, <2>4, <2>5 DEF Progress
<1>2. IInv /\ IInv' /\ OwnersAreForked /\ CountedUnitsRun /\ Progress
        /\ SlotsUnshared /\ SlotsUnshared' /\ [Next]_vars => Progress'
  <2> SUFFICES ASSUME IInv, IInv', OwnersAreForked, CountedUnitsRun, Progress,
                      SlotsUnshared, SlotsUnshared', [Next]_vars
               PROVE  Progress'
    OBVIOUS
  <2>1. Unshared
    BY DEF Unshared
  <2>2. StillNeeded' /\ StopIsKnown'
    BY StillNeededKept, StopIsKnownKept DEF Progress
  <2> QED
    BY <2>1, <2>2, SignalsWakeKept, NobodyForgottenKept, MarkedAliveKept, OnlyTheDeadLeaveKept,
       TakersForAllKept, AllAreToldKept, ProcsForScenarioKept DEF Progress
<1>3. IInv /\ Progress => NeverStuck
  BY ProgressMeans
<1>4. IInv /\ OwnersAreForked /\ [Next]_vars => OwnersAreForked'
  BY OwnersAreForkedKept
<1> QED
  BY <1>1, <1>2, <1>3, <1>4, InductiveInvariant, CountedRun, PTL DEF Spec

-----------------------------------------------------------------------------
(* A battle in which nobody is spawned after the scenario *)

Unborn == {p \in Procs : upc[p] = "unborn"}

\* each process has a slot of its own, and CC has forked them all when the
\* scenario is there
Settled ==
    /\ \A p, q \in Procs \ Unborn : slot[p] = slot[q] => p = q
    /\ ccpc = "scenario" => /\ Cardinality(Unborn) = toSpawn
                            /\ \A p \in Procs \ Unborn : pid[slot[p]] = p
    /\ ccpc # "scenario" => Unborn = {}

LEMMA UnbornFinite == IsFiniteSet(Unborn) /\ Cardinality(Unborn) \in Nat
<1>1. Unborn \subseteq Procs
  BY DEF Unborn
<1> QED
  BY <1>1, ConstantsAssumption, FS_Subset, FS_CardinalityType

\* a slot is free for every unit of the scenario
LEMMA SlotsSuffice ==
    ASSUME Faults = {}, ScenarioUnits = Cardinality(Procs), ScenarioUnits <= MAX_UNITS,
           IInv, OwnersAreForked, CountedUnitsRun, Settled, ccpc = "scenario", toSpawn > 0
    PROVE  FreeSlots # {}
<1> SUFFICES ASSUME FreeSlots = {} PROVE FALSE
  OBVIOUS
<1> DEFINE born == Procs \ Unborn
           owners == [s \in Slots |-> pid[s]]
<1>1. ASSUME NEW s \in Slots
      PROVE  pid[s] \in born /\ slot[pid[s]] = s
  <2>1. pid[s] # NoProc
    BY DEF FreeSlots, CountedUnitsRun
  <2> QED
    BY <2>1 DEF OwnersAreForked, Unborn, IInv, TypeOK
<1>2. owners \in Injection(Slots, born)
  BY <1>1 DEF Injection, IsInjective
<1>3. /\ IsFiniteSet(born) /\ Cardinality(Slots) = MAX_UNITS
      /\ Cardinality(born) = Cardinality(Procs) - Cardinality(Unborn)
  <2>1. Procs \cap Unborn = Unborn
    BY DEF Unborn
  <2>2. Cardinality(Slots) = MAX_UNITS
    <3>1. Cardinality(1..MAX_UNITS) = IF 1 > MAX_UNITS THEN 0 ELSE MAX_UNITS - 1 + 1
      BY ConstantsAssumption, FS_Interval
    <3> QED
      BY <3>1, ConstantsAssumption DEF Slots
  <2>3. /\ IsFiniteSet(born)
        /\ Cardinality(born) = Cardinality(Procs) - Cardinality(Procs \cap Unborn)
    BY ConstantsAssumption, FS_Difference
  <2> QED
    BY <2>1, <2>2, <2>3
<1> HIDE DEF owners, born
<1>4. Cardinality(Slots) <= Cardinality(born)
  BY <1>2, <1>3, FS_Injection
<1>5. Cardinality(Unborn) = toSpawn /\ toSpawn \in Nat /\ Cardinality(Procs) \in Nat
  BY ConstantsAssumption DEF Settled, IInv, TypeOK
<1> QED
  BY <1>3, <1>4, <1>5, ConstantsAssumption

LEMMA SettledKept ==
    ASSUME Faults = {}, ScenarioUnits = Cardinality(Procs), ScenarioUnits <= MAX_UNITS,
           IInv, OwnersAreForked, CountedUnitsRun, Settled, [Next]_vars
    PROVE  Settled'
<1> USE DEF IInv, TypeOK
<1>1. CASE ScenarioSpawn \/ CCSpawn
  <2>1. PICK s \in Slots, p \in Unborn :
             /\ upc' = [upc EXCEPT ![p] = "boot"] /\ slot' = [slot EXCEPT ![p] = s]
             /\ pid[s] = NoProc /\ pid' = [pid EXCEPT ![s] = p] /\ ccpc' = ccpc
    BY <1>1, SpawnFrame DEF Unborn
  <2>2. /\ ScenarioSpawn /\ ccpc = "scenario" /\ toSpawn' = toSpawn - 1
        /\ Cardinality(Unborn) = toSpawn /\ \A q \in Procs \ Unborn : pid[slot[q]] = q
    BY <1>1, <2>1 DEF Settled, ScenarioSpawn, CCSpawn
  <2>3. Unborn' = Unborn \ {p} /\ p \in Procs
    BY <2>1 DEF Unborn
  <2>4. \A q \in Procs \ Unborn : slot[q] \in Slots /\ slot[q] # s /\ q # p
    BY <2>1, <2>2, ConstantsAssumption DEF Unborn
  <2>5. \A q \in Procs \ Unborn' :
          IF q = p THEN slot'[q] = s ELSE q \notin Unborn /\ slot'[q] = slot[q]
    BY <2>1, <2>3
  <2>6. Cardinality(Unborn') = toSpawn'
    BY <2>1, <2>2, <2>3, UnbornFinite, FS_RemoveElement
  <2>7. \A q, r \in Procs \ Unborn' : slot'[q] = slot'[r] => q = r
    BY <2>4, <2>5 DEF Settled
  <2>8. \A q \in Procs \ Unborn' : pid'[slot'[q]] = q
    BY <2>1, <2>2, <2>4, <2>5
  <2> QED
    BY <2>1, <2>2, <2>6, <2>7, <2>8 DEF Settled
<1>2. CASE StillUnits
  <2>1. UNCHANGED <<pid, slot, upc>> /\ Unborn' = Unborn /\ ~ScenarioLeak
    BY <1>2, StillFrame DEF Unborn
  <2>2. ~ScenarioFull
    BY SlotsSuffice DEF ScenarioFull
  <2>3. CASE ScenarioDone
    <3>1. ccpc = "scenario" /\ ccpc' # "scenario" /\ Cardinality(Unborn) = 0
      BY <2>3 DEF ScenarioDone, Settled
    <3>2. Unborn = {}
      BY <3>1, UnbornFinite, FS_EmptySet
    <3> QED
      BY <2>1, <3>1, <3>2 DEF Settled
  <2>4. CASE ~ScenarioDone
    <3>1. (ccpc' = "scenario" <=> ccpc = "scenario") /\ toSpawn' = toSpawn
      BY <1>2, <2>1, <2>2, <2>4 DEF StillUnits, CCTop,
         CCLock, CCFrozen, CCNewTick, CCPost, CCAllPosted, CCDoneCheck, CCCollect,
         CCPrintGrid, CCExit, CCGoto, StopBySignal, StopByConsole, Freeze,
         vars, ccVars, AfterTick
    <3> QED
      BY <2>1, <3>1 DEF Settled
  <2> QED
    BY <2>3, <2>4
<1>3. CASE CCCleanup \/ CCTerminate
  <2>1. PICK P : Tells(P) /\ \A p \in P : upc[p] # "unborn"
    BY <1>3, ToldAreBorn
  <2>2. UNCHANGED slot /\ Unborn' = Unborn
    BY <2>1, TellFrame DEF Unborn, UnitSemop
  <2>3. ccpc # "scenario" /\ ccpc' # "scenario"
    BY <1>3 DEF CCCleanup, CCTerminate
  <2> QED
    BY <2>2, <2>3 DEF Settled
<1>4. ASSUME NEW p \in Procs, UnitStep(p)
      PROVE  Settled'
  <2>1. UNCHANGED <<ccpc, toSpawn, slot>> /\ Unborn' = Unborn /\ p \in Procs \ Unborn
        /\ slot[p] \in Slots
    BY <1>4, UnitFrame DEF Unborn, Living
  <2>2. UNCHANGED pid \/ pid' = [pid EXCEPT ![slot[p]] = p]
    BY <1>4 DEF UnitStep, UnitBoot, UnitBootFails, UnitRegister, UnitTop,
         UnitTakeStart, UnitLockCheck, UnitAbandon, UnitLock,
         UnitFindsDead, UnitDies, UnitSkips, UnitSteps, UnitActs,
         UnitPostDone, UnitExit, UnitGoto, MarkDead, registryVars
  <2>3. ASSUME NEW q \in Procs \ Unborn, pid[slot[q]] = q PROVE pid'[slot[q]] = q
    <3>1. CASE slot[q] = slot[p]
      <4>1. q = p
        BY <2>1, <3>1 DEF Settled
      <4> QED
        BY <2>1, <2>2, <2>3, <4>1
    <3>2. CASE slot[q] # slot[p]
      <4>1. slot[q] \in Slots
        BY DEF Unborn
      <4> QED
        BY <2>2, <2>3, <3>2, <4>1
    <3> QED
      BY <3>1, <3>2
  <2> QED
    BY <2>1, <2>3 DEF Settled
<1> QED
  BY <1>1, <1>2, <1>3, <1>4, StepCases

(***************************************************************************)
(* So a battle that only has the units of its scenario, with a slot for    *)
(* each, never comes to a stand before CC has exited.                      *)
(***************************************************************************)
THEOREM BattleGoesOn ==
    ASSUME Faults = {}, ScenarioUnits = Cardinality(Procs), ScenarioUnits <= MAX_UNITS
    PROVE  Spec => []NeverStuck
<1>1. Init => OwnersAreForked /\ Settled
  <2> SUFFICES ASSUME Init PROVE OwnersAreForked /\ Settled
    OBVIOUS
  <2>1. OwnersAreForked
    BY DEF Init, OwnersAreForked
  <2>2. Unborn = Procs /\ Procs \ Unborn = {}
    BY DEF Init, Unborn
  <2>3. ccpc = "scenario" /\ Cardinality(Unborn) = toSpawn
    BY <2>2 DEF Init
  <2> QED
    BY <2>1, <2>2, <2>3 DEF Settled
<1>2. IInv /\ OwnersAreForked /\ [Next]_vars => OwnersAreForked'
  BY OwnersAreForkedKept
<1>3. IInv /\ OwnersAreForked /\ CountedUnitsRun /\ Settled /\ [Next]_vars => Settled'
  BY SettledKept
<1>4. Settled => SlotsUnshared
  BY DEF Settled, SlotsUnshared, Living, Unborn
<1>5. Spec /\ []SlotsUnshared => []NeverStuck
  BY SomebodyCanGoOn
<1> QED
  BY <1>1, <1>2, <1>3, <1>4, <1>5, InductiveInvariant, CountedRun, PTL DEF Spec
=============================================================================
