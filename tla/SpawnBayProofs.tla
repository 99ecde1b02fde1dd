--------------------------- MODULE SpawnBayProofs ---------------------------
(***************************************************************************)
(* Proofs about SpawnBay: types, how many messages a sender has under way, *)
(* bays within their capacity, factions inherited and the account of       *)
(* BayAccount, for every fleet, registry, queue size and fault; and exact  *)
(* bays where nothing fails and nothing is too small.                      *)
(***************************************************************************)
EXTENDS SpawnRefinement, FiniteSetTheorems, SequenceTheorems, TLAPS

-----------------------------------------------------------------------------
(* The inductive invariant *)

\* no unit has two requests in the queue
OneRequest ==
    \A i, j \in DOMAIN reqs :
        reqs[i].from \in Procs /\ reqs[i].from = reqs[j].from => i = j

\* a unit with a reply to read has nothing else under way
OneReply ==
    \A p \in Procs :
        /\ Len(reps[p]) <= 1
        /\ reps[p] # <<>> => Asking(p) = {}

\* a console has nothing under way at its prompt, and a second message only
\* once it has been told to stop
ConsolesWithinBounds ==
    \A c \in Consoles : UnderWay(c) <= Allowed(c)

\* in a tick, a unit that has not acted yet has no request in the queue,
\* and one that has begun has no reply either
BegunMeansNothingPending ==
    \A p \in Procs :
        /\ phase = "tick" /\ step[p] \in {"idle", "begun"} => Asking(p) = {}
        /\ step[p] = "begun" => phase = "tick" /\ reps[p] = <<>>

\* what is pending still has a place in the bay
PendingHasRoom ==
    \A p \in Procs :
        /\ bay[p] <= Capacity
        /\ Asking(p) # {} \/ reps[p] # <<>> => bay[p] < Capacity

IInv ==
    /\ TypeOK
    /\ OneRequest
    /\ OneReply
    /\ ConsolesWithinBounds
    /\ BegunMeansNothingPending
    /\ PendingHasRoom

-----------------------------------------------------------------------------
(* Sets of constants *)

LEMMA Constants ==
    /\ MAX_UNITS \in Nat /\ MaxProcs \in Nat /\ Capacity \in Nat
    /\ Len(Fleet) \in Nat
    /\ Ships \subseteq Procs /\ Ships \subseteq Slots
    /\ \A s \in Ships : Fleet[s] \in Factions
    /\ \A p \in Procs : p \in Nat \ {0}
    /\ \A s \in Slots : s \in Nat \ {0}
    /\ Consoles \cap Procs = {}
    /\ 0 \notin Consoles
BY SpawnAssumption, SMT DEF Ships, Procs, Slots

-----------------------------------------------------------------------------
(* The queues *)

Message == [from : Senders, sender_id : Slots \cup {0},
            faction : Factions \cup {0}]

\* appending to a sequence
LEMMA AtTheEnd ==
    ASSUME NEW S, NEW q \in Seq(S), NEW e \in S
    PROVE  /\ Append(q, e) \in Seq(S)
           /\ Len(q) + 1 \notin DOMAIN q
           /\ DOMAIN Append(q, e) = DOMAIN q \cup {Len(q) + 1}
           /\ \A i \in DOMAIN q : Append(q, e)[i] = q[i]
           /\ Append(q, e)[Len(q) + 1] = e
<1>1. /\ Len(q) \in Nat /\ DOMAIN q = 1..Len(q)
      /\ Append(q, e) \in Seq(S)
      /\ Len(Append(q, e)) = Len(q) + 1
  BY LenProperties, AppendProperties
<1>2. DOMAIN Append(q, e) = 1..(Len(q) + 1)
  BY <1>1, LenProperties
<1>3. 1..(Len(q) + 1) = 1..Len(q) \cup {Len(q) + 1} /\ Len(q) + 1 \notin 1..Len(q)
  BY <1>1
<1>. QED
  BY <1>1, <1>2, <1>3, AppendProperties

\* the tail of a sequence
LEMMA AtTheHead ==
    ASSUME NEW S, NEW q \in Seq(S), q # <<>>
    PROVE  /\ Tail(q) \in Seq(S)
           /\ 1 \in DOMAIN q /\ Head(q) = q[1] /\ q[1] \in S
           /\ \A i \in DOMAIN Tail(q) : /\ i \in Nat
                                        /\ i + 1 \in DOMAIN q
                                        /\ i + 1 # 1
                                        /\ Tail(q)[i] = q[i + 1]
           /\ \A k \in DOMAIN q : k # 1 => /\ k - 1 \in DOMAIN Tail(q)
                                           /\ Tail(q)[k - 1] = q[k]
<1>1. /\ Len(q) \in Nat \ {0} /\ DOMAIN q = 1..Len(q)
      /\ Tail(q) \in Seq(S)
      /\ Len(Tail(q)) = Len(q) - 1
      /\ \A i \in 1..Len(Tail(q)) : Tail(q)[i] = q[i + 1]
  BY LenProperties, HeadTailProperties, EmptySeq
<1>2. DOMAIN Tail(q) = 1..(Len(q) - 1)
  BY <1>1, LenProperties
<1>3. /\ 1 \in DOMAIN q /\ Head(q) = q[1]
  BY <1>1 
<1>4. q[1] \in S
  BY <1>1, <1>3, ElementOfSeq
<1>5. \A i \in 1..(Len(q) - 1) : i \in Nat /\ i + 1 \in 1..Len(q) /\ i + 1 # 1
  BY <1>1
<1>6. \A k \in 1..Len(q) : k # 1 => k - 1 \in 1..(Len(q) - 1) /\ (k - 1) + 1 = k
  BY <1>1
<1>. QED
  BY <1>1, <1>2, <1>3, <1>4, <1>5, <1>6

\* what a sender has asked for is finite
LEMMA AskingFinite ==
    ASSUME TypeOK, NEW a \in Senders
    PROVE  IsFiniteSet(Asking(a)) /\ Cardinality(Asking(a)) \in Nat
<1>1. DOMAIN reqs = 1..Len(reqs) /\ Len(reqs) \in Nat
  BY LenProperties DEF TypeOK
<1>2. IsFiniteSet(DOMAIN reqs)
  BY <1>1, FS_Interval
<1>3. Asking(a) \in SUBSET DOMAIN reqs
  BY DEF Asking
<1>. QED
  BY <1>2, <1>3, FS_Subset, FS_CardinalityType

\* a request at the end of the queue
LEMMA Enqueue ==
    ASSUME TypeOK, NEW r \in Message, reqs' = Append(reqs, r)
    PROVE  /\ reqs' \in Seq(Message)
           /\ \A a \in Senders : a # r.from => Asking(a)' = Asking(a)
           /\ Cardinality(Asking(r.from)') = Cardinality(Asking(r.from)) + 1
           /\ OneRequest /\ (r.from \in Procs => Asking(r.from) = {}) => OneRequest'
<1>1. reqs \in Seq(Message) /\ r.from \in Senders
  BY DEF TypeOK, Message
<1>2. /\ reqs' \in Seq(Message)
      /\ Len(reqs) + 1 \notin DOMAIN reqs
      /\ DOMAIN reqs' = DOMAIN reqs \cup {Len(reqs) + 1}
      /\ \A i \in DOMAIN reqs : reqs'[i] = reqs[i]
      /\ reqs'[Len(reqs) + 1] = r
  BY <1>1, AtTheEnd
<1>3. \A a \in Senders : a # r.from => Asking(a)' = Asking(a)
  BY <1>2 DEF Asking
<1>4. Cardinality(Asking(r.from)') = Cardinality(Asking(r.from)) + 1
  <2>1. /\ Asking(r.from)' = Asking(r.from) \cup {Len(reqs) + 1}
        /\ Len(reqs) + 1 \notin Asking(r.from)
    BY <1>2 DEF Asking
  <2>. QED
    BY <1>1, <2>1, AskingFinite, FS_AddElement
<1>5. ASSUME OneRequest, r.from \in Procs => Asking(r.from) = {} PROVE OneRequest'
  <2> SUFFICES ASSUME NEW i \in DOMAIN reqs', NEW j \in DOMAIN reqs',
                      reqs'[i].from \in Procs, reqs'[i].from = reqs'[j].from
               PROVE  i = j
    BY DEF OneRequest
  <2>1. r.from \in Procs => \A k \in DOMAIN reqs : reqs[k].from # r.from
    BY <1>5 DEF Asking
  <2>. QED
    BY <1>2, <1>5, <2>1 DEF OneRequest
<1>. QED
  BY <1>2, <1>3, <1>4, <1>5

\* the first request leaves the queue
LEMMA Dequeue ==
    ASSUME TypeOK, OneRequest, reqs # <<>>, reqs' = Tail(reqs)
    PROVE  /\ Head(reqs) \in Message
           /\ reqs' \in Seq(Message)
           /\ Asking(Head(reqs).from) # {}
           /\ \A p \in Procs : p = Head(reqs).from => Asking(p)' = {}
           /\ \A a \in Senders : Asking(a) = {} => Asking(a)' = {}
           /\ \A a \in Senders : a # Head(reqs).from /\ Asking(a) # {}
                                 => Asking(a)' # {}
           /\ \A a \in Senders :
                 /\ Cardinality(Asking(a)') \in Nat
                 /\ Cardinality(Asking(a)') <= Cardinality(Asking(a))
                 /\ a = Head(reqs).from =>
                      Cardinality(Asking(a)') + 1 <= Cardinality(Asking(a))
           /\ OneRequest'
<1>1. reqs \in Seq(Message)
  BY DEF TypeOK, Message
<1>2. /\ reqs' \in Seq(Message)
      /\ 1 \in DOMAIN reqs /\ Head(reqs) = reqs[1] /\ reqs[1] \in Message
      /\ \A i \in DOMAIN reqs' : /\ i \in Nat
                                 /\ i + 1 \in DOMAIN reqs
                                 /\ i + 1 # 1
                                 /\ reqs'[i] = reqs[i + 1]
      /\ \A k \in DOMAIN reqs : k # 1 => /\ k - 1 \in DOMAIN reqs'
                                         /\ reqs'[k - 1] = reqs[k]
  BY <1>1, AtTheHead
<1>3. Asking(Head(reqs).from) # {}
  BY <1>2 DEF Asking
<1>4. ASSUME NEW p \in Procs, p = Head(reqs).from PROVE Asking(p)' = {}
  <2> SUFFICES ASSUME NEW i \in DOMAIN reqs', reqs'[i].from = p PROVE FALSE
    BY DEF Asking
  <2>. QED
    BY <1>2, <1>4 DEF OneRequest
<1>5. \A a \in Senders : Asking(a) = {} => Asking(a)' = {}
  BY <1>2 DEF Asking
<1>6. OneRequest'
  <2> SUFFICES ASSUME NEW i \in DOMAIN reqs', NEW j \in DOMAIN reqs',
                      reqs'[i].from \in Procs, reqs'[i].from = reqs'[j].from
               PROVE  i = j
    BY DEF OneRequest
  <2>1. i + 1 = j + 1
    BY <1>2 DEF OneRequest
  <2>. QED
    BY <2>1, <1>2
<1>7. ASSUME NEW a \in Senders, a # Head(reqs).from, Asking(a) # {}
      PROVE  Asking(a)' # {}
  <2>1. PICK k \in DOMAIN reqs : reqs[k].from = a
    BY <1>7 DEF Asking
  <2>2. k # 1
    BY <2>1, <1>2, <1>7
  <2>. QED
    BY <2>1, <2>2, <1>2 DEF Asking
<1>8. ASSUME NEW a \in Senders
      PROVE  /\ Cardinality(Asking(a)') \in Nat
             /\ Cardinality(Asking(a)') <= Cardinality(Asking(a))
             /\ a = Head(reqs).from =>
                  Cardinality(Asking(a)') + 1 <= Cardinality(Asking(a))
  <2> DEFINE now == Asking(a)'
             before == Asking(a)
             back == [i \in now |-> i + 1]
  <2>1. IsFiniteSet(before) /\ Cardinality(before) \in Nat
    BY AskingFinite
  <2>2. IsFiniteSet(before \ {1})
    BY <2>1, FS_Difference
  <2>3. \A i \in now : i \in Nat /\ i + 1 \in before \ {1}
    BY <1>2 DEF Asking
  <2> HIDE DEF now, before
  <2>4. back \in Injection(now, before \ {1})
    BY <2>3 DEF Injection, IsInjective
  <2>5. IsFiniteSet(now) /\ Cardinality(now) <= Cardinality(before \ {1})
    BY <2>2, <2>4, FS_Injection
  <2>6. Cardinality(now) \in Nat
    BY <2>5, FS_CardinalityType
  <2>7. Cardinality(before \ {1})
          = IF 1 \in before THEN Cardinality(before) - 1 ELSE Cardinality(before)
    BY <2>1, FS_RemoveElement
  <2>8. a = Head(reqs).from => 1 \in before
    BY <1>2 DEF Asking, before
  <2>. QED
    BY <2>1, <2>5, <2>6, <2>7, <2>8 DEF now, before
<1>. QED
  BY <1>2, <1>3, <1>4, <1>5, <1>6, <1>7, <1>8

\* consoles that are left alone stay within their bounds
LEMMA ConsolesAsBefore ==
    ASSUME ConsolesWithinBounds, UNCHANGED console,
           \A c \in Consoles : Asking(c)' = Asking(c) /\ reps'[c] = reps[c]
    PROVE  ConsolesWithinBounds'
BY DEF ConsolesWithinBounds, UnderWay, Allowed

-----------------------------------------------------------------------------
(* The invariant is inductive *)

LEMMA Initially == Init => IInv
<1> SUFFICES ASSUME Init PROVE IInv
  OBVIOUS
<1>1. /\ reqs = <<>> /\ DOMAIN reqs = {} /\ reqs \in Seq(Message)
      /\ <<>> \in Seq(Reply) /\ Len(<<>>) = 0
  BY EmptySeq DEF Init
<1>2. \A a \in Senders : reps[a] = <<>> /\ Asking(a) = {}
  BY <1>1 DEF Init, Asking
<1>3. TypeOK
  <2>1. /\ phase \in {"drain", "tick"} /\ alive \in [Slots -> BOOLEAN]
        /\ console \in [Consoles -> {"prompt", "polls", "leaving", "last", "gone"}]
        /\ step \in [Procs -> {"unborn", "idle", "begun", "done", "dead"}]
        /\ bay \in [Procs -> Nat]
    BY DEF Init
  <2>2. /\ owner \in [Slots -> Procs \cup {0}]
        /\ side \in [Slots -> Factions \cup {0}]
        /\ slot \in [Procs -> Slots \cup {0}]
        /\ faction \in [Procs -> Factions \cup {0}]
        /\ parent \in [Procs -> Procs \cup {0}]
    BY Constants DEF Init
  <2>3. forked \in 0..MaxProcs
    BY Constants, SpawnAssumption DEF Init
  <2>4. reps \in [Senders -> Seq(Reply)]
    BY <1>1 DEF Init
  <2>. QED
    BY <1>1, <2>1, <2>2, <2>3, <2>4 DEF TypeOK, Message
<1>4. OneRequest
  BY <1>1 DEF OneRequest
<1>5. OneReply
  BY <1>1, <1>2 DEF OneReply, Senders
<1>6. ConsolesWithinBounds
  <2>1. \A c \in Consoles : Cardinality(Asking(c)) = 0 /\ Len(reps[c]) = 0
    BY <1>1, <1>2, FS_EmptySet DEF Senders
  <2>2. \A c \in Consoles : UnderWay(c) = 0
    BY <2>1 DEF UnderWay
  <2>3. \A c \in Consoles : Allowed(c) = 0
    BY Constants DEF Allowed, Init
  <2>. QED
    BY <2>2, <2>3 DEF ConsolesWithinBounds
<1>7. BegunMeansNothingPending
  BY <1>2 DEF BegunMeansNothingPending, Senders, Init
<1>8. PendingHasRoom
  BY <1>2, Constants DEF PendingHasRoom, Senders, Init
<1>. QED
  BY <1>3, <1>4, <1>5, <1>6, <1>7, <1>8 DEF IInv

\* what the three ways of serving a request have in common
LEMMA Served ==
    ASSUME IInv, Serving, NEW reply \in Reply, Answer(reply),
           UNCHANGED <<phase, console, bay>>,
           \A p \in Procs : step'[p] # "begun"
    PROVE  /\ reqs' \in Seq(Message)
           /\ reps' \in [Senders -> Seq(Reply)]
           /\ OneRequest'
           /\ OneReply'
           /\ ConsolesWithinBounds'
           /\ BegunMeansNothingPending'
           /\ PendingHasRoom'
<1>1. /\ Head(reqs) \in Message /\ Head(reqs).from \in Senders
      /\ reqs' \in Seq(Message)
      /\ Asking(Head(reqs).from) # {}
      /\ \A p \in Procs : p = Head(reqs).from => Asking(p)' = {}
      /\ \A a \in Senders : Asking(a) = {} => Asking(a)' = {}
      /\ \A a \in Senders :
            /\ Cardinality(Asking(a)') \in Nat
            /\ Cardinality(Asking(a)') <= Cardinality(Asking(a))
            /\ a = Head(reqs).from =>
                 Cardinality(Asking(a)') + 1 <= Cardinality(Asking(a))
      /\ OneRequest'
  BY Dequeue DEF IInv, Serving, Answer, Message
<1>2. PICK h \in Senders : h = Head(reqs).from
  BY <1>1
<1>3. reps \in [Senders -> Seq(Reply)] /\ (h \in Procs => reps[h] = <<>>)
  BY <1>1, <1>2 DEF IInv, TypeOK, OneReply
<1>4. PICK one \in Seq(Reply) : /\ Len(one) = Len(reps[h]) + 1
                                /\ \/ reps' = reps
                                   \/ reps' = [reps EXCEPT ![h] = one]
  <2>1. /\ Append(reps[h], reply) \in Seq(Reply)
        /\ Len(Append(reps[h], reply)) = Len(reps[h]) + 1
    BY <1>3, AppendProperties
  <2>2. \/ reps' = reps
        \/ reps' = [reps EXCEPT ![h] = Append(reps[h], reply)]
    BY <1>2 DEF Answer
  <2>3. \A one : one = Append(reps[h], reply)
                   => one \in Seq(Reply) /\ Len(one) = Len(reps[h]) + 1
    BY <2>1
  <2>. QED
    BY <2>2, <2>3, Zenon
<1>5. Len(reps[h]) \in Nat /\ (h \in Procs => Len(reps[h]) = 0)
  BY <1>3, LenProperties, EmptySeq
<1>6. /\ reps' \in [Senders -> Seq(Reply)]
      /\ \A a \in Senders : a # h => reps'[a] = reps[a]
      /\ Len(reps'[h]) \in Nat /\ Len(reps'[h]) <= Len(reps[h]) + 1
  <2>1. CASE reps' = reps
    BY <2>1, <1>3, <1>5
  <2>2. CASE reps' = [reps EXCEPT ![h] = one]
    <3>1. reps'[h] = one
      BY <2>2, <1>3, Zenon
    <3>2. \A a \in Senders : a # h => reps'[a] = reps[a]
      BY <2>2, <1>3, Zenon
    <3>3. reps' \in [Senders -> Seq(Reply)]
      BY <2>2, <1>3, Zenon
    <3>4. Len(reps'[h]) = Len(reps[h]) + 1
      BY <1>4, <3>1, Zenon
    <3>5. Len(reps'[h]) \in Nat /\ Len(reps'[h]) <= Len(reps[h]) + 1
      BY <1>5, <3>4
    <3>. QED
      BY <3>2, <3>3, <3>5, Zenon
  <2>. QED
    BY <2>1, <2>2, <1>4
<1>7. h \in Procs => Asking(h)' = {} /\ Asking(h) # {} /\ Len(reps'[h]) <= 1
  BY <1>1, <1>2, <1>5, <1>6
<1>8. OneReply'
  BY <1>1, <1>6, <1>7 DEF OneReply, IInv, Senders
<1>9. ConsolesWithinBounds'
  <2> SUFFICES ASSUME NEW c \in Consoles PROVE UnderWay(c)' <= Allowed(c)'
    BY DEF ConsolesWithinBounds
  <2>1. c \in Senders /\ Cardinality(Asking(c)) \in Nat /\ Len(reps[c]) \in Nat
    BY AskingFinite, LenProperties DEF Senders, IInv, TypeOK
  <2>2. /\ Allowed(c)' = Allowed(c) /\ Allowed(c) \in 0..2
        /\ UnderWay(c) <= Allowed(c)
    BY Constants DEF Allowed, IInv, TypeOK, ConsolesWithinBounds
  <2>3. UnderWay(c)' <= UnderWay(c)
    BY <1>1, <1>2, <1>6, <2>1 DEF UnderWay
  <2>4. UnderWay(c) \in Nat /\ UnderWay(c)' \in Nat
    BY <1>1, <1>6, <2>1 DEF UnderWay
  <2>. QED
    BY <2>2, <2>3, <2>4
<1>10. BegunMeansNothingPending'
  BY DEF BegunMeansNothingPending, Serving
<1>11. PendingHasRoom'
  <2> SUFFICES ASSUME NEW p \in Procs
               PROVE  /\ bay[p] <= Capacity
                      /\ Asking(p)' # {} \/ reps'[p] # <<>> => bay[p] < Capacity
    BY DEF PendingHasRoom
  <2>1. p \in Senders
    BY DEF Senders
  <2>. QED
    BY <2>1, <1>1, <1>6, <1>7 DEF IInv, PendingHasRoom
<1>. QED
  BY <1>1, <1>6, <1>8, <1>9, <1>10, <1>11

\* a unit's tally grows by at most one, and only with a reply to read
LEMMA GrantedBound ==
    ASSUME TypeOK, OneReply, NEW p \in Procs
    PROVE  /\ Granted(p) \in 0..1
           /\ reps[p] = <<>> => Granted(p) = 0
<1> DEFINE ok == {i \in DOMAIN reps[p] : reps[p][i].status = "ok"}
<1>1. reps[p] \in Seq(Reply) /\ Len(reps[p]) <= 1
  BY DEF TypeOK, OneReply, Senders
<1>2. Len(reps[p]) \in Nat /\ DOMAIN reps[p] = 1..Len(reps[p])
  BY <1>1, LenProperties
<1>3. DOMAIN reps[p] \subseteq {1}
  BY <1>1, <1>2
<1>4. ok = {} \/ ok = {1}
  BY <1>3
<1>5. Cardinality(ok) \in 0..1
  <2>1. Cardinality({}) = 0
    BY FS_EmptySet
  <2>2. Cardinality({1}) = 1
    BY FS_Singleton
  <2>. HIDE DEF ok
  <2>. QED
    BY <1>4, <2>1, <2>2
<1>6. ASSUME reps[p] = <<>> PROVE Cardinality(ok) = 0
  <2>1. DOMAIN reps[p] = {}
    BY <1>6, <1>2, EmptySeq
  <2>. QED
    BY <2>1, FS_EmptySet
<1>. QED
  BY <1>5, <1>6 DEF Granted

\* a request goes into the queue; a unit's, when it has nothing under way
LEMMA Asked ==
    ASSUME IInv, NEW r \in Message,
           r.from \in Procs => /\ Asking(r.from) = {} /\ reps[r.from] = <<>>
                               /\ bay[r.from] < Capacity,
           reqs' = Append(reqs, r), UNCHANGED <<reps, bay>>
    PROVE  /\ reqs' \in Seq(Message)
           /\ \A a \in Senders : a # r.from => Asking(a)' = Asking(a)
           /\ Cardinality(Asking(r.from)') = Cardinality(Asking(r.from)) + 1
           /\ OneRequest' /\ OneReply' /\ PendingHasRoom'
<1>1. /\ reqs' \in Seq(Message)
      /\ \A a \in Senders : a # r.from => Asking(a)' = Asking(a)
      /\ Cardinality(Asking(r.from)') = Cardinality(Asking(r.from)) + 1
      /\ OneRequest'
  BY Enqueue DEF IInv
<1>2. OneReply'
  BY <1>1 DEF IInv, OneReply, Senders
<1>3. PendingHasRoom'
  <2> SUFFICES ASSUME NEW p \in Procs
               PROVE  /\ bay[p] <= Capacity
                      /\ Asking(p)' # {} \/ reps[p] # <<>> => bay[p] < Capacity
    BY DEF PendingHasRoom
  <2>1. p \in Senders
    BY DEF Senders
  <2>. QED
    BY <2>1, <1>1 DEF IInv, PendingHasRoom
<1>. QED
  BY <1>1, <1>2, <1>3

\* a console goes on to another place, or reads a reply, or both
LEMMA ConsoleMoves ==
    ASSUME IInv, NEW c \in Consoles,
           UNCHANGED <<phase, registryVars, reqs, procVars, step, bay>>,
           NEW to \in {"prompt", "polls", "leaving", "last", "gone"},
           console' = [console EXCEPT ![c] = to],
           \/ UNCHANGED reps /\ Allowed(c) <= Allowed(c)'
           \/ /\ reps[c] # <<>> /\ reps' = [reps EXCEPT ![c] = Tail(reps[c])]
              /\ Allowed(c) <= Allowed(c)' + 1
    PROVE  IInv'
<1> USE DEF registryVars, procVars
<1>0. c \in Senders /\ c \notin Procs
  BY Constants DEF Senders
<1>1. reps[c] \in Seq(Reply) /\ Len(reps[c]) \in Nat
  BY <1>0, LenProperties DEF IInv, TypeOK
<1>2. \A a \in Senders : Asking(a)' = Asking(a)
  BY DEF Asking
<1>3. reps[c] # <<>> => /\ Tail(reps[c]) \in Seq(Reply)
                        /\ Len(Tail(reps[c])) = Len(reps[c]) - 1
                        /\ Len(reps[c]) # 0
  BY <1>1, HeadTailProperties, EmptySeq
<1>4. /\ reps' \in [Senders -> Seq(Reply)]
      /\ \A a \in Senders : a # c => reps'[a] = reps[a]
      /\ \/ Len(reps'[c]) = Len(reps[c]) /\ Allowed(c) <= Allowed(c)'
         \/ Len(reps'[c]) = Len(reps[c]) - 1 /\ Allowed(c) <= Allowed(c)' + 1
  BY <1>0, <1>3 DEF IInv, TypeOK
<1>5. TypeOK'
  BY <1>4 DEF IInv, TypeOK
<1>6. OneRequest' /\ OneReply' /\ BegunMeansNothingPending' /\ PendingHasRoom'
  BY <1>0, <1>2, <1>4 DEF IInv, OneRequest, OneReply, BegunMeansNothingPending,
                          PendingHasRoom, Senders
<1>7. ASSUME NEW d \in Consoles PROVE UnderWay(d)' <= Allowed(d)'
  <2>1. CASE d # c
    <3>1. Allowed(d)' = Allowed(d) /\ UnderWay(d)' = UnderWay(d)
      BY <1>2, <1>4, <2>1 DEF Allowed, UnderWay, Senders, IInv, TypeOK
    <3>. QED
      BY <3>1 DEF IInv, ConsolesWithinBounds
  <2>2. CASE d = c
    <3>1. Cardinality(Asking(c)) \in Nat
      BY <1>0, AskingFinite DEF IInv
    <3>2. UnderWay(c) <= Allowed(c) /\ Allowed(c) \in 0..2 /\ Allowed(c)' \in 0..2
      BY <1>0 DEF IInv, ConsolesWithinBounds, Allowed
    <3>3. Asking(c)' = Asking(c)
      BY <1>0, <1>2
    <3>. QED
      BY <1>1, <1>4, <2>2, <3>1, <3>2, <3>3 DEF UnderWay
  <2>. QED
    BY <2>1, <2>2
<1>. QED
  BY <1>5, <1>6, <1>7 DEF IInv, ConsolesWithinBounds

LEMMA ConsoleSteps ==
    ASSUME IInv, NEW c \in Consoles,
           \/ ConsoleAsks(c) \/ ConsoleReads(c) \/ ConsoleTold(c)
           \/ ConsoleMisreads(c)
    PROVE  IInv'
<1>0. c \in Senders /\ c \notin Procs
  BY Constants DEF Senders
<1>a. /\ console \in [Consoles -> {"prompt", "polls", "leaving", "last", "gone"}]
      /\ \A to : console' = [console EXCEPT ![c] = to] => console'[c] = to
  BY DEF IInv, TypeOK
<1>1. CASE ConsoleAsks(c)
  <2> USE DEF registryVars, procVars
  <2>1. PICK f \in Hired :
          reqs' = Append(reqs, [from |-> c, sender_id |-> 0, faction |-> f])
    BY <1>1 DEF ConsoleAsks
  <2> DEFINE r == [from |-> c, sender_id |-> 0, faction |-> f]
  <2>2. r \in Message /\ r.from = c
    BY <1>0, SpawnAssumption DEF Message
  <2>3. UNCHANGED <<reps, bay, phase, step, registryVars, procVars>>
    BY <1>1 DEF ConsoleAsks
  <2>4. PICK to \in {"polls", "last"} :
            /\ console' = [console EXCEPT ![c] = to]
            /\ console[c] = IF to = "last" THEN "leaving" ELSE "prompt"
    BY <1>1 DEF ConsoleAsks
  <2> HIDE DEF r
  <2>5. /\ reqs' \in Seq(Message)
        /\ \A a \in Senders : a # c => Asking(a)' = Asking(a)
        /\ Cardinality(Asking(c)') = Cardinality(Asking(c)) + 1
        /\ OneRequest' /\ OneReply' /\ PendingHasRoom'
    <3>1. reqs' = Append(reqs, r) /\ r.from \notin Procs /\ UNCHANGED <<reps, bay>>
      BY <1>0, <2>1, <2>2, <2>3 DEF r
    <3>. QED
      BY <2>2, <3>1, Asked
  <2>6. TypeOK'
    BY <2>3, <2>4, <2>5 DEF IInv, TypeOK, Message
  <2>7. ASSUME NEW d \in Consoles PROVE UnderWay(d)' <= Allowed(d)'
    <3>1. CASE d # c
      <4>1. Allowed(d)' = Allowed(d) /\ UnderWay(d)' = UnderWay(d)
        BY <1>a, <2>3, <2>4, <2>5, <3>1 DEF Allowed, UnderWay, Senders
      <4>. QED
        BY <4>1 DEF IInv, ConsolesWithinBounds
    <3>2. CASE d = c
      <4>1. Cardinality(Asking(c)) \in Nat /\ Len(reps[c]) \in Nat
        BY <1>0, AskingFinite, LenProperties DEF IInv, TypeOK
      <4>2. UnderWay(c) <= Allowed(c)
        BY DEF IInv, ConsolesWithinBounds
      <4>3. Allowed(c)' = Allowed(c) + 1 /\ Allowed(c) \in 0..2
        BY <1>0, <1>a, <2>4 DEF Allowed
      <4>. QED
        BY <2>3, <2>5, <3>2, <4>1, <4>2, <4>3 DEF UnderWay
    <3>. QED
      BY <3>1, <3>2
  <2>8. BegunMeansNothingPending'
    BY <1>0, <2>3, <2>5 DEF IInv, BegunMeansNothingPending, Senders
  <2>. QED
    BY <2>5, <2>6, <2>7, <2>8 DEF IInv, ConsolesWithinBounds
<1>2. CASE ConsoleReads(c)
  <2>1. PICK to \in {"prompt", "gone"} :
            /\ console' = [console EXCEPT ![c] = to]
            /\ console[c] = IF to = "gone" THEN "last" ELSE "polls"
    BY <1>2 DEF ConsoleReads, Polls
  <2>2. /\ UNCHANGED <<phase, registryVars, reqs, procVars, step, bay>>
        /\ reps[c] # <<>> /\ reps' = [reps EXCEPT ![c] = Tail(reps[c])]
    BY <1>2 DEF ConsoleReads
  <2>3. Allowed(c) <= Allowed(c)' + 1
    BY <1>0, <1>a, <2>1 DEF Allowed
  <2>. QED
    BY <2>1, <2>2, <2>3, ConsoleMoves
<1>3. CASE ConsoleTold(c)
  <2>1. PICK to \in {"leaving", "gone"} :
            /\ console' = [console EXCEPT ![c] = to]
            /\ to = "leaving" => console[c] \in {"prompt", "polls"}
    BY <1>3 DEF ConsoleTold
  <2>2. UNCHANGED <<phase, registryVars, reqs, reps, procVars, step, bay>>
    BY <1>3 DEF ConsoleTold
  <2>3. Allowed(c) <= Allowed(c)'
    BY <1>0, <1>a, <2>1 DEF Allowed
  <2>. QED
    BY <2>1, <2>2, <2>3, ConsoleMoves
<1>4. CASE ConsoleMisreads(c)
  <2>1. /\ console[c] = "leaving" /\ console' = [console EXCEPT ![c] = "gone"]
        /\ UNCHANGED <<phase, registryVars, reqs, procVars, step, bay>>
        /\ reps[c] # <<>> /\ reps' = [reps EXCEPT ![c] = Tail(reps[c])]
    BY <1>4 DEF ConsoleMisreads
  <2>2. Allowed(c) <= Allowed(c)' + 1
    BY <1>0, <1>a, <2>1 DEF Allowed
  <2>. QED
    BY <2>1, <2>2, ConsoleMoves
<1>. QED
  BY <1>1, <1>2, <1>3, <1>4

LEMMA CCSteps == IInv /\ CCStep => IInv'
<1> USE DEF registryVars, procVars
<1> SUFFICES ASSUME IInv, CCStep PROVE IInv'
  OBVIOUS
<1>0. /\ [status |-> "failed"] \in Reply
      /\ [status |-> "ok"] \in Reply
  BY DEF Reply
<1>1. CASE ServeRefused \/ ServeFailed
  <2>1. PICK reply \in Reply : Answer(reply)
    BY <1>0, <1>1 DEF ServeRefused, ServeFailed
  <2>2. /\ UNCHANGED <<phase, registryVars, console, procVars, step, bay>>
        /\ Serving
    BY <1>1 DEF ServeRefused, ServeFailed
  <2>3. \A p \in Procs : step'[p] # "begun"
    BY <2>2 DEF IInv, BegunMeansNothingPending, Serving
  <2>4. /\ reqs' \in Seq(Message)
        /\ reps' \in [Senders -> Seq(Reply)]
        /\ OneRequest' /\ OneReply' /\ ConsolesWithinBounds'
        /\ BegunMeansNothingPending' /\ PendingHasRoom'
    BY <2>1, <2>2, <2>3, Served
  <2>5. TypeOK'
    BY <2>2, <2>4 DEF IInv, TypeOK, Message
  <2>. QED
    BY <2>4, <2>5 DEF IInv
<1>2. CASE ServeLaunched
  <2> DEFINE r == Head(reqs)
             child == forked + 1
  <2>1. PICK s \in FreeSlots :
             /\ alive' = [alive EXCEPT ![s] = TRUE]
             /\ owner' = [owner EXCEPT ![s] = child]
             /\ side' = [side EXCEPT ![s] = SpawnFaction(r)]
             /\ forked' = child
             /\ slot' = [slot EXCEPT ![child] = s]
             /\ faction' = [faction EXCEPT ![child] = SpawnFaction(r)]
             /\ parent' = [parent EXCEPT ![child] =
                            IF r.from \in Procs THEN r.from ELSE 0]
             /\ step' = [step EXCEPT ![child] = "idle"]
             /\ Answer([status |-> "ok"])
    BY <1>2 DEF ServeLaunched
  <2>2. Serving /\ UNCHANGED <<phase, console, bay>> /\ forked < MaxProcs
    BY <1>2 DEF ServeLaunched
  <2>3. s \in Slots /\ child \in Procs /\ child \in 0..MaxProcs
    BY <2>2, Constants DEF FreeSlots, IInv, TypeOK, Procs
  <2>4. r \in Message
    <3>1. reqs \in Seq(Message) /\ reqs # <<>>
      BY <2>2 DEF IInv, TypeOK, Message, Serving
    <3>. QED
      BY <3>1, HeadTailProperties
  <2> HIDE DEF r, child
  <2>5. SpawnFaction(r) \in Factions \cup {0}
    BY <2>4 DEF SpawnFaction, Message, IInv, TypeOK
  <2>6. [status |-> "ok"] \in Reply
    BY <2>3 DEF Reply
  <2>7. step' \in [Procs -> {"unborn", "idle", "begun", "done", "dead"}]
    BY <2>1, <2>3 DEF IInv, TypeOK
  <2>8. \A p \in Procs : step'[p] # "begun"
    BY <2>1, <2>2, <2>3 DEF IInv, TypeOK, BegunMeansNothingPending, Serving
  <2>9. /\ reqs' \in Seq(Message)
        /\ reps' \in [Senders -> Seq(Reply)]
        /\ OneRequest' /\ OneReply' /\ ConsolesWithinBounds'
        /\ BegunMeansNothingPending' /\ PendingHasRoom'
    BY <2>1, <2>2, <2>6, <2>8, Served
  <2>10. /\ alive' \in [Slots -> BOOLEAN]
         /\ owner' \in [Slots -> Procs \cup {0}]
         /\ side' \in [Slots -> Factions \cup {0}]
         /\ forked' \in 0..MaxProcs
    BY <2>1, <2>3, <2>5 DEF IInv, TypeOK
  <2>11. /\ slot' \in [Procs -> Slots \cup {0}]
         /\ faction' \in [Procs -> Factions \cup {0}]
         /\ parent' \in [Procs -> Procs \cup {0}]
    BY <2>1, <2>3, <2>5 DEF IInv, TypeOK
  <2>12. TypeOK'
    BY <2>2, <2>7, <2>9, <2>10, <2>11 DEF IInv, TypeOK, Message
  <2>. QED
    BY <2>9, <2>12 DEF IInv
<1>3. CASE StartTick
  <2>1. /\ reqs = <<>> /\ phase' = "tick" /\ phase = "drain"
        /\ UNCHANGED <<registryVars, reqs, reps, console, procVars, step, bay>>
    BY <1>3 DEF StartTick
  <2>2. \A a \in Senders : Asking(a)' = Asking(a) /\ Asking(a) = {}
    <3>1. DOMAIN reqs = {}
      BY <2>1
    <3>. QED
      BY <2>1, <3>1 DEF Asking
  <2>3. TypeOK'
    BY <2>1 DEF IInv, TypeOK
  <2>4. OneRequest' /\ OneReply' /\ ConsolesWithinBounds' /\ PendingHasRoom'
    BY <2>1, <2>2, ConsolesAsBefore DEF IInv, OneRequest, OneReply,
                                        PendingHasRoom, Senders
  <2>5. BegunMeansNothingPending'
    BY <2>1, <2>2 DEF IInv, BegunMeansNothingPending, Senders
  <2>. QED
    BY <2>3, <2>4, <2>5 DEF IInv
<1>4. CASE EndTick
  <2>1. /\ phase' = "drain"
        /\ \A p \in Procs : step[p] # "begun"
        /\ UNCHANGED <<alive, reqs, reps, console, procVars, bay>>
        /\ step' = [p \in Procs |-> IF step[p] = "done" THEN "idle" ELSE step[p]]
    BY <1>4 DEF EndTick
  <2>2. /\ owner' \in [Slots -> Procs \cup {0}]
        /\ side' \in [Slots -> Factions \cup {0}]
    BY <1>4 DEF EndTick, IInv, TypeOK
  <2>3. TypeOK'
    BY <2>1, <2>2 DEF IInv, TypeOK
  <2>4. \A a \in Senders : Asking(a)' = Asking(a)
    BY <2>1 DEF Asking
  <2>5. OneRequest' /\ OneReply' /\ ConsolesWithinBounds' /\ PendingHasRoom'
    BY <2>1, <2>4, ConsolesAsBefore DEF IInv, OneRequest, OneReply,
                                        PendingHasRoom, Senders
  <2>6. BegunMeansNothingPending'
    BY <2>1 DEF BegunMeansNothingPending
  <2>. QED
    BY <2>3, <2>5, <2>6 DEF IInv
<1>. QED
  BY <1>1, <1>2, <1>3, <1>4 DEF CCStep

LEMMA UnitSteps ==
    ASSUME IInv, NEW p \in Procs,
           ShipBegins(p) \/ ShipActs(p) \/ UnitDies(p)
    PROVE  IInv'
<1> USE DEF registryVars, procVars
<1>0. p \in Senders /\ p \notin Consoles
  BY Constants DEF Senders
<1>1. CASE ShipBegins(p)
  <2>1. /\ phase = "tick" /\ step[p] = "idle"
        /\ bay' = [bay EXCEPT ![p] = bay[p] + Granted(p)]
        /\ reps' = [reps EXCEPT ![p] = <<>>]
        /\ step' = [step EXCEPT ![p] = "begun"]
        /\ UNCHANGED <<phase, registryVars, reqs, console, procVars>>
    BY <1>1 DEF ShipBegins
  <2>2. Granted(p) \in 0..1 /\ (reps[p] = <<>> => Granted(p) = 0)
    BY GrantedBound DEF IInv
  <2>3. bay[p] \in Nat /\ bay[p] <= Capacity
        /\ (reps[p] # <<>> => bay[p] < Capacity) /\ Capacity \in Nat
    BY Constants DEF IInv, TypeOK, PendingHasRoom
  <2>4. bay[p] + Granted(p) \in Nat /\ bay[p] + Granted(p) <= Capacity
    BY <2>2, <2>3
  <2>5. <<>> \in Seq(Reply) /\ Len(<<>>) = 0
    BY EmptySeq
  <2>6. Asking(p) = {}
    BY <2>1 DEF IInv, BegunMeansNothingPending
  <2>7. \A a \in Senders : Asking(a)' = Asking(a)
    BY <2>1 DEF Asking
  <2>8. /\ reps' \in [Senders -> Seq(Reply)]
        /\ reps'[p] = <<>>
        /\ \A a \in Senders : a # p => reps'[a] = reps[a]
    BY <1>0, <2>1, <2>5 DEF IInv, TypeOK
  <2>9. TypeOK'
    <3>1. bay' \in [Procs -> Nat]
      BY <2>1, <2>4 DEF IInv, TypeOK
    <3>2. step' \in [Procs -> {"unborn", "idle", "begun", "done", "dead"}]
      BY <2>1 DEF IInv, TypeOK
    <3>. QED
      BY <2>1, <2>8, <3>1, <3>2 DEF IInv, TypeOK
  <2>10. OneRequest'
    BY <2>1 DEF IInv, OneRequest
  <2>11. OneReply'
    BY <2>5, <2>7, <2>8 DEF IInv, OneReply, Senders
  <2>12. ConsolesWithinBounds'
    BY <1>0, <2>1, <2>7, <2>8, ConsolesAsBefore DEF IInv, Senders
  <2>13. BegunMeansNothingPending'
    BY <2>1, <2>6, <2>7, <2>8 DEF IInv, TypeOK, BegunMeansNothingPending, Senders
  <2>14. PendingHasRoom'
    BY <2>1, <2>4, <2>6, <2>7, <2>8 DEF IInv, TypeOK, PendingHasRoom, Senders
  <2>. QED
    BY <2>9, <2>10, <2>11, <2>12, <2>13, <2>14 DEF IInv
<1>2. CASE ShipActs(p)
  <2>1. /\ step[p] = "begun"
        /\ step' = [step EXCEPT ![p] = "done"]
        /\ UNCHANGED <<phase, registryVars, reps, console, procVars, bay>>
    BY <1>2 DEF ShipActs
  <2>2. phase = "tick" /\ Asking(p) = {} /\ reps[p] = <<>>
    BY <2>1 DEF IInv, BegunMeansNothingPending
  <2>3. step' \in [Procs -> {"unborn", "idle", "begun", "done", "dead"}]
    BY <2>1 DEF IInv, TypeOK
  <2> DEFINE r == [from |-> p, sender_id |-> slot[p], faction |-> faction[p]]
  <2>4. CASE Capacity > bay[p] /\ reqs' = Append(reqs, r)
    <3>1. r \in Message /\ r.from = p
      BY <1>0 DEF Message, IInv, TypeOK
    <3>2. bay[p] < Capacity
      BY <2>4, Constants DEF IInv, TypeOK
    <3> HIDE DEF r
    <3>3. /\ reqs' \in Seq(Message)
          /\ \A a \in Senders : a # p => Asking(a)' = Asking(a)
          /\ OneRequest' /\ OneReply' /\ PendingHasRoom'
      BY <2>1, <2>2, <2>4, <3>1, <3>2, Asked
    <3>4. TypeOK'
      BY <2>1, <2>3, <3>3 DEF IInv, TypeOK, Message
    <3>5. ConsolesWithinBounds'
      BY <1>0, <2>1, <3>3, ConsolesAsBefore DEF IInv, Senders
    <3>6. BegunMeansNothingPending'
      BY <2>1, <3>3 DEF IInv, TypeOK, BegunMeansNothingPending, Senders
    <3>. QED
      BY <3>3, <3>4, <3>5, <3>6 DEF IInv
  <2>5. CASE UNCHANGED reqs
    <3>1. \A a \in Senders : Asking(a)' = Asking(a)
      BY <2>5 DEF Asking
    <3>2. TypeOK'
      BY <2>1, <2>3, <2>5 DEF IInv, TypeOK
    <3>3. OneRequest' /\ OneReply' /\ ConsolesWithinBounds' /\ PendingHasRoom'
      BY <2>1, <2>5, <3>1, ConsolesAsBefore DEF IInv, OneRequest, OneReply,
                                                PendingHasRoom, Senders
    <3>4. BegunMeansNothingPending'
      BY <2>1, <3>1 DEF IInv, TypeOK, BegunMeansNothingPending, Senders
    <3>. QED
      BY <3>2, <3>3, <3>4 DEF IInv
  <2>. QED
    BY <1>2, <2>4, <2>5 DEF ShipActs
<1>3. CASE UnitDies(p)
  <2>1. /\ phase = "tick"
        /\ alive' = [alive EXCEPT ![slot[p]] = FALSE]
        /\ step' = [step EXCEPT ![p] = "dead"]
        /\ UNCHANGED <<phase, owner, side, reqs, reps, console, procVars, bay>>
    BY <1>3 DEF UnitDies
  <2>2. \A a \in Senders : Asking(a)' = Asking(a)
    BY <2>1 DEF Asking
  <2>3. /\ alive' \in [Slots -> BOOLEAN]
        /\ step' \in [Procs -> {"unborn", "idle", "begun", "done", "dead"}]
    BY <2>1 DEF IInv, TypeOK
  <2>4. TypeOK'
    BY <2>1, <2>3 DEF IInv, TypeOK
  <2>5. OneRequest' /\ OneReply' /\ ConsolesWithinBounds' /\ PendingHasRoom'
    BY <2>1, <2>2, ConsolesAsBefore DEF IInv, OneRequest, OneReply,
                                        PendingHasRoom, Senders
  <2>6. BegunMeansNothingPending'
    BY <2>1, <2>2 DEF IInv, TypeOK, BegunMeansNothingPending, Senders
  <2>. QED
    BY <2>4, <2>5, <2>6 DEF IInv
<1>. QED
  BY <1>1, <1>2, <1>3

\* nothing changes
LEMMA Stutters == IInv /\ UNCHANGED vars => IInv'
<1> SUFFICES ASSUME IInv, UNCHANGED vars PROVE IInv'
  OBVIOUS
<1>1. UNCHANGED <<phase, alive, owner, side, reqs, reps, console, forked, slot,
                  faction, parent, step, bay>>
  BY DEF vars, registryVars, procVars
<1>2. \A a \in Senders : Asking(a)' = Asking(a)
  BY <1>1 DEF Asking
<1>3. TypeOK'
  BY <1>1 DEF IInv, TypeOK
<1>4. /\ OneRequest' /\ OneReply' /\ ConsolesWithinBounds'
      /\ BegunMeansNothingPending' /\ PendingHasRoom'
  BY <1>1, <1>2, ConsolesAsBefore DEF IInv, OneRequest, OneReply,
                    BegunMeansNothingPending, PendingHasRoom, Senders
<1>. QED
  BY <1>3, <1>4 DEF IInv

(***************************************************************************)
(* The invariant holds in every reachable state.                           *)
(***************************************************************************)
THEOREM SpawnInvariant == Spec => []IInv
<1>1. IInv /\ [Next]_vars => IInv'
  BY CCSteps, ConsoleSteps, UnitSteps, Stutters DEF Next
<1>. QED
  BY Initially, <1>1, PTL DEF Spec

-----------------------------------------------------------------------------
(* What it gives *)

(***************************************************************************)
(* The registry, the queues and the units' states have their types.        *)
(***************************************************************************)
THEOREM SpawnTypes == Spec => []TypeOK
<1>1. IInv => TypeOK
  BY DEF IInv
<1>. QED
  BY SpawnInvariant, <1>1, PTL

(***************************************************************************)
(* A battleship never has two messages, requests or replies, under way; a  *)
(* console has none at its prompt, one while it polls, and a second one    *)
(* only after it has been told to stop.                                    *)
(***************************************************************************)
THEOREM SpawnOneOutstanding == Spec => []OneOutstanding
<1>1. ASSUME IInv PROVE OneOutstanding
  <2>1. ASSUME NEW p \in Procs PROVE UnderWay(p) <= Allowed(p)
    <3>1. p \in Senders /\ Allowed(p) = 1
      BY DEF Senders, Allowed
    <3>2. Len(reps[p]) \in Nat /\ Len(reps[p]) <= 1
      BY <1>1, <3>1, LenProperties DEF IInv, TypeOK, OneReply
    <3>3. CASE Asking(p) = {}
      BY <3>1, <3>2, <3>3, FS_EmptySet DEF UnderWay
    <3>4. CASE Asking(p) # {}
      <4>1. reps[p] = <<>> /\ Len(reps[p]) = 0
        BY <1>1, <3>4, EmptySeq DEF IInv, OneReply
      <4>2. PICK i : i \in Asking(p)
        BY <3>4
      <4>3. Asking(p) = {i}
        BY <1>1, <4>2 DEF IInv, OneRequest, Asking
      <4>4. Cardinality(Asking(p)) = 1
        BY <4>3, FS_Singleton
      <4>. QED
        BY <3>1, <4>1, <4>4 DEF UnderWay
    <3>. QED
      BY <3>3, <3>4
  <2>. QED
    BY <1>1, <2>1 DEF OneOutstanding, Senders, IInv, ConsolesWithinBounds
<1>. QED
  BY SpawnInvariant, <1>1, PTL

(***************************************************************************)
(* A battleship never counts more squadrons than its bay has places.       *)
(***************************************************************************)
THEOREM SpawnBayCapacity == Spec => []BayWithinCapacity
<1>1. IInv => BayWithinCapacity
  BY DEF IInv, PendingHasRoom, BayWithinCapacity
<1>. QED
  BY SpawnInvariant, <1>1, PTL

-----------------------------------------------------------------------------
(* What the registry says of units and what the units were given *)

\* pids are given in order, and an occupied slot agrees with its owner about
\* the slot and the faction
RegistryAgrees ==
    /\ \A p \in Procs : p > forked => step[p] = "unborn" /\ parent[p] = 0
    /\ \A p \in Procs : step[p] = "unborn" => p > forked
    /\ \A p \in Procs : step[p] = "begun" => p \in Ships
    /\ \A p \in Procs : parent[p] <= forked
    /\ \A p \in 1..forked : slot[p] \in Slots
    /\ \A s \in Slots : owner[s] # 0 =>
          /\ owner[s] <= forked
          /\ slot[owner[s]] = s
          /\ side[s] = faction[owner[s]]
    /\ \A s \in Slots : alive[s] => owner[s] # 0

\* a request comes from a battleship, and names its slot, or from a console
RequestsAgree ==
    /\ \A i \in DOMAIN reqs :
          /\ reqs[i].from \in Ships \cup Consoles
          /\ reqs[i].from \in Procs =>
                reqs[i].from <= forked /\ reqs[i].sender_id = slot[reqs[i].from]
    /\ \A a \in Senders : reps[a] # <<>> => a \in Ships \cup Consoles

Agreement == RegistryAgrees /\ RequestsAgree /\ InheritsFaction

LEMMA AgreementInit == Init => Agreement
<1> SUFFICES ASSUME Init PROVE Agreement
  OBVIOUS
<1>1. DOMAIN reqs = {} /\ \A a \in Senders : reps[a] = <<>>
  BY DEF Init
<1>2. RegistryAgrees
  <2>1. \A s \in Slots : alive[s] => owner[s] # 0
    BY Constants DEF Init
  <2>. QED
    BY <2>1, Constants DEF Init, RegistryAgrees, Ships, Procs, Slots
<1>3. RequestsAgree
  BY <1>1 DEF RequestsAgree
<1>4. InheritsFaction
  BY DEF Init, InheritsFaction
<1>. QED
  BY <1>2, <1>3, <1>4 DEF Agreement

\* a queue is served from its head
LEMMA RequestsServed ==
    ASSUME IInv, RequestsAgree, Serving, NEW reply \in Reply, Answer(reply),
           forked <= forked', forked' \in Nat,
           \A p \in 1..forked : slot'[p] = slot[p]
    PROVE  RequestsAgree'
<1>1. reqs \in Seq(Message) /\ reqs # <<>> /\ reqs' = Tail(reqs)
  BY DEF IInv, TypeOK, Message, Serving, Answer
<1>2. /\ 1 \in DOMAIN reqs /\ Head(reqs) = reqs[1]
      /\ \A i \in DOMAIN reqs' : i + 1 \in DOMAIN reqs /\ reqs'[i] = reqs[i + 1]
  BY <1>1, AtTheHead
<1>3. Head(reqs).from \in Ships \cup Consoles
  BY <1>2 DEF RequestsAgree
<1>4. \A a \in Senders : reps'[a] # <<>> => a \in Ships \cup Consoles
  BY <1>3 DEF Answer, RequestsAgree, IInv, TypeOK
<1>5. ASSUME NEW i \in DOMAIN reqs'
      PROVE  /\ reqs'[i].from \in Ships \cup Consoles
             /\ reqs'[i].from \in Procs =>
                  /\ reqs'[i].from <= forked'
                  /\ reqs'[i].sender_id = slot'[reqs'[i].from]
  <2>1. PICK k \in DOMAIN reqs : reqs'[i] = reqs[k]
    BY <1>2
  <2>2. CASE reqs[k].from \in Procs
    <3>1. reqs[k].from \in Nat \ {0} /\ forked \in Nat
      BY <2>2, Constants DEF IInv, TypeOK
    <3>2. reqs[k].from <= forked /\ reqs[k].sender_id = slot[reqs[k].from]
      BY <2>2 DEF RequestsAgree
    <3>3. reqs[k].from \in 1..forked /\ reqs[k].from <= forked'
      BY <3>1, <3>2
    <3>. QED
      BY <2>1, <3>2, <3>3 DEF RequestsAgree
  <2>. QED
    BY <2>1, <2>2 DEF RequestsAgree
<1>. QED
  BY <1>4, <1>5 DEF RequestsAgree

\* and grows at its end
LEMMA RequestsGrow ==
    ASSUME IInv, RequestsAgree, NEW r \in Message, reqs' = Append(reqs, r),
           UNCHANGED <<reps, forked, slot>>, r.from \in Ships \cup Consoles,
           r.from \in Procs => r.from <= forked /\ r.sender_id = slot[r.from]
    PROVE  RequestsAgree'
<1>1. reqs \in Seq(Message)
  BY DEF IInv, TypeOK, Message
<1>2. \A i \in DOMAIN reqs' :
         (i \in DOMAIN reqs /\ reqs'[i] = reqs[i]) \/ reqs'[i] = r
  BY <1>1, AtTheEnd
<1>. QED
  BY <1>2 DEF RequestsAgree

\* a new unit has a pid nobody had, and its faction from its parent
LEMMA AgreementLaunched == IInv /\ Agreement /\ ServeLaunched => Agreement'
<1> SUFFICES ASSUME IInv, Agreement, ServeLaunched PROVE Agreement'
  OBVIOUS
<1> DEFINE r == Head(reqs)
           child == forked + 1
           asker == IF r.from \in Procs THEN r.from ELSE 0
<1>1. PICK s \in FreeSlots :
           /\ alive' = [alive EXCEPT ![s] = TRUE]
           /\ owner' = [owner EXCEPT ![s] = child]
           /\ side' = [side EXCEPT ![s] = SpawnFaction(r)]
           /\ forked' = child
           /\ slot' = [slot EXCEPT ![child] = s]
           /\ faction' = [faction EXCEPT ![child] = SpawnFaction(r)]
           /\ parent' = [parent EXCEPT ![child] = asker]
           /\ step' = [step EXCEPT ![child] = "idle"]
           /\ Answer([status |-> "ok"])
  BY DEF ServeLaunched
<1>2. /\ Serving /\ s \in Slots /\ owner[s] = 0
      /\ forked \in Nat /\ child \in Procs /\ forked < MaxProcs
  BY Constants DEF ServeLaunched, FreeSlots, IInv, TypeOK, Procs
<1>3. [status |-> "ok"] \in Reply
  BY <1>2 DEF Reply
<1>4. \A p \in Procs : p \in Nat \ {0} /\ (p <= forked <=> p # child /\ p <= child)
  BY <1>2, Constants
<1>5. /\ r \in Message
      /\ \A p \in Procs : p = r.from => p <= forked /\ r.sender_id = slot[p]
  <2>1. reqs \in Seq(Message) /\ reqs # <<>>
    BY <1>2 DEF IInv, TypeOK, Message, Serving
  <2>2. 1 \in DOMAIN reqs /\ r = reqs[1] /\ r \in Message
    BY <2>1, AtTheHead
  <2>. QED
    BY <2>2 DEF Agreement, RequestsAgree
<1> HIDE DEF r, child
<1>6. /\ alive \in [Slots -> BOOLEAN]
      /\ owner \in [Slots -> Procs \cup {0}]
      /\ side \in [Slots -> Factions \cup {0}]
      /\ slot \in [Procs -> Slots \cup {0}]
      /\ faction \in [Procs -> Factions \cup {0}]
      /\ parent \in [Procs -> Procs \cup {0}]
      /\ step \in [Procs -> {"unborn", "idle", "begun", "done", "dead"}]
  BY DEF IInv, TypeOK
<1>7. child = forked + 1
  BY DEF child
<1>8. RequestsAgree'
  <2>1. \A p \in 1..forked : p \in Procs /\ p # child
    BY <1>2, <1>7, Constants DEF Procs
  <2>2. \A p \in 1..forked : slot'[p] = slot[p]
    BY <1>1, <1>6, <2>1
  <2>. QED
    BY <1>1, <1>2, <1>3, <1>7, <2>2, RequestsServed DEF Agreement
<1>9. RegistryAgrees'
  <2>1. asker \in Procs \cup {0} /\ asker <= forked
    BY <1>2, <1>5
  <2>2. \A p \in Procs : p # child => /\ slot'[p] = slot[p] /\ step'[p] = step[p]
                                      /\ parent'[p] = parent[p]
                                      /\ faction'[p] = faction[p]
    BY <1>1, <1>6
  <2>3. /\ slot'[child] = s /\ step'[child] = "idle" /\ parent'[child] = asker
        /\ faction'[child] = SpawnFaction(r)
    BY <1>1, <1>2, <1>6
  <2>4. /\ \A p \in Procs : p > child => step'[p] = "unborn" /\ parent'[p] = 0
        /\ \A p \in Procs : step'[p] = "unborn" => p > child
        /\ \A p \in Procs : step'[p] = "begun" => p \in Ships
    BY <1>2, <1>4, <1>7, <2>2, <2>3 DEF Agreement, RegistryAgrees
  <2>5. \A p \in Procs : parent'[p] <= child
    <3>1. \A p \in Procs : parent[p] <= forked /\ parent[p] \in Nat
      BY <1>6, Constants DEF Agreement, RegistryAgrees
    <3>2. asker \in Nat
      BY <2>1, Constants
    <3>3. child \in Nat /\ forked \in Nat /\ forked < child
      BY <1>2, <1>7
    <3>4. parent'[child] <= child
      <4>1. asker <= child
        BY <2>1, <3>2, <3>3
      <4>. QED
        BY <2>3, <4>1
    <3>5. ASSUME NEW p \in Procs, p # child PROVE parent'[p] <= child
      <4>1. parent'[p] = parent[p] /\ parent[p] <= forked /\ parent[p] \in Nat
        BY <2>2, <3>1, <3>5
      <4>. QED
        BY <1>2, <3>3, <4>1
    <3>. QED
      BY <3>4, <3>5
  <2>6. \A p \in 1..child : slot'[p] \in Slots
    <3>1. \A p \in 1..child : p = child \/ p \in 1..forked
      BY <1>2, <1>7
    <3>2. \A p \in 1..forked : p \in Procs /\ p # child
      BY <1>2, <1>7, Constants DEF Procs
    <3>. QED
      BY <1>2, <2>2, <2>3, <3>1, <3>2 DEF Agreement, RegistryAgrees
  <2>7. ASSUME NEW t \in Slots, owner'[t] # 0
        PROVE  /\ owner'[t] <= child
               /\ slot'[owner'[t]] = t
               /\ side'[t] = faction'[owner'[t]]
    <3>1. CASE t = s
      BY <1>1, <1>2, <1>6, <1>7, <2>3, <3>1
    <3>2. CASE t # s
      <4>1. owner'[t] = owner[t] /\ side'[t] = side[t]
        BY <1>1, <1>6, <3>2
      <4>2. /\ owner[t] \in Procs /\ owner[t] <= forked
            /\ slot[owner[t]] = t /\ side[t] = faction[owner[t]]
        BY <1>6, <2>7, <4>1 DEF Agreement, RegistryAgrees
      <4>3. owner[t] # child /\ owner[t] <= child
        BY <1>4, <4>2
      <4>. QED
        BY <2>2, <4>1, <4>2, <4>3
    <3>. QED
      BY <3>1, <3>2
  <2>8. \A t \in Slots : alive'[t] => owner'[t] # 0
    BY <1>1, <1>2, <1>6, <1>7 DEF Agreement, RegistryAgrees
  <2>. QED
    BY <1>1, <2>4, <2>5, <2>6, <2>7, <2>8 DEF RegistryAgrees
<1>10. InheritsFaction'
  <2> SUFFICES ASSUME NEW p \in Procs, parent'[p] # 0,
                      owner'[slot'[parent'[p]]] = parent'[p]
               PROVE  faction'[p] = faction'[parent'[p]]
    BY DEF InheritsFaction
  <2> DEFINE q == parent'[p]
  <2>1. q \in Procs /\ q <= forked
    <3>1. asker \in Procs \cup {0} /\ asker <= forked
      BY <1>2, <1>5
    <3>2. q = asker \/ q = parent[p]
      BY <1>1, <1>6
    <3>. QED
      BY <1>6, <3>1, <3>2 DEF Agreement, RegistryAgrees
  <2> HIDE DEF q
  <2>2. q # child /\ slot'[q] = slot[q] /\ faction'[q] = faction[q]
    BY <1>1, <1>4, <1>6, <2>1
  <2>3. slot[q] \in Slots
    <3>1. q \in 1..forked
      BY <1>2, <1>4, <2>1
    <3>. QED
      BY <3>1 DEF Agreement, RegistryAgrees
  <2>4. owner[slot[q]] = q
    <3>1. owner'[slot[q]] = q
      BY <2>2 DEF q
    <3>. QED
      BY <1>1, <1>6, <2>2, <2>3, <3>1
  <2>5. CASE p = child
    <3>1. q = asker /\ faction'[p] = SpawnFaction(r)
      BY <1>1, <1>2, <1>6, <2>5 DEF q
    <3>2. r.sender_id = slot[q]
      BY <1>5, <2>1, <3>1, Constants
    <3>3. SpawnFaction(r) = side[slot[q]]
      BY <2>3, <3>2, Constants DEF SpawnFaction
    <3>4. side[slot[q]] = faction[q]
      BY <2>1, <2>3, <2>4, Constants DEF Agreement, RegistryAgrees
    <3>. QED
      BY <2>2, <3>1, <3>3, <3>4 DEF q
  <2>6. CASE p # child
    <3>1. q = parent[p] /\ faction'[p] = faction[p]
      BY <1>1, <1>6, <2>6 DEF q
    <3>. QED
      BY <2>1, <2>2, <2>4, <3>1, Constants DEF q, Agreement, InheritsFaction
  <2>. QED
    BY <2>5, <2>6
<1>. QED
  BY <1>8, <1>9, <1>10 DEF Agreement

\* what leaves the units as they are, and the owners of slots, but for those
\* that are given up
LEMMA AgreementElsewhere ==
    ASSUME IInv, Agreement, UNCHANGED procVars,
           \A p \in Procs : /\ step'[p] = "unborn" <=> step[p] = "unborn"
                            /\ step'[p] = "begun" => step[p] = "begun" \/ p \in Ships,
           \A s \in Slots : /\ owner'[s] = 0 \/ UNCHANGED <<owner[s], side[s]>>
                            /\ alive'[s] => alive[s] /\ owner'[s] = owner[s]
    PROVE  RegistryAgrees' /\ InheritsFaction'
<1> USE DEF procVars
<1>1. RegistryAgrees'
  BY DEF Agreement, RegistryAgrees
<1>2. InheritsFaction'
  <2> SUFFICES ASSUME NEW p \in Procs, parent[p] # 0,
                      owner'[slot[parent[p]]] = parent[p]
               PROVE  faction[p] = faction[parent[p]]
    BY DEF InheritsFaction
  <2>1. parent[p] \in 1..forked
    BY Constants DEF IInv, TypeOK, Agreement, RegistryAgrees
  <2>2. slot[parent[p]] \in Slots
    BY <2>1 DEF Agreement, RegistryAgrees
  <2>3. owner[slot[parent[p]]] = parent[p]
    BY <2>2
  <2>. QED
    BY <2>3 DEF Agreement, InheritsFaction
<1>. QED
  BY <1>1, <1>2

LEMMA AgreementKept == IInv /\ Agreement /\ [Next]_vars => Agreement'
<1> SUFFICES ASSUME IInv, Agreement, [Next]_vars PROVE Agreement'
  OBVIOUS
<1> USE DEF registryVars, procVars
<1>1. CASE ServeLaunched
  BY <1>1, AgreementLaunched
<1>2. CASE ServeRefused \/ ServeFailed
  <2>1. PICK reply \in Reply : Answer(reply)
    BY <1>2 DEF ServeRefused, ServeFailed, Reply
  <2>2. Serving /\ UNCHANGED <<registryVars, procVars, step>>
    BY <1>2 DEF ServeRefused, ServeFailed
  <2>3. RequestsAgree'
    <3>1. forked \in Nat
      BY Constants DEF IInv, TypeOK
    <3>. QED
      BY <2>1, <2>2, <3>1, RequestsServed DEF Agreement
  <2>. QED
    BY <2>2, <2>3, AgreementElsewhere DEF Agreement
<1>3. CASE StartTick \/ EndTick \/ UNCHANGED vars
  <2>1. /\ UNCHANGED <<reqs, reps, procVars>>
        /\ \A s \in Slots : /\ owner'[s] = 0 \/ UNCHANGED <<owner[s], side[s]>>
                            /\ alive'[s] => alive[s] /\ owner'[s] = owner[s]
        /\ \A p \in Procs : /\ step'[p] = "unborn" <=> step[p] = "unborn"
                            /\ step'[p] = "begun" => step[p] = "begun"
    BY <1>3 DEF StartTick, EndTick, vars
  <2>2. RequestsAgree'
    BY <2>1 DEF Agreement, RequestsAgree
  <2>. QED
    BY <2>1, <2>2, AgreementElsewhere DEF Agreement
<1>4. ASSUME NEW c \in Consoles,
             \/ ConsoleAsks(c) \/ ConsoleReads(c) \/ ConsoleTold(c)
             \/ ConsoleMisreads(c)
      PROVE  Agreement'
  <2>1. UNCHANGED <<registryVars, procVars, step>> /\ c \notin Procs /\ c \in Senders
    BY <1>4, Constants DEF ConsoleAsks, ConsoleReads, ConsoleTold, ConsoleMisreads,
                           Senders
  <2>2. RequestsAgree'
    <3>1. CASE ConsoleAsks(c)
      <4>1. PICK f \in Hired :
              /\ reqs' = Append(reqs, [from |-> c, sender_id |-> 0, faction |-> f])
              /\ UNCHANGED reps
        BY <3>1 DEF ConsoleAsks
      <4> DEFINE r == [from |-> c, sender_id |-> 0, faction |-> f]
      <4>2. r \in Message /\ r.from = c
        BY <2>1, SpawnAssumption DEF Message
      <4> HIDE DEF r
      <4>. QED
        BY <2>1, <4>1, <4>2, RequestsGrow DEF r, Agreement
    <3>2. CASE ConsoleReads(c) \/ ConsoleTold(c) \/ ConsoleMisreads(c)
      <4>1. /\ UNCHANGED reqs
            /\ \A a \in Senders : a # c => reps'[a] = reps[a]
        BY <3>2 DEF ConsoleReads, ConsoleTold, ConsoleMisreads, IInv, TypeOK
      <4>. QED
        BY <2>1, <4>1 DEF Agreement, RequestsAgree
    <3>. QED
      BY <1>4, <3>1, <3>2
  <2>. QED
    BY <2>1, <2>2, AgreementElsewhere DEF Agreement
<1>5. ASSUME NEW p \in Procs, ShipBegins(p) \/ ShipActs(p) \/ UnitDies(p)
      PROVE  Agreement'
  <2>1. /\ UNCHANGED <<owner, side, procVars>>
        /\ \A s \in Slots : alive'[s] => alive[s]
        /\ step[p] # "unborn"
        /\ \A q \in Procs : /\ step'[q] = "unborn" <=> step[q] = "unborn"
                            /\ step'[q] = "begun" => step[q] = "begun" \/ q \in Ships
    BY <1>5 DEF ShipBegins, Battleship, ShipActs, UnitDies, IInv, TypeOK
  <2>2. RequestsAgree'
    <3>1. CASE ShipBegins(p) \/ UnitDies(p) \/ (ShipActs(p) /\ UNCHANGED reqs)
      <4>1. /\ UNCHANGED reqs
            /\ \A a \in Senders : reps'[a] = reps[a] \/ reps'[a] = <<>>
        BY <3>1 DEF ShipBegins, UnitDies, ShipActs, IInv, TypeOK
      <4>. QED
        BY <2>1, <4>1 DEF Agreement, RequestsAgree
    <3>2. CASE ShipActs(p) /\ ~UNCHANGED reqs
      <4> DEFINE r == [from |-> p, sender_id |-> slot[p], faction |-> faction[p]]
      <4>1. reqs' = Append(reqs, r) /\ UNCHANGED reps
        BY <3>2 DEF ShipActs
      <4>2. r \in Message /\ r.from = p /\ r.sender_id = slot[p]
        BY DEF Message, Senders, IInv, TypeOK
      <4>3. p \in Ships
        BY <3>2 DEF ShipActs, Agreement, RegistryAgrees
      <4>4. p <= forked
        BY <2>1, Constants DEF Agreement, RegistryAgrees, IInv, TypeOK
      <4> HIDE DEF r
      <4>. QED
        BY <2>1, <4>1, <4>2, <4>3, <4>4, RequestsGrow DEF Agreement
    <3>. QED
      BY <1>5, <3>1, <3>2
  <2>. QED
    BY <2>1, <2>2, AgreementElsewhere DEF Agreement
<1>. QED
  BY <1>1, <1>2, <1>3, <1>4, <1>5 DEF Next, CCStep

(***************************************************************************)
(* command_center.c: "BS spawn inherits faction from parent", as long as   *)
(* the parent has not been cleaned up.                                     *)
(***************************************************************************)
THEOREM SpawnInheritsFaction == Spec => []InheritsFaction
<1>1. Agreement => InheritsFaction
  BY DEF Agreement
<1>. QED
  BY AgreementInit, AgreementKept, SpawnInvariant, <1>1, PTL DEF Spec

-----------------------------------------------------------------------------
(* Counting squadrons, when nothing is lost *)

\* one reply counts as much as it says
LEMMA OneReplyCounts ==
    ASSUME NEW reply \in Reply
    PROVE  Cardinality({i \in DOMAIN Append(<<>>, reply) :
                           Append(<<>>, reply)[i].status = "ok"})
             = IF reply.status = "ok" THEN 1 ELSE 0
<1> DEFINE q == Append(<<>>, reply)
           ok == {i \in DOMAIN q : q[i].status = "ok"}
<1>1. <<>> \in Seq(Reply) /\ Len(<<>>) + 1 = 1 /\ DOMAIN <<>> = {}
  BY EmptySeq
<1>2. DOMAIN q = {1} /\ q[1] = reply
  BY <1>1, AtTheEnd
<1>3. ok = IF reply.status = "ok" THEN {1} ELSE {}
  BY <1>2
<1> HIDE DEF q, ok
<1>4. Cardinality(ok) = IF reply.status = "ok" THEN 1 ELSE 0
  BY <1>3, FS_EmptySet, FS_Singleton
<1>. QED
  BY <1>4 DEF q, ok

\* with a place in q_rep for every battleship and two for every console, the
\* answer goes in: who has asked does not fill its places
LEMMA RoomForReply ==
    ASSUME IInv, Agreement, Serving,
           RepMax >= Cardinality(Ships) + 2 * Cardinality(Consoles)
    PROVE  QueuedReplies < RepMax
<1> DEFINE h == Head(reqs).from
           P == Ships \X {1}
           C == Consoles \X {1, 2}
           Q == UNION {{a} \X DOMAIN reps[a] : a \in Senders}
           free == <<h, IF h \in Procs THEN 1 ELSE 2>>
<1>1. ASSUME NEW a \in Senders, reps[a] # <<>>
      PROVE  /\ a \in Ships \cup Consoles
             /\ DOMAIN reps[a] = 1..Len(reps[a]) /\ Len(reps[a]) \in Nat
             /\ a \in Ships => Len(reps[a]) <= 1 /\ Asking(a) = {}
             /\ a \in Consoles => /\ Len(reps[a]) <= 2
                                  /\ Asking(a) # {} => Len(reps[a]) <= 1
  <2>1. a \in Ships \cup Consoles
    BY <1>1 DEF Agreement, RequestsAgree
  <2>2. DOMAIN reps[a] = 1..Len(reps[a]) /\ Len(reps[a]) \in Nat
    BY LenProperties DEF IInv, TypeOK
  <2>3. a \in Ships => Len(reps[a]) <= 1 /\ Asking(a) = {}
    BY <1>1, Constants DEF IInv, OneReply
  <2>4. ASSUME a \in Consoles
        PROVE  Len(reps[a]) <= 2 /\ (Asking(a) # {} => Len(reps[a]) <= 1)
    <3>1. UnderWay(a) <= Allowed(a) /\ Allowed(a) \in 0..2
      BY <2>4, Constants DEF IInv, ConsolesWithinBounds, Allowed
    <3>2. Cardinality(Asking(a)) \in Nat /\ IsFiniteSet(Asking(a))
      BY AskingFinite DEF IInv
    <3>3. Asking(a) # {} => Cardinality(Asking(a)) # 0
      BY <3>2, FS_EmptySet
    <3>. QED
      BY <2>2, <3>1, <3>2, <3>3 DEF UnderWay
  <2>. QED
    BY <2>1, <2>2, <2>3, <2>4
<1>2. h \in Ships \cup Consoles /\ h \in Senders /\ Asking(h) # {}
  <2>1. reqs \in Seq(Message) /\ reqs # <<>>
    BY DEF IInv, TypeOK, Message, Serving
  <2>2. 1 \in DOMAIN reqs /\ Head(reqs) = reqs[1]
    BY <2>1, AtTheHead
  <2>3. h \in Ships \cup Consoles
    BY <2>2 DEF Agreement, RequestsAgree
  <2>. QED
    BY <2>2, <2>3, Constants DEF Senders, Asking
<1>3. /\ IsFiniteSet(P) /\ Cardinality(P) = Cardinality(Ships)
      /\ IsFiniteSet(C) /\ Cardinality(C) = 2 * Cardinality(Consoles)
      /\ Cardinality(Ships) \in Nat /\ Cardinality(Consoles) \in Nat
  <2>1. IsFiniteSet(Ships) /\ IsFiniteSet(Consoles)
    BY Constants, SpawnAssumption, FS_Interval DEF Ships
  <2>2. /\ IsFiniteSet({1}) /\ Cardinality({1}) = 1
        /\ IsFiniteSet({1, 2}) /\ Cardinality({1, 2}) = 2
    <3>1. {1, 2} = {1} \cup {2} /\ 2 \notin {1}
      OBVIOUS
    <3>2. IsFiniteSet({1}) /\ Cardinality({1}) = 1
      BY FS_Singleton
    <3>. QED
      BY <3>1, <3>2, FS_AddElement
  <2>3. Cardinality(Ships) \in Nat /\ Cardinality(Consoles) \in Nat
    BY <2>1, FS_CardinalityType
  <2>4. /\ IsFiniteSet(P) /\ Cardinality(P) = Cardinality(Ships) * Cardinality({1})
        /\ IsFiniteSet(C)
        /\ Cardinality(C) = Cardinality(Consoles) * Cardinality({1, 2})
    BY <2>1, <2>2, FS_Product
  <2>. QED
    BY <2>2, <2>3, <2>4
<1>4. IsFiniteSet(P \cup C) /\ Cardinality(P \cup C) \in Nat
      /\ Cardinality(P \cup C) = Cardinality(Ships) + 2 * Cardinality(Consoles)
  <2>1. P \cap C = {}
    BY Constants
  <2> HIDE DEF P, C
  <2>2. /\ IsFiniteSet(P \cup C)
        /\ Cardinality(P \cup C)
             = Cardinality(P) + Cardinality(C) - Cardinality(P \cap C)
    BY <1>3, FS_Union
  <2>3. Cardinality(P \cap C) = 0
    BY <2>1, FS_EmptySet
  <2>. QED
    BY <1>3, <2>2, <2>3
<1>5. ASSUME NEW x \in Q
      PROVE  x \in P \cup C /\ x # free
  <2>1. PICK a \in Senders : x \in {a} \X DOMAIN reps[a]
    OBVIOUS
  <2>2. PICK i \in DOMAIN reps[a] : x = <<a, i>>
    BY <2>1
  <2>3. reps[a] # <<>>
    BY <2>2
  <2>4. i \in 1..Len(reps[a]) /\ Len(reps[a]) \in Nat
    BY <1>1, <2>2, <2>3
  <2>5. CASE a \in Ships
    <3>1. i = 1 /\ Asking(a) = {}
      BY <1>1, <2>3, <2>4, <2>5
    <3>. QED
      BY <1>2, <2>2, <2>5, <3>1
  <2>6. CASE a \in Consoles
    <3>1. i \in {1, 2} /\ (a = h => i = 1) /\ a \notin Procs
      BY <1>1, <1>2, <2>3, <2>4, <2>6, Constants
    <3>. QED
      BY <2>2, <2>6, <3>1
  <2>. QED
    BY <1>1, <2>3, <2>5, <2>6
<1>6. free \in P \cup C
  BY <1>2, Constants
<1> HIDE DEF P, C, Q, h, free
<1>7. Q \in SUBSET ((P \cup C) \ {free})
  BY <1>5
<1>8. /\ IsFiniteSet((P \cup C) \ {free})
      /\ Cardinality((P \cup C) \ {free}) = Cardinality(P \cup C) - 1
  BY <1>4, <1>6, FS_RemoveElement
<1>9. Cardinality(Q) <= Cardinality(P \cup C) - 1 /\ Cardinality(Q) \in Nat
  BY <1>7, <1>8, FS_Subset, FS_CardinalityType
<1>10. RepMax \in Nat
  BY SpawnAssumption
<1>11. Cardinality(Q) < RepMax
  BY <1>4, <1>9, <1>10
<1>. QED
  BY <1>11 DEF Q, QueuedReplies

LEMMA CountsInit == Init => BayCountsSquadrons
<1> SUFFICES ASSUME Init, NEW p \in Ships
             PROVE  bay[p] + Granted(p) = Cardinality(Launched(p))
  BY DEF BayCountsSquadrons
<1>1. p \in Procs /\ p # 0 /\ p \in Senders
  BY Constants DEF Senders
<1>2. Launched(p) = {}
  BY <1>1 DEF Launched, Init
<1>3. {i \in DOMAIN reps[p] : reps[p][i].status = "ok"} = {}
  BY <1>1 DEF Init
<1>4. Granted(p) = 0 /\ Cardinality(Launched(p)) = 0 /\ bay[p] = 0
  BY <1>1, <1>2, <1>3, FS_EmptySet DEF Granted, Init
<1>. QED
  BY <1>4

\* what a battleship counts changes with its replies only
LEMMA CountsElsewhere ==
    ASSUME BayCountsSquadrons, UNCHANGED <<bay, parent>>,
           \A p \in Ships : reps'[p] = reps[p]
    PROVE  BayCountsSquadrons'
<1>1. \A p \in Ships : Granted(p)' = Granted(p) /\ Launched(p)' = Launched(p)
  BY DEF Granted, Launched
<1>. QED
  BY <1>1 DEF BayCountsSquadrons

\* the answer to a request counts as much as was launched for it
LEMMA CountsServed ==
    ASSUME IInv, Agreement, BayCountsSquadrons, Serving,
           RepMax >= Cardinality(Ships) + 2 * Cardinality(Consoles),
           ServeRefused \/ ServeLaunched
    PROVE  BayCountsSquadrons'
<1> DEFINE h == Head(reqs).from
           child == forked + 1
           reply == IF ServeLaunched
                    THEN [status |-> "ok"]
                    ELSE [status |-> "failed"]
<1>1. /\ h \in Senders /\ reps \in [Senders -> Seq(Reply)]
      /\ h \in Procs => reps[h] = <<>>
  <2>1. reqs \in Seq(Message) /\ reqs # <<>>
    BY DEF IInv, TypeOK, Message, Serving
  <2>2. 1 \in DOMAIN reqs /\ Head(reqs) = reqs[1] /\ Head(reqs) \in Message
    BY <2>1, AtTheHead
  <2>3. h \in Senders /\ Asking(h) # {}
    BY <2>2 DEF Message, Asking
  <2>. QED
    BY <2>3 DEF IInv, OneReply, TypeOK
<1>2. ServeLaunched => child \in Procs
  BY Constants DEF ServeLaunched, IInv, TypeOK, Procs
<1>3. /\ Answer(reply) /\ UNCHANGED bay
      /\ IF ServeLaunched
         THEN parent' = [parent EXCEPT ![child] = IF h \in Procs THEN h ELSE 0]
         ELSE UNCHANGED parent
  <2>1. CASE ServeLaunched
    BY <2>1 DEF ServeLaunched
  <2>2. CASE ~ServeLaunched
    BY <2>2 DEF ServeRefused, procVars
  <2>. QED
    BY <2>1, <2>2
<1>4. reply \in Reply /\ (reply.status = "ok" <=> ServeLaunched)
  BY <1>2 DEF Reply
<1> HIDE DEF reply, h
<1>5. /\ h \in Procs => reps'[h] = Append(<<>>, reply)
      /\ \A p \in Ships : p # h => reps'[p] = reps[p]
  <2>1. reps' = [reps EXCEPT ![h] = Append(reps[h], reply)]
    BY <1>3, RoomForReply DEF Answer, h
  <2>2. \A p \in Ships : p \in Senders
    BY Constants DEF Senders
  <2>. QED
    BY <1>1, <2>1, <2>2
<1> SUFFICES ASSUME NEW p \in Ships
             PROVE  bay[p] + Granted(p)' = Cardinality(Launched(p)')
  BY <1>3 DEF BayCountsSquadrons
<1>6. /\ p \in Procs /\ p # 0 /\ parent \in [Procs -> Procs \cup {0}]
      /\ bay[p] \in Nat
      /\ bay[p] + Granted(p) = Cardinality(Launched(p))
  BY Constants DEF IInv, TypeOK, BayCountsSquadrons
<1>7. CASE p # h
  <2>1. Granted(p)' = Granted(p)
    BY <1>5, <1>7 DEF Granted
  <2>2. Launched(p)' = Launched(p)
    <3>1. CASE ServeLaunched
      <4>1. parent[child] = 0 /\ child > forked
        BY <1>2, <3>1, Constants DEF Agreement, RegistryAgrees, IInv, TypeOK
      <4>2. \A q \in Procs : q # child => parent'[q] = parent[q]
        BY <1>3, <1>6, <3>1
      <4>3. parent'[child] # p
        BY <1>2, <1>3, <1>6, <1>7, <3>1
      <4>. QED
        BY <1>6, <4>1, <4>2, <4>3 DEF Launched
    <3>2. CASE ~ServeLaunched
      BY <1>3, <3>2 DEF Launched
    <3>. QED
      BY <3>1, <3>2
  <2>. QED
    BY <1>6, <2>1, <2>2
<1>8. CASE p = h
  <2>1. Granted(p) = 0
    BY <1>1, <1>6, <1>8, GrantedBound DEF IInv
  <2>2. Granted(p)' = IF ServeLaunched THEN 1 ELSE 0
    <3>1. Granted(p)' = Cardinality({i \in DOMAIN reps'[p] : reps'[p][i].status = "ok"})
      BY DEF Granted
    <3>2. reps'[p] = Append(<<>>, reply)
      BY <1>5, <1>6, <1>8
    <3>. QED
      BY <1>4, <3>1, <3>2, OneReplyCounts
  <2>3. IsFiniteSet(Launched(p)) /\ Cardinality(Launched(p)) = bay[p]
    <3>1. IsFiniteSet(Procs)
      BY Constants, FS_Interval DEF Procs
    <3>2. Launched(p) \in SUBSET Procs
      BY DEF Launched
    <3>. QED
      BY <1>6, <2>1, <3>1, <3>2, FS_Subset
  <2>4. CASE ServeLaunched
    <3>1. parent[child] = 0 /\ child \in Procs
      BY <1>2, <2>4, Constants DEF Agreement, RegistryAgrees, IInv, TypeOK
    <3>2. parent' = [parent EXCEPT ![child] = p]
      BY <1>3, <1>6, <1>8, <2>4
    <3>3. child \notin Launched(p) /\ Launched(p)' = Launched(p) \cup {child}
      BY <1>6, <3>1, <3>2 DEF Launched
    <3>. QED
      BY <1>6, <2>2, <2>3, <2>4, <3>3, FS_AddElement
  <2>5. CASE ~ServeLaunched
    <3>1. Launched(p)' = Launched(p)
      BY <1>3, <2>5 DEF Launched
    <3>. QED
      BY <1>6, <2>2, <2>3, <2>5, <3>1
  <2>. QED
    BY <2>4, <2>5
<1>. QED
  BY <1>7, <1>8

\* a battleship reads its replies
LEMMA CountsBegins ==
    ASSUME IInv, BayCountsSquadrons, NEW p \in Procs, ShipBegins(p)
    PROVE  BayCountsSquadrons'
<1>1. /\ bay' = [bay EXCEPT ![p] = bay[p] + Granted(p)]
      /\ reps' = [reps EXCEPT ![p] = <<>>]
      /\ UNCHANGED parent
  BY DEF ShipBegins, procVars
<1>2. bay \in [Procs -> Nat] /\ reps \in [Senders -> Seq(Reply)] /\ p \in Senders
  BY DEF IInv, TypeOK, Senders
<1> SUFFICES ASSUME NEW q \in Ships
             PROVE  bay'[q] + Granted(q)' = Cardinality(Launched(q)')
  BY DEF BayCountsSquadrons
<1>3. q \in Procs /\ q \in Senders /\ Launched(q)' = Launched(q)
  BY <1>1, Constants DEF Senders, Launched
<1>4. bay[q] + Granted(q) = Cardinality(Launched(q))
  BY DEF BayCountsSquadrons
<1>5. CASE q = p
  <2>1. {i \in DOMAIN reps'[q] : reps'[q][i].status = "ok"} = {}
    BY <1>1, <1>2, <1>3, <1>5
  <2>2. Granted(q)' = 0
    BY <2>1, FS_EmptySet DEF Granted
  <2>3. Granted(q) \in Nat
    BY <1>3, GrantedBound DEF IInv
  <2>. QED
    BY <1>1, <1>2, <1>3, <1>4, <1>5, <2>2, <2>3
<1>6. CASE q # p
  <2>1. Granted(q)' = Granted(q) /\ bay'[q] = bay[q]
    BY <1>1, <1>2, <1>3, <1>6 DEF Granted
  <2>. QED
    BY <1>3, <1>4, <2>1
<1>. QED
  BY <1>5, <1>6

\* a slot belongs to one unit at most
LEMMA SlotsSuffice ==
    ASSUME IInv, Agreement, MAX_UNITS > MaxProcs PROVE FreeSlots # {}
<1> SUFFICES ASSUME FreeSlots = {} PROVE FALSE
  OBVIOUS
<1>1. \A s \in Slots : owner[s] \in Procs /\ slot[owner[s]] = s
  BY DEF FreeSlots, IInv, TypeOK, Agreement, RegistryAgrees
<1>2. /\ IsFiniteSet(Slots) /\ Cardinality(Slots) = MAX_UNITS
      /\ IsFiniteSet(Procs) /\ Cardinality(Procs) = MaxProcs
  <2>1. /\ MAX_UNITS \in Nat /\ MaxProcs \in Nat /\ 1 \in Int
        /\ MAX_UNITS - 1 + 1 = MAX_UNITS /\ MaxProcs - 1 + 1 = MaxProcs
        /\ (1 > MAX_UNITS => MAX_UNITS = 0) /\ (1 > MaxProcs => MaxProcs = 0)
    BY Constants
  <2>. QED
    BY <2>1, FS_Interval DEF Slots, Procs
<1>3. owner \in [Slots -> Procs]
  BY <1>1 DEF IInv, TypeOK
<1>4. Cardinality(Procs) < Cardinality(Slots)
  BY <1>2, Constants
<1>5. \E s, t \in Slots : s # t /\ owner[s] = owner[t]
  BY <1>2, <1>3, <1>4, FS_PigeonHole
<1>. QED
  BY <1>1, <1>5

(***************************************************************************)
(* If no fork fails, no slot is wanting and q_rep has a place for every    *)
(* battleship and two for every console (one for the reply that a console  *)
(* told to stop leaves behind), a battleship's count is right: what it has *)
(* counted and is about to count are the squadrons launched for it.        *)
(***************************************************************************)
THEOREM SpawnCountsSquadrons ==
    ASSUME Faults = {},
           RepMax >= Cardinality(Ships) + 2 * Cardinality(Consoles)
    PROVE  Spec /\ [](FreeSlots # {}) => []BayCountsSquadrons
<1>1. ASSUME IInv, Agreement, FreeSlots # {}, BayCountsSquadrons, [Next]_vars
      PROVE  BayCountsSquadrons'
  <2>1. CASE ServeRefused \/ ServeLaunched
    BY <1>1, <2>1, CountsServed DEF ServeRefused, ServeLaunched
  <2>2. ~ServeFailed
    BY <1>1 DEF ServeFailed
  <2>3. CASE StartTick \/ EndTick \/ UNCHANGED vars
    BY <1>1, <2>3, CountsElsewhere DEF StartTick, EndTick, vars, procVars
  <2>4. ASSUME NEW c \in Consoles,
               \/ ConsoleAsks(c) \/ ConsoleReads(c) \/ ConsoleTold(c)
               \/ ConsoleMisreads(c)
        PROVE  BayCountsSquadrons'
    <3>1. \A p \in Ships : p # c /\ p \in Senders
      BY Constants DEF Senders
    <3>2. /\ UNCHANGED <<bay, parent>>
          /\ \A p \in Ships : reps'[p] = reps[p]
      BY <1>1, <2>4, <3>1 DEF ConsoleAsks, ConsoleReads, ConsoleTold,
                              ConsoleMisreads, procVars, IInv, TypeOK
    <3>. QED
      BY <1>1, <3>2, CountsElsewhere
  <2>5. ASSUME NEW p \in Procs, ShipBegins(p) PROVE BayCountsSquadrons'
    BY <1>1, <2>5, CountsBegins
  <2>6. ASSUME NEW p \in Procs, ShipActs(p) \/ UnitDies(p)
        PROVE  BayCountsSquadrons'
    BY <1>1, <2>6, CountsElsewhere DEF ShipActs, UnitDies, procVars
  <2>. QED
    BY <1>1, <2>1, <2>2, <2>3, <2>4, <2>5, <2>6 DEF Next, CCStep
<1>. QED
  BY SpawnInvariant, AgreementInit, AgreementKept, CountsInit, <1>1, PTL DEF Spec

(***************************************************************************)
(* A registry with more slots than processes that will ever be is one in   *)
(* which no slot is wanting.                                               *)
(***************************************************************************)
COROLLARY SpawnCountsInLargeRegistry ==
    ASSUME Faults = {},
           RepMax >= Cardinality(Ships) + 2 * Cardinality(Consoles),
           MAX_UNITS > MaxProcs
    PROVE  Spec => []BayCountsSquadrons
<1>1. IInv /\ Agreement => FreeSlots # {}
  BY SlotsSuffice
<1>. QED
  BY SpawnCountsSquadrons, SpawnInvariant, AgreementInit, AgreementKept, <1>1,
     PTL DEF Spec

-----------------------------------------------------------------------------
(* The protocol implements the account of squadrons, for every fleet,      *)
(* registry, queue size and fault                                          *)

pendings == [p \in Procs |-> PendingOf(p)]

-----------------------------------------------------------------------------

\* who has the same message under way as before is as pending as before
LEMMA PendingUnchanged ==
    ASSUME \A p \in Procs : /\ Asking(p)' = {} <=> Asking(p) = {}
                            /\ reps'[p] = reps[p]
    PROVE  pendings' = pendings
<1>1. \A p \in Procs : PendingOf(p)' = PendingOf(p)
  BY DEF PendingOf
<1>. QED
  BY <1>1 DEF pendings

LEMMA PendingOfOne ==
    ASSUME NEW p \in Procs, NEW now, PendingOf(p)' = now,
           \A q \in Procs : q # p => /\ Asking(q)' = {} <=> Asking(q) = {}
                                     /\ reps'[q] = reps[q]
    PROVE  pendings' = [pendings EXCEPT ![p] = now]
<1>1. \A q \in Procs : q # p => PendingOf(q)' = PendingOf(q)
  BY DEF PendingOf
<1>. QED
  BY <1>1 DEF pendings

\* what a battleship counts is what its one reply says
LEMMA GrantedByReply ==
    ASSUME TypeOK, OneReply, NEW p \in Procs, reps[p] # <<>>
    PROVE  Granted(p) = IF reps[p][1].status = "ok" THEN 1 ELSE 0
<1> DEFINE ok == {i \in DOMAIN reps[p] : reps[p][i].status = "ok"}
<1>1. reps[p] \in Seq(Reply) /\ Len(reps[p]) <= 1
  BY DEF TypeOK, OneReply, Senders
<1>2. DOMAIN reps[p] = 1..Len(reps[p]) /\ Len(reps[p]) \in Nat \ {0}
  BY <1>1, LenProperties, EmptySeq
<1>3. DOMAIN reps[p] = {1}
  BY <1>1, <1>2
<1>4. CASE reps[p][1].status = "ok"
  <2>1. ok = {1}
    BY <1>3, <1>4
  <2>. QED
    BY <2>1, <1>4, FS_Singleton DEF Granted
<1>5. CASE reps[p][1].status # "ok"
  <2>1. ok = {}
    BY <1>3, <1>5
  <2>. QED
    BY <2>1, <1>5, FS_EmptySet DEF Granted
<1>. QED
  BY <1>4, <1>5

-----------------------------------------------------------------------------
(* Every step of the protocol is a step of the account, or none *)

LEMMA RefinesInit == Init => Account!Init
<1> SUFFICES ASSUME Init PROVE Account!Init
  OBVIOUS
<1>1. \A p \in Procs : Asking(p) = {} /\ reps[p] = <<>>
  <2>1. DOMAIN reqs = {}
    BY DEF Init
  <2>. QED
    BY <2>1 DEF Init, Asking, Senders
<1>2. \A p \in Procs : PendingOf(p) = "none"
  BY <1>1 DEF PendingOf
<1>. QED
  BY <1>2 DEF Init, Account!Init

\* the account's state, by its parts
LEMMA AccountStutters ==
    ASSUME UNCHANGED bay, pendings' = pendings
    PROVE  UNCHANGED Account!accountVars
BY DEF pendings, Account!accountVars

\* a request is served
LEMMA RefinesServed ==
    ASSUME IInv, Serving, NEW reply \in Reply, Answer(reply), UNCHANGED bay
    PROVE  Account!Next \/ UNCHANGED Account!accountVars
<1>1. /\ Head(reqs) \in Message /\ Head(reqs).from \in Senders
      /\ Asking(Head(reqs).from) # {}
      /\ \A p \in Procs : p = Head(reqs).from => Asking(p)' = {}
      /\ \A a \in Senders : Asking(a) = {} => Asking(a)' = {}
      /\ \A a \in Senders : a # Head(reqs).from /\ Asking(a) # {} => Asking(a)' # {}
  BY Dequeue DEF IInv, Serving, Answer, Message
<1>2. PICK h \in Senders : h = Head(reqs).from
  BY <1>1
<1>3. reps \in [Senders -> Seq(Reply)]
  BY DEF IInv, TypeOK
<1>4. \/ reps' = reps
      \/ reps' = [reps EXCEPT ![h] = Append(reps[h], reply)]
  BY <1>2 DEF Answer
<1>5. \A q \in Procs : q # h => /\ Asking(q)' = {} <=> Asking(q) = {}
                                /\ reps'[q] = reps[q]
  BY <1>1, <1>2, <1>3, <1>4, Zenon DEF Senders
<1>6. CASE h \in Consoles
  <2>1. \A q \in Procs : q # h
    BY <1>6, Constants
  <2>2. pendings' = pendings
    BY <2>1, <1>5, PendingUnchanged
  <2>. QED
    BY <2>2, AccountStutters
<1>7. CASE h \in Procs
  <2>1. PendingOf(h) = "asked" /\ Asking(h)' = {}
    BY <1>1, <1>2, <1>7 DEF PendingOf
  <2>2. PendingOf(h)' \in {"none", "granted", "refused"}
    BY <2>1 DEF PendingOf
  <2>3. PICK now \in {"none", "granted", "refused"} : PendingOf(h)' = now
    BY <2>2
  <2>4. pendings' = [pendings EXCEPT ![h] = now]
    BY <1>5, <1>7, <2>3, PendingOfOne
  <2>5. pendings[h] = "asked"
    BY <1>7, <2>1 DEF pendings
  <2>6. Account!Answer(h)
    BY <2>3, <2>4, <2>5 DEF pendings, Account!Answer, Account!Pending
  <2>. QED
    BY <1>7, <2>6 DEF Account!Next
<1>. QED
  BY <1>6, <1>7 DEF Senders

\* a console has nothing to do with the account
LEMMA RefinesConsole ==
    ASSUME IInv, NEW c \in Consoles,
           \/ ConsoleAsks(c) \/ ConsoleReads(c) \/ ConsoleTold(c)
           \/ ConsoleMisreads(c)
    PROVE  UNCHANGED Account!accountVars
<1>0. c \in Senders /\ \A p \in Procs : p # c /\ p \in Senders
  BY Constants DEF Senders
<1>1. CASE ConsoleAsks(c)
  <2>1. PICK f \in Hired :
          reqs' = Append(reqs, [from |-> c, sender_id |-> 0, faction |-> f])
    BY <1>1 DEF ConsoleAsks
  <2> DEFINE r == [from |-> c, sender_id |-> 0, faction |-> f]
  <2>2. r \in Message /\ r.from = c
    BY <1>0, SpawnAssumption DEF Message
  <2> HIDE DEF r
  <2>3. \A a \in Senders : a # c => Asking(a)' = Asking(a)
    BY <2>1, <2>2, Enqueue DEF r, IInv
  <2>4. UNCHANGED bay /\ UNCHANGED reps
    BY <1>1 DEF ConsoleAsks
  <2>. QED
    BY <1>0, <2>3, <2>4, PendingUnchanged, AccountStutters
<1>2. CASE ConsoleReads(c) \/ ConsoleTold(c) \/ ConsoleMisreads(c)
  <2>1. UNCHANGED bay /\ UNCHANGED reqs
    BY <1>2 DEF ConsoleReads, ConsoleTold, ConsoleMisreads
  <2>2. reps' = reps \/ reps' = [reps EXCEPT ![c] = Tail(reps[c])]
    BY <1>2 DEF ConsoleReads, ConsoleTold, ConsoleMisreads
  <2>3. \A p \in Procs : reps'[p] = reps[p]
    BY <1>0, <2>2 DEF IInv, TypeOK
  <2>4. \A p \in Procs : Asking(p)' = Asking(p)
    BY <2>1 DEF Asking
  <2>. QED
    BY <2>1, <2>3, <2>4, PendingUnchanged, AccountStutters
<1>. QED
  BY <1>1, <1>2

\* a battleship reads its replies
LEMMA RefinesBegins ==
    ASSUME IInv, NEW p \in Procs, ShipBegins(p)
    PROVE  Account!Next \/ UNCHANGED Account!accountVars
<1>1. /\ phase = "tick" /\ step[p] = "idle"
      /\ bay' = [bay EXCEPT ![p] = bay[p] + Granted(p)]
      /\ reps' = [reps EXCEPT ![p] = <<>>]
      /\ UNCHANGED reqs
  BY DEF ShipBegins
<1>2. Asking(p) = {} /\ p \in Senders
  BY <1>1 DEF IInv, BegunMeansNothingPending, Senders
<1>3. \A q \in Procs : Asking(q)' = Asking(q)
  BY <1>1 DEF Asking
<1>4. /\ reps'[p] = <<>>
      /\ \A q \in Procs : q # p => reps'[q] = reps[q]
  BY <1>1, <1>2 DEF IInv, TypeOK, Senders
<1>5. PendingOf(p)' = "none"
  BY <1>2, <1>3, <1>4 DEF PendingOf
<1>6. pendings' = [pendings EXCEPT ![p] = "none"]
  BY <1>3, <1>4, <1>5, PendingOfOne
<1>7. bay \in [Procs -> Nat]
  BY DEF IInv, TypeOK
<1>8. CASE reps[p] = <<>>
  <2>1. Granted(p) = 0
    BY <1>8, GrantedBound DEF IInv
  <2>2. bay[p] + 0 = bay[p]
    BY <1>7
  <2>3. bay' = bay
    BY <1>1, <1>7, <2>1, <2>2
  <2>4. pendings' = pendings
    BY <1>3, <1>4, <1>8, PendingUnchanged
  <2>. QED
    BY <2>3, <2>4, AccountStutters
<1>9. CASE reps[p] # <<>>
  <2>1. Granted(p) = IF reps[p][1].status = "ok" THEN 1 ELSE 0
    BY <1>9, GrantedByReply DEF IInv
  <2>2. pendings[p] = IF reps[p][1].status = "ok" THEN "granted" ELSE "refused"
    BY <1>2, <1>9 DEF pendings, PendingOf
  <2>3. bay' = IF pendings[p] = "granted"
                 THEN [bay EXCEPT ![p] = bay[p] + 1] ELSE bay
    <3>1. CASE reps[p][1].status = "ok"
      BY <1>1, <2>1, <2>2, <3>1
    <3>2. CASE reps[p][1].status # "ok"
      <4>1. bay[p] + 0 = bay[p]
        BY <1>7
      <4>. QED
        BY <1>1, <1>7, <2>1, <2>2, <3>2, <4>1
    <3>. QED
      BY <3>1, <3>2
  <2>4. Account!Collect(p)
    BY <1>6, <2>2, <2>3 DEF pendings, Account!Collect
  <2>. QED
    BY <2>4 DEF Account!Next
<1>. QED
  BY <1>8, <1>9

\* a battleship asks, or does not
LEMMA RefinesActs ==
    ASSUME IInv, NEW p \in Procs, ShipActs(p)
    PROVE  Account!Next \/ UNCHANGED Account!accountVars
<1>1. step[p] = "begun" /\ UNCHANGED <<reps, bay>>
  BY DEF ShipActs
<1>2. /\ p \in Senders /\ \A q \in Procs : q \in Senders
      /\ Asking(p) = {} /\ reps[p] = <<>>
  BY <1>1 DEF IInv, BegunMeansNothingPending, Senders
<1> DEFINE r == [from |-> p, sender_id |-> slot[p], faction |-> faction[p]]
<1>3. CASE Capacity > bay[p] /\ reqs' = Append(reqs, r)
  <2>1. r \in Message /\ r.from = p
    BY <1>2 DEF Message, IInv, TypeOK
  <2>2. bay[p] < Capacity
    BY <1>3, Constants DEF IInv, TypeOK
  <2> HIDE DEF r
  <2>3. \A a \in Senders : a # p => Asking(a)' = Asking(a)
    BY <1>3, <2>1, Enqueue DEF IInv
  <2>4. Asking(p)' # {}
    <3>1. reqs \in Seq(Message)
      BY DEF IInv, TypeOK, Message
    <3>2. /\ Len(reqs) + 1 \in DOMAIN reqs'
          /\ reqs'[Len(reqs) + 1] = r
      BY <1>3, <2>1, <3>1, AtTheEnd
    <3>. QED
      BY <2>1, <3>2 DEF Asking
  <2>5. PendingOf(p)' = "asked"
    BY <2>4 DEF PendingOf
  <2>6. pendings' = [pendings EXCEPT ![p] = "asked"]
    BY <1>1, <1>2, <2>3, <2>5, PendingOfOne
  <2>7. pendings[p] = "none"
    BY <1>2 DEF pendings, PendingOf
  <2>8. Account!Ask(p)
    BY <1>1, <2>2, <2>6, <2>7 DEF pendings, Account!Ask
  <2>. QED
    BY <2>8 DEF Account!Next
<1>4. CASE UNCHANGED reqs
  <2>1. \A q \in Procs : Asking(q)' = Asking(q)
    BY <1>4 DEF Asking
  <2>. QED
    BY <1>1, <2>1, PendingUnchanged, AccountStutters
<1>. QED
  BY <1>3, <1>4 DEF ShipActs

\* nothing moves in the queues
LEMMA RefinesOther ==
    ASSUME UNCHANGED <<reqs, reps, bay>>
    PROVE  UNCHANGED Account!accountVars
<1>1. \A q \in Procs : Asking(q)' = Asking(q)
  BY DEF Asking
<1>. QED
  BY <1>1, PendingUnchanged, AccountStutters

LEMMA RefinesNext == IInv /\ [Next]_vars => [Account!Next]_(Account!accountVars)
<1> SUFFICES ASSUME IInv, [Next]_vars
             PROVE  Account!Next \/ UNCHANGED Account!accountVars
  OBVIOUS
<1>1. CASE ServeRefused \/ ServeFailed \/ ServeLaunched
  <2>1. \E reply \in Reply : Answer(reply)
    <3>1. CASE ServeRefused
      BY <3>1 DEF ServeRefused, Reply
    <3>2. CASE ServeFailed
      BY <3>2 DEF ServeFailed, Reply
    <3>3. CASE ServeLaunched
      <4>1. forked + 1 \in Procs
        BY <3>3, Constants DEF ServeLaunched, IInv, TypeOK, Procs
      <4>. QED
        BY <3>3, <4>1 DEF ServeLaunched, Reply
    <3>. QED
      BY <1>1, <3>1, <3>2, <3>3
  <2>2. Serving /\ UNCHANGED bay
    BY <1>1 DEF ServeRefused, ServeFailed, ServeLaunched
  <2>. QED
    BY <2>1, <2>2, RefinesServed
<1>2. CASE \E c \in Consoles : \/ ConsoleAsks(c) \/ ConsoleReads(c)
                                \/ ConsoleTold(c) \/ ConsoleMisreads(c)
  BY <1>2, RefinesConsole
<1>3. CASE \E p \in Procs : ShipBegins(p)
  BY <1>3, RefinesBegins
<1>4. CASE \E p \in Procs : ShipActs(p)
  BY <1>4, RefinesActs
<1>5. CASE StartTick \/ EndTick \/ (\E p \in Procs : UnitDies(p)) \/ UNCHANGED vars
  <2>1. UNCHANGED <<reqs, reps, bay>>
    BY <1>5 DEF StartTick, EndTick, UnitDies, vars
  <2>. QED
    BY <2>1, RefinesOther
<1>. QED
  BY <1>1, <1>2, <1>3, <1>4, <1>5 DEF Next, CCStep

(***************************************************************************)
(* Whatever is refused, fails or is lost on the way, a battleship asks for *)
(* one squadron at a time and counts only what was granted to it.          *)
(***************************************************************************)
THEOREM SpawnImplementsAccount == Spec => ImplementsAccount
<1>1. Init => Account!Init
  BY RefinesInit
<1>2. IInv /\ [Next]_vars => [Account!Next]_(Account!accountVars)
  BY RefinesNext
<1>. QED
  BY <1>1, <1>2, SpawnInvariant, PTL DEF Spec, ImplementsAccount, Account!Spec
=============================================================================
