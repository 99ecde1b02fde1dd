---------------------------- MODULE ConsoleProofs ----------------------------
(***************************************************************************)
(* Proofs about Console: types, that only a console that has been told to  *)
(* stop may find the answer to an earlier command, and only one, that a    *)
(* freeze lets one more tick begin at most, and that CC is to the consoles *)
(* what Control describes, for any number of consoles and viewers, any     *)
(* size of the queues and whatever gets lost.                              *)
(***************************************************************************)
EXTENDS Console, SequenceTheorems, TLAPS

-----------------------------------------------------------------------------
(* The inductive invariant *)

Sent(c) == {i \in 1 .. Len(cmds) : cmds[i].from = c}
Got(c) == 1 .. Len(replies[c])

\* the ids a console has under way, asked, being answered or answered
Ids(c) ==
    {cmds[i].id : i \in Sent(c)}
    \cup {a.reply.id : a \in {b \in {answer} : b.to = c}}
    \cup {replies[c][i].id : i \in Got(c)}

\* each of them is in one place, and the next one is new
Apart(c) ==
    /\ \A i, j \in Sent(c) : cmds[i].id = cmds[j].id => i = j
    /\ \A i, j \in Got(c) : replies[c][i].id = replies[c][j].id => i = j
    /\ \A i \in Sent(c), j \in Got(c) : cmds[i].id # replies[c][j].id
    /\ answer.to = c => /\ \A i \in Sent(c) : cmds[i].id # answer.reply.id
                        /\ \A i \in Got(c) : replies[c][i].id # answer.reply.id
    /\ \A n \in Ids(c) : n < nextId[c]

\* what may be under way: nothing at the prompt, during a wait its own, and one
\* more, given up before, when the console has been told to stop
Fits(place, own, ids) ==
    /\ place = "prompt" => ids = {}
    /\ place \in {"stdin", "fifo"} => ids \subseteq {own}
    /\ place = "leaving" => \A m, n \in ids : m = n
    /\ place = "last" => \A m, n \in ids \ {own} : m = n

Round(c) == Fits(console[c], expected[c].id, Ids(c))

Pending == \A c \in Consoles : Apart(c) /\ Round(c)

\* the main thread leaves for good, and takes the queues along when the
\* console thread holds no answer any more
Ends ==
    /\ thread = "reply" <=> answer # NoAnswer
    /\ main \in {"joining", "shutdown", "gone"} => settings.stop
    /\ main \in {"shutdown", "gone"} => thread \in {"done", "none"}
    /\ queues = "gone" => /\ main = "gone"
                          /\ cmds = <<>> /\ maps = <<>>
                          /\ \A f \in FrontEnds : replies[f] = <<>>

\* a tick may have been decided on before the freeze, and only one
FreezeCounts ==
    settings.frozen => since <= 1 /\ (main = "begin" => since = 0)

IInv ==
    /\ TypeOK
    /\ Pending
    /\ Ends
    /\ FreezeCounts

-----------------------------------------------------------------------------
(* Queues and answers *)

LEMMA Constants ==
    /\ MaxSpeed \in Nat /\ InitialSpeed \in 0 .. MaxSpeed
    /\ Consoles \cap Viewers = {} /\ "nobody" \notin Consoles
    /\ \A cmd \in Commands : cmd.value \in Int /\ (cmd.op = "setgrid" => cmd.value \in {0, 1})
BY ConsoleAssumption

LEMMA AppendFacts ==
    ASSUME NEW S, NEW s \in Seq(S), NEW x \in S
    PROVE  /\ Append(s, x) \in Seq(S)
           /\ Len(Append(s, x)) = Len(s) + 1 /\ Len(s) \in Nat
           /\ \A i \in 1 .. Len(s) : Append(s, x)[i] = s[i]
           /\ Append(s, x)[Len(s) + 1] = x
BY AppendProperties, LenProperties

LEMMA TailFacts ==
    ASSUME NEW S, NEW s \in Seq(S), s # <<>>
    PROVE  /\ Tail(s) \in Seq(S)
           /\ Len(Tail(s)) = Len(s) - 1 /\ Len(s) \in Nat \ {0}
           /\ \A i \in 1 .. Len(s) - 1 : Tail(s)[i] = s[i + 1]
           /\ Head(s) = s[1] /\ Head(s) \in S
<1>1. Len(s) \in Nat \ {0}
  BY EmptySeq, LenProperties
<1> QED
  BY <1>1, HeadTailProperties, ElementOfSeq

LEMMA EmptyFacts ==
    ASSUME NEW S, NEW s \in Seq(S)
    PROVE  Len(s) \in Nat /\ (s = <<>> <=> Len(s) = 0) /\ <<>> \in Seq(S)
BY EmptySeq, LenProperties

Settings == [frozen : BOOLEAN, speed : 0 .. MaxSpeed, grid : {0, 1}, stop : BOOLEAN]

LEMMA StopFacts ==
    ASSUME NEW s \in Settings
    PROVE  LET t == [s EXCEPT !.stop = TRUE]
           IN  t \in Settings /\ t.stop /\ (t.frozen <=> s.frozen)
BY DEF Settings

LEMMA NoticeTypes ==
    ASSUME NEW id \in Nat, NEW ok \in BOOLEAN, NEW value \in 0 .. MaxSpeed + 1
    PROVE  [id |-> id, result |-> [ok |-> ok, value |-> value]] \in Notices
BY DEF Notices, Results

LEMMA MapReplyType == MapReply \in Notices
<1>1. 0 \in 0 .. MaxSpeed + 1
  BY Constants
<1> QED
  BY <1>1, NoticeTypes DEF MapReply

LEMMA NoAnswerFacts ==
    NoAnswer.to \notin Consoles /\ NoAnswer \notin [to : Consoles, reply : Notices]
BY Constants DEF NoAnswer

\* a response goes to the sender of the command, and repeats its id
LEMMA ResponseFacts ==
    ASSUME NEW cmd \in Messages, NEW ok \in BOOLEAN, NEW value \in 0 .. MaxSpeed + 1
    PROVE  /\ Response(cmd, ok, value) \in [to : Consoles, reply : Notices]
           /\ Response(cmd, ok, value).to = cmd.from
           /\ Response(cmd, ok, value).reply.id = cmd.id
           /\ Response(cmd, ok, value).reply.result = [ok |-> ok, value |-> value]
<1> DEFINE r == [id |-> cmd.id, result |-> [ok |-> ok, value |-> value]]
<1>1. cmd.from \in Consoles /\ cmd.id \in Nat
  BY DEF Messages
<1>2. r \in Notices /\ r.id = cmd.id /\ r.result = [ok |-> ok, value |-> value]
  <2>1. r.id = cmd.id
    OBVIOUS
  <2>2. r.result = [ok |-> ok, value |-> value]
    BY Zenon
  <2> QED
    BY <1>1, <2>1, <2>2, NoticeTypes
<1> HIDE DEF r
<1> QED
  BY <1>1, <1>2 DEF Response, r

\* the answer is a response, with a status and a value that fit
LEMMA AnswerIsResponse ==
    ASSUME settings \in Settings, NEW cmd \in Messages
    PROVE  \E value \in 0 .. MaxSpeed + 1 :
              Answer(cmd) = Response(cmd, TRUE, value) \/ Answer(cmd) = Response(cmd, FALSE, value)
<1>1. /\ settings.speed \in 0 .. MaxSpeed + 1 /\ settings.grid \in 0 .. MaxSpeed + 1
      /\ cmd.cmd.op = "setgrid" => cmd.cmd.value \in 0 .. MaxSpeed + 1
      /\ 0 \in 0 .. MaxSpeed + 1
  BY Constants DEF Settings, Messages
<1>2. CASE cmd.cmd.op \in {"getspeed", "getgrid", "setgrid"}
  BY <1>1, <1>2 DEF Answer
<1>3. CASE cmd.cmd.op \notin {"getspeed", "getgrid", "setgrid"}
  <2>1. Answer(cmd) = Response(cmd, cmd.cmd.op = "setspeed" => SetsSpeed(cmd), 0)
    BY <1>3, Zenon DEF Answer
  <2>2. \/ (cmd.cmd.op = "setspeed" => SetsSpeed(cmd)) = TRUE
        \/ (cmd.cmd.op = "setspeed" => SetsSpeed(cmd)) = FALSE
    BY Zenon
  <2>3. Answer(cmd) = Response(cmd, TRUE, 0) \/ Answer(cmd) = Response(cmd, FALSE, 0)
    BY <2>1, <2>2, Zenon
  <2> QED
    BY <1>1, <2>3
<1> QED
  BY <1>2, <1>3

LEMMA AnswerFacts ==
    ASSUME settings \in Settings, NEW cmd \in Messages
    PROVE  /\ Answer(cmd) \in [to : Consoles, reply : Notices]
           /\ Answer(cmd).to = cmd.from
           /\ Answer(cmd).reply.id = cmd.id
<1>1. PICK value \in 0 .. MaxSpeed + 1 :
        Answer(cmd) = Response(cmd, TRUE, value) \/ Answer(cmd) = Response(cmd, FALSE, value)
  BY AnswerIsResponse
<1> DEFINE Good(r) == /\ r \in [to : Consoles, reply : Notices]
                      /\ r.to = cmd.from /\ r.reply.id = cmd.id
<1>2. TRUE \in BOOLEAN /\ FALSE \in BOOLEAN
  OBVIOUS
<1>3. Good(Response(cmd, TRUE, value)) /\ Good(Response(cmd, FALSE, value))
  BY <1>2, ResponseFacts, Zenon
<1> HIDE DEF Good
<1>4. Good(Answer(cmd))
  BY <1>1, <1>3
<1> QED
  BY <1>4 DEF Good

LEMMA SettingsAfterFacts ==
    ASSUME settings \in Settings, NEW cmd \in Messages
    PROVE  /\ SettingsAfter(cmd) \in Settings
           /\ settings.stop => SettingsAfter(cmd).stop
<1>1. cmd.cmd.op = "setgrid" => cmd.cmd.value \in {0, 1}
  BY Constants DEF Messages
<1>2. CASE cmd.cmd.op = "freeze"
  BY <1>2 DEF SettingsAfter, Settings, SetsSpeed
<1>3. CASE cmd.cmd.op = "unfreeze"
  BY <1>3 DEF SettingsAfter, Settings, SetsSpeed
<1>4. CASE SetsSpeed(cmd)
  BY <1>4 DEF SettingsAfter, Settings, SetsSpeed
<1>5. CASE cmd.cmd.op = "setgrid"
  BY <1>1, <1>5 DEF SettingsAfter, Settings, SetsSpeed
<1>6. CASE cmd.cmd.op = "end"
  BY <1>6 DEF SettingsAfter, Settings, SetsSpeed
<1>7. CASE /\ cmd.cmd.op \notin {"freeze", "unfreeze", "setgrid", "end"}
           /\ ~SetsSpeed(cmd)
  BY <1>7 DEF SettingsAfter, Settings
<1> QED
  BY <1>2, <1>3, <1>4, <1>5, <1>6, <1>7

-----------------------------------------------------------------------------
(* What a step does to the commands under way *)

Places == {"prompt", "stdin", "fifo", "leaving", "last", "gone"}

LEMMA TypeFacts ==
    ASSUME IInv
    PROVE  /\ cmds \in Seq(Messages) /\ maps \in Seq(Viewers)
           /\ replies \in [FrontEnds -> Seq(Notices)]
           /\ settings \in Settings
           /\ answer \in [to : Consoles, reply : Notices] \cup {NoAnswer}
           /\ console \in [Consoles -> Places]
           /\ expected \in [Consoles -> [id : Nat, end : BOOLEAN]]
           /\ nextId \in [Consoles -> Nat \ {0}]
           /\ \A c \in Consoles : c \in FrontEnds /\ c \notin Viewers
           /\ \A v \in Viewers : v \in FrontEnds /\ v \notin Consoles
BY Constants DEF IInv, TypeOK, Settings, FrontEnds, Places

LEMMA IdFacts ==
    ASSUME NEW c
    PROVE  /\ \A i \in Sent(c) : cmds[i].id \in Ids(c)
           /\ \A i \in Got(c) : replies[c][i].id \in Ids(c)
           /\ answer.to = c => answer.reply.id \in Ids(c)
           /\ \A n \in Ids(c) : \/ \E i \in Sent(c) : n = cmds[i].id
                                \/ answer.to = c /\ n = answer.reply.id
                                \/ \E i \in Got(c) : n = replies[c][i].id
BY DEF Ids

LEMMA IdsAreNumbers ==
    ASSUME IInv, NEW c \in Consoles
    PROVE  Ids(c) \subseteq Nat
<1>1. \A i \in Sent(c) : cmds[i].id \in Nat
  <2>1. \A i \in 1 .. Len(cmds) : cmds[i] \in Messages
    BY TypeFacts, ElementOfSeq
  <2> QED
    BY <2>1 DEF Sent, Messages
<1>2. \A i \in Got(c) : replies[c][i].id \in Nat
  <2>1. replies[c] \in Seq(Notices)
    BY TypeFacts
  <2>2. \A i \in 1 .. Len(replies[c]) : replies[c][i] \in Notices
    BY <2>1, ElementOfSeq
  <2> QED
    BY <2>2 DEF Got, Notices
<1>3. answer.to = c => answer.reply.id \in Nat
  BY TypeFacts, NoAnswerFacts DEF Notices
<1> QED
  BY <1>1, <1>2, <1>3, IdFacts

\* fewer ids fit where more did
LEMMA FewerFit ==
    ASSUME NEW place, NEW own, NEW ids, NEW fewer \in SUBSET ids, Fits(place, own, ids)
    PROVE  Fits(place, own, fewer)
BY DEF Fits

LEMMA PendingOf ==
    ASSUME IInv, NEW c \in Consoles
    PROVE  Apart(c) /\ Round(c)
BY DEF IInv, Pending

\* A step that leaves a console's messages where they are.
LEMMA SameMessages ==
    ASSUME IInv, NEW c \in Consoles, Sent(c)' = Sent(c),
           \A i \in Sent(c) : cmds'[i] = cmds[i],
           replies'[c] = replies[c], nextId'[c] = nextId[c],
           answer' = answer \/ (answer'.to # c /\ answer.to # c)
    PROVE  Apart(c)' /\ Ids(c)' = Ids(c)
<1>1. Got(c)' = Got(c) /\ Apart(c)
  BY PendingOf DEF Got
<1>2. Ids(c)' = Ids(c)
  BY <1>1 DEF Ids
<1> QED
  BY <1>1, <1>2 DEF Apart

\* A console that does not move.
LEMMA SameRound ==
    ASSUME IInv, NEW c \in Consoles, Ids(c)' \subseteq Ids(c),
           console'[c] = console[c], expected'[c] = expected[c]
    PROVE  Round(c)'
<1>1. Fits(console[c], expected[c].id, Ids(c))
  BY PendingOf DEF Round
<1>2. Fits(console[c], expected[c].id, Ids(c)')
  BY <1>1, FewerFit
<1> QED
  BY <1>2 DEF Round

\* Steps that touch nobody's command.
LEMMA SamePending ==
    ASSUME IInv, UNCHANGED <<cmds, answer, console, expected, nextId>>,
           \A c \in Consoles : replies'[c] = replies[c]
    PROVE  Pending'
<1>1. ASSUME NEW c \in Consoles
      PROVE  Apart(c)' /\ Round(c)'
  <2>1. Sent(c)' = Sent(c)
    BY DEF Sent
  <2>2. Apart(c)' /\ Ids(c)' = Ids(c)
    BY <2>1, SameMessages
  <2> QED
    BY <2>2, SameRound
<1> QED
  BY <1>1 DEF Pending

LEMMA SendsFacts ==
    ASSUME replies \in [FrontEnds -> Seq(Notices)], NEW to \in FrontEnds,
           NEW r \in Notices, Sends(to, r)
    PROVE  /\ replies' \in [FrontEnds -> Seq(Notices)]
           /\ \A f \in FrontEnds : f # to => replies'[f] = replies[f]
           /\ \/ replies'[to] = replies[to]
              \/ replies'[to] = Append(replies[to], r)
           /\ fault' \in {fault, "lost"}
<1>1. CASE UNCHANGED replies
  BY <1>1 DEF Sends
<1>2. CASE replies' = [replies EXCEPT ![to] = Append(@, r)]
  <2>1. Append(replies[to], r) \in Seq(Notices)
    BY AppendFacts
  <2> QED
    BY <1>2, <2>1 DEF Sends
<1> QED
  BY <1>1, <1>2 DEF Sends

-----------------------------------------------------------------------------
(* Every step keeps the invariant *)

LEMMA ThreadStep ==
    ASSUME IInv, NoCommandThere \/ MapsServed
    PROVE  IInv'
<1>1. /\ UNCHANGED <<fault, queues, cmds, maps, replies, settings, main, since, answer,
                     console, expected, nextId, viewer, asked>>
      /\ thread \in {"cmd", "maps"} /\ thread' \in {"cmd", "maps", "done"}
  BY DEF NoCommandThere, MapsServed, queueVars, mainVars, consoleVars, viewerVars
<1>2. TypeOK'
  BY <1>1 DEF IInv, TypeOK
<1>3. Ends' /\ FreezeCounts'
  BY <1>1 DEF IInv, Ends, FreezeCounts
<1> QED
  BY <1>1, <1>2, <1>3, SamePending DEF IInv

LEMMA MainStep ==
    ASSUME IInv, Look \/ Tick \/ Join \/ StopBySignal
    PROVE  IInv'
<1>1. UNCHANGED <<fault, queues, cmds, maps, replies, thread, answer,
                  console, expected, nextId, viewer, asked>>
  BY DEF Look, Tick, Join, StopBySignal, queueVars, mainVars, threadVars, consoleVars, viewerVars
<1>2. CASE Look
  <2>1. TypeOK'
    BY <1>1, <1>2 DEF Look, IInv, TypeOK
  <2>2. Ends' /\ FreezeCounts'
    BY <1>1, <1>2 DEF Look, IInv, Ends, FreezeCounts
  <2> QED
    BY <1>1, <2>1, <2>2, SamePending DEF IInv
<1>3. CASE Tick
  <2>1. TypeOK'
    BY <1>1, <1>3 DEF Tick, IInv, TypeOK
  <2>2. Ends' /\ FreezeCounts'
    BY <1>1, <1>3 DEF Tick, IInv, Ends, FreezeCounts
  <2> QED
    BY <1>1, <2>1, <2>2, SamePending DEF IInv
<1>4. CASE Join
  <2>1. TypeOK'
    BY <1>1, <1>4 DEF Join, IInv, TypeOK
  <2>2. Ends' /\ FreezeCounts'
    BY <1>1, <1>4 DEF Join, IInv, Ends, FreezeCounts
  <2> QED
    BY <1>1, <2>1, <2>2, SamePending DEF IInv
<1>5. CASE StopBySignal
  <2>1. /\ settings' = [settings EXCEPT !.stop = TRUE]
        /\ UNCHANGED <<main, since>>
    BY <1>5 DEF StopBySignal, mainVars
  <2>2. settings' \in Settings /\ settings'.stop /\ (settings'.frozen <=> settings.frozen)
    BY <2>1, StopFacts, TypeFacts
  <2>3. TypeOK'
    BY <1>1, <2>1, <2>2 DEF IInv, TypeOK, Settings
  <2>4. Ends' /\ FreezeCounts'
    BY <1>1, <2>1, <2>2 DEF IInv, Ends, FreezeCounts
  <2> QED
    BY <1>1, <2>3, <2>4, SamePending DEF IInv
<1> QED
  BY <1>2, <1>3, <1>4, <1>5

LEMMA ViewerStep ==
    ASSUME IInv, NEW v \in Viewers, AskMap(v) \/ ReceiveMap(v) \/ LeaveMap(v)
    PROVE  IInv'
<1>1. UNCHANGED <<fault, queues, cmds, settings, main, since, thread, answer,
                  console, expected, nextId>>
  BY DEF AskMap, ReceiveMap, LeaveMap, queueVars, mainVars, threadVars, consoleVars
<1>2. CASE AskMap(v)
  <2>1. /\ asked' = [asked EXCEPT ![v] = @ + 1] /\ asked[v] < MaxMaps
        /\ UNCHANGED replies
    BY <1>2 DEF AskMap
  <2>2. maps' = maps \/ (queues = "there" /\ maps' = Append(maps, v))
    BY <1>2 DEF AskMap, RoomToAsk
  <2>3. maps' \in Seq(Viewers)
    <3>1. maps \in Seq(Viewers) /\ Append(maps, v) \in Seq(Viewers)
      BY TypeFacts, AppendFacts
    <3> QED
      BY <2>2, <3>1
  <2>4. viewer' \in [Viewers -> {"top", "waiting", "gone"}]
    <3>1. PICK x \in {"top", "waiting", "gone"} : viewer' = [viewer EXCEPT ![v] = x]
      BY <1>2 DEF AskMap, Back
    <3> QED
      BY <3>1 DEF IInv, TypeOK
  <2>5. asked' \in [Viewers -> 0 .. MaxMaps]
    BY <2>1, ConsoleAssumption DEF IInv, TypeOK
  <2>6. TypeOK'
    BY <1>1, <2>1, <2>3, <2>4, <2>5 DEF IInv, TypeOK
  <2>7. Ends' /\ FreezeCounts'
    BY <1>1, <2>1, <2>2 DEF IInv, Ends, FreezeCounts
  <2> QED
    BY <1>1, <2>1, <2>6, <2>7, SamePending DEF IInv
<1>3. CASE ReceiveMap(v)
  <2>1. /\ replies[v] # <<>> /\ replies' = [replies EXCEPT ![v] = Tail(@)]
        /\ \E to \in {"top", "gone"} : viewer' = [viewer EXCEPT ![v] = to]
        /\ UNCHANGED <<maps, asked>>
    BY <1>3 DEF ReceiveMap, Back
  <2>2. Tail(replies[v]) \in Seq(Notices)
    BY <2>1, TypeFacts, TailFacts
  <2>3. /\ replies' \in [FrontEnds -> Seq(Notices)]
        /\ \A c \in Consoles : replies'[c] = replies[c]
    BY <2>1, <2>2, TypeFacts
  <2>4. TypeOK'
    BY <1>1, <2>1, <2>3 DEF IInv, TypeOK
  <2>5. queues # "gone"
    BY <2>1, TypeFacts DEF IInv, Ends
  <2>6. Ends' /\ FreezeCounts'
    BY <1>1, <2>1, <2>5 DEF IInv, Ends, FreezeCounts
  <2> QED
    BY <1>1, <2>3, <2>4, <2>6, SamePending DEF IInv
<1>4. CASE LeaveMap(v)
  <2>1. viewer' = [viewer EXCEPT ![v] = "gone"] /\ UNCHANGED <<maps, replies, asked>>
    BY <1>4 DEF LeaveMap, queueVars
  <2>2. TypeOK'
    BY <1>1, <2>1 DEF IInv, TypeOK
  <2>3. Ends' /\ FreezeCounts'
    BY <1>1, <2>1 DEF IInv, Ends, FreezeCounts
  <2> QED
    BY <1>1, <2>1, <2>2, <2>3, SamePending DEF IInv
<1> QED
  BY <1>2, <1>3, <1>4

LEMMA ServeMapStep ==
    ASSUME IInv, ServeMap
    PROVE  IInv'
<1>1. /\ thread = "maps" /\ maps # <<>> /\ maps' = Tail(maps) /\ Sends(Head(maps), MapReply)
      /\ UNCHANGED <<queues, cmds, settings, main, since, thread, answer,
                     console, expected, nextId, viewer, asked>>
  BY DEF ServeMap, mainVars, threadVars, consoleVars, viewerVars
<1>2. maps' \in Seq(Viewers) /\ Head(maps) \in Viewers
  BY <1>1, TypeFacts, TailFacts
<1>3. /\ replies' \in [FrontEnds -> Seq(Notices)] /\ fault' \in {fault, "lost"}
      /\ \A c \in Consoles : replies'[c] = replies[c]
  BY <1>1, <1>2, TypeFacts, MapReplyType, SendsFacts
<1>4. TypeOK'
  BY <1>1, <1>2, <1>3 DEF IInv, TypeOK
<1>5. queues # "gone"
  BY <1>1 DEF IInv, Ends
<1>6. Ends' /\ FreezeCounts'
  BY <1>1, <1>5 DEF IInv, Ends, FreezeCounts
<1> QED
  BY <1>1, <1>3, <1>4, <1>6, SamePending DEF IInv

\* The first command leaves the queue and becomes the answer to its sender.
LEMMA HandleStep ==
    ASSUME IInv, HandleCommand
    PROVE  IInv'
<1> DEFINE cmd == Head(cmds)
<1>1. /\ thread = "cmd" /\ cmds # <<>> /\ cmds' = Tail(cmds)
      /\ settings' = SettingsAfter(cmd)
      /\ since' = IF settings.frozen /\ settings'.frozen THEN since ELSE 0
      /\ answer' = Answer(cmd) /\ thread' = "reply"
      /\ UNCHANGED <<fault, queues, maps, replies, main, console, expected, nextId, viewer, asked>>
  BY DEF HandleCommand, consoleVars, viewerVars
<1>2. /\ cmds' \in Seq(Messages) /\ Len(cmds') = Len(cmds) - 1 /\ Len(cmds) \in Nat \ {0}
      /\ \A i \in 1 .. Len(cmds') : cmds'[i] = cmds[i + 1] /\ i + 1 \in 1 .. Len(cmds) /\ i + 1 # 1
      /\ cmd = cmds[1] /\ cmd \in Messages /\ 1 \in 1 .. Len(cmds)
  BY <1>1, TypeFacts, TailFacts
<1> HIDE DEF cmd
<1>3. /\ settings' \in Settings /\ (settings.stop => settings'.stop)
      /\ answer' \in [to : Consoles, reply : Notices]
      /\ answer'.to = cmd.from /\ answer'.reply.id = cmd.id
  BY <1>1, <1>2, TypeFacts, AnswerFacts, SettingsAfterFacts
<1>4. TypeOK'
  BY <1>1, <1>2, <1>3 DEF IInv, TypeOK, Settings
<1>5. ASSUME NEW c \in Consoles
      PROVE  Apart(c)' /\ Round(c)'
  <2>1. /\ \A i \in Sent(c)' : i + 1 \in Sent(c) /\ cmds'[i] = cmds[i + 1] /\ i + 1 # 1 /\ i \in Int
        /\ answer'.to = c => 1 \in Sent(c) /\ answer'.reply.id = cmds[1].id
        /\ Got(c)' = Got(c) /\ replies' = replies /\ nextId' = nextId
    BY <1>1, <1>2, <1>3 DEF Sent, Got
  <2>2. Apart(c)
    BY PendingOf
  <2>3. Ids(c)' \subseteq Ids(c)
    <3>1. /\ \A i \in Sent(c)' : cmds'[i].id \in Ids(c)
          /\ answer'.to = c => answer'.reply.id \in Ids(c)
          /\ \A i \in Got(c)' : replies'[c][i].id \in Ids(c)
      BY <2>1, IdFacts
    <3> QED
      BY <3>1 DEF Ids
  <2>4. Apart(c)'
    <3>1. \A i, j \in Sent(c)' : cmds'[i].id = cmds'[j].id => i = j
      <4> SUFFICES ASSUME NEW i \in Sent(c)', NEW j \in Sent(c)', cmds'[i].id = cmds'[j].id
                   PROVE  i = j
        OBVIOUS
      <4>1. i + 1 = j + 1
        BY <2>1, <2>2 DEF Apart
      <4> QED
        BY <2>1, <4>1
    <3>2. answer'.to = c => /\ \A i \in Sent(c)' : cmds'[i].id # answer'.reply.id
                            /\ \A i \in Got(c)' : replies'[c][i].id # answer'.reply.id
      BY <2>1, <2>2 DEF Apart
    <3>3. \A i \in Sent(c)', j \in Got(c)' : cmds'[i].id # replies'[c][j].id
      BY <2>1, <2>2 DEF Apart
    <3> QED
      BY <2>1, <2>2, <2>3, <3>1, <3>2, <3>3 DEF Apart
  <2> QED
    BY <1>1, <2>3, <2>4, SameRound
<1>6. queues # "gone"
  BY <1>1 DEF IInv, Ends
<1>7. answer' # NoAnswer
  BY <1>3, NoAnswerFacts
<1>8. Ends' /\ FreezeCounts'
  BY <1>1, <1>3, <1>6, <1>7 DEF IInv, Ends, FreezeCounts
<1> QED
  BY <1>4, <1>5, <1>8 DEF IInv, Pending

\* The answer becomes the last reply for its console, or is lost.
LEMMA ReplyStep ==
    ASSUME IInv, Reply
    PROVE  IInv'
<1>1. /\ thread = "reply" /\ Sends(answer.to, answer.reply)
      /\ answer' = NoAnswer /\ thread' = "maps"
      /\ UNCHANGED <<queues, cmds, maps, settings, main, since,
                     console, expected, nextId, viewer, asked>>
  BY DEF Reply, mainVars, consoleVars, viewerVars
<1>2. answer \in [to : Consoles, reply : Notices]
  BY <1>1, TypeFacts DEF IInv, Ends
<1>3. answer.to \in Consoles /\ answer.to \in FrontEnds /\ answer.reply \in Notices
  BY <1>2, TypeFacts
<1>4. /\ replies' \in [FrontEnds -> Seq(Notices)] /\ fault' \in {fault, "lost"}
      /\ \A f \in FrontEnds : f # answer.to => replies'[f] = replies[f]
      /\ \/ replies'[answer.to] = replies[answer.to]
         \/ replies'[answer.to] = Append(replies[answer.to], answer.reply)
  BY <1>1, <1>3, TypeFacts, SendsFacts
<1>5. TypeOK'
  BY <1>1, <1>4 DEF IInv, TypeOK
<1>6. ASSUME NEW c \in Consoles
      PROVE  Apart(c)' /\ Round(c)'
  <2>1. Sent(c)' = Sent(c) /\ answer'.to # c
    BY <1>1, NoAnswerFacts DEF Sent
  <2>2. CASE c # answer.to
    <3>1. replies'[c] = replies[c]
      BY <1>4, <2>2, TypeFacts
    <3>2. Apart(c)' /\ Ids(c)' = Ids(c)
      BY <1>1, <2>1, <2>2, <3>1, SameMessages
    <3> QED
      BY <1>1, <3>2, SameRound
  <2>3. CASE c = answer.to
    <3>1. \A i \in Got(c)' : \/ i \in Got(c) /\ replies'[c][i] = replies[c][i]
                             \/ i = Len(replies[c]) + 1 /\ replies'[c][i] = answer.reply
      <4>1. CASE replies'[c] = replies[c]
        BY <4>1 DEF Got
      <4>2. CASE replies'[c] = Append(replies[c], answer.reply)
        <5>1. replies[c] \in Seq(Notices)
          BY TypeFacts
        <5> QED
          BY <1>3, <4>2, <5>1, AppendFacts DEF Got
      <4> QED
        BY <1>4, <2>3, <4>1, <4>2
    <3>2. Apart(c)
      BY PendingOf
    <3>3. Ids(c)' \subseteq Ids(c)
      <4>1. \A i \in Got(c)' : replies'[c][i].id \in Ids(c)
        BY <2>3, <3>1, IdFacts
      <4>2. \A i \in Sent(c)' : cmds'[i].id \in Ids(c)
        BY <1>1, <2>1, IdFacts
      <4> QED
        BY <2>1, <4>1, <4>2 DEF Ids
    <3>4. \A i, j \in Got(c)' : replies'[c][i].id = replies'[c][j].id => i = j
      BY <2>3, <3>1, <3>2 DEF Apart
    <3>5. \A i \in Sent(c)', j \in Got(c)' : cmds'[i].id # replies'[c][j].id
      BY <1>1, <2>1, <2>3, <3>1, <3>2 DEF Apart
    <3>6. Apart(c)'
      BY <1>1, <2>1, <3>2, <3>3, <3>4, <3>5 DEF Apart
    <3> QED
      BY <1>1, <3>3, <3>6, SameRound
  <2> QED
    BY <2>2, <2>3
<1>7. queues # "gone"
  BY <1>1 DEF IInv, Ends
<1>8. Ends' /\ FreezeCounts'
  BY <1>1, <1>7 DEF IInv, Ends, FreezeCounts
<1> QED
  BY <1>5, <1>6, <1>8 DEF IInv, Pending

\* A console that asks is at the prompt, with nothing under way, or has been
\* told to stop and asks for the last time.
LEMMA AskStep ==
    ASSUME IInv, NEW c \in Consoles, NEW line \in {"stdin", "fifo", "last"}, NEW cmd \in Commands,
           Ask(c, line, cmd)
    PROVE  IInv'
<1> DEFINE msg == [from |-> c, id |-> nextId[c], cmd |-> cmd]
           own == [id |-> msg.id, end |-> cmd.op = "end"]
<1>1. /\ MayAsk(c, line) /\ nextId' = [nextId EXCEPT ![c] = @ + 1]
      /\ UNCHANGED <<fault, queues, maps, replies, settings, main, since, thread, answer,
                     viewer, asked>>
  BY DEF Ask, mainVars, threadVars, viewerVars
<1>2. /\ msg \in Messages /\ msg.from = c /\ msg.id = nextId[c] /\ nextId[c] \in Nat \ {0}
      /\ own \in [id : Nat, end : BOOLEAN] /\ own.id = nextId[c]
      /\ nextId' \in [Consoles -> Nat \ {0}] /\ nextId'[c] = nextId[c] + 1
      /\ \A d \in Consoles : d # c => nextId'[d] = nextId[d]
  BY <1>1, TypeFacts DEF Messages
<1>3. \/ /\ queues = "there" /\ cmds' = Append(cmds, msg)
         /\ console' = [console EXCEPT ![c] = line]
         /\ expected' = [expected EXCEPT ![c] = own]
      \/ /\ UNCHANGED cmds
         /\ \E to \in {"gone", "prompt"} : /\ Returns(c, to)
                                           /\ line = "last" => to = "gone"
  BY Zenon DEF Ask, RoomToAsk, After
<1>4. \/ console[c] = "prompt" /\ line \in {"stdin", "fifo"}
      \/ console[c] = "leaving" /\ line = "last"
  BY <1>1 DEF MayAsk
<1>5. Apart(c) /\ Round(c)
  BY PendingOf
<1> HIDE DEF msg, own
<1>6. CASE /\ queues = "there" /\ cmds' = Append(cmds, msg)
           /\ console' = [console EXCEPT ![c] = line]
           /\ expected' = [expected EXCEPT ![c] = own]
  <2>1. /\ cmds' \in Seq(Messages)
        /\ Len(cmds') = Len(cmds) + 1 /\ Len(cmds) \in Nat
        /\ \A i \in 1 .. Len(cmds) : cmds'[i] = cmds[i] /\ i \in 1 .. Len(cmds')
        /\ cmds'[Len(cmds) + 1] = msg
        /\ \A i \in 1 .. Len(cmds') : i \in 1 .. Len(cmds) \/ i = Len(cmds) + 1
    BY <1>2, <1>6, TypeFacts, AppendFacts
  <2>2. TypeOK'
    <3>1. console' \in [Consoles -> Places]
      BY <1>6, TypeFacts DEF Places
    <3>2. expected' \in [Consoles -> [id : Nat, end : BOOLEAN]]
      BY <1>2, <1>6, TypeFacts
    <3> QED
      BY <1>1, <1>2, <2>1, <3>1, <3>2 DEF IInv, TypeOK, Places
  <2>3. ASSUME NEW d \in Consoles, d # c
        PROVE  Apart(d)' /\ Round(d)'
    <3>1. Sent(d)' = Sent(d) /\ \A i \in Sent(d) : cmds'[i] = cmds[i]
      BY <1>2, <2>1, <2>3 DEF Sent
    <3>2. Apart(d)' /\ Ids(d)' = Ids(d)
      BY <1>1, <1>2, <2>3, <3>1, SameMessages
    <3> QED
      BY <1>6, <2>3, <3>2, TypeFacts, SameRound
  <2>4. /\ \A i \in Sent(c)' : \/ i \in Sent(c) /\ cmds'[i] = cmds[i]
                               \/ i = Len(cmds) + 1 /\ cmds'[i] = msg
        /\ Got(c)' = Got(c)
    BY <1>1, <2>1 DEF Sent, Got
  <2>5. Ids(c)' \subseteq Ids(c) \cup {nextId[c]}
    <3>1. \A i \in Sent(c)' : cmds'[i].id \in Ids(c) \cup {nextId[c]}
      BY <1>2, <2>4, IdFacts
    <3>2. /\ answer'.to = c => answer'.reply.id \in Ids(c)
          /\ \A i \in Got(c)' : replies'[c][i].id \in Ids(c)
      BY <1>1, <2>4, IdFacts
    <3> QED
      BY <3>1, <3>2 DEF Ids
  <2>6. nextId[c] \notin Ids(c) /\ \A n \in Ids(c) : n \in Nat /\ n < nextId[c] + 1
    BY <1>2, <1>5, IdsAreNumbers DEF Apart
  <2>7. Apart(c)'
    <3>1. \A i, j \in Sent(c)' : cmds'[i].id = cmds'[j].id => i = j
      BY <1>2, <1>5, <2>4, <2>6, IdFacts DEF Apart
    <3>2. \A i \in Sent(c)', j \in Got(c)' : cmds'[i].id # replies'[c][j].id
      BY <1>1, <1>2, <1>5, <2>4, <2>6, IdFacts DEF Apart
    <3>3. answer'.to = c => /\ \A i \in Sent(c)' : cmds'[i].id # answer'.reply.id
                            /\ \A i \in Got(c)' : replies'[c][i].id # answer'.reply.id
      BY <1>1, <1>2, <1>5, <2>4, <2>6, IdFacts DEF Apart
    <3>4. \A n \in Ids(c)' : n < nextId'[c]
      BY <1>2, <2>5, <2>6
    <3> QED
      BY <1>1, <1>5, <2>4, <3>1, <3>2, <3>3, <3>4 DEF Apart
  <2>8. Round(c)'
    <3>1. expected'[c].id = nextId[c] /\ console'[c] = line
      BY <1>2, <1>6, TypeFacts
    <3>2. Fits(line, nextId[c], Ids(c)')
      BY <1>4, <1>5, <2>5 DEF Round, Fits
    <3> QED
      BY <3>1, <3>2 DEF Round
  <2>9. Ends' /\ FreezeCounts'
    BY <1>1, <1>6 DEF IInv, Ends, FreezeCounts
  <2> QED
    BY <2>2, <2>3, <2>7, <2>8, <2>9 DEF IInv, Pending
<1>7. CASE UNCHANGED cmds /\ \E to \in {"gone", "prompt"} : /\ Returns(c, to)
                                                            /\ line = "last" => to = "gone"
  <2>1. PICK to \in {"gone", "prompt"} :
          /\ console' = [console EXCEPT ![c] = to]
          /\ expected' = [expected EXCEPT ![c] = NoCommand]
          /\ line = "last" => to = "gone"
    BY <1>7 DEF Returns
  <2>2. TypeOK'
    <3>1. console' \in [Consoles -> Places]
      BY <2>1, TypeFacts DEF Places
    <3>2. expected' \in [Consoles -> [id : Nat, end : BOOLEAN]]
      BY <2>1, TypeFacts DEF NoCommand
    <3> QED
      BY <1>1, <1>2, <1>7, <3>1, <3>2 DEF IInv, TypeOK, Places
  <2>3. ASSUME NEW d \in Consoles
        PROVE  Sent(d)' = Sent(d) /\ Got(d)' = Got(d) /\ Ids(d)' = Ids(d)
    BY <1>1, <1>7 DEF Sent, Got, Ids
  <2>4. ASSUME NEW d \in Consoles, d # c
        PROVE  Apart(d)' /\ Round(d)'
    <3>1. Apart(d)'
      BY <1>1, <1>2, <1>7, <2>3, <2>4, SameMessages
    <3> QED
      BY <2>1, <2>3, <2>4, <3>1, TypeFacts, SameRound
  <2>5. Apart(c)'
    <3>1. \A n \in Ids(c) : n < nextId'[c]
      BY <1>2, <1>5, IdsAreNumbers DEF Apart
    <3> QED
      BY <1>1, <1>5, <1>7, <2>3, <3>1 DEF Apart
  <2>6. Round(c)'
    <3>1. console'[c] = to
      BY <2>1, TypeFacts
    <3>2. Fits(to, expected'[c].id, Ids(c))
      BY <1>4, <1>5, <2>1 DEF Round, Fits
    <3> QED
      BY <2>3, <3>1, <3>2 DEF Round
  <2>7. Ends' /\ FreezeCounts'
    BY <1>1, <1>7 DEF IInv, Ends, FreezeCounts
  <2> QED
    BY <2>2, <2>4, <2>5, <2>6, <2>7 DEF IInv, Pending
<1> QED
  BY <1>3, <1>6, <1>7

\* A wait ends with the reply it was for, the only thing on the way, unless the
\* console has been told to stop: then it leaves.
LEMMA ReceiveStep ==
    ASSUME IInv, NEW c \in Consoles, Receive(c)
    PROVE  IInv'
<1>1. /\ console[c] \in {"stdin", "fifo", "last"} /\ replies[c] # <<>>
      /\ replies' = [replies EXCEPT ![c] = Tail(@)]
      /\ UNCHANGED <<fault, queues, cmds, maps, settings, main, since, thread, answer,
                     nextId, viewer, asked>>
  BY DEF Receive, Waits, mainVars, threadVars, viewerVars
<1>2. PICK to \in {"gone", "prompt"} :
        /\ console' = [console EXCEPT ![c] = to]
        /\ expected' = [expected EXCEPT ![c] = NoCommand]
        /\ console[c] = "last" => to = "gone"
  BY DEF Receive, Returns, After
<1>3. /\ Tail(replies[c]) \in Seq(Notices)
      /\ Len(Tail(replies[c])) = Len(replies[c]) - 1 /\ Len(replies[c]) \in Nat \ {0}
      /\ \A i \in 1 .. Len(replies[c]) - 1 : Tail(replies[c])[i] = replies[c][i + 1]
  BY <1>1, TypeFacts, TailFacts
<1>4. /\ replies' \in [FrontEnds -> Seq(Notices)] /\ replies'[c] = Tail(replies[c])
      /\ \A d \in FrontEnds : d # c => replies'[d] = replies[d]
  BY <1>1, <1>3, TypeFacts
<1>5. TypeOK'
  <2>1. console' \in [Consoles -> Places]
    BY <1>2, TypeFacts DEF Places
  <2>2. expected' \in [Consoles -> [id : Nat, end : BOOLEAN]]
    BY <1>2, TypeFacts DEF NoCommand
  <2> QED
    BY <1>1, <1>4, <2>1, <2>2 DEF IInv, TypeOK, Places
<1>6. ASSUME NEW d \in Consoles, d # c
      PROVE  Apart(d)' /\ Round(d)'
  <2>1. Sent(d)' = Sent(d) /\ replies'[d] = replies[d]
    BY <1>1, <1>4, <1>6, TypeFacts DEF Sent
  <2>2. Apart(d)' /\ Ids(d)' = Ids(d)
    BY <1>1, <2>1, SameMessages
  <2> QED
    BY <1>2, <1>6, <2>2, TypeFacts, SameRound
<1>7. /\ Sent(c)' = Sent(c) /\ 1 \in Got(c)
      /\ \A i \in Got(c)' : /\ i + 1 \in Got(c) /\ replies'[c][i] = replies[c][i + 1]
                            /\ i + 1 # 1 /\ i \in Int
  BY <1>1, <1>3, <1>4 DEF Sent, Got
<1>8. Apart(c) /\ Round(c)
  BY PendingOf
<1>9. Ids(c)' \subseteq Ids(c) \ {replies[c][1].id}
  <2>1. \A i \in Got(c)' : replies'[c][i].id \in Ids(c) \ {replies[c][1].id}
    BY <1>7, <1>8, IdFacts DEF Apart
  <2>2. \A i \in Sent(c)' : cmds'[i].id \in Ids(c) \ {replies[c][1].id}
    BY <1>1, <1>7, <1>8, IdFacts DEF Apart
  <2>3. answer'.to = c => answer'.reply.id \in Ids(c) \ {replies[c][1].id}
    BY <1>1, <1>7, <1>8, IdFacts DEF Apart
  <2> QED
    BY <2>1, <2>2, <2>3 DEF Ids
<1>10. Apart(c)'
  <2>1. \A i, j \in Got(c)' : replies'[c][i].id = replies'[c][j].id => i = j
    <3> SUFFICES ASSUME NEW i \in Got(c)', NEW j \in Got(c)', replies'[c][i].id = replies'[c][j].id
                 PROVE  i = j
      OBVIOUS
    <3>1. i + 1 = j + 1
      BY <1>7, <1>8 DEF Apart
    <3> QED
      BY <1>7, <3>1
  <2>2. \A i \in Sent(c)', j \in Got(c)' : cmds'[i].id # replies'[c][j].id
    <3> SUFFICES ASSUME NEW i \in Sent(c)', NEW j \in Got(c)'
                 PROVE  cmds'[i].id # replies'[c][j].id
      OBVIOUS
    <3>1. i \in Sent(c) /\ cmds'[i] = cmds[i]
      BY <1>1, <1>7
    <3>2. j + 1 \in Got(c) /\ replies'[c][j] = replies[c][j + 1]
      BY <1>7
    <3> QED
      BY <1>8, <3>1, <3>2 DEF Apart
  <2>3. answer'.to = c => /\ \A i \in Sent(c)' : cmds'[i].id # answer'.reply.id
                          /\ \A i \in Got(c)' : replies'[c][i].id # answer'.reply.id
    <3>1. /\ \A i \in Sent(c)' : i \in Sent(c) /\ cmds'[i] = cmds[i]
          /\ answer' = answer
      BY <1>1, <1>7
    <3>2. answer'.to = c => \A i \in Sent(c)' : cmds'[i].id # answer'.reply.id
      BY <1>8, <3>1 DEF Apart
    <3>3. answer'.to = c => \A i \in Got(c)' : replies'[c][i].id # answer'.reply.id
      BY <1>7, <1>8, <3>1 DEF Apart
    <3> QED
      BY <3>2, <3>3
  <2>4. /\ \A i, j \in Sent(c)' : cmds'[i].id = cmds'[j].id => i = j
        /\ \A n \in Ids(c)' : n < nextId'[c]
    BY <1>1, <1>7, <1>8, <1>9 DEF Apart
  <2> QED
    BY <2>1, <2>2, <2>3, <2>4 DEF Apart
<1>11. Round(c)'
  <2>1. console'[c] = to
    BY <1>2, TypeFacts
  <2>2. CASE console[c] = "last"
    BY <1>2, <2>1, <2>2 DEF Round, Fits
  <2>3. CASE console[c] \in {"stdin", "fifo"}
    <3>1. replies[c][1].id \in Ids(c) /\ Ids(c) \subseteq {expected[c].id}
      BY <1>7, <1>8, <2>3, IdFacts DEF Round, Fits
    <3>2. Ids(c)' = {}
      BY <1>9, <3>1
    <3> QED
      BY <2>1, <3>2 DEF Round, Fits
  <2> QED
    BY <1>1, <2>2, <2>3
<1>12. queues # "gone"
  BY <1>1, TypeFacts DEF IInv, Ends
<1>13. Ends' /\ FreezeCounts'
  BY <1>1, <1>12 DEF IInv, Ends, FreezeCounts
<1> QED
  BY <1>5, <1>6, <1>10, <1>11, <1>13 DEF IInv, Pending

\* A signal during the wait for the first answer leaves that one under way;
\* a console whose queue is gone has nothing on the way.
LEMMA LeaveStep ==
    ASSUME IInv, NEW c \in Consoles, Broken(c) \/ Signal(c) \/ Quit(c)
    PROVE  IInv'
<1>1. UNCHANGED <<fault, queues, cmds, maps, replies, settings, main, since, thread, answer,
                  nextId, viewer, asked>>
  BY DEF Broken, Signal, Quit, queueVars, mainVars, threadVars, viewerVars
<1>2. PICK to \in {"gone", "prompt", "leaving"} :
        /\ console' = [console EXCEPT ![c] = to]
        /\ expected' = [expected EXCEPT ![c] = NoCommand]
        /\ to = "prompt" => queues = "gone"
        /\ to = "leaving" => console[c] \in {"prompt", "stdin", "leaving"}
  BY DEF Broken, Signal, Quit, Returns, After
<1>3. ASSUME NEW d \in Consoles
      PROVE  Sent(d)' = Sent(d) /\ Apart(d)' /\ Ids(d)' = Ids(d)
  <2>1. Sent(d)' = Sent(d)
    BY <1>1 DEF Sent
  <2> QED
    BY <1>1, <2>1, SameMessages
<1>4. TypeOK'
  <2>1. console' \in [Consoles -> Places]
    BY <1>2, TypeFacts DEF Places
  <2>2. expected' \in [Consoles -> [id : Nat, end : BOOLEAN]]
    BY <1>2, TypeFacts DEF NoCommand
  <2> QED
    BY <1>1, <2>1, <2>2 DEF IInv, TypeOK, Places
<1>5. ASSUME NEW d \in Consoles, d # c
      PROVE  Round(d)'
  BY <1>2, <1>3, <1>5, TypeFacts, SameRound
<1>6. Round(c)'
  <2>1. console'[c] = to /\ Round(c)
    BY <1>2, TypeFacts, PendingOf
  <2>2. queues = "gone" => Ids(c) = {}
    <3>1. queues = "gone" => cmds = <<>> /\ replies[c] = <<>> /\ answer = NoAnswer
      BY TypeFacts DEF IInv, Ends
    <3> QED
      BY <3>1, NoAnswerFacts, IdFacts DEF Sent, Got
  <2>3. Fits(to, expected'[c].id, Ids(c))
    BY <1>2, <2>1, <2>2 DEF Round, Fits
  <2> QED
    BY <1>3, <2>1, <2>3 DEF Round
<1>7. Ends' /\ FreezeCounts'
  BY <1>1 DEF IInv, Ends, FreezeCounts
<1> QED
  BY <1>3, <1>4, <1>5, <1>6, <1>7 DEF IInv, Pending

LEMMA DestroyStep ==
    ASSUME IInv, Destroy
    PROVE  IInv'
<1>1. /\ main = "shutdown" /\ main' = "gone" /\ queues' = "gone"
      /\ cmds' = <<>> /\ maps' = <<>> /\ replies' = [f \in FrontEnds |-> <<>>]
      /\ UNCHANGED <<fault, settings, since, thread, answer, console, expected, nextId,
                     viewer, asked>>
  BY DEF Destroy, threadVars, consoleVars, viewerVars
<1>2. /\ cmds' \in Seq(Messages) /\ maps' \in Seq(Viewers) /\ Len(cmds') = 0
      /\ replies' \in [FrontEnds -> Seq(Notices)]
      /\ \A f \in FrontEnds : replies'[f] = <<>> /\ Len(replies'[f]) = 0
  BY <1>1, EmptyFacts, TypeFacts
<1>3. \A c \in Consoles : answer'.to # c /\ c \in FrontEnds
  BY <1>1, TypeFacts, NoAnswerFacts DEF IInv, Ends
<1>4. TypeOK'
  BY <1>1, <1>2 DEF IInv, TypeOK
<1>5. ASSUME NEW c \in Consoles
      PROVE  Apart(c)' /\ Round(c)'
  <2>1. Sent(c)' = {} /\ Got(c)' = {} /\ answer'.to # c
    BY <1>2, <1>3 DEF Sent, Got
  <2>2. Ids(c)' = {}
    BY <2>1 DEF Ids
  <2> QED
    BY <2>1, <2>2 DEF Apart, Round, Fits
<1>6. Ends' /\ FreezeCounts'
  BY <1>1, <1>2 DEF IInv, Ends, FreezeCounts
<1> QED
  BY <1>4, <1>5, <1>6 DEF IInv, Pending

LEMMA InitIInv == Init => IInv
<1> SUFFICES ASSUME Init PROVE IInv
  OBVIOUS
<1>1. settings \in Settings /\ ~settings.frozen
  BY Constants DEF Init, Settings
<1>2. /\ cmds = <<>> /\ Len(cmds) = 0 /\ cmds \in Seq(Messages) /\ maps \in Seq(Viewers)
      /\ replies \in [FrontEnds -> Seq(Notices)]
      /\ \A f \in FrontEnds : replies[f] = <<>> /\ Len(replies[f]) = 0
  BY EmptyFacts DEF Init
<1>3. thread \in {"none", "cmd"} /\ fault \in {"none", "lost", "thread"}
  BY ConsoleAssumption DEF Init
<1>4. TypeOK
  BY <1>1, <1>2, <1>3, ConsoleAssumption DEF Init, TypeOK, Settings, NoCommand
<1>5. ASSUME NEW c \in Consoles
      PROVE  Apart(c) /\ Round(c)
  <2>1. Sent(c) = {} /\ Got(c) = {} /\ answer.to # c
    BY <1>2, NoAnswerFacts DEF Init, Sent, Got, FrontEnds
  <2>2. Ids(c) = {}
    BY <2>1 DEF Ids
  <2> QED
    BY <2>1, <2>2 DEF Apart, Round, Fits
<1>6. Ends /\ FreezeCounts
  BY <1>1, <1>3 DEF Init, Ends, FreezeCounts
<1> QED
  BY <1>4, <1>5, <1>6 DEF IInv, Pending

LEMMA NextStep ==
    ASSUME IInv, [Next]_vars
    PROVE  IInv'
<1>1. CASE UNCHANGED vars
  <2>1. UNCHANGED <<fault, queues, cmds, maps, replies, settings, main, since, thread, answer,
                    console, expected, nextId, viewer, asked>>
    BY <1>1 DEF vars, queueVars, mainVars, threadVars, consoleVars, viewerVars
  <2>2. TypeOK'
    BY <2>1 DEF IInv, TypeOK
  <2>3. Ends' /\ FreezeCounts'
    BY <2>1 DEF IInv, Ends, FreezeCounts
  <2> QED
    BY <2>1, <2>2, <2>3, SamePending DEF IInv
<1>2. CASE Thread
  BY <1>2, ThreadStep, HandleStep, ReplyStep, ServeMapStep DEF Thread
<1>3. CASE Main
  BY <1>3, MainStep, DestroyStep DEF Main
<1>4. CASE StopBySignal
  BY <1>4, MainStep
<1>5. ASSUME NEW c \in Consoles,
             \/ \E line \in {"stdin", "fifo", "last"}, cmd \in Commands : Ask(c, line, cmd)
             \/ Receive(c) \/ Broken(c) \/ Signal(c) \/ Quit(c)
      PROVE  IInv'
  BY <1>5, AskStep, ReceiveStep, LeaveStep
<1>6. ASSUME NEW v \in Viewers, AskMap(v) \/ ReceiveMap(v) \/ LeaveMap(v)
      PROVE  IInv'
  BY <1>6, ViewerStep
<1> QED
  BY <1>1, <1>2, <1>3, <1>4, <1>5, <1>6 DEF Next

-----------------------------------------------------------------------------
(* The theorems *)

\* What each console has under way, where the main thread is, and how many
\* ticks have begun since a freeze.
THEOREM Invariant == Spec => []IInv
<1>1. IInv /\ [Next]_vars => IInv'
  BY NextStep
<1> QED
  BY InitIInv, <1>1, PTL DEF Spec

\* Types, for any number of consoles and viewers and any size of the queues.
THEOREM TypeCorrect == Spec => []TypeOK
<1>1. IInv => TypeOK
  BY DEF IInv
<1> QED
  BY Invariant, <1>1, PTL

\* The mismatch branch of send_and_wait is left to a console that has been told
\* to stop, in its last wait, and one stale answer is all it can meet there,
\* however messages get lost.
THEOREM RepliesAlwaysMatch == Spec => []RepliesMatch
<1>1. IInv => RepliesMatch
  <2> SUFFICES ASSUME IInv, NEW c \in Consoles
               PROVE  LET others == {i \in Got(c) : replies[c][i].id # expected[c].id}
                      IN  /\ console[c] = "prompt" => replies[c] = <<>> /\ answer.to # c
                          /\ console[c] \in {"stdin", "fifo"} => others = {}
                          /\ console[c] \in {"leaving", "last"} => \A i, j \in others : i = j
    BY DEF RepliesMatch, Got
  <2>1. Apart(c) /\ Round(c) /\ replies[c] \in Seq(Notices)
    BY TypeFacts, PendingOf
  <2>2. ASSUME console[c] = "prompt"
        PROVE  replies[c] = <<>> /\ answer.to # c
    <3>1. Ids(c) = {}
      BY <2>1, <2>2 DEF Round, Fits
    <3>2. Got(c) = {} /\ answer.to # c
      BY <3>1, IdFacts
    <3>3. Len(replies[c]) \in Nat /\ (replies[c] = <<>> <=> Len(replies[c]) = 0)
      BY <2>1, EmptyFacts
    <3>4. Len(replies[c]) = 0
      <4> DEFINE n == Len(replies[c])
      <4>1. n \in Nat /\ 1 .. n = {}
        BY <3>2, <3>3 DEF Got
      <4> HIDE DEF n
      <4>2. n = 0
        BY <4>1
      <4> QED
        BY <4>2 DEF n
    <3> QED
      BY <3>2, <3>3, <3>4
  <2>3. ASSUME console[c] \in {"stdin", "fifo"}, NEW i \in Got(c)
        PROVE  replies[c][i].id = expected[c].id
    BY <2>1, <2>3, IdFacts DEF Round, Fits
  <2>4. ASSUME console[c] \in {"leaving", "last"},
               NEW i \in Got(c), NEW j \in Got(c),
               replies[c][i].id # expected[c].id, replies[c][j].id # expected[c].id
        PROVE  i = j
    <3>1. replies[c][i].id = replies[c][j].id
      BY <2>1, <2>4, IdFacts DEF Round, Fits
    <3> QED
      BY <2>1, <3>1 DEF Apart
  <2> QED
    BY <2>2, <2>3, <2>4
<1> QED
  BY Invariant, <1>1, PTL

\* A freeze that has been handled lets at most one more tick begin.
THEOREM FreezesWithinOneTick == Spec => []FrozenWithinOneTick
<1>1. IInv => FrozenWithinOneTick
  BY DEF IInv, FreezeCounts, FrozenWithinOneTick
<1> QED
  BY Invariant, <1>1, PTL

-----------------------------------------------------------------------------
(* CC implements Control *)

\* what a command does and answers is what Control says
LEMMA EffectIs ==
    ASSUME NEW cmd
    PROVE  SettingsAfter(cmd) = Abstract!Effect(settings, cmd.cmd)
<1>1. CASE cmd.cmd.op \in {"freeze", "unfreeze", "setgrid", "end"}
  BY <1>1 DEF SettingsAfter, Abstract!Effect, SetsSpeed
<1>2. CASE SetsSpeed(cmd)
  BY <1>2 DEF SettingsAfter, Abstract!Effect, SetsSpeed
<1>3. CASE /\ cmd.cmd.op \notin {"freeze", "unfreeze", "setgrid", "end"}
           /\ ~SetsSpeed(cmd)
  BY <1>3 DEF SettingsAfter, Abstract!Effect, SetsSpeed
<1> QED
  BY <1>1, <1>2, <1>3

LEMMA AnswerIs ==
    ASSUME settings \in Settings, NEW cmd \in Messages
    PROVE  Answer(cmd) = Abstract!AnswerTo(settings, cmd)
<1> DEFINE refused == cmd.cmd.op = "setspeed" /\ cmd.cmd.value \notin 0 .. MaxSpeed
           value == CASE cmd.cmd.op = "getspeed" -> settings.speed
                      [] cmd.cmd.op \in {"getgrid", "setgrid"} ->
                           Abstract!Effect(settings, cmd.cmd).grid
                      [] OTHER -> 0
<1>1. Abstract!Result(settings, cmd.cmd) = [ok |-> ~refused, value |-> value]
  BY Zenon DEF Abstract!Result
<1>2. Answer(cmd) = Response(cmd, ~refused, value)
  <2>1. CASE cmd.cmd.op = "getspeed"
    <3>1. ~refused = TRUE
      BY <2>1, Zenon
    <3>2. value = settings.speed /\ Answer(cmd) = Response(cmd, TRUE, settings.speed)
      BY <2>1 DEF Answer
    <3> QED
      BY <3>1, <3>2, Zenon
  <2>2. CASE cmd.cmd.op \in {"getgrid", "setgrid"}
    <3>1. ~refused = TRUE
      BY <2>2, Zenon
    <3>2. value = Abstract!Effect(settings, cmd.cmd).grid
      BY <2>2
    <3>3. CASE cmd.cmd.op = "getgrid"
      <4>1. Abstract!Effect(settings, cmd.cmd) = settings
        BY <3>3 DEF Abstract!Effect
      <4>2. Answer(cmd) = Response(cmd, TRUE, settings.grid)
        BY <3>3 DEF Answer
      <4> QED
        BY <3>1, <3>2, <4>1, <4>2, Zenon
    <3>4. CASE cmd.cmd.op = "setgrid"
      <4>1. Abstract!Effect(settings, cmd.cmd) = [settings EXCEPT !.grid = cmd.cmd.value]
        BY <3>4 DEF Abstract!Effect
      <4>2. Answer(cmd) = Response(cmd, TRUE, cmd.cmd.value)
        BY <3>4 DEF Answer
      <4>3. value = cmd.cmd.value
        BY <3>2, <4>1 DEF Settings
      <4> QED
        BY <3>1, <4>2, <4>3, Zenon
    <3> QED
      BY <2>2, <3>3, <3>4
  <2>3. CASE cmd.cmd.op \notin {"getspeed", "getgrid", "setgrid"}
    <3>1. ~refused = (cmd.cmd.op = "setspeed" => SetsSpeed(cmd))
      BY Zenon DEF SetsSpeed
    <3>2. value = 0
      BY <2>3
    <3>3. Answer(cmd) = Response(cmd, cmd.cmd.op = "setspeed" => SetsSpeed(cmd), 0)
      BY <2>3, Zenon DEF Answer
    <3> QED
      BY <3>1, <3>2, <3>3, Zenon
  <2> QED
    BY <2>1, <2>2, <2>3
<1> QED
  BY <1>1, <1>2, Zenon DEF Response, Abstract!AnswerTo
\* the abstract state, at hand
Abstracted == <<settings, Asked, Given \cup Arrived, Leaving, nextId>>

\* One reply more or less for one console.
LEMMA ArrivedIs ==
    /\ \A a : a \in Arrived <=>
          \E c \in Consoles : \E i \in Got(c) : a = [to |-> c, reply |-> replies[c][i]]
    /\ \A a : a \in Arrived' <=>
          \E c \in Consoles : \E i \in Got(c)' : a = [to |-> c, reply |-> replies'[c][i]]
BY DEF Arrived, Got

LEMMA SameAbstract ==
    ASSUME UNCHANGED <<cmds, answer>>, \A c \in Consoles : replies'[c] = replies[c]
    PROVE  Asked' = Asked /\ Given' = Given /\ Arrived' = Arrived
<1>1. \A c \in Consoles : Got(c)' = Got(c)
  BY DEF Got
<1>2. \A a : a \in Arrived' <=> a \in Arrived
  BY <1>1, ArrivedIs
<1> QED
  BY <1>2 DEF Asked, Given

Left == {"leaving", "last", "gone"}

\* A console moves, but not back from where it leaves.
LEMMA LeavingMoves ==
    ASSUME IInv, NEW c \in Consoles, NEW to, console' = [console EXCEPT ![c] = to],
           console[c] \in Left => to \in Left
    PROVE  /\ Leaving' \in {Leaving, Leaving \cup {c}}
           /\ console[c] \in Left \/ to \notin Left => Leaving' = Leaving
<1>1. /\ console'[c] = to
      /\ \A d \in Consoles : d # c => console'[d] = console[d]
  BY TypeFacts
<1>2. CASE to \in Left
  <2>1. Leaving' = Leaving \cup {c}
    BY <1>1, <1>2 DEF Leaving, Left
  <2>2. console[c] \in Left => c \in Leaving
    BY DEF Leaving, Left
  <2> QED
    BY <1>2, <2>1, <2>2
<1>3. CASE to \notin Left
  BY <1>1, <1>3 DEF Leaving, Left
<1> QED
  BY <1>2, <1>3

\* Handling a command is the moment it takes effect.
LEMMA HandleMaps ==
    ASSUME IInv, HandleCommand
    PROVE  \E msg \in Asked : Abstract!Apply(msg)
<1> DEFINE cmd == Head(cmds)
<1>1. /\ thread = "cmd" /\ cmds # <<>> /\ cmds' = Tail(cmds)
      /\ settings' = SettingsAfter(cmd) /\ answer' = Answer(cmd)
      /\ UNCHANGED <<replies, console, nextId>>
  BY DEF HandleCommand, consoleVars
<1>2. /\ Len(cmds') = Len(cmds) - 1 /\ Len(cmds) \in Nat \ {0}
      /\ \A i \in 1 .. Len(cmds') : cmds'[i] = cmds[i + 1] /\ i + 1 \in 1 .. Len(cmds) /\ i + 1 # 1
      /\ cmd = cmds[1] /\ cmd \in Messages /\ 1 \in 1 .. Len(cmds)
  BY <1>1, TypeFacts, TailFacts
<1>3. settings \in Settings /\ cmd.from \in Consoles
  BY <1>2, TypeFacts DEF Messages
<1> HIDE DEF cmd
<1>4. cmd \in Asked
  BY <1>2 DEF Asked
<1>5. Asked' = Asked \ {cmd}
  <2>1. ASSUME NEW i \in 1 .. Len(cmds'), cmds'[i] = cmd
        PROVE  FALSE
    <3>1. i + 1 \in Sent(cmd.from) /\ 1 \in Sent(cmd.from) /\ cmds[i + 1].id = cmds[1].id
      BY <1>2, <2>1 DEF Sent
    <3> QED
      BY <1>2, <1>3, <3>1, PendingOf DEF Apart
  <2>2. ASSUME NEW i \in 1 .. Len(cmds), cmds[i] # cmd
        PROVE  \E j \in 1 .. Len(cmds') : cmds'[j] = cmds[i]
    <3>1. i # 1
      BY <1>2, <2>2
    <3>2. i - 1 \in 1 .. Len(cmds') /\ (i - 1) + 1 = i
      BY <1>2, <3>1
    <3>3. cmds'[i - 1] = cmds[i]
      BY <1>2, <3>2
    <3> QED
      BY <3>2, <3>3
  <2>3. ASSUME NEW m \in Asked' PROVE m \in Asked /\ m # cmd
    BY <1>2, <2>1, <2>3 DEF Asked
  <2>4. ASSUME NEW m \in Asked, m # cmd PROVE m \in Asked'
    BY <2>2, <2>4 DEF Asked
  <2> QED
    BY <2>3, <2>4
<1>6. Given = {} /\ Given' = {Abstract!AnswerTo(settings, cmd)}
  <2>1. answer = NoAnswer
    BY <1>1 DEF IInv, Ends
  <2>2. answer' = Abstract!AnswerTo(settings, cmd) /\ answer' # NoAnswer
    BY <1>1, <1>2, <1>3, AnswerIs, AnswerFacts, NoAnswerFacts
  <2> QED
    BY <2>1, <2>2 DEF Given
<1>7. Arrived' = Arrived /\ Leaving' = Leaving
  BY <1>1 DEF Arrived, Leaving
<1>8. settings' = Abstract!Effect(settings, cmd.cmd)
  BY <1>1, EffectIs
<1> QED
  BY <1>1, <1>4, <1>5, <1>6, <1>7, <1>8 DEF Abstract!Apply

\* The reply arrives in the queue, which changes nothing, or is lost.
LEMMA ReplyMaps ==
    ASSUME IInv, Reply
    PROVE  UNCHANGED Abstracted \/ \E a \in Given \cup Arrived : Abstract!Return(a)
<1>1. /\ thread = "reply" /\ Sends(answer.to, answer.reply)
      /\ answer' = NoAnswer /\ UNCHANGED <<cmds, settings, console, nextId>>
  BY DEF Reply, consoleVars
<1>2. answer \in [to : Consoles, reply : Notices] /\ answer # NoAnswer
  BY <1>1, TypeFacts DEF IInv, Ends
<1>3. PICK c \in Consoles : /\ c = answer.to /\ c \in FrontEnds /\ answer.reply \in Notices
                           /\ answer = [to |-> c, reply |-> answer.reply]
  BY <1>2, TypeFacts
<1>4. /\ \A f \in FrontEnds : f # c => replies'[f] = replies[f]
      /\ replies'[c] = replies[c] \/ replies'[c] = Append(replies[c], answer.reply)
  BY <1>1, <1>3, TypeFacts, SendsFacts
<1>5. Given = {answer} /\ Given' = {} /\ Asked' = Asked /\ Leaving' = Leaving
  BY <1>1, <1>2 DEF Given, Asked, Leaving
<1>6. \A d \in Consoles : d # c => replies'[d] = replies[d] /\ Got(d)' = Got(d)
  BY <1>4, TypeFacts DEF Got
<1>7. CASE replies'[c] = replies[c]
  <2>1. \A d \in Consoles : replies'[d] = replies[d] /\ Got(d)' = Got(d)
    BY <1>6, <1>7 DEF Got
  <2>2. \A a : a \in Arrived' <=> a \in Arrived
    BY <2>1, ArrivedIs
  <2>3. answer \notin Arrived
    <3> SUFFICES ASSUME NEW d \in Consoles, NEW i \in Got(d),
                        answer = [to |-> d, reply |-> replies[d][i]]
                 PROVE  FALSE
      BY ArrivedIs
    <3>1. answer.to = d /\ answer.reply = replies[d][i]
      OBVIOUS
    <3> QED
      BY <3>1, PendingOf DEF Apart
  <2>4. (Given \cup Arrived)' = (Given \cup Arrived) \ {answer} /\ answer \in Given \cup Arrived
    BY <1>5, <2>2, <2>3
  <2> QED
    BY <1>1, <1>5, <2>4 DEF Abstract!Return, Abstract!MayLeave
<1>8. CASE replies'[c] = Append(replies[c], answer.reply)
  <2>1. /\ Len(replies'[c]) = Len(replies[c]) + 1 /\ Len(replies[c]) \in Nat
        /\ \A i \in 1 .. Len(replies[c]) : replies'[c][i] = replies[c][i]
        /\ replies'[c][Len(replies[c]) + 1] = answer.reply
    BY <1>3, <1>8, TypeFacts, AppendFacts
  <2>2. /\ \A i \in Got(c) : i \in Got(c)' /\ replies'[c][i] = replies[c][i]
        /\ Len(replies[c]) + 1 \in Got(c)'
        /\ \A i \in Got(c)' : i \in Got(c) \/ i = Len(replies[c]) + 1
    BY <2>1 DEF Got
  <2>3. ASSUME NEW a \in Arrived PROVE a \in Arrived'
    <3>1. PICK d \in Consoles : \E i \in Got(d) : a = [to |-> d, reply |-> replies[d][i]]
      BY ArrivedIs
    <3>2. PICK i \in Got(d) : a = [to |-> d, reply |-> replies[d][i]]
      BY <3>1
    <3>3. i \in Got(d)' /\ replies'[d][i] = replies[d][i]
      BY <1>6, <2>2
    <3> QED
      BY <3>2, <3>3, ArrivedIs
  <2>4. answer \in Arrived'
    <3>1. answer = [to |-> c, reply |-> replies'[c][Len(replies[c]) + 1]]
      BY <1>3, <2>1
    <3> QED
      BY <1>3, <2>2, <3>1, ArrivedIs
  <2>5. ASSUME NEW a \in Arrived' PROVE a \in Arrived \/ a = answer
    <3>1. PICK d \in Consoles : \E i \in Got(d)' : a = [to |-> d, reply |-> replies'[d][i]]
      BY ArrivedIs
    <3>2. PICK i \in Got(d)' : a = [to |-> d, reply |-> replies'[d][i]]
      BY <3>1
    <3>3. CASE d # c \/ i \in Got(c)
      <4>1. i \in Got(d) /\ replies'[d][i] = replies[d][i]
        BY <1>6, <2>2, <3>3
      <4> QED
        BY <3>2, <4>1, ArrivedIs
    <3>4. CASE d = c /\ i = Len(replies[c]) + 1
      BY <1>3, <2>1, <3>2, <3>4
    <3> QED
      BY <2>2, <3>3, <3>4
  <2>6. (Given \cup Arrived)' = Given \cup Arrived
    BY <1>5, <2>3, <2>4, <2>5
  <2> QED
    BY <1>1, <1>5, <2>6 DEF Abstracted
<1> QED
  BY <1>4, <1>7, <1>8

\* The console takes a reply.
LEMMA ReceiveMaps ==
    ASSUME IInv, NEW c \in Consoles, Receive(c)
    PROVE  \E a \in Given \cup Arrived : Abstract!Return(a)
<1> DEFINE a == [to |-> c, reply |-> replies[c][1]]
<1>1. /\ console[c] \in {"stdin", "fifo", "last"} /\ replies[c] # <<>>
      /\ replies' = [replies EXCEPT ![c] = Tail(@)]
      /\ UNCHANGED <<cmds, answer, settings, nextId>>
  BY DEF Receive, Waits, threadVars
<1>2. PICK to \in {"gone", "prompt"} :
        console' = [console EXCEPT ![c] = to] /\ (console[c] = "last" => to = "gone")
  BY DEF Receive, Returns, After
<1>3. Leaving' \in {Leaving, Leaving \cup {c}}
  BY <1>1, <1>2, LeavingMoves DEF Left
<1>4. /\ Len(Tail(replies[c])) = Len(replies[c]) - 1 /\ Len(replies[c]) \in Nat \ {0}
      /\ \A i \in 1 .. Len(replies[c]) - 1 : Tail(replies[c])[i] = replies[c][i + 1]
  BY <1>1, TypeFacts, TailFacts
<1>5. /\ replies'[c] = Tail(replies[c])
      /\ \A d \in Consoles : d # c => replies'[d] = replies[d] /\ Got(d)' = Got(d)
  BY <1>1, TypeFacts DEF Got
<1>6. /\ 1 \in Got(c)
      /\ \A i \in Got(c)' : i + 1 \in Got(c) /\ i + 1 # 1 /\ replies'[c][i] = replies[c][i + 1]
      /\ \A i \in Got(c) : i # 1 => i - 1 \in Got(c)' /\ replies'[c][i - 1] = replies[c][i]
  BY <1>4, <1>5 DEF Got
<1>7. a.to = c /\ a.reply = replies[c][1] /\ a \in Arrived
  BY <1>6, ArrivedIs
<1> HIDE DEF a
<1>8. a \notin Given
  BY <1>6, <1>7, PendingOf DEF Apart, Given
<1>9. ASSUME NEW b \in Arrived' PROVE b \in Arrived /\ b # a
  <2>1. PICK d \in Consoles : \E i \in Got(d)' : b = [to |-> d, reply |-> replies'[d][i]]
    BY ArrivedIs
  <2>2. PICK i \in Got(d)' : b = [to |-> d, reply |-> replies'[d][i]]
    BY <2>1
  <2>3. b.to = d /\ b.reply = replies'[d][i]
    BY <2>2
  <2>4. CASE d # c
    <3>1. i \in Got(d) /\ replies'[d][i] = replies[d][i]
      BY <1>5, <2>4
    <3> QED
      BY <1>7, <2>2, <2>3, <2>4, <3>1, ArrivedIs
  <2>5. CASE d = c
    <3>1. i + 1 \in Got(c) /\ i + 1 # 1 /\ replies'[c][i] = replies[c][i + 1]
      BY <1>6, <2>5
    <3>2. replies[c][i + 1].id # replies[c][1].id
      BY <1>6, <3>1, PendingOf DEF Apart
    <3> QED
      BY <1>7, <2>2, <2>3, <2>5, <3>1, <3>2, ArrivedIs
  <2> QED
    BY <2>4, <2>5
<1>10. ASSUME NEW b \in Arrived, b # a PROVE b \in Arrived'
  <2>1. PICK d \in Consoles : \E i \in Got(d) : b = [to |-> d, reply |-> replies[d][i]]
    BY ArrivedIs
  <2>2. PICK i \in Got(d) : b = [to |-> d, reply |-> replies[d][i]]
    BY <2>1
  <2>3. CASE d # c
    <3>1. i \in Got(d)' /\ replies'[d][i] = replies[d][i]
      BY <1>5, <2>3
    <3> QED
      BY <2>2, <3>1, ArrivedIs
  <2>4. CASE d = c
    <3>1. i # 1
      BY <1>10, <2>2, <2>4 DEF a
    <3>2. i - 1 \in Got(c)' /\ replies'[c][i - 1] = replies[c][i]
      BY <1>6, <2>4, <3>1
    <3> QED
      BY <2>2, <2>4, <3>2, ArrivedIs
  <2> QED
    BY <2>3, <2>4
<1>11. /\ Given' = Given /\ Asked' = Asked
       /\ (Given \cup Arrived)' = (Given \cup Arrived) \ {a}
  <2>1. Given' = Given /\ Asked' = Asked
    BY <1>1 DEF Given, Asked
  <2> QED
    BY <1>8, <1>9, <1>10, <2>1
<1> QED
  BY <1>1, <1>3, <1>7, <1>11 DEF Abstract!Return, Abstract!MayLeave

\* A command that gets into the queue is a call.
LEMMA AskMaps ==
    ASSUME IInv, NEW c \in Consoles, NEW line \in {"stdin", "fifo", "last"}, NEW cmd \in Commands,
           Ask(c, line, cmd)
    PROVE  Abstract!Call(c, cmd) \/ Abstract!Fail(c)
<1> DEFINE msg == [from |-> c, id |-> nextId[c], cmd |-> cmd]
<1>1. /\ MayAsk(c, line) /\ nextId' = [nextId EXCEPT ![c] = @ + 1]
      /\ UNCHANGED <<replies, answer, settings>>
  BY DEF Ask, threadVars
<1>2. \/ cmds' = Append(cmds, msg) /\ console' = [console EXCEPT ![c] = line]
      \/ /\ UNCHANGED cmds
         /\ \E to \in {"gone", "prompt"} : /\ console' = [console EXCEPT ![c] = to]
                                           /\ line = "last" => to = "gone"
  BY Zenon DEF Ask, Returns, After
<1>3. \/ console[c] = "prompt" /\ line \in {"stdin", "fifo"}
      \/ console[c] = "leaving" /\ line = "last"
  BY <1>1 DEF MayAsk
<1>4. Given' = Given /\ Arrived' = Arrived
  BY <1>1 DEF Given, Arrived
<1>5. CASE cmds' = Append(cmds, msg) /\ console' = [console EXCEPT ![c] = line]
  <2>1. Leaving' = Leaving
    BY <1>3, <1>5, LeavingMoves DEF Left
  <2>2. Asked' = Asked \cup {msg}
    <3>1. msg \in Messages
      BY TypeFacts DEF Messages
    <3> HIDE DEF msg
    <3>2. /\ Len(cmds') = Len(cmds) + 1 /\ Len(cmds) \in Nat
          /\ \A i \in 1 .. Len(cmds) : cmds'[i] = cmds[i] /\ i \in 1 .. Len(cmds')
          /\ cmds'[Len(cmds) + 1] = msg /\ Len(cmds) + 1 \in 1 .. Len(cmds')
          /\ \A i \in 1 .. Len(cmds') : i \in 1 .. Len(cmds) \/ i = Len(cmds) + 1
      BY <1>5, <3>1, TypeFacts, AppendFacts
    <3> QED
      BY <3>2 DEF Asked
  <2>3. Abstract!Free(c) \/ c \in Leaving
    <3>1. CASE console[c] = "prompt"
      <4>1. Ids(c) = {}
        BY <3>1, PendingOf DEF Round, Fits
      <4>2. Sent(c) = {} /\ Got(c) = {} /\ answer.to # c
        BY <4>1, IdFacts
      <4>3. \A m \in Asked : m.from # c
        BY <4>2 DEF Asked, Sent
      <4>4. \A a \in Arrived : a.to # c
        BY <4>2, ArrivedIs
      <4>5. \A a \in Given : a.to # c
        BY <4>2 DEF Given
      <4> QED
        BY <4>3, <4>4, <4>5 DEF Abstract!Free
    <3>2. CASE console[c] = "leaving"
      BY <3>2 DEF Leaving
    <3> QED
      BY <1>3, <3>1, <3>2
  <2> QED
    BY <1>1, <1>4, <2>1, <2>2, <2>3 DEF Abstract!Call
<1>6. CASE /\ UNCHANGED cmds
           /\ \E to \in {"gone", "prompt"} : /\ console' = [console EXCEPT ![c] = to]
                                             /\ line = "last" => to = "gone"
  <2>1. Leaving' \in {Leaving, Leaving \cup {c}}
    BY <1>3, <1>6, LeavingMoves DEF Left
  <2>2. Asked' = Asked
    BY <1>6 DEF Asked
  <2> QED
    BY <1>1, <1>4, <2>1, <2>2 DEF Abstract!Fail, Abstract!MayLeave
<1> QED
  BY <1>2, <1>5, <1>6

\* A console that stops waiting, or leaves, takes nothing along.
LEMMA LeaveMaps ==
    ASSUME IInv, NEW c \in Consoles, Broken(c) \/ Signal(c) \/ Quit(c)
    PROVE  UNCHANGED Abstracted \/ Abstract!Leave(c)
<1>1. UNCHANGED <<cmds, replies, settings, answer, nextId>>
  BY DEF Broken, Signal, Quit, queueVars, threadVars
<1>2. \E to : /\ console' = [console EXCEPT ![c] = to]
              /\ console[c] \in Left => to \in Left
  BY DEF Broken, Signal, Quit, Returns, After, Waits, Left
<1>3. Leaving' \in {Leaving, Leaving \cup {c}}
  BY <1>2, LeavingMoves
<1>4. Asked' = Asked /\ Given' = Given /\ Arrived' = Arrived
  BY <1>1, SameAbstract
<1> QED
  BY <1>1, <1>3, <1>4 DEF Abstracted, Abstract!Leave

\* The end of the queues takes every command and answer with it.
LEMMA DestroyMaps ==
    ASSUME IInv, Destroy
    PROVE  Abstract!Vanish
<1>1. /\ main = "shutdown" /\ cmds' = <<>> /\ replies' = [f \in FrontEnds |-> <<>>]
      /\ UNCHANGED <<answer, settings, console, nextId>>
  BY DEF Destroy, threadVars, consoleVars
<1>2. settings.stop /\ answer' = NoAnswer /\ \A c \in Consoles : replies'[c] = <<>>
  BY <1>1, TypeFacts DEF IInv, Ends
<1>3. Asked' = {} /\ Given' = {} /\ Leaving' = Leaving
  BY <1>1, <1>2 DEF Asked, Given, Leaving
<1>4. Arrived' = {}
  <2>1. \A c \in Consoles : Got(c)' = {}
    BY <1>2 DEF Got
  <2> QED
    BY <2>1, ArrivedIs
<1> QED
  BY <1>1, <1>2, <1>3, <1>4 DEF Abstract!Vanish

LEMMA StepMaps ==
    ASSUME IInv, [Next]_vars
    PROVE  [Abstract!Next]_Abstracted
<1>1. CASE UNCHANGED vars \/ NoCommandThere \/ MapsServed \/ Look \/ Tick \/ Join
  <2>1. UNCHANGED <<settings, cmds, replies, answer, console, nextId>>
    BY <1>1 DEF vars, NoCommandThere, MapsServed, Look, Tick, Join, queueVars, threadVars, consoleVars
  <2>2. Asked' = Asked /\ Given' = Given /\ Arrived' = Arrived
    BY <2>1, SameAbstract
  <2> QED
    BY <2>1, <2>2 DEF Abstracted, Leaving
<1>2. CASE HandleCommand
  BY <1>2, HandleMaps DEF Abstract!Next
<1>3. CASE Reply
  BY <1>3, ReplyMaps DEF Abstract!Next
<1>4. CASE ServeMap
  <2>1. /\ UNCHANGED <<settings, cmds, answer, console, nextId>>
        /\ maps # <<>> /\ Sends(Head(maps), MapReply)
    BY <1>4 DEF ServeMap, threadVars, consoleVars
  <2>2. Head(maps) \in Viewers
    BY <2>1, TypeFacts, TailFacts
  <2>3. \A c \in Consoles : replies'[c] = replies[c]
    BY <2>1, <2>2, TypeFacts, MapReplyType, SendsFacts
  <2>4. Asked' = Asked /\ Given' = Given /\ Arrived' = Arrived
    BY <2>1, <2>3, SameAbstract
  <2> QED
    BY <2>1, <2>4 DEF Abstracted, Leaving
<1>5. CASE Destroy
  BY <1>5, DestroyMaps DEF Abstract!Next
<1>6. CASE StopBySignal
  <2>1. /\ settings' = [settings EXCEPT !.stop = TRUE]
        /\ UNCHANGED <<cmds, replies, answer, console, nextId>>
    BY <1>6 DEF StopBySignal, queueVars, threadVars, consoleVars
  <2>2. Asked' = Asked /\ Given' = Given /\ Arrived' = Arrived /\ Leaving' = Leaving
    BY <2>1, SameAbstract DEF Leaving
  <2> QED
    BY <2>1, <2>2 DEF Abstract!Next, Abstract!Stop
<1>7. ASSUME NEW c \in Consoles, NEW line \in {"stdin", "fifo", "last"}, NEW cmd \in Commands,
             Ask(c, line, cmd)
      PROVE  Abstract!Next
  BY <1>7, AskMaps DEF Abstract!Next
<1>8. ASSUME NEW c \in Consoles, Receive(c)
      PROVE  Abstract!Next
  BY <1>8, ReceiveMaps DEF Abstract!Next
<1>9. ASSUME NEW c \in Consoles, Broken(c) \/ Signal(c) \/ Quit(c)
      PROVE  [Abstract!Next]_Abstracted
  BY <1>9, LeaveMaps DEF Abstract!Next
<1>10. ASSUME NEW v \in Viewers, AskMap(v) \/ ReceiveMap(v) \/ LeaveMap(v)
       PROVE  UNCHANGED Abstracted
  <2>1. UNCHANGED <<settings, cmds, answer, console, nextId>>
    BY <1>10 DEF AskMap, ReceiveMap, LeaveMap, queueVars, threadVars, consoleVars
  <2>2. \A c \in Consoles : replies'[c] = replies[c]
    BY <1>10, TypeFacts DEF AskMap, ReceiveMap, LeaveMap, queueVars
  <2>3. Asked' = Asked /\ Given' = Given /\ Arrived' = Arrived
    BY <2>1, <2>2, SameAbstract
  <2> QED
    BY <2>1, <2>3 DEF Abstracted, Leaving
<1> QED
  BY <1>1, <1>2, <1>3, <1>4, <1>5, <1>6, <1>7, <1>8, <1>9, <1>10 DEF Next, Thread, Main

\* The console thread carries out each command at most once, at one moment
\* between the question and its answer, and answers what was true then; and
\* only a console that leaves has asked before its last command was over.
THEOREM ControlIsImplemented == Spec => ImplementsControl
<1>1. Init => Abstract!Init
  <2> SUFFICES ASSUME Init PROVE Abstract!Init
    OBVIOUS
  <2>1. /\ answer = NoAnswer /\ cmds = <<>> /\ \A c \in Consoles : replies[c] = <<>>
        /\ \A c \in Consoles : console[c] = "prompt"
    BY DEF Init, FrontEnds
  <2>2. Asked = {} /\ Given = {} /\ Leaving = {}
    BY <2>1 DEF Asked, Given, Leaving
  <2>3. Arrived = {}
    <3>1. \A c \in Consoles : Got(c) = {}
      BY <2>1 DEF Got
    <3> QED
      BY <3>1, ArrivedIs
  <2> QED
    BY <2>2, <2>3 DEF Init, Abstract!Init
<1>2. IInv /\ [Next]_vars => [Abstract!Next]_<<settings, Asked, Given \cup Arrived, Leaving, nextId>>
  BY StepMaps DEF Abstracted
<1> QED
  BY Invariant, <1>1, <1>2, PTL DEF Spec, ImplementsControl, Abstract!Spec, Abstract!controlVars
=============================================================================
