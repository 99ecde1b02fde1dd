------------------------------ MODULE Console ------------------------------
(***************************************************************************)
(* Consoles, map viewers and the thread of the command center that serves  *)
(* them.                                                                   *)
(*                                                                         *)
(* A console manager sends a command and blocks until the reply for its    *)
(* pid arrives.  One round of its loop may take a line from stdin and then *)
(* one from the FIFO of the UI, and it looks at g_stop only between two    *)
(* rounds: a signal that ends its wait for the first answer leaves it free *)
(* to ask, and wait, once more.                                            *)
(* The map thread of a UI waits for map replies in the same way.           *)
(* CC's console thread takes one command, applies it to the settings it    *)
(* shares with the main thread, answers, then drains all map requests.     *)
(* The main thread looks at the settings once in each round of its loop;   *)
(* at the end it joins the thread, waits for the units and removes the     *)
(* queues, which wakes whoever still waits on them.                        *)
(*                                                                         *)
(* Left out: spawn commands (SpawnBay), the tick itself (TickBarrier), the *)
(* text of commands and replies.                                           *)
(***************************************************************************)
EXTENDS Integers, Sequences, FiniteSets, Functions

CONSTANTS
    Consoles,    \* console managers
    Viewers,     \* map threads of UIs
    MaxSpeed,    \* the longest tick, 1000000 ms in the code
    InitialSpeed,  \* the tick at the start, 1000 ms
    ReqMax,      \* messages the request queue holds
    RepMax,      \* messages the reply queue holds
    MaxIds,      \* bound of the model: commands the consoles send
    MaxMaps,     \* bound of the model: requests a viewer sends
    Commands,    \* what may be asked: commands with their values
    Faults       \* what may go wrong: "lost", other messages leave no room in
                 \* q_rep; "thread", pthread_create fails

ASSUME ConsoleAssumption ==
    /\ MaxSpeed \in Nat /\ InitialSpeed \in 0 .. MaxSpeed
    /\ ReqMax \in Nat /\ RepMax \in Nat
    /\ MaxIds \in Nat /\ MaxMaps \in Nat
    /\ Consoles \cap Viewers = {} /\ "nobody" \notin Consoles
    /\ Commands \subseteq
          [op : {"freeze", "unfreeze", "setspeed", "getspeed", "setgrid", "getgrid", "end"},
           value : Int]
    /\ \A cmd \in Commands : cmd.op = "setgrid" => cmd.value \in {0, 1}
    /\ Faults \subseteq {"lost", "thread"}

VARIABLES
    fault,       \* what has gone wrong
    queues,      \* are the IPC objects there?
    cmds, maps,  \* the MSG_CM_CMD and MSG_UI_MAP_REQ messages of q_req
    replies,     \* the messages of q_rep, by recipient
    settings,    \* g_frozen, g_tick_speed_ms, g_grid_enabled and g_stop
    main,        \* where the main thread is
    since,       \* ticks begun while the simulation is frozen, up to 2
    thread,      \* where the console thread is
    answer,      \* the response it is about to send
    console,     \* where each console is
    expected,    \* the req_id it waits for, and whether the command is END
    nextId,      \* its g_next_req_id
    viewer,      \* where each map thread is
    asked        \* map requests it has sent

queueVars == <<fault, queues, cmds, maps, replies>>
mainVars == <<main, since>>
threadVars == <<thread, answer>>
consoleVars == <<console, expected, nextId>>
viewerVars == <<viewer, asked>>
vars == <<queueVars, settings, mainVars, threadVars, consoleVars, viewerVars>>

FrontEnds == Consoles \cup Viewers
Command(op, value) == [op |-> op, value |-> value]
NoCommand == [id |-> 0, end |-> FALSE]
MapReply == [id |-> 0, result |-> [ok |-> TRUE, value |-> 0]]
NoAnswer == [to |-> "nobody", reply |-> MapReply]

Init ==
    /\ fault \in {"none"} \cup (Faults \ {"lost"})
    /\ queues = "there"
    /\ cmds = <<>> /\ maps = <<>>
    /\ replies = [f \in FrontEnds |-> <<>>]
    /\ settings = [frozen |-> FALSE, speed |-> InitialSpeed, grid |-> 1, stop |-> FALSE]
    /\ main = "top" /\ since = 0
    /\ thread = IF fault = "thread" THEN "none" ELSE "cmd"
    /\ answer = NoAnswer
    /\ console = [c \in Consoles |-> "prompt"]
    /\ expected = [c \in Consoles |-> NoCommand]
    /\ nextId = [c \in Consoles |-> 1]
    /\ viewer = [v \in Viewers |-> "top"]
    /\ asked = [v \in Viewers |-> 0]

-----------------------------------------------------------------------------
(* The queues: sends do not wait, and fail when there is no room *)

RoomToAsk == queues = "there" /\ Len(cmds) + Len(maps) < ReqMax

RoomToReply ==
    FoldFunction(+, 0, [f \in FrontEnds |-> Len(replies[f])]) < RepMax

\* q_rep after a send: without room, of which other messages may have left none,
\* the reply is lost
Sends(to, reply) ==
    \/ /\ RoomToReply
       /\ replies' = [replies EXCEPT ![to] = Append(@, reply)]
       /\ UNCHANGED fault
    \/ /\ ~RoomToReply \/ "lost" \in Faults
       /\ fault' = "lost"
       /\ UNCHANGED replies

-----------------------------------------------------------------------------
(* The console thread of CC *)

Response(cmd, ok, value) ==
    [to |-> cmd.from, reply |-> [id |-> cmd.id, result |-> [ok |-> ok, value |-> value]]]

SetsSpeed(cmd) == cmd.cmd.op = "setspeed" /\ cmd.cmd.value \in 0 .. MaxSpeed

\* the settings a command leaves ...
SettingsAfter(cmd) ==
    CASE cmd.cmd.op = "freeze" -> [settings EXCEPT !.frozen = TRUE]
      [] cmd.cmd.op = "unfreeze" -> [settings EXCEPT !.frozen = FALSE]
      [] SetsSpeed(cmd) -> [settings EXCEPT !.speed = cmd.cmd.value]
      [] cmd.cmd.op = "setgrid" -> [settings EXCEPT !.grid = cmd.cmd.value]
      [] cmd.cmd.op = "end" -> [settings EXCEPT !.stop = TRUE]
      [] OTHER -> settings

\* mutant: every answer carries the grid flag
AnswerMuddled(cmd) == Response(cmd, TRUE, settings.grid)

\* ... and the answer to it
Answer(cmd) ==
    CASE cmd.cmd.op = "getspeed" -> Response(cmd, TRUE, settings.speed)
      [] cmd.cmd.op = "getgrid" -> Response(cmd, TRUE, settings.grid)
      [] cmd.cmd.op = "setgrid" -> Response(cmd, TRUE, cmd.cmd.value)
      [] OTHER -> Response(cmd, cmd.cmd.op = "setspeed" => SetsSpeed(cmd), 0)

NoCommandThere ==
    /\ thread = "cmd" /\ cmds = <<>>
    /\ thread' = "maps"
    /\ UNCHANGED <<queueVars, settings, mainVars, answer, consoleVars, viewerVars>>

\* mutant: the error path of setspeed returns without an answer
HandleCommandQuiet ==
    /\ thread = "cmd" /\ cmds # <<>>
    /\ cmds' = Tail(cmds)
    /\ settings' = SettingsAfter(Head(cmds))
    /\ since' = IF settings.frozen /\ settings'.frozen THEN since ELSE 0
    /\ answer' = Answer(Head(cmds))
    /\ thread' = IF Answer(Head(cmds)).reply.result.ok THEN "reply" ELSE "maps"
    /\ UNCHANGED <<fault, queues, maps, replies, main, consoleVars, viewerVars>>

HandleCommand ==
    /\ thread = "cmd" /\ cmds # <<>>
    /\ cmds' = Tail(cmds)
    /\ settings' = SettingsAfter(Head(cmds))
    /\ since' = IF settings.frozen /\ settings'.frozen THEN since ELSE 0
    /\ answer' = Answer(Head(cmds))
    /\ thread' = "reply"
    /\ UNCHANGED <<fault, queues, maps, replies, main, consoleVars, viewerVars>>

Reply ==
    /\ thread = "reply"
    /\ Sends(answer.to, answer.reply)
    /\ answer' = NoAnswer
    /\ thread' = "maps"
    /\ UNCHANGED <<queues, cmds, maps, settings, mainVars, consoleVars, viewerVars>>

\* mutant: the loop does not look at g_stop
MapsServedForever ==
    /\ thread = "maps" /\ maps = <<>>
    /\ thread' = "cmd"
    /\ UNCHANGED <<queueVars, settings, mainVars, answer, consoleVars, viewerVars>>

\* drain the map requests, each with a notice that the grid may be read
ServeMap ==
    /\ thread = "maps" /\ maps # <<>>
    /\ maps' = Tail(maps)
    /\ Sends(Head(maps), MapReply)
    /\ UNCHANGED <<queues, cmds, settings, mainVars, threadVars, consoleVars, viewerVars>>

\* and back to while (!g_stop)
MapsServed ==
    /\ thread = "maps" /\ maps = <<>>
    /\ thread' = IF settings.stop THEN "done" ELSE "cmd"
    /\ UNCHANGED <<queueVars, settings, mainVars, answer, consoleVars, viewerVars>>

-----------------------------------------------------------------------------
(* The main thread of CC *)

\* mutant: is_frozen is read and not looked at
LookThrough ==
    /\ main = "top"
    /\ main' = IF settings.stop THEN "joining" ELSE "begin"
    /\ UNCHANGED <<queueVars, settings, since, threadVars, consoleVars, viewerVars>>

\* after the sleep: leave, or take the global lock and read g_frozen
Look ==
    /\ main = "top"
    /\ main' = IF settings.stop THEN "joining"
               ELSE IF settings.frozen THEN "top" ELSE "begin"
    /\ UNCHANGED <<queueVars, settings, since, threadVars, consoleVars, viewerVars>>

\* the tick that was decided on, from its first permit to its last report
Tick ==
    /\ main = "begin"
    /\ since' = IF settings.frozen /\ since < 2 THEN since + 1 ELSE since
    /\ main' = "top"
    /\ UNCHANGED <<queueVars, settings, threadVars, consoleVars, viewerVars>>

\* pthread_join, if there is a thread
Join ==
    /\ main = "joining" /\ thread \in {"done", "none"}
    /\ main' = "shutdown"
    /\ UNCHANGED <<queueVars, settings, since, threadVars, consoleVars, viewerVars>>

\* the units are gone and ipc_destroy removes the queues with their messages
Destroy ==
    /\ main = "shutdown"
    /\ main' = "gone"
    /\ queues' = "gone"
    /\ cmds' = <<>> /\ maps' = <<>> /\ replies' = [f \in FrontEnds |-> <<>>]
    /\ UNCHANGED <<fault, settings, since, threadVars, consoleVars, viewerVars>>

\* SIGINT or SIGTERM to CC
StopBySignal ==
    /\ ~settings.stop
    /\ settings' = [settings EXCEPT !.stop = TRUE]
    /\ UNCHANGED <<queueVars, mainVars, threadVars, consoleVars, viewerVars>>

-----------------------------------------------------------------------------
(* Console managers.  At the "prompt" one may take a line from stdin or from   *)
(* the FIFO of the UI.  A told one is "leaving" while its last round may still *)
(* come to the FIFO, and waits for the answer to that line at "last".  A told  *)
(* console that goes on unaware, as one told just before msgrcv blocks does,   *)
(* is one that is told when its wait is over.                                  *)

Waits(c) == console[c] \in {"stdin", "fifo", "last"}

MayAsk(c, line) ==
    <<console[c], line>> \in {<<"prompt", "stdin">>, <<"prompt", "fifo">>, <<"leaving", "last">>}

\* where send_and_wait returns to: END is the last command whatever came back
After(line, end) == IF end \/ line = "last" THEN "gone" ELSE "prompt"

Returns(c, to) ==
    /\ console' = [console EXCEPT ![c] = to]
    /\ expected' = [expected EXCEPT ![c] = NoCommand]

\* without room, of which spawn requests may have left none, the send fails
Ask(c, line, cmd) ==
    /\ MayAsk(c, line)
    /\ FoldFunction(+, 0, nextId) < MaxIds + Cardinality(Consoles)
    /\ nextId' = [nextId EXCEPT ![c] = @ + 1]
    /\ LET msg == [from |-> c, id |-> nextId[c], cmd |-> cmd]
       IN  \/ /\ RoomToAsk
              /\ cmds' = Append(cmds, msg)
              /\ console' = [console EXCEPT ![c] = line]
              /\ expected' = [expected EXCEPT ![c] = [id |-> msg.id, end |-> cmd.op = "end"]]
           \/ /\ Returns(c, After(line, cmd.op = "end"))
              /\ UNCHANGED cmds
    /\ UNCHANGED <<fault, queues, maps, replies, settings, mainVars, threadVars, viewerVars>>

\* a reply with another req_id is reported, and dropped like the one awaited
Receive(c) ==
    /\ Waits(c) /\ replies[c] # <<>>
    /\ replies' = [replies EXCEPT ![c] = Tail(@)]
    /\ Returns(c, After(console[c], expected[c].end))
    /\ UNCHANGED <<fault, queues, cmds, maps, settings, mainVars, threadVars, nextId,
                   viewerVars>>

\* the queue is removed under a waiting console
Broken(c) ==
    /\ Waits(c) /\ queues = "gone"
    /\ Returns(c, After(console[c], expected[c].end))
    /\ UNCHANGED <<queueVars, settings, mainVars, threadVars, nextId, viewerVars>>

\* mutant: the handler does not set g_stop, the wait ends all the same
SignalUntold(c) ==
    /\ Waits(c)
    /\ Returns(c, After(console[c], expected[c].end))
    /\ UNCHANGED <<queueVars, settings, mainVars, threadVars, nextId, viewerVars>>

\* SIGINT or SIGTERM ends a wait.  From stdin the round goes on to the FIFO;
\* at "last" the reply to a spawn request given up before does the same.
Signal(c) ==
    /\ Waits(c)
    /\ Returns(c, IF console[c] = "stdin" /\ ~expected[c].end THEN "leaving"
                  ELSE "gone")
    /\ UNCHANGED <<queueVars, settings, mainVars, threadVars, nextId, viewerVars>>

\* a signal outside a wait, quit on either line, the end of stdin, and
\* nothing on the FIFO in the last round
Quit(c) ==
    /\ console[c] \in {"prompt", "leaving"}
    /\ \E to \in {"leaving", "gone"} : Returns(c, to)
    /\ UNCHANGED <<queueVars, settings, mainVars, threadVars, nextId, viewerVars>>

-----------------------------------------------------------------------------
(* The map thread of a UI *)

\* bound of the model: with its last request behind it, a viewer has left
Back(v, requests) == IF requests < MaxMaps THEN "top" ELSE "gone"

AskMap(v) ==
    /\ viewer[v] = "top"
    /\ asked[v] < MaxMaps
    /\ asked' = [asked EXCEPT ![v] = @ + 1]
    /\ \/ RoomToAsk /\ maps' = Append(maps, v)
          /\ viewer' = [viewer EXCEPT ![v] = "waiting"]
       \/ UNCHANGED maps
          /\ viewer' = [viewer EXCEPT ![v] = IF queues = "gone" THEN "gone"
                                             ELSE Back(v, asked[v] + 1)]
    /\ UNCHANGED <<fault, queues, cmds, replies, settings, mainVars, threadVars, consoleVars>>

ReceiveMap(v) ==
    /\ viewer[v] = "waiting" /\ replies[v] # <<>>
    /\ replies' = [replies EXCEPT ![v] = Tail(@)]
    /\ viewer' = [viewer EXCEPT ![v] = Back(v, asked[v])]
    /\ UNCHANGED <<fault, queues, cmds, maps, settings, mainVars, threadVars,
                   consoleVars, asked>>

\* the queue is removed under a waiting viewer, or the user quits: the flag
\* is read only between two requests
LeaveMap(v) ==
    /\ \/ viewer[v] = "waiting" /\ queues = "gone"
       \/ viewer[v] = "top"
    /\ viewer' = [viewer EXCEPT ![v] = "gone"]
    /\ UNCHANGED <<queueVars, settings, mainVars, threadVars, consoleVars, asked>>

-----------------------------------------------------------------------------
Thread == NoCommandThere \/ HandleCommand \/ Reply \/ ServeMap \/ MapsServed
Main == Look \/ Tick \/ Join \/ Destroy

Next ==
    \/ Thread \/ Main \/ StopBySignal
    \/ \E c \in Consoles :
        \/ \E line \in {"stdin", "fifo", "last"}, cmd \in Commands : Ask(c, line, cmd)
        \/ Receive(c) \/ Broken(c) \/ Signal(c) \/ Quit(c)
    \/ \E v \in Viewers : AskMap(v) \/ ReceiveMap(v) \/ LeaveMap(v)

\* both threads of CC keep running, a tick ends and the units exit
\* (TickBarrier), and a process whose wait is over runs on; nobody has to ask,
\* to quit or to stop the simulation
Fairness ==
    /\ WF_vars(Thread) /\ WF_vars(Main)
    /\ \A c \in Consoles : WF_vars(Receive(c) \/ Broken(c))
    /\ \A v \in Viewers :
          WF_vars(ReceiveMap(v) \/ (viewer[v] = "waiting" /\ LeaveMap(v)))

Spec == Init /\ [][Next]_vars
FairSpec == Spec /\ Fairness

-----------------------------------------------------------------------------
Results == [ok : BOOLEAN, value : 0 .. MaxSpeed + 1]
Messages == [from : Consoles, id : Nat \ {0}, cmd : Commands]
Notices == [id : Nat, result : Results]

TypeOK ==
    /\ fault \in {"none", "lost", "thread"}
    /\ queues \in {"there", "gone"}
    /\ cmds \in Seq(Messages) /\ maps \in Seq(Viewers)
    /\ replies \in [FrontEnds -> Seq(Notices)]
    /\ settings \in [frozen : BOOLEAN, speed : 0 .. MaxSpeed, grid : {0, 1}, stop : BOOLEAN]
    /\ main \in {"top", "begin", "joining", "shutdown", "gone"}
    /\ since \in 0 .. 2
    /\ thread \in {"none", "cmd", "reply", "maps", "done"}
    /\ answer \in [to : Consoles, reply : Notices] \cup {NoAnswer}
    /\ console \in [Consoles -> {"prompt", "stdin", "fifo", "leaving", "last", "gone"}]
    /\ expected \in [Consoles -> [id : Nat, end : BOOLEAN]]
    /\ nextId \in [Consoles -> Nat \ {0}]
    /\ viewer \in [Viewers -> {"top", "waiting", "gone"}]
    /\ asked \in [Viewers -> 0 .. MaxMaps]

(***************************************************************************)
(* A console that has not been told to stop never takes the answer to an   *)
(* earlier command for the answer to its own: between two commands there   *)
(* is no reply for it on the way, and while it waits only the reply to     *)
(* what it asked.  One that has been told may have given up its last       *)
(* command from stdin, and finds at most that one answer in the wait after *)
(* it: then, and only then, the mismatch branch of send_and_wait is taken, *)
(* and the console leaves.                                                 *)
(***************************************************************************)
RepliesMatch ==
    \A c \in Consoles :
        LET others == {i \in 1 .. Len(replies[c]) : replies[c][i].id # expected[c].id}
        IN  /\ console[c] = "prompt" => replies[c] = <<>> /\ answer.to # c
            /\ console[c] \in {"stdin", "fifo"} => others = {}
            /\ console[c] \in {"leaving", "last"} => \A i, j \in others : i = j

(***************************************************************************)
(* Once a freeze has been handled, at most one more tick begins before an  *)
(* unfreeze: the one whose round had already read g_frozen.                *)
(***************************************************************************)
FrozenWithinOneTick == settings.frozen => since <= 1

(***************************************************************************)
(* Where nothing goes wrong every command is answered: the console's wait, *)
(* which has no timeout, ends.                                             *)
(***************************************************************************)
Answered ==
    \A c \in Consoles : Waits(c) ~> ~Waits(c) \/ fault # "none"

(***************************************************************************)
(* Whatever was lost or never served, the end of the simulation ends all   *)
(* waits: CC joins its thread, removes the queues, and nobody is left      *)
(* blocked on them.                                                        *)
(***************************************************************************)
StopEndsWaits ==
    settings.stop ~> /\ queues = "gone"
                     /\ \A c \in Consoles : ~Waits(c)
                     /\ \A v \in Viewers : viewer[v] # "waiting"

(***************************************************************************)
(* To the consoles, CC is the object Control describes: each command takes *)
(* effect once, the answer to it says what was true then, and only a       *)
(* console that has been told to stop has two commands under way.          *)
(***************************************************************************)
Asked == {cmds[i] : i \in 1 .. Len(cmds)}

Given == {answer} \ {NoAnswer}

Arrived == UNION {{[to |-> c, reply |-> replies[c][i]] : i \in 1 .. Len(replies[c])} :
                    c \in Consoles}

Leaving == {c \in Consoles : console[c] \in {"leaving", "last", "gone"}}

Abstract == INSTANCE Control
            WITH asked <- Asked, answered <- Given \cup Arrived,
                 leaving <- Leaving
ImplementsControl == Abstract!Spec
=============================================================================
