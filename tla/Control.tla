------------------------------ MODULE Control ------------------------------
(***************************************************************************)
(* What the consoles are promised: settings of the simulation that change  *)
(* by one command at a time.  A command takes effect at most once, at one  *)
(* moment between the call and the answer, and the answer says what the    *)
(* settings were at that moment.  A console calls again when its last call *)
(* is over; only one that is leaving may call before that.                 *)
(***************************************************************************)
EXTENDS Integers

CONSTANTS Consoles, MaxSpeed, InitialSpeed, Commands

VARIABLES settings,   \* frozen, speed, grid, and whether to stop
          asked,      \* the calls CC has not looked at yet
          answered,   \* the answers the consoles have not taken yet
          leaving,    \* the consoles that leave, or have left
          nextId      \* the id of each console's next call

controlVars == <<settings, asked, answered, leaving, nextId>>

Command(op, value) == [op |-> op, value |-> value]

\* what a command does
Effect(s, cmd) ==
    CASE cmd.op = "freeze" -> [s EXCEPT !.frozen = TRUE]
      [] cmd.op = "unfreeze" -> [s EXCEPT !.frozen = FALSE]
      [] cmd.op = "setspeed" /\ cmd.value \in 0 .. MaxSpeed ->
            [s EXCEPT !.speed = cmd.value]
      [] cmd.op = "setgrid" -> [s EXCEPT !.grid = cmd.value]
      [] cmd.op = "end" -> [s EXCEPT !.stop = TRUE]
      [] OTHER -> s

\* what it answers: a status and, for queries, the value
Result(s, cmd) ==
    [ok |-> ~(cmd.op = "setspeed" /\ cmd.value \notin 0 .. MaxSpeed),
     value |-> CASE cmd.op = "getspeed" -> s.speed
                 [] cmd.op \in {"getgrid", "setgrid"} -> Effect(s, cmd).grid
                 [] OTHER -> 0]

\* the answer to a call, to be recognised by its id
AnswerTo(s, msg) ==
    [to |-> msg.from, reply |-> [id |-> msg.id, result |-> Result(s, msg.cmd)]]

Init ==
    /\ settings = [frozen |-> FALSE, speed |-> InitialSpeed, grid |-> 1, stop |-> FALSE]
    /\ asked = {} /\ answered = {} /\ leaving = {}
    /\ nextId = [c \in Consoles |-> 1]

\* nothing the console has asked for is under way
Free(c) == (\A msg \in asked : msg.from # c) /\ (\A a \in answered : a.to # c)

\* no id is used twice
Call(c, cmd) ==
    /\ Free(c) \/ c \in leaving
    /\ asked' = asked \cup {[from |-> c, id |-> nextId[c], cmd |-> cmd]}
    /\ nextId' = [nextId EXCEPT ![c] = @ + 1]
    /\ UNCHANGED <<settings, answered, leaving>>

\* having its answer, or none to wait for, a console may leave
MayLeave(c) == leaving' \in {leaving, leaving \cup {c}}

\* the call does not get through
Fail(c) ==
    /\ nextId' = [nextId EXCEPT ![c] = @ + 1]
    /\ MayLeave(c)
    /\ UNCHANGED <<settings, asked, answered>>

Apply(msg) ==
    /\ settings' = Effect(settings, msg.cmd)
    /\ asked' = asked \ {msg}
    /\ answered' = answered \cup {AnswerTo(settings, msg)}
    /\ UNCHANGED <<leaving, nextId>>

\* the answer is taken, or lost on the way
Return(answer) ==
    /\ answered' = answered \ {answer}
    /\ MayLeave(answer.to)
    /\ UNCHANGED <<settings, asked, nextId>>

Leave(c) ==
    /\ leaving' = leaving \cup {c}
    /\ UNCHANGED <<settings, asked, answered, nextId>>

Stop ==
    /\ settings' = [settings EXCEPT !.stop = TRUE]
    /\ UNCHANGED <<asked, answered, leaving, nextId>>

\* the end of the simulation takes all commands and answers with it
Vanish ==
    /\ settings.stop
    /\ asked' = {} /\ answered' = {}
    /\ UNCHANGED <<settings, leaving, nextId>>

Next ==
    \/ \E c \in Consoles : \/ \E cmd \in Commands : Call(c, cmd)
                           \/ Fail(c) \/ Leave(c)
    \/ \E msg \in asked : Apply(msg)
    \/ \E answer \in answered : Return(answer)
    \/ Stop \/ Vanish

Spec == Init /\ [][Next]_controlVars
=============================================================================
