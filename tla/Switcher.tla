------------------------------ MODULE Switcher ------------------------------
(***************************************************************************)
(* From a message in the telegram chat to the relay: the message handlers  *)
(* of src/src/telegram_bot/telegram_bot.cpp, the queue _pendingCommands,   *)
(* and switcher::loop of src/src/switcher/switcher.cpp, which takes one    *)
(* command per iteration and runs the power sequence of ConsumerPower.     *)
(*                                                                         *)
(* The button toggles the same request; when it does is the business of    *)
(* KeyLock.  The queue is the BoundedFifo that RingBuffer implements.      *)
(***************************************************************************)
EXTENDS ConsumerPower, Sequences, Functions

CONSTANTS
    QueueSize,        \* 10, line 25
    MaxReplies        \* 10, line 151

VARIABLES
    pc,               \* what the main loop runs next
    pendingCommands,  \* _pendingCommands, oldest first
    replies,          \* messages handled by this run of the bot's loop
    \* history, not in the program
    prevailing,       \* the last ask that counts, see below
    askRuns           \* reads of the queue since then, capped

ASSUME SwitcherAssumption == QueueSize \in Nat \ {0} /\ MaxReplies \in Nat

askVars == <<prevailing, askRuns>>
switcherVars == <<vars, pc, pendingCommands, replies, askVars>>

PowerCommands == {"on", "off"}
Commands == PowerCommands \cup {"heater"}

SwitcherInit ==
    /\ Init
    /\ pc = "bot" /\ pendingCommands = << >> /\ replies = 0
    /\ prevailing = FALSE /\ askRuns = 0

(***************************************************************************)
(* Which ask counts.  The users ask by message and by button, and the last *)
(* ask prevails - but for two that the code drops and the history skips:   *)
(* a message that meets a full queue, although it was confirmed, and a     *)
(* press made while a power command is queued: the command, although it is *)
(* the older one, is read after the press and overrides it.                *)
(***************************************************************************)
Ask(on) == prevailing' = on /\ askRuns' = 0

-----------------------------------------------------------------------------
(* The surroundings: those of the power sequence.                          *)

Surroundings ==
    /\ Tick \/ PcBoots \/ PcShutsDown
    /\ UNCHANGED <<pc, pendingCommands, replies, askVars>>

SwitcherRestart ==
    /\ Restart
    /\ pc' = "bot" /\ pendingCommands' = << >> /\ replies' = 0
    /\ prevailing' = FALSE /\ askRuns' = 0

-----------------------------------------------------------------------------
(* telegram_bot.cpp.                                                       *)

Fits == Len(pendingCommands) < QueueSize

\* Mutant: the queue grows as long as there is memory.
WriteAlways(cmd) == pendingCommands' = Append(pendingCommands, cmd)

\* _pendingCommands.write: a full queue refuses, and nobody looks
Write(cmd) ==
    pendingCommands' = IF Fits THEN Append(pendingCommands, cmd)
                               ELSE pendingCommands

\* The answer comes first, and then the command is queued.
SubrelayConsumers ==
    LET requestedState == ~consumers
    IN  /\ Write(IF requestedState THEN "on" ELSE "off")
        /\ IF Fits THEN Ask(requestedState) ELSE UNCHANGED askVars

HandleReplies == Write("heater") /\ UNCHANGED askVars

\* Texts, and the other buttons of the keyboards in use, only answer.
HandleMessage ==
    /\ pc = "bot" /\ replies < MaxReplies
    /\ replies' = replies + 1
    /\ SubrelayConsumers \/ HandleReplies
    /\ UNCHANGED <<vars, pc>>

-----------------------------------------------------------------------------
(* switcher::loop.                                                         *)

PowerCommandQueued == Range(pendingCommands) \cap PowerCommands # {}

ButtonLoop(toggles) ==
    /\ pc = "bot"
    /\ pc' = "command" /\ replies' = 0
    /\ IF toggles THEN Request(~powerRequest) ELSE UNCHANGED vars
    /\ IF toggles /\ ~PowerCommandQueued THEN Ask(~powerRequest)
                                         ELSE UNCHANGED askVars
    /\ UNCHANGED pendingCommands

\* The heater commands are ignored.
Carry(cmd) ==
    \/ cmd = "on" /\ powerRequest' = TRUE
    \/ cmd = "off" /\ powerRequest' = FALSE
    \/ cmd \notin PowerCommands /\ UNCHANGED powerRequest

\* Mutants: the whole queue is cleared; "off" has no case of its own.
ClearAll == pendingCommands' = << >> /\ Carry(Head(pendingCommands))
NeverOff == /\ pendingCommands' = Tail(pendingCommands)
            /\ powerRequest' = (powerRequest \/ Head(pendingCommands) = "on")

Obey == pendingCommands' = Tail(pendingCommands) /\ Carry(Head(pendingCommands))

GetAndClearCommand ==
    /\ pc = "command"
    /\ pc' = "power"
    /\ IF pendingCommands = << >>
       THEN UNCHANGED <<pendingCommands, powerRequest>>
       ELSE Obey
    /\ askRuns' = IF askRuns < QueueSize THEN askRuns + 1 ELSE askRuns
    /\ UNCHANGED <<now, stateVars, pinVars, pcOn, offAge, pcOnAge, lag, replies,
                   prevailing>>

PowerLoop ==
    /\ pc = "power"
    /\ pc' = "bot"
    /\ ConsumerPowerLoop
    /\ UNCHANGED <<pendingCommands, replies, askVars>>

SwitcherNext ==
    \/ Surroundings
    \/ SwitcherRestart
    \/ HandleMessage
    \/ \E toggles \in BOOLEAN : ButtonLoop(toggles)
    \/ GetAndClearCommand
    \/ PowerLoop

(***************************************************************************)
(* The main loop goes on whether messages come or not, and time passes.    *)
(***************************************************************************)
SwitcherFairness ==
    /\ WF_switcherVars(\E toggles \in BOOLEAN : ButtonLoop(toggles))
    /\ WF_switcherVars(GetAndClearCommand)
    /\ WF_switcherVars(PowerLoop)
    /\ SF_switcherVars(/\ Tick
                       /\ UNCHANGED <<pc, pendingCommands, replies, askVars>>)

SwitcherSpec == SwitcherInit /\ [][SwitcherNext]_switcherVars
SwitcherFairSpec == SwitcherSpec /\ SwitcherFairness

-----------------------------------------------------------------------------
(* Properties.                                                             *)

\* Every variable keeps its type; the queue keeps its bound.
SwitcherTypeOK ==
    /\ TypeOK
    /\ pc \in {"bot", "command", "power"}
    /\ pendingCommands \in Seq(Commands) /\ Len(pendingCommands) <= QueueSize
    /\ replies \in 0 .. MaxReplies
    /\ prevailing \in BOOLEAN
    /\ askRuns \in 0 .. QueueSize

\* The ask that prevails - the last one that was neither refused by a full
\* queue nor, as a press, overridden by an older command - is the request
\* after at most QueueSize runs of the loop, whatever waited before it.
AsksAreObeyed == askRuns = QueueSize => powerRequest = prevailing

\* Once no ask that counts comes any more, the one that prevails ends up done,
\* whatever the PC does: the relay is closed and all is on, or it is open -
\* unless the start fails the voltage check for ever.
AsksAreCarriedOut ==
    \/ []<>(askRuns < QueueSize)
    \/ []<><<StartFails>>_switcherVars
    \/ <>[](IF prevailing
            THEN consumersState = "on_idle" /\ mount /\ camera
            ELSE consumersState = "off_idle" /\ ~consumers)
=============================================================================
