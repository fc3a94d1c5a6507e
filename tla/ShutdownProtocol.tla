--------------------------- MODULE ShutdownProtocol -------------------------
(***************************************************************************)
(* How the box gets the PC to shut down: ConsumerPower waits for it,       *)
(* communication::transmit (src/src/communication/communication.cpp)       *)
(* broadcasts that once a second while the box is connected, and the GUI   *)
(* on the PC (src/gui/AstroBoxGUI/esp_comm/esp_comm.cpp) starts a delayed  *)
(* hibernation for each datagram that says so.  Datagrams get lost.        *)
(*                                                                         *)
(* MainLoop is the part of one iteration of main.cpp that matters here:    *)
(* the broadcast comes before the run of the power sequence.               *)
(***************************************************************************)
EXTENDS ConsumerPower

CONSTANTS
    TxInterval,       \* 1000 ms, line 171
    ShutdownDelay     \* 10 s, the /t 10 of the GUI

VARIABLES
    connected,        \* connectionHandler::isConnected
    lastTxTime,       \* _lastTxTime
    listening,        \* the GUI runs on the PC and is bound to its port
    pending,          \* ticks until the PC hibernates, or NoShutdown
    \* history, not in the program
    served,           \* since the box began to wait: connected, nothing was
                      \* lost, and the GUI listened
    waitAge           \* true time since the box last waited for the PC

ASSUME ShutdownAssumption ==
    /\ TxInterval \in Nat /\ ShutdownDelay \in Nat
    /\ TxInterval + MaxLag + ShutdownDelay < PcTimeout

linkVars == <<connected, lastTxTime>>
pcVars   == <<listening, pending>>
shutdownVars == <<vars, linkVars, pcVars, served, waitAge>>

NoShutdown == -1
Waiting == consumersState = "on_wait4pc_shutdown"

ShutdownInit ==
    /\ Init
    /\ connected = FALSE /\ lastTxTime = 0
    /\ listening = FALSE /\ pending = NoShutdown
    /\ served = FALSE /\ waitAge = PcTimeout

\* history: from before the box waits until the relay opens
Serve(delivered) ==
    served' = /\ connected' /\ listening' /\ pcOn' /\ delivered
              /\ Waiting \/ consumersState = "off_idle" => served

Silent == UNCHANGED linkVars /\ Serve(TRUE)

-----------------------------------------------------------------------------
(* The surroundings.                                                       *)

\* a PC hibernates when its delay is over, and not later
TimePasses ==
    /\ Tick
    /\ pending # 0
    /\ pending' = IF pending > 0 THEN pending - 1 ELSE pending
    /\ waitAge' = IF Waiting THEN 0 ELSE CappedAt(waitAge, PcTimeout)
    /\ UNCHANGED listening
    /\ Silent

\* the button or a telegram command
AskForPower(on) ==
    /\ Request(on)
    /\ UNCHANGED <<linkVars, pcVars, waitAge>>
    /\ Serve(TRUE)

PcStarts ==
    /\ PcBoots
    /\ UNCHANGED <<pcVars, waitAge>>
    /\ Silent

GuiStartsOrStops ==
    /\ pcOn
    /\ listening' = ~listening
    /\ UNCHANGED <<vars, pending, waitAge>>
    /\ Silent

\* by its user, or because the delay is over
PcStops ==
    /\ PcShutsDown
    /\ listening' = FALSE /\ pending' = NoShutdown
    /\ UNCHANGED waitAge
    /\ Silent

LinkChanges ==
    /\ connected' = ~connected
    /\ UNCHANGED <<vars, lastTxTime, pcVars, waitAge>>
    /\ Serve(TRUE)

ShutdownRestart ==
    /\ Restart
    /\ connected' = FALSE /\ lastTxTime' = 0
    /\ listening' = FALSE /\ pending' = NoShutdown
    /\ served' = FALSE /\ waitAge' = PcTimeout

-----------------------------------------------------------------------------
(* One iteration.                                                          *)

\* Mutants: the PC is asked as long as its relay is closed; only while power
\* is requested again.
AsksAlways == consumers
AsksBackwards == Waiting /\ powerRequest

\* the member shutdownPC of the status, line 51
AsksPc == Waiting

StatusDue == connected /\ Elapsed(now, lastTxTime) > TxInterval

Send == lastTxTime' = now

\* the GUI starts one shutdown; Windows refuses another one that is pending
StartsShutdown ==
    StatusDue /\ AsksPc /\ listening /\ pending = NoShutdown

\* The status is sent before the power sequence runs, which may cut the PC.
MainLoop(delivered) ==
    /\ ConsumerPowerLoop
    /\ IF StatusDue THEN Send ELSE UNCHANGED lastTxTime
    /\ listening' = (listening /\ pcOn')
    /\ pending' = IF ~pcOn' THEN NoShutdown
                  ELSE IF StartsShutdown /\ delivered THEN ShutdownDelay
                  ELSE pending
    /\ waitAge' = IF Waiting' THEN 0 ELSE waitAge
    /\ UNCHANGED connected
    /\ Serve(delivered)

ShutdownNext ==
    \/ TimePasses
    \/ \E on \in BOOLEAN : AskForPower(on)
    \/ PcStarts
    \/ GuiStartsOrStops
    \/ PcStops
    \/ LinkChanges
    \/ ShutdownRestart
    \/ \E delivered \in BOOLEAN : MainLoop(delivered)

ShutdownSpec == ShutdownInit /\ [][ShutdownNext]_shutdownVars

-----------------------------------------------------------------------------
(* Properties.                                                             *)

\* The power of a PC is never cut while it runs, if the box was connected,
\* the GUI listened and no status was lost since the box began to wait: the
\* hour is more than enough for the second and the ten seconds.
CleanCut ==
    [][consumers /\ ~consumers' /\ ~ShutdownRestart => ~pcOn \/ ~served
      ]_shutdownVars

\* A PC that is shut down by the box was waited for within ShutdownDelay
\* before: a request that is withdrawn is carried out soon after, or never.
ShutdownIsRecent ==
    pending # NoShutdown => waitAge <= ShutdownDelay - pending
=============================================================================
