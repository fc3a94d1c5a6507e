------------------------------ MODULE Connection ----------------------------
(***************************************************************************)
(* The connection handler of src/src/connection/connection.cpp: a loop     *)
(* that starts mDNS and the telegram bot on a new link and tries the next  *)
(* network on a lost one, and two WiFi event handlers that run whenever    *)
(* the program waits, also inside the start of the bot, which blocks.      *)
(*                                                                         *)
(* _connectedSince, which nothing reads, and the display are left out.     *)
(***************************************************************************)
EXTENDS Millis

CONSTANTS
    AttemptTime,      \* 10000 ms, line 107
    ReconnectTime,    \* 60000 ms, line 75
    ssid_list_len,    \* number of known networks
    MaxLag            \* longest time between two runs of loop, with the start
                      \* of the bot

ASSUME ConnectionAssumption ==
    /\ AttemptTime \in Nat /\ ReconnectTime \in Nat /\ MaxLag \in Nat
    /\ AttemptTime + MaxLag < TimeMod - 1
    /\ ssid_list_len \in Nat \ {0}

VARIABLES
    now,                \* millis()
    gotIp,              \* _gotIp
    disconnectedSince,  \* _disconnectedSince, 0 for connected
    lastReconnect,      \* _lastReconnect
    telegramStarted,    \* _telegramStarted
    mdnsStarted,        \* _mdnsStarted
    authNdx,            \* _authNdx, -1 for none
    station,            \* the WiFi station: "off", "trying", "up"
    starting,           \* the loop is inside telegramBot.begin
    \* history, not in the program
    overtaken,          \* the link was lost inside the last call of begin
    fresh,              \* the bot was started on the present link
    offline,            \* true time since the link or the last attempt ended
    redated,            \* that date was written a second time
    lag                 \* time since loop was last entered

botVars  == <<telegramStarted, starting, overtaken, fresh>>
dateVars == <<disconnectedSince, offline, redated>>
vars == <<now, gotIp, dateVars, lastReconnect, botVars, mdnsStarted, authNdx,
          station, lag>>

Init ==
    /\ now = 0 /\ gotIp = FALSE
    /\ disconnectedSince = 0 /\ lastReconnect = 0
    /\ telegramStarted = FALSE /\ mdnsStarted = FALSE
    /\ authNdx = -1 /\ station = "off" /\ starting = FALSE
    /\ overtaken = FALSE /\ fresh = FALSE
    /\ offline = 0 /\ redated = FALSE /\ lag = 0

Tick ==
    /\ lag < MaxLag
    /\ now' = NextMs(now)
    /\ offline' = Older(offline)
    /\ lag' = lag + 1
    /\ UNCHANGED <<gotIp, disconnectedSince, redated, lastReconnect, botVars,
                   mdnsStarted, authNdx, station>>

-----------------------------------------------------------------------------
(* The event handlers.                                                     *)

\* lines 48-50
GotIP ==
    /\ station = "trying"
    /\ station' = "up" /\ gotIp' = TRUE
    /\ disconnectedSince' = 0 /\ redated' = FALSE
    /\ UNCHANGED <<now, lastReconnect, botVars, mdnsStarted, authNdx, offline,
                   lag>>

\* Mutants: an outage is not dated; each event of one outage dates it anew.
DateNever ==
    /\ offline' = IF gotIp THEN 0 ELSE offline
    /\ UNCHANGED <<disconnectedSince, redated>>
DateEach ==
    /\ disconnectedSince' = now
    /\ offline' = IF gotIp THEN 0 ELSE offline
    /\ UNCHANGED redated

\* lines 67-69: the first event of an outage writes the date
DateOutage ==
    IF disconnectedSince = 0
    THEN /\ disconnectedSince' = now
         /\ offline' = IF gotIp THEN 0 ELSE offline
         /\ redated' = ~gotIp
    ELSE UNCHANGED dateVars

\* Mutant: the flag of the bot outlives the link.
DropNothing ==
    /\ overtaken' = (overtaken \/ starting) /\ fresh' = FALSE
    /\ UNCHANGED <<telegramStarted, starting>>

DropBot ==
    /\ telegramStarted' = FALSE
    /\ overtaken' = (overtaken \/ starting) /\ fresh' = FALSE
    /\ UNCHANGED starting

\* The link went down, or an attempt failed.  The station keeps trying the
\* same network, with or without WiFi.reconnect.
Disconnected ==
    /\ station \in {"trying", "up"}
    /\ station' = "trying" /\ gotIp' = FALSE
    /\ DropBot
    /\ DateOutage
    /\ lastReconnect' = IF Elapsed(now, lastReconnect) > ReconnectTime
                        THEN now ELSE lastReconnect
    /\ UNCHANGED <<now, mdnsStarted, authNdx, lag>>

-----------------------------------------------------------------------------
(* The loop.                                                               *)

\* lines 93-102: a start that fails is repeated
StartMdns == mdnsStarted' \in {mdnsStarted, TRUE}

\* line 104: the bot is not started yet
EnterBegin ==
    /\ gotIp
    /\ StartMdns
    /\ ~telegramStarted
    /\ starting' = TRUE /\ overtaken' = FALSE
    /\ UNCHANGED <<gotIp, dateVars, telegramStarted, fresh, authNdx, station>>

Online ==
    /\ gotIp
    /\ StartMdns
    /\ telegramStarted
    /\ UNCHANGED <<gotIp, dateVars, botVars, authNdx, station>>

\* Mutants: the index is not wrapped; the same network every time.
TryBeyond ==
    /\ authNdx' = authNdx + 1
    /\ disconnectedSince' = now /\ offline' = 0 /\ redated' = FALSE
    /\ station' = "trying"
TryFirstSSID ==
    /\ authNdx' = 0
    /\ disconnectedSince' = now /\ offline' = 0 /\ redated' = FALSE
    /\ station' = "trying"

\* _tryNextSSID()
TryNextSSID ==
    /\ authNdx' = (authNdx + 1) % ssid_list_len
    /\ disconnectedSince' = now /\ offline' = 0 /\ redated' = FALSE
    /\ station' = "trying"

Offline ==
    /\ ~gotIp
    /\ IF Elapsed(now, disconnectedSince) > AttemptTime
       THEN TryNextSSID
       ELSE UNCHANGED <<dateVars, authNdx, station>>
    /\ UNCHANGED <<gotIp, botVars, mdnsStarted>>

Loop ==
    /\ ~starting
    /\ \/ EnterBegin
       \/ Online
       \/ Offline
    /\ lag' = 0
    /\ UNCHANGED <<now, lastReconnect>>

\* line 105: the flag is set to what begin returns, whatever became of the
\* link while it ran
BeginReturns(ok) ==
    /\ starting
    /\ starting' = FALSE
    /\ telegramStarted' = ok
    /\ fresh' = (ok /\ ~overtaken)
    /\ UNCHANGED <<now, gotIp, dateVars, lastReconnect, overtaken, mdnsStarted,
                   authNdx, station, lag>>

Next ==
    \/ Tick
    \/ GotIP
    \/ Disconnected
    \/ Loop
    \/ \E ok \in BOOLEAN : BeginReturns(ok)

Spec == Init /\ [][Next]_vars

\* The main loop runs for ever, time passes, and begin comes back.
FairSpec ==
    /\ Spec
    /\ WF_vars(Tick) /\ WF_vars(Loop)
    /\ WF_vars(\E ok \in BOOLEAN : BeginReturns(ok))

-----------------------------------------------------------------------------
(* Properties.                                                             *)

\* Every variable keeps its type.
TypeOK ==
    /\ now \in Time /\ disconnectedSince \in Time /\ lastReconnect \in Time
    /\ gotIp \in BOOLEAN /\ telegramStarted \in BOOLEAN
    /\ mdnsStarted \in BOOLEAN /\ starting \in BOOLEAN
    /\ authNdx \in -1 .. ssid_list_len - 1
    /\ station \in {"off", "trying", "up"}
    /\ overtaken \in BOOLEAN /\ fresh \in BOOLEAN /\ redated \in BOOLEAN
    /\ offline \in Age /\ lag \in 0 .. MaxLag

\* Each network is given its time: the next one is tried only AttemptTime
\* after the last attempt, or after the link was lost, in true time.
AttemptGetsItsTime ==
    [][authNdx' # authNdx => offline > AttemptTime]_vars

\* The next network is tried in time, however many events a lost network
\* sends.  One outage in 49.7 days is excepted: the date of one that starts
\* when millis() is 0 counts as none and is written again.
TriesInTime ==
    ~gotIp => offline <= AttemptTime + lag \/ redated

\* A box that stays online ends up with a bot that was started on its link,
\* unless every start fails.  One race is excepted, from which nothing in the
\* code recovers: the link is lost inside begin, which succeeds all the same,
\* so that the flag the event handler cleared is set again.
BotComesBack ==
    \/ []<>~gotIp
    \/ []<><<BeginReturns(FALSE)>>_vars
    \/ <>[](telegramStarted /\ (fresh \/ overtaken))

\* A box without network tries each one it knows again and again.
KeepsTrying ==
    \A n \in 0 .. ssid_list_len - 1 : []<>(gotIp \/ authNdx = n)
=============================================================================
