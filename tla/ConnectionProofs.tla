-------------------------- MODULE ConnectionProofs --------------------------
(***************************************************************************)
(* What the connection handler guarantees for every list of networks,      *)
(* every time limit and every width of the clock.                          *)
(***************************************************************************)
EXTENDS Connection, MillisProofs

(***************************************************************************)
(* While there is no link, _disconnectedSince never lies before the end of *)
(* the link or of the last attempt, dates it unless it was written again,  *)
(* and was looked at when the loop last ran.                               *)
(***************************************************************************)
AgeInv == ~gotIp => Elapsed(now, disconnectedSince) <= offline

OutageInv ==
    ~gotIp /\ ~redated => /\ Dates(now, disconnectedSince, offline)
                          /\ offline <= AttemptTime + lag

\* A link has no date.
LinkInv == gotIp => disconnectedSince = 0

ConInv == TypeOK /\ AgeInv /\ OutageInv /\ LinkInv

\* The state after power-on is one the invariant allows.
LEMMA ConInit == Init => ConInv
<1> SUFFICES ASSUME Init PROVE ConInv
  OBVIOUS
<1>1. /\ now \in Time /\ disconnectedSince \in Time /\ lastReconnect \in Time
      /\ authNdx \in -1 .. ssid_list_len - 1
      /\ offline \in Age /\ lag \in 0 .. MaxLag
  BY ConnectionAssumption, TimeModAssumption DEF Init, Time, Age
<1>2. TypeOK
  BY <1>1 DEF Init, TypeOK
<1>3. Dates(now, disconnectedSince, offline)
  BY <1>1, DatesNow DEF Init
<1>4. AgeInv /\ OutageInv /\ LinkInv
  BY <1>1, <1>3, ConnectionAssumption
  DEF Init, AgeInv, OutageInv, LinkInv, Dates
<1>5. QED
  BY <1>2, <1>4 DEF ConInv

\* What a step does to the dates of an outage: nothing, or it starts anew.
LEMMA FreshDate ==
    /\ now \in Time /\ lag' \in 0 .. MaxLag
    /\ disconnectedSince' = now /\ now' = now /\ offline' = 0
    => AgeInv' /\ OutageInv'
<1> SUFFICES ASSUME now \in Time, lag' \in 0 .. MaxLag,
                    disconnectedSince' = now, now' = now, offline' = 0
             PROVE  AgeInv' /\ OutageInv'
  OBVIOUS
<1>1. lag' \in Nat /\ AttemptTime \in Nat
  BY ConnectionAssumption
<1>2. Dates(now, now, 0)
  BY DatesNow
<1>3. Dates(now', disconnectedSince', offline')
  BY <1>2
<1>4. Elapsed(now', disconnectedSince') <= offline'
  BY <1>3 DEF Dates
<1>5. offline' <= AttemptTime + lag'
  <2>1. \A n, d \in Nat : 0 <= n + d
    OBVIOUS
  <2>2. QED
    BY <1>1, <2>1
<1>6. AgeInv'
  BY <1>4 DEF AgeInv
<1>7. OutageInv'
  BY <1>3, <1>5 DEF OutageInv, Dates
<1>8. QED
  BY <1>6, <1>7

\* Time passes for the date and for the outage alike.
LEMMA TickInv == ConInv /\ Tick => ConInv'
<1> SUFFICES ASSUME ConInv, Tick PROVE ConInv'
  OBVIOUS
<1>1. TypeOK /\ AgeInv /\ OutageInv /\ LinkInv
  BY DEF ConInv
<1>2. now \in Time /\ disconnectedSince \in Time /\ offline \in Age
      /\ lag \in 0 .. MaxLag
  BY <1>1 DEF TypeOK
<1>3. /\ now' = NextMs(now) /\ offline' = Older(offline)
      /\ lag < MaxLag /\ lag' = lag + 1
      /\ UNCHANGED <<gotIp, disconnectedSince, redated, lastReconnect,
                     telegramStarted, starting, overtaken, fresh, mdnsStarted,
                     authNdx, station>>
  BY DEF Tick, botVars
<1>4. TypeOK'
  <2>1. now' \in Time /\ offline' \in Age /\ lag' \in 0 .. MaxLag
    BY <1>2, <1>3, NextMsType, OlderType, ConnectionAssumption
  <2>2. QED
    BY <1>1, <1>3, <2>1 DEF TypeOK
<1>5. AgeInv'
  <2>1. Elapsed(now, disconnectedSince) \in 0 .. TimeMod - 1
    BY <1>2, ElapsedType DEF Time
  <2>2. \/ Elapsed(now', disconnectedSince) = 0
        \/ Elapsed(now', disconnectedSince)
             = Elapsed(now, disconnectedSince) + 1
    BY <1>2, <1>3, ElapsedTick
  <2>3. ~gotIp => Elapsed(now', disconnectedSince) <= offline'
    BY <1>1, <1>2, <1>3, <2>1, <2>2, TimeModAssumption
    DEF AgeInv, Age, Older
  <2>4. QED
    BY <1>3, <2>3 DEF AgeInv
<1>6. OutageInv'
  <2> SUFFICES ASSUME ~gotIp, ~redated
               PROVE  /\ Dates(now', disconnectedSince, offline')
                      /\ offline' <= AttemptTime + lag'
    BY <1>3 DEF OutageInv, Dates
  <2>1. Dates(now, disconnectedSince, offline) /\ offline <= AttemptTime + lag
    BY <1>1 DEF OutageInv
  <2>2. Dates(now', disconnectedSince, offline')
    BY <1>2, <1>3, <2>1, DatesTick
  <2>3. offline' <= AttemptTime + lag'
    BY <1>2, <1>3, <2>1, ConnectionAssumption, TimeModAssumption
    DEF Older, Age
  <2>4. QED
    BY <2>2, <2>3
<1>7. LinkInv'
  BY <1>1, <1>3 DEF LinkInv
<1>8. QED
  BY <1>4, <1>5, <1>6, <1>7 DEF ConInv

\* An outage is dated when it starts; an event may date it again once.
LEMMA DisconnectedInv == ConInv /\ Disconnected => ConInv'
<1> SUFFICES ASSUME ConInv, Disconnected PROVE ConInv'
  OBVIOUS
<1>1. TypeOK /\ AgeInv /\ OutageInv /\ LinkInv
  BY DEF ConInv
<1>2. now \in Time /\ disconnectedSince \in Time /\ offline \in Age
      /\ lag \in 0 .. MaxLag
  BY <1>1 DEF TypeOK
<1>3. /\ gotIp' = FALSE /\ telegramStarted' = FALSE /\ fresh' = FALSE
      /\ overtaken' = (overtaken \/ starting) /\ station' = "trying"
      /\ lastReconnect' \in {now, lastReconnect}
      /\ UNCHANGED <<now, mdnsStarted, authNdx, lag, starting>>
  BY DEF Disconnected, DropBot
<1>4. CASE disconnectedSince = 0 /\ gotIp
  <2>1. disconnectedSince' = now /\ offline' = 0 /\ redated' = FALSE
    BY <1>4 DEF Disconnected, DateOutage
  <2>2. TypeOK'
    <3>1. offline' \in Age
      BY <2>1, TimeModAssumption DEF Age
    <3>2. QED
      BY <1>1, <1>3, <2>1, <3>1 DEF TypeOK
  <2>3. QED
    BY <1>2, <1>3, <2>1, <2>2, FreshDate DEF ConInv, LinkInv
<1>5. CASE disconnectedSince = 0 /\ ~gotIp
  <2>1. disconnectedSince' = now /\ offline' = offline /\ redated' = TRUE
    BY <1>5 DEF Disconnected, DateOutage
  <2>2. TypeOK'
    BY <1>1, <1>3, <2>1 DEF TypeOK
  <2>3. AgeInv' /\ OutageInv'
    BY <1>2, <1>3, <2>1, ElapsedSelf DEF AgeInv, OutageInv, Age
  <2>4. QED
    BY <1>3, <2>2, <2>3 DEF ConInv, LinkInv
<1>6. CASE disconnectedSince # 0
  <2>1. UNCHANGED <<disconnectedSince, offline, redated>>
    BY <1>6 DEF Disconnected, DateOutage, dateVars
  <2>2. TypeOK'
    BY <1>1, <1>3, <2>1 DEF TypeOK
  <2>3. ~gotIp
    BY <1>1, <1>6 DEF LinkInv
  <2>4. AgeInv' /\ OutageInv'
    BY <1>1, <1>3, <2>1, <2>3 DEF AgeInv, OutageInv, Dates
  <2>5. QED
    BY <1>3, <2>2, <2>4 DEF ConInv, LinkInv
<1>7. QED
  BY <1>4, <1>5, <1>6

\* A run of the loop acts on every outage that is old enough.
LEMMA LoopInv == ConInv /\ Loop => ConInv'
<1> SUFFICES ASSUME ConInv, Loop PROVE ConInv'
  OBVIOUS
<1>1. TypeOK /\ AgeInv /\ OutageInv /\ LinkInv
  BY DEF ConInv
<1>2. now \in Time /\ disconnectedSince \in Time /\ offline \in Age
      /\ authNdx \in -1 .. ssid_list_len - 1
  BY <1>1 DEF TypeOK
<1>3. lag' = 0 /\ UNCHANGED <<now, lastReconnect>>
  BY DEF Loop
<1>4. lag' \in 0 .. MaxLag
  BY <1>3, ConnectionAssumption
<1>5. CASE EnterBegin \/ Online
  <2>1. /\ gotIp /\ mdnsStarted' \in {mdnsStarted, TRUE}
        /\ UNCHANGED <<gotIp, disconnectedSince, offline, redated,
                       telegramStarted, fresh, authNdx, station>>
    BY <1>5 DEF EnterBegin, Online, StartMdns, dateVars, botVars
  <2>2. starting' \in BOOLEAN /\ overtaken' \in BOOLEAN
    BY <1>1, <1>5 DEF EnterBegin, Online, botVars, TypeOK
  <2>3. TypeOK'
    BY <1>1, <1>3, <1>4, <2>1, <2>2 DEF TypeOK
  <2>4. QED
    BY <1>1, <2>1, <2>3 DEF ConInv, AgeInv, OutageInv, LinkInv
<1>6. CASE Offline
  <2>1. ~gotIp /\ UNCHANGED <<gotIp, telegramStarted, starting, overtaken, fresh,
                              mdnsStarted>>
    BY <1>6 DEF Offline, botVars
  <2>2. CASE Elapsed(now, disconnectedSince) > AttemptTime
    <3>1. /\ authNdx' = (authNdx + 1) % ssid_list_len
          /\ disconnectedSince' = now /\ offline' = 0 /\ redated' = FALSE
          /\ station' = "trying"
      BY <1>6, <2>2 DEF Offline, TryNextSSID
    <3>2. authNdx' \in -1 .. ssid_list_len - 1 /\ offline' \in Age
      BY <1>2, <3>1, ConnectionAssumption, TimeModAssumption DEF Age
    <3>3. TypeOK'
      BY <1>1, <1>3, <1>4, <2>1, <3>1, <3>2 DEF TypeOK
    <3>4. AgeInv' /\ OutageInv'
      BY <1>2, <1>3, <1>4, <3>1, FreshDate
    <3>5. QED
      BY <2>1, <3>3, <3>4 DEF ConInv, LinkInv
  <2>3. CASE ~(Elapsed(now, disconnectedSince) > AttemptTime)
    <3>1. UNCHANGED <<disconnectedSince, offline, redated, authNdx, station>>
      BY <1>6, <2>3 DEF Offline, dateVars
    <3>2. TypeOK'
      BY <1>1, <1>3, <1>4, <2>1, <3>1 DEF TypeOK
    <3>3. OutageInv'
      <4> SUFFICES ASSUME ~redated
                   PROVE  /\ Dates(now, disconnectedSince, offline)
                          /\ offline <= AttemptTime
        BY <1>3, <3>1, ConnectionAssumption DEF OutageInv, Dates
      <4>1. Dates(now, disconnectedSince, offline)
            /\ offline <= AttemptTime + lag
        BY <1>1, <2>1 DEF OutageInv
      <4>2. lag \in 0 .. MaxLag
        BY <1>1 DEF TypeOK
      <4>3. Elapsed(now, disconnectedSince) = offline
        BY <1>2, <4>1, <4>2, ConnectionAssumption, TimeModAssumption
        DEF Dates, Age
      <4>4. QED
        BY <2>3, <4>1, <4>3, <1>2, ConnectionAssumption DEF Age
    <3>4. QED
      BY <1>1, <1>3, <2>1, <3>1, <3>2, <3>3 DEF ConInv, AgeInv, LinkInv
  <2>4. QED
    BY <2>2, <2>3
<1>7. QED
  BY <1>5, <1>6 DEF Loop

\* The invariant is kept by every step.
LEMMA ConNext == ConInv /\ [Next]_vars => ConInv'
<1> SUFFICES ASSUME ConInv, [Next]_vars PROVE ConInv'
  OBVIOUS
<1>1. TypeOK /\ AgeInv /\ OutageInv /\ LinkInv
  BY DEF ConInv
<1>2. CASE Tick
  BY <1>2, TickInv
<1>3. CASE GotIP
  <2>1. /\ gotIp' = TRUE /\ disconnectedSince' = 0 /\ redated' = FALSE
        /\ station' = "up"
        /\ UNCHANGED <<now, lastReconnect, telegramStarted, starting, overtaken,
                       fresh, mdnsStarted, authNdx, offline, lag>>
    BY <1>3 DEF GotIP, botVars
  <2>2. disconnectedSince' \in Time
    BY <2>1, TimeModAssumption DEF Time
  <2>3. TypeOK'
    BY <1>1, <2>1, <2>2 DEF TypeOK
  <2>4. QED
    BY <2>1, <2>3 DEF ConInv, AgeInv, OutageInv, LinkInv
<1>4. CASE Disconnected
  BY <1>4, DisconnectedInv
<1>5. CASE Loop
  BY <1>5, LoopInv
<1>6. ASSUME NEW ok \in BOOLEAN, BeginReturns(ok) PROVE ConInv'
  <2>1. /\ starting' = FALSE /\ telegramStarted' = ok /\ fresh' = (ok /\ ~overtaken)
        /\ UNCHANGED <<now, gotIp, disconnectedSince, offline, redated,
                       lastReconnect, overtaken, mdnsStarted, authNdx, station,
                       lag>>
    BY <1>6 DEF BeginReturns, dateVars
  <2>2. TypeOK'
    BY <1>1, <2>1 DEF TypeOK
  <2>3. QED
    BY <1>1, <2>1, <2>2 DEF ConInv, AgeInv, OutageInv, LinkInv, Dates
<1>7. CASE UNCHANGED vars
  BY <1>1, <1>7
  DEF vars, dateVars, botVars, ConInv, TypeOK, AgeInv, OutageInv, LinkInv,
      Dates
<1>8. QED
  BY <1>2, <1>3, <1>4, <1>5, <1>6, <1>7 DEF Next

\* Every variable of the connection handler keeps its type.
THEOREM TypeCorrect == Spec => []TypeOK
<1>1. ConInv => TypeOK
  BY DEF ConInv
<1>2. QED
  BY <1>1, ConInit, ConNext, PTL DEF Spec

\* No network is given up before its time, whatever the events, and across
\* every wrap of millis().
THEOREM NetworkGetsItsTime == Spec => AttemptGetsItsTime
<1>1. ConInv /\ [Next]_vars => [authNdx' # authNdx => offline > AttemptTime]_vars
  <2> SUFFICES ASSUME ConInv, [Next]_vars, authNdx' # authNdx
               PROVE  offline > AttemptTime
    OBVIOUS
  <2>1. ~gotIp /\ Elapsed(now, disconnectedSince) > AttemptTime
    BY DEF Next, Tick, GotIP, Disconnected, Loop, EnterBegin, Online, Offline,
           BeginReturns, vars
  <2>2. Elapsed(now, disconnectedSince) <= offline
    BY <2>1 DEF ConInv, AgeInv
  <2>3. now \in Time /\ disconnectedSince \in Time /\ offline \in Age
    BY DEF ConInv, TypeOK
  <2>4. Elapsed(now, disconnectedSince) \in Time
    BY <2>3, ElapsedType
  <2>5. QED
    BY <2>1, <2>2, <2>3, <2>4, ConnectionAssumption, TimeModAssumption
    DEF Time, Age
<1>2. QED
  BY <1>1, ConInit, ConNext, PTL DEF Spec, AttemptGetsItsTime

\* The next network is tried AttemptTime and one lag of the loop after the
\* last at the latest, but for an outage that starts at millis() = 0.
THEOREM NextNetworkInTime == Spec => []TriesInTime
<1>1. ConInv => TriesInTime
  BY DEF ConInv, OutageInv, TriesInTime
<1>2. QED
  BY <1>1, ConInit, ConNext, PTL DEF Spec
=============================================================================
