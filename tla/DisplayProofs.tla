---------------------------- MODULE DisplayProofs ---------------------------
(***************************************************************************)
(* Proofs about the display and the sensor behind it, for every value of   *)
(* their delays.  Both compare millis() with sums that wrap, so what is    *)
(* promised is promised for the first 49.7 days: BeforeTheWrap, for the    *)
(* display also DatesFit.  There all dates, also those in the future, are  *)
(* true times.                                                             *)
(***************************************************************************)
EXTENDS Display, MillisProofs

USE TimeModAssumption, SensorAssumption

\* The clock stops before it wraps.
BeforeTheWrap == LastTick < TimeMod - 1

\* A date in the future is a date, and a sum unless that is too large.
LEMMA LaterType ==
    ASSUME NEW date \in Time, NEW delay \in Nat
    PROVE  Later(date, delay) \in Time
BY DEF Later, Time

LEMMA LaterIsSum ==
    ASSUME NEW date \in Time, NEW delay \in Nat
    PROVE  /\ Later(date, delay) <= date + delay
           /\ date + delay < TimeMod => Later(date, delay) = date + delay
BY DEF Later, Time

-----------------------------------------------------------------------------
(* The sensor.                                                             *)

\* A value that is read comes from the cache, or is of this moment.
LEMMA ReadTypes ==
    ASSUME TypeOK, ReadValue
    PROVE  /\ reading' \in Measured /\ readTime' \in Time /\ readAge' \in Age
           /\ valid' \in BOOLEAN
<1>1. 0 \in Age
  BY DEF Age
<1>2. CASE FromCache
  BY <1>2 DEF FromCache, cacheVars, TypeOK
<1>3. CASE FromBus
  BY <1>1, <1>3, Zenon DEF FromBus, TypeOK
<1>4. QED
  BY <1>2, <1>3 DEF ReadValue

LEMMA SensorTypesInit == Init => TypeOK
<1>1. 0 \in Time /\ 0 \in Age /\ 0 \in 0 .. MaxLag
  BY DEF Time, Age
<1>2. QED
  BY <1>1, Zenon DEF Init, TypeOK

LEMMA SensorTypesNext == TypeOK /\ [Next]_vars => TypeOK'
<1> SUFFICES ASSUME TypeOK, [Next]_vars PROVE TypeOK'
  OBVIOUS
<1>1. CASE Tick
  <2>1. now' \in Time /\ readAge' \in Age /\ updateAge' \in Age
    BY <1>1, NextMsType, OlderType DEF Tick, TypeOK
  <2>2. QED
    BY <1>1, <2>1 DEF Tick, TypeOK
<1>2. ASSUME NEW value \in Measured, Measure(value) PROVE TypeOK'
  BY <1>2 DEF Measure, cacheVars, updateVars, TypeOK
<1>3. CASE Get
  BY <1>3, ReadTypes DEF Get, updateVars, TypeOK
<1>4. CASE PsensLoop
  <2>1. CASE Update
    <3>1. nextUpdate' \in Time
      BY <2>1, LaterType DEF Update, TypeOK
    <3>2. QED
      BY <1>4, <2>1, <3>1, ReadTypes DEF PsensLoop, Update, TypeOK, Age
  <2>2. CASE NotDue
    BY <1>4, <2>2 DEF PsensLoop, NotDue, cacheVars, updateVars, TypeOK
  <2>3. QED
    BY <1>4, <2>1, <2>2 DEF PsensLoop
<1>5. CASE UNCHANGED vars
  BY <1>5 DEF vars, cacheVars, updateVars, TypeOK
<1>6. QED
  BY <1>1, <1>2, <1>3, <1>4, <1>5 DEF Next

(***************************************************************************)
(* The powers: until the next update is due, its date tells how old the    *)
(* last one is, and from then on the loop is late.                         *)
(***************************************************************************)
UpdatePlanned ==
    IF now < nextUpdate THEN updateAge + nextUpdate - now <= UpdateDelay
                        ELSE updateAge <= UpdateDelay + lag

PlanInv == TypeOK /\ UpdatePlanned

LEMMA PlanNext ==
    ASSUME BeforeTheWrap, PlanInv, [Next]_vars
    PROVE  PlanInv'
<1> USE DEF PlanInv
<1>1. TypeOK'
  BY SensorTypesNext
<1>2. /\ now \in 0 .. TimeMod - 1 /\ nextUpdate \in 0 .. TimeMod - 1
      /\ updateAge \in 0 .. TimeMod /\ lag \in 0 .. MaxLag
  BY DEF TypeOK, Time, Age
<1>3. CASE Tick
  <2>1. now' = now + 1
    BY <1>2, <1>3 DEF Tick, NextMs, BeforeTheWrap, Time
  <2>2. updateAge' = updateAge + 1
    BY <1>2, <1>3 DEF Tick, Older, UpdatePlanned
  <2>3. QED
    BY <1>1, <1>2, <1>3, <2>1, <2>2 DEF Tick, UpdatePlanned
<1>4. CASE PsensLoop
  <2>1. CASE Update
    <3>1. PICK date \in Time : /\ nextUpdate' = date
                               /\ date <= now + UpdateDelay
      BY <1>2, <2>1, LaterType, LaterIsSum DEF Update, TypeOK
    <3>2. updateAge' = 0 /\ now' = now /\ lag' = 0
      BY <1>4, <2>1 DEF PsensLoop, Update
    <3>3. UpdatePlanned'
      BY <1>2, <3>1, <3>2 DEF UpdatePlanned, Time
    <3>4. QED
      BY <1>1, <3>3
  <2>2. CASE NotDue
    BY <1>1, <1>2, <1>4, <2>2
    DEF PsensLoop, NotDue, updateVars, UpdatePlanned
  <2>3. QED
    BY <1>4, <2>1, <2>2 DEF PsensLoop
<1>5. CASE UNCHANGED <<now, nextUpdate, updateAge, lag>>
  BY <1>1, <1>5 DEF UpdatePlanned
<1>6. ASSUME ~Tick, ~PsensLoop
      PROVE  UNCHANGED <<now, nextUpdate, updateAge, lag>>
  BY <1>6 DEF Next, vars, Measure, Get, updateVars
<1>7. QED
  BY <1>3, <1>4, <1>5, <1>6

\* The powers are derived anew once per UpdateDelay and the lag of the loop,
\* also if the date of the next time wraps.
THEOREM PowersAreFollowed ==
    ASSUME BeforeTheWrap PROVE Spec => []PowersFollow
<1>1. Init => PlanInv
  BY SensorTypesInit DEF Init, PlanInv, UpdatePlanned
<1>2. PlanInv /\ [Next]_vars => PlanInv'
  BY PlanNext
<1>3. PlanInv => PowersFollow
  BY DEF PlanInv, UpdatePlanned, PowersFollow, TypeOK, Time, Age
<1>4. QED
  BY <1>1, <1>2, <1>3, PTL DEF Spec

-----------------------------------------------------------------------------
(* The display only reads the sensor.                                      *)

LEMMA DisplaySteps == [DisplayNext]_allVars => [Next]_vars
<1> SUFFICES ASSUME [DisplayNext]_allVars PROVE Next \/ UNCHANGED vars
  OBVIOUS
<1>1. CASE DisplayTick
  BY <1>1 DEF DisplayTick, Next
<1>2. ASSUME NEW value \in Measured, Measure(value) PROVE Next
  BY <1>2 DEF Next
<1>3. CASE Get \/ PsensLoop
  BY <1>3 DEF Next
<1>4. CASE Notice \/ BotMessage
  BY <1>4 DEF Notice, BotMessage, Draw
<1>5. CASE DisplayLoop
  <2>1. CASE ContentDue
    BY <1>5, <2>1 DEF DisplayLoop, Show, Next, Get
  <2>2. CASE ~ContentDue
    BY <1>5, <2>2
    DEF DisplayLoop, ShowNothing, vars, cacheVars, updateVars
  <2>3. QED
    BY <2>1, <2>2
<1>6. CASE UNCHANGED allVars
  BY <1>6 DEF allVars
<1>7. QED
  BY <1>1, <1>2, <1>3, <1>4, <1>5, <1>6 DEF DisplayNext

\* The composition implements the sensor: what is proved of it holds here.
THEOREM DisplayReadsTheSensor == DisplaySpec => Spec
<1>1. DisplayInit => Init
  BY DEF DisplayInit
<1>2. QED
  BY <1>1, DisplaySteps, PTL DEF DisplaySpec, Spec

-----------------------------------------------------------------------------
(* Types.                                                                  *)

Delays == {ContentDelay, BarDelay, ShortTime, LongTime, StartTime}
MessageTimes == {ShortTime, LongTime, StartTime}

LEMMA DelayTypes == Delays \subseteq Nat /\ MessageTimes \subseteq Nat
BY DisplayAssumption DEF Delays, MessageTimes, Time

PictureTypes == buffer \in Pictures /\ panel \in Pictures
DateTypes == /\ nextContent \in Time /\ nextBar \in Time
             /\ noContentUntil \in Time
HistoryTypes == /\ shownAge \in Age /\ messageAge \in Age
                /\ messageTime \in MessageTimes
FlagTypes == /\ turn \in {"sensors", "display"}
             /\ wasSuppressed \in BOOLEAN /\ shownValid \in BOOLEAN

LEMMA DisplayTypesInit == DisplayInit => DisplayTypeOK
<1> SUFFICES ASSUME DisplayInit PROVE DisplayTypeOK
  OBVIOUS
<1>1. 0 \in Time /\ 0 \in Age /\ StartTime \in Time
  BY DisplayAssumption DEF Time, Age
<1>2. PictureTypes
  BY DEF DisplayInit, SetScreen, PictureTypes, Pictures
<1>3. FlagTypes
  BY DEF DisplayInit, FlagTypes
<1>4. QED
  BY <1>1, <1>2, <1>3, SensorTypesInit
  DEF DisplayInit, SetScreen, DisplayTypeOK, PictureTypes, FlagTypes

LEMMA DisplayTypesNext ==
    DisplayTypeOK /\ [DisplayNext]_allVars => DisplayTypeOK'
<1> SUFFICES ASSUME DisplayTypeOK, [DisplayNext]_allVars PROVE DisplayTypeOK'
  OBVIOUS
<1>1. TypeOK /\ TypeOK'
  BY SensorTypesNext, DisplaySteps DEF DisplayTypeOK
<1>2. SUFFICES PictureTypes' /\ DateTypes' /\ HistoryTypes' /\ FlagTypes'
  BY <1>1
  DEF DisplayTypeOK, PictureTypes, DateTypes, HistoryTypes, FlagTypes,
      MessageTimes
<1> USE DEF PictureTypes, DateTypes, HistoryTypes, FlagTypes
<1>3. PictureTypes /\ DateTypes /\ HistoryTypes /\ FlagTypes
  BY DEF DisplayTypeOK, MessageTimes
<1>4. CASE DisplayTick
  BY <1>3, <1>4, OlderType DEF DisplayTick, drawVars, contentVars
<1>5. ASSUME NEW picture \in Pictures, NEW time \in MessageTimes,
             Draw(picture, time)
      PROVE  PictureTypes' /\ DateTypes' /\ HistoryTypes' /\ FlagTypes'
  <2>1. 0 \in Time /\ 0 \in Age
    BY DEF Time, Age
  <2>2. now \in Time /\ time \in Nat
    BY <1>1, DelayTypes DEF TypeOK
  <2>3. Later(now, time) \in Time
    BY <2>2, LaterType
  <2>4. QED
    BY <1>3, <1>5, <2>1, <2>3 DEF Draw, SuppressContentTemporary, contentVars
<1>6. CASE Notice \/ BotMessage
  <2>1. {"message"} \in Pictures /\ buffer \cup {"message"} \in Pictures
    BY <1>3 DEF Pictures
  <2>2. QED
    BY <1>5, <1>6, <2>1 DEF Notice, BotMessage, MessageTimes
<1>7. CASE DisplayLoop
  <2>1. CASE ContentDue
    <3>1. shownAge' \in Age /\ shownValid' \in BOOLEAN
      BY <1>1, <1>7, <2>1 DEF DisplayLoop, Show, TypeOK
    <3>2. buffer' \in Pictures /\ panel' = buffer'
      BY <1>3, <1>7, <2>1 DEF DisplayLoop, Show, Pictures
    <3>3. nextContent' \in Time /\ nextBar' \in Time
      BY <1>1, <1>3, <1>7, <2>1, LaterType, DelayTypes
      DEF DisplayLoop, Show, TypeOK, Delays
    <3>4. QED
      BY <1>3, <1>7, <2>1, <3>1, <3>2, <3>3 DEF DisplayLoop
  <2>2. CASE ~ContentDue
    <3>1. nextBar' \in Time /\ panel' \in Pictures
      BY <1>1, <1>3, <1>7, <2>2, LaterType, DelayTypes
      DEF DisplayLoop, ShowNothing, TypeOK, Delays
    <3>2. QED
      BY <1>3, <1>7, <2>2, <3>1 DEF DisplayLoop, ShowNothing
  <2>3. QED
    BY <2>1, <2>2
<1>8. CASE UNCHANGED displayVars
  BY <1>3, <1>8 DEF displayVars, drawVars, contentVars
<1>9. CASE turn' = "display" /\ UNCHANGED <<drawVars, panel, nextContent,
                                 shownValid, shownAge, messageAge>>
  BY <1>3, <1>9 DEF drawVars
<1>10. QED
  BY <1>4, <1>6, <1>7, <1>8, <1>9 DEF DisplayNext, allVars

\* Every variable keeps its type, across every wrap.
THEOREM DisplayTypeCorrect == DisplaySpec => []DisplayTypeOK
BY DisplayTypesInit, DisplayTypesNext, PTL DEF DisplaySpec

-----------------------------------------------------------------------------
(***************************************************************************)
(* What buffer and panel show.  From a message until the next screen,      *)
(* wasSuppressed says that the buffer is no clean screen, and the panel    *)
(* shows the buffer, unless the bar, which sends it, is due.  After that   *)
(* both show the screen.                                                   *)
(***************************************************************************)
Suppressed == wasSuppressed =>
                  /\ buffer # {"content"}
                  /\ panel = buffer \/ nextBar <= now
Unsuppressed == ~wasSuppressed =>
                    /\ buffer = {"content"} /\ panel = {"content"}
                    /\ now > noContentUntil

\* The time since the last run of display.loop is at most this.
Slack == IF turn = "sensors" THEN lag ELSE MaxLag + lag

\* In that run the screen was not due, or is not due since.
ScreenKept == now <= nextContent + Slack \/ now <= noContentUntil + Slack

\* A screen alone on the panel was drawn when it was due.
CleanScreenKept == panel = {"content"} => now <= nextContent + Slack

\* How old the last message, and what the screen shows, are.
MessageDated == /\ noContentUntil + messageAge = now + messageTime
                /\ messageAge <= now
                /\ wasSuppressed => nextContent + messageAge <= now + ContentDelay
ScreenDated == /\ nextContent <= now + ContentDelay
               /\ shownValid => shownAge + nextContent
                                   <= now + ReadDelay + ContentDelay
               /\ readAge + readTime = now

ScreenInv == /\ DisplayTypeOK /\ now <= LastTick
             /\ Suppressed /\ Unsuppressed /\ ScreenKept /\ CleanScreenKept
             /\ MessageDated /\ ScreenDated

\* The clock stops a delay before it wraps, so no date of the display does.
DatesFit == BeforeTheWrap /\ \A delay \in Delays : LastTick + delay < TimeMod

LEMMA ScreenInit == DisplayInit => ScreenInv
<1> SUFFICES ASSUME DisplayInit PROVE ScreenInv
  OBVIOUS
<1>1. DisplayTypeOK
  BY DisplayTypesInit
<1>2. /\ now = 0 /\ readAge = 0 /\ readTime = 0 /\ lag = 0
      /\ nextContent = 0 /\ nextBar = 0 /\ noContentUntil = StartTime
      /\ messageAge = 0 /\ messageTime = StartTime
      /\ ~shownValid /\ wasSuppressed /\ buffer = {} /\ panel = {}
      /\ turn = "sensors"
  BY DEF DisplayInit, Init, SetScreen
<1>3. StartTime \in Nat /\ ContentDelay \in Nat /\ LastTick \in Nat
  BY DisplayAssumption DEF Time
<1>4. QED
  BY <1>1, <1>2, <1>3
  DEF ScreenInv, Suppressed, Unsuppressed, ScreenKept, CleanScreenKept, Slack,
      MessageDated, ScreenDated

\* The numbers among the variables, and their dates and ages as numbers.
LEMMA ScreenNumbers ==
    ASSUME ScreenInv
    PROVE  /\ now \in 0 .. LastTick /\ lag \in 0 .. MaxLag
           /\ nextContent \in Nat /\ nextBar \in Nat /\ noContentUntil \in Nat
           /\ messageTime \in Nat /\ messageAge \in 0 .. TimeMod
           /\ shownAge \in 0 .. TimeMod /\ readAge \in 0 .. TimeMod
           /\ readTime \in Nat
           /\ LastTick \in 0 .. TimeMod - 1
<1>1. messageTime \in Nat
  BY DelayTypes DEF ScreenInv, DisplayTypeOK, MessageTimes
<1>2. QED
  BY <1>1 DEF ScreenInv, DisplayTypeOK, TypeOK, Time, Age

\* Before the wrap a date in the future is a sum.
LEMMA LaterExact ==
    ASSUME DatesFit, ScreenInv, NEW delay \in Delays
    PROVE  delay \in Nat /\ Later(now, delay) = now + delay
<1>1. delay \in Nat /\ LastTick + delay < TimeMod
  BY DelayTypes DEF DatesFit
<1>2. now \in Time /\ now + delay < TimeMod
  BY <1>1, ScreenNumbers DEF Time
<1>3. QED
  BY <1>1, <1>2, LaterIsSum

\* A valid value is no older than the cache may be.
LEMMA ReadDated ==
    ASSUME ScreenInv, ReadValue
    PROVE  \E age \in 0 .. TimeMod :
              /\ readAge' = age /\ readTime' = now - age
              /\ valid' => age <= ReadDelay
<1>1. readAge + readTime = now
  BY DEF ScreenInv, ScreenDated
<1>2. CASE FromCache
  <2>1. Later(readTime, ReadDelay) <= readTime + ReadDelay
    BY LaterIsSum DEF ScreenInv, DisplayTypeOK, TypeOK
  <2>2. Later(readTime, ReadDelay) \in Int
    BY LaterType DEF ScreenInv, DisplayTypeOK, TypeOK, Time
  <2>3. readAge <= ReadDelay
    BY <1>1, <1>2, <2>1, <2>2, ScreenNumbers DEF FromCache, Cached
  <2>4. QED
    BY <1>1, <1>2, <2>3, ScreenNumbers DEF FromCache, cacheVars
<1>3. CASE FromBus
  <2>1. CASE readAge' = 0 /\ readTime' = now
    <3>1. 0 \in 0 .. TimeMod /\ now - 0 = now /\ 0 <= ReadDelay
      BY ScreenNumbers
    <3>2. QED
      BY <2>1, <3>1
  <2>2. CASE readAge' = readAge /\ readTime' = readTime /\ valid' = FALSE
    BY <1>1, <2>2, ScreenNumbers
  <2>3. QED
    BY <1>3, <2>1, <2>2 DEF FromBus
<1>4. QED
  BY <1>2, <1>3 DEF ReadValue

LEMMA ScreenTick ==
    ASSUME DatesFit, ScreenInv, DisplayTick
    PROVE  ScreenInv'
<1>1. DisplayTypeOK'
  BY DisplayTypesNext DEF ScreenInv, DisplayNext
<1>2. /\ now' = now + 1 /\ lag' = lag + 1 /\ now < LastTick
      /\ UNCHANGED <<drawVars, contentVars, readTime>>
  BY ScreenNumbers DEF DisplayTick, Tick, NextMs, DatesFit, BeforeTheWrap
<1>3. readAge' = readAge + 1 /\ messageAge' = messageAge + 1
  BY ScreenNumbers
  DEF DisplayTick, Tick, Older, ScreenInv, ScreenDated, MessageDated
<1>4. PICK age \in 0 .. TimeMod : shownAge' = age /\ age <= shownAge + 1
  <2>1. /\ Older(shownAge) \in 0 .. TimeMod
        /\ Older(shownAge) <= shownAge + 1
    BY ScreenNumbers DEF Older
  <2>2. QED
    BY <2>1 DEF DisplayTick
<1>5. Suppressed' /\ Unsuppressed'
  BY <1>2, ScreenNumbers
  DEF drawVars, contentVars, ScreenInv, Suppressed, Unsuppressed
<1>6. ScreenKept' /\ CleanScreenKept'
  BY <1>2, ScreenNumbers
  DEF drawVars, contentVars, ScreenInv, ScreenKept, CleanScreenKept, Slack
<1>7. MessageDated' /\ ScreenDated'
  BY <1>2, <1>3, <1>4, ScreenNumbers, DelayTypes
  DEF drawVars, contentVars, ScreenInv, MessageDated, ScreenDated, Delays
<1>8. QED
  BY <1>1, <1>2, <1>5, <1>6, <1>7, ScreenNumbers DEF ScreenInv

LEMMA ScreenMessage ==
    ASSUME DatesFit, ScreenInv, Notice \/ BotMessage
    PROVE  ScreenInv'
<1>1. DisplayTypeOK'
  BY DisplayTypesNext DEF ScreenInv, DisplayNext
<1>2. PICK picture \in SUBSET {"content", "message"}, time \in Delays :
          "message" \in picture /\ Draw(picture, time)
  <2>1. CASE Notice
    BY <2>1 DEF Notice, Delays
  <2>2. CASE BotMessage
    BY <2>2 DEF BotMessage, Delays, ScreenInv, DisplayTypeOK, Pictures
  <2>3. QED
    BY <2>1, <2>2
<1>3. time \in Nat /\ Later(now, time) = now + time
  BY LaterExact
<1>4. /\ noContentUntil' = now + time /\ messageAge' = 0
      /\ messageTime' = time /\ nextBar' = 0 /\ wasSuppressed'
      /\ buffer' # {"content"}
      /\ UNCHANGED <<vars, contentVars, shownAge>>
  BY <1>2, <1>3 DEF Draw, SuppressContentTemporary
<1>5. UNCHANGED <<now, lag, readAge, readTime, panel, nextContent, turn,
                  shownValid, shownAge>>
  BY <1>4 DEF vars, cacheVars, contentVars
<1>6. Suppressed' /\ Unsuppressed'
  BY <1>4, <1>5, ScreenNumbers DEF Suppressed, Unsuppressed
<1>7. ScreenKept' /\ CleanScreenKept'
  BY <1>3, <1>4, <1>5, ScreenNumbers
  DEF ScreenInv, ScreenKept, CleanScreenKept, Slack
<1>8. MessageDated' /\ ScreenDated'
  BY <1>3, <1>4, <1>5, ScreenNumbers DEF ScreenInv, MessageDated, ScreenDated
<1>9. QED
  BY <1>1, <1>5, <1>6, <1>7, <1>8 DEF ScreenInv

LEMMA ScreenDraw ==
    ASSUME DatesFit, ScreenInv, DisplayLoop, ContentDue
    PROVE  ScreenInv'
<1>1. DisplayTypeOK'
  BY DisplayTypesNext DEF ScreenInv, DisplayNext
<1>2. /\ UNCHANGED <<now, lag, noContentUntil, messageAge, messageTime>>
      /\ turn' = "sensors" /\ ~wasSuppressed' /\ panel' = buffer'
      /\ now > noContentUntil
  BY DEF DisplayLoop, ContentDue
<1>3. buffer' = {"content"}
  BY DEF DisplayLoop, Show, ScreenInv, Unsuppressed
<1>4. nextContent' = now + ContentDelay /\ ContentDelay \in Nat
  BY LaterExact DEF DisplayLoop, Show, Delays
<1>5. PICK age \in 0 .. TimeMod :
          /\ readAge' = age /\ readTime' = now - age /\ shownAge' = age
          /\ shownValid' => age <= ReadDelay
  BY ReadDated DEF DisplayLoop, Show
<1>6. Suppressed' /\ Unsuppressed'
  BY <1>2, <1>3 DEF Suppressed, Unsuppressed
<1>7. ScreenKept' /\ CleanScreenKept'
  BY <1>2, <1>4, ScreenNumbers DEF ScreenKept, CleanScreenKept, Slack
<1>8. MessageDated' /\ ScreenDated'
  BY <1>2, <1>4, <1>5, ScreenNumbers
  DEF ScreenInv, MessageDated, ScreenDated
<1>9. QED
  BY <1>1, <1>2, <1>6, <1>7, <1>8 DEF ScreenInv

LEMMA ScreenWait ==
    ASSUME ScreenInv, DisplayLoop, ~ContentDue
    PROVE  ScreenInv'
<1>1. DisplayTypeOK'
  BY DisplayTypesNext DEF ScreenInv, DisplayNext
<1>2. /\ UNCHANGED <<now, lag, noContentUntil, messageAge, messageTime, buffer,
                     nextContent, shownAge, shownValid, wasSuppressed,
                     readAge, readTime>>
      /\ turn' = "sensors"
  BY DEF DisplayLoop, ShowNothing, cacheVars
<1>3. now < nextContent \/ now <= noContentUntil
  BY ScreenNumbers DEF ContentDue
<1>4. IF now >= nextBar THEN panel' = buffer
                        ELSE panel' = panel /\ nextBar' = nextBar
  BY <1>2 DEF DisplayLoop
<1>5. Suppressed' /\ Unsuppressed'
  BY <1>2, <1>4, ScreenNumbers DEF ScreenInv, Suppressed, Unsuppressed
<1>6. wasSuppressed => panel' # {"content"}
  BY <1>4, ScreenNumbers DEF ScreenInv, Suppressed
<1>7. ScreenKept' /\ CleanScreenKept'
  BY <1>2, <1>3, <1>6, ScreenNumbers
  DEF ScreenInv, ScreenKept, CleanScreenKept, Slack, Unsuppressed
<1>8. MessageDated' /\ ScreenDated'
  BY <1>2 DEF ScreenInv, MessageDated, ScreenDated
<1>9. QED
  BY <1>1, <1>2, <1>5, <1>7, <1>8 DEF ScreenInv

LEMMA ScreenSensors ==
    ASSUME ScreenInv, turn = "sensors", turn' = "display", PsensLoop,
           UNCHANGED <<drawVars, panel, nextContent, shownValid, shownAge,
                       messageAge>>
    PROVE  ScreenInv'
<1>1. DisplayTypeOK'
  BY DisplayTypesNext DEF ScreenInv, DisplayNext
<1>2. now' = now /\ lag' = 0 /\ UNCHANGED drawVars
  BY DEF PsensLoop
<1>3. PICK age \in 0 .. TimeMod : readAge' = age /\ readTime' = now - age
  <2>1. CASE Update
    BY <2>1, ReadDated DEF Update
  <2>2. CASE NotDue
    <3>1. readAge' = readAge /\ readTime' = now - readAge
      BY <2>2, ScreenNumbers DEF NotDue, cacheVars, ScreenInv, ScreenDated
    <3>2. QED
      BY <3>1, ScreenNumbers
  <2>3. QED
    BY <2>1, <2>2 DEF PsensLoop
<1>4. Suppressed' /\ Unsuppressed'
  BY <1>2 DEF drawVars, ScreenInv, Suppressed, Unsuppressed
<1>5. ScreenKept' /\ CleanScreenKept'
  BY <1>2, ScreenNumbers
  DEF drawVars, ScreenInv, ScreenKept, CleanScreenKept, Slack
<1>6. MessageDated' /\ ScreenDated'
  BY <1>2, <1>3, ScreenNumbers
  DEF drawVars, ScreenInv, MessageDated, ScreenDated
<1>7. QED
  BY <1>1, <1>2, <1>4, <1>5, <1>6 DEF ScreenInv

LEMMA ScreenNext ==
    ASSUME DatesFit, ScreenInv, [DisplayNext]_allVars
    PROVE  ScreenInv'
<1>1. DisplayTypeOK'
  BY DisplayTypesNext DEF ScreenInv
<1>2. CASE DisplayTick
  BY <1>2, ScreenTick
<1>3. ASSUME NEW value \in Measured, Measure(value), UNCHANGED displayVars
      PROVE  ScreenInv'
  BY <1>1, <1>3
  DEF Measure, displayVars, drawVars, contentVars, cacheVars, ScreenInv,
      Suppressed, Unsuppressed, ScreenKept, CleanScreenKept, Slack,
      MessageDated, ScreenDated
<1>4. CASE Get /\ UNCHANGED displayVars
  <2>1. PICK age \in 0 .. TimeMod : readAge' = age /\ readTime' = now - age
    BY <1>4, ReadDated DEF Get
  <2>2. ScreenDated'
    BY <1>4, <2>1, ScreenNumbers
    DEF Get, displayVars, drawVars, contentVars, ScreenInv, ScreenDated
  <2>3. QED
    BY <1>1, <1>4, <2>2
    DEF Get, displayVars, drawVars, contentVars, ScreenInv, Suppressed,
        Unsuppressed, ScreenKept, CleanScreenKept, Slack, MessageDated
<1>5. CASE Notice \/ BotMessage
  BY <1>5, ScreenMessage
<1>6. CASE DisplayLoop
  BY <1>6, ScreenDraw, ScreenWait
<1>7. CASE UNCHANGED allVars
  BY <1>1, <1>7
  DEF allVars, vars, displayVars, drawVars, contentVars, cacheVars, ScreenInv,
      Suppressed, Unsuppressed, ScreenKept, CleanScreenKept, Slack,
      MessageDated, ScreenDated
<1>8. QED
  BY <1>2, <1>3, <1>4, <1>5, <1>6, <1>7, ScreenSensors DEF DisplayNext

LEMMA ScreenAlways ==
    ASSUME DatesFit PROVE DisplaySpec => []ScreenInv
<1>1. ScreenInv /\ [DisplayNext]_allVars => ScreenInv'
  BY ScreenNext
<1>2. QED
  BY <1>1, ScreenInit, PTL DEF DisplaySpec

\* What is shown is no older than a cached value, a screen and two runs of
\* the loop, whatever messages come in between.
THEOREM ScreenIsFresh ==
    ASSUME DatesFit PROVE DisplaySpec => []ShownIsFresh
<1>1. ScreenInv => ShownIsFresh
  <2> SUFFICES ASSUME ScreenInv, panel = {"content"}, shownValid
               PROVE  shownAge <= ReadDelay + ContentDelay + Lateness
    BY DEF ShownIsFresh
  <2>1. now <= nextContent + Slack /\ Slack \in 0 .. 2 * MaxLag
    BY ScreenNumbers DEF ScreenInv, CleanScreenKept, Slack
  <2>2. shownAge + nextContent <= now + ReadDelay + ContentDelay
    BY DEF ScreenInv, ScreenDated
  <2>3. ContentDelay \in Nat
    BY DisplayAssumption DEF Time
  <2>4. QED
    BY <2>1, <2>2, <2>3, ScreenNumbers DEF Lateness
<1>2. QED
  BY <1>1, ScreenAlways, PTL

\* No screen is drawn before the last message had its time, and then nothing
\* of the message is left in the buffer, whoever drew over whom.
THEOREM MessageIsKept ==
    ASSUME DatesFit PROVE DisplaySpec => MessageKept
<1>1. ScreenInv /\ [DisplayNext]_allVars
        => [nextContent' # nextContent
              => messageAge > messageTime /\ buffer' = {"content"}]_allVars
  <2> SUFFICES ASSUME ScreenInv, [DisplayNext]_allVars,
                      nextContent' # nextContent
               PROVE  messageAge > messageTime /\ buffer' = {"content"}
    OBVIOUS
  <2>1. DisplayLoop /\ ContentDue
    BY DEF DisplayNext, DisplayTick, Notice, BotMessage, Draw, DisplayLoop,
           ShowNothing, allVars, displayVars, contentVars
  <2>2. now > noContentUntil
    BY <2>1 DEF ContentDue
  <2>3. messageAge > messageTime
    BY <2>2, ScreenNumbers DEF ScreenInv, MessageDated
  <2>4. buffer' = {"content"}
    BY <2>1 DEF DisplayLoop, Show, ScreenInv, Unsuppressed
  <2>5. QED
    BY <2>3, <2>4
<1>2. QED
  BY <1>1, ScreenAlways, PTL DEF DisplaySpec, MessageKept

\* The screen comes back: a message is gone when its time and the delay of a
\* screen are over, and the loop ran.
THEOREM MessageIsGone ==
    ASSUME DatesFit PROVE DisplaySpec => []MessageGoes
<1>1. ScreenInv => MessageGoes
  <2> SUFFICES ASSUME ScreenInv, "message" \in panel
               PROVE  \/ messageAge <= messageTime + Lateness
                      \/ messageAge <= ContentDelay + Lateness
    BY DEF MessageGoes
  <2>1. wasSuppressed
    BY DEF ScreenInv, Unsuppressed
  <2>2. /\ nextContent + messageAge <= now + ContentDelay
        /\ noContentUntil + messageAge = now + messageTime
    BY <2>1 DEF ScreenInv, MessageDated
  <2>3. Slack \in 0 .. 2 * MaxLag
    BY ScreenNumbers DEF Slack
  <2>4. now <= nextContent + Slack \/ now <= noContentUntil + Slack
    BY DEF ScreenInv, ScreenKept
  <2>5. ContentDelay \in Nat
    BY DisplayAssumption DEF Time
  <2>6. QED
    BY <2>2, <2>3, <2>4, <2>5, ScreenNumbers DEF Lateness
<1>2. QED
  BY <1>1, ScreenAlways, PTL
=============================================================================
