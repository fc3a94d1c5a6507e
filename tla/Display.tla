------------------------------- MODULE Display ------------------------------
(***************************************************************************)
(* The display: statusDisplay of src/src/oled, composed with the sensor    *)
(* whose voltage its home screen shows.  Every part of the program draws   *)
(* messages into the same buffer, at any time, and keeps the screen from   *)
(* drawing over them for a while; display.loop draws the screen and the    *)
(* status bar when they are due and sends the buffer to the panel.         *)
(*                                                                         *)
(* A buffer is the set of what can be seen in it.  The status bar has a    *)
(* place of its own and is left out of it.                                 *)
(***************************************************************************)
EXTENDS PowerSensor

CONSTANTS
    ContentDelay,     \* homeScreen::show, 1000 ms
    BarDelay,         \* _barUpdateDelay, 50 ms
    ShortTime,        \* how long a message is kept, 1000 ms
    LongTime,         \* or 3000 ms
    StartTime         \* statusDisplay::setup, 5000 ms

ASSUME DisplayAssumption ==
    /\ {ContentDelay, BarDelay, ShortTime, LongTime, StartTime} \subseteq Time
    /\ ShortTime <= LongTime

VARIABLES
    buffer,           \* what is drawn
    panel,            \* what is shown: the buffer as it was last sent
    nextContent,      \* _nextContentUpdate
    nextBar,          \* _nextBarUpdate
    noContentUntil,   \* _noContentUntil
    wasSuppressed,    \* _wasSuppressed
    turn,             \* whose loop the main loop calls next
    \* history, not in the program
    shownAge,         \* true time since the voltage drawn last was measured
    shownValid,       \* the sensor could be read when it was drawn
    messageAge,       \* true time since the last message
    messageTime       \* how long it is to be kept

drawVars == <<buffer, nextBar, noContentUntil, wasSuppressed, messageTime>>
contentVars == <<panel, nextContent, turn, shownValid>>
displayVars == <<drawVars, contentVars, shownAge, messageAge>>
allVars == <<vars, displayVars>>

Pictures == SUBSET {"content", "message"}

\* A new screen starts on an empty display, and at once.
SetScreen == buffer = {} /\ nextContent = 0 /\ nextBar = 0

\* After setup() of main.cpp, which ends with the home screen.
DisplayInit ==
    /\ Init
    /\ SetScreen /\ panel = {} /\ turn = "sensors"
    /\ noContentUntil = StartTime /\ wasSuppressed = TRUE
    /\ shownAge = 0 /\ shownValid = FALSE
    /\ messageAge = 0 /\ messageTime = StartTime

DisplayTick ==
    /\ Tick
    /\ shownAge' = Older(shownAge) /\ messageAge' = Older(messageAge)
    /\ UNCHANGED <<drawVars, contentVars>>

-----------------------------------------------------------------------------
(* Messages, from event handlers and from every part of the main loop.     *)

\* Mutant: the screen may draw over a message without clearing it.
SuppressOnly(time) ==
    /\ nextBar' = 0
    /\ noContentUntil' = Later(now, time)
    /\ messageAge' = 0 /\ messageTime' = time
    /\ UNCHANGED wasSuppressed

SuppressContentTemporary(time) ==
    /\ nextBar' = 0 /\ wasSuppressed' = TRUE
    /\ noContentUntil' = Later(now, time)
    /\ messageAge' = 0 /\ messageTime' = time

Draw(picture, time) ==
    /\ buffer' = picture
    /\ SuppressContentTemporary(time)
    /\ UNCHANGED <<vars, contentVars, shownAge>>

\* saving the memory, the WiFi events, a failed update, a ping
Notice == \E time \in {ShortTime, LongTime} : Draw({"message"}, time)

\* The bot draws what it received over what is there.
BotMessage == Draw(buffer \cup {"message"}, ShortTime)

-----------------------------------------------------------------------------
(* display.loop.                                                           *)

\* Mutant: the screen waits for a whole delay after it was due.
ContentLate == now >= Later(nextContent, ContentDelay) /\ now > noContentUntil

ContentDue == now >= nextContent /\ now > noContentUntil

\* homeScreen::show, which does not clear the display
Show ==
    /\ ReadValue
    /\ buffer' = {"content"} \cup IF wasSuppressed THEN {} ELSE buffer
    /\ nextContent' = Later(now, ContentDelay)
    /\ shownAge' = readAge' /\ shownValid' = valid'

ShowNothing == UNCHANGED <<cacheVars, buffer, nextContent, shownAge, shownValid>>

DisplayLoop ==
    /\ turn = "display" /\ turn' = "sensors"
    /\ IF ContentDue THEN Show /\ wasSuppressed' = FALSE
                     ELSE ShowNothing /\ UNCHANGED wasSuppressed
    /\ LET barDue == now >= nextBar \/ (ContentDue /\ wasSuppressed)
       IN  /\ nextBar' = IF barDue THEN Later(now, BarDelay) ELSE nextBar
           /\ panel' = IF ContentDue \/ barDue THEN buffer' ELSE panel
    /\ UNCHANGED <<now, register, updateVars, lag,
                   noContentUntil, messageAge, messageTime>>

DisplayNext ==
    \/ DisplayTick
    \/ \E value \in Measured : Measure(value) /\ UNCHANGED displayVars
    \/ Get /\ UNCHANGED displayVars
    \/ /\ turn = "sensors" /\ turn' = "display" /\ PsensLoop
       /\ UNCHANGED <<drawVars, panel, nextContent, shownValid,
                      shownAge, messageAge>>
    \/ Notice
    \/ BotMessage
    \/ DisplayLoop

DisplaySpec == DisplayInit /\ [][DisplayNext]_allVars

-----------------------------------------------------------------------------
(* Properties.                                                             *)

\* Every variable keeps its type.
DisplayTypeOK ==
    /\ TypeOK
    /\ buffer \in Pictures /\ panel \in Pictures
    /\ turn \in {"sensors", "display"}
    /\ nextContent \in Time /\ nextBar \in Time /\ noContentUntil \in Time
    /\ wasSuppressed \in BOOLEAN /\ shownValid \in BOOLEAN
    /\ shownAge \in Age /\ messageAge \in Age
    /\ messageTime \in {ShortTime, LongTime, StartTime}

\* The time between two runs of display.loop.
Lateness == 2 * MaxLag

\* What the home screen shows was measured no longer ago than a cached value
\* and a screen may be old, if the sensor could be read.
ShownIsFresh ==
    panel = {"content"} /\ shownValid
    => shownAge <= ReadDelay + ContentDelay + Lateness

\* The screen is drawn only after the last message had its time, and then
\* nothing of a message is left.
MessageKept ==
    [][nextContent' # nextContent
       => messageAge > messageTime /\ buffer' = {"content"}]_allVars

\* A message is not shown for much longer than that: the screen comes back
\* when it is due.
MessageGoes ==
    "message" \in panel
    => \/ messageAge <= messageTime + Lateness
       \/ messageAge <= ContentDelay + Lateness
=============================================================================
