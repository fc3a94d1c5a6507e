------------------------------- MODULE KeyLock ------------------------------
(***************************************************************************)
(* The key lock of the push button (src/src/switcher/switcher.cpp): the    *)
(* interrupt handler _buttonISR that timestamps the edges of the button    *)
(* pin, and _buttonLoop, run once per iteration of the main loop, that     *)
(* unlocks the button after a hold - release - quiet - acknowledge         *)
(* sequence, locks it again, and toggles the consumers' power request.     *)
(*                                                                         *)
(* The interrupt handler runs between any two steps of the main loop.      *)
(* _buttonLoop reads millis() (line 47) before it copies the button record *)
(* with the interrupts off (line 48), so the two are two steps here.  A    *)
(* tick is whatever unit the time constants are counted in.                *)
(***************************************************************************)
EXTENDS Millis

CONSTANTS
    PressMod,         \* values of numPressesSinceStart (2^32)
    HoldTime,         \* 1000 ms, line 82
    ReleaseLimit,     \* 2000 ms, line 101
    QuietTime,        \* 1000 ms, line 117
    AckWindow,        \* 2000 ms, line 135
    UnlockDuration,   \* 10000 ms, line 11
    DebounceTime,     \* 250 ms, line 163
    MaxLag,           \* longest time between two runs of _buttonLoop
    SnapDelay,        \* longest time between lines 47 and 48
    MaxEdges,         \* bound: edges of the pin between two runs of the loop
    Coalesce,         \* may the pin change again before the handler reads it?
    BounceTime        \* history: a release this short is a contact bounce

ASSUME KeyLockAssumption ==
    /\ PressMod \in Nat /\ PressMod > 1
    /\ HoldTime \in Nat /\ ReleaseLimit \in Nat /\ QuietTime \in Nat
    /\ AckWindow \in Nat /\ UnlockDuration \in Nat /\ DebounceTime \in Nat
    /\ MaxLag \in Nat /\ SnapDelay \in Nat /\ MaxEdges \in Nat
    /\ SnapDelay <= MaxLag
    /\ MaxLag < UnlockDuration
    /\ 2 * (UnlockDuration + MaxLag) < TimeMod
    /\ BounceTime \in Nat /\ BounceTime + MaxLag < TimeMod
    /\ Coalesce \in BOOLEAN

VARIABLES
    now,              \* millis()
    down,             \* the contact of the button is closed (pin low)
    irq,              \* a pin change is waiting for _buttonISR
    lastPress,        \* _btnInfo.lastButtonPressTime
    lastRelease,      \* _btnInfo.lastButtonReleaseTime
    presses,          \* _btnInfo.numPressesSinceStart
    pressed,          \* _btnInfo.pressed
    pc,               \* where the main loop is: elsewhere, or before line 48
    sysTime,          \* the local of _buttonLoop
    keyLock,          \* _keyLockState
    prevPresses,      \* prevBtnPressCount
    ledPwm,           \* _ledPwmValue
    powerRequest,     \* _consumerPowerRequest
    \* history, not in the program
    pressAge,         \* true time since lastPress was written
    releaseAge,       \* true time since lastRelease was written
    cleanPress,       \* a press that is no bounce came since the last run
    lag,              \* time since the last run of _buttonLoop read millis()
    edges             \* edges of the pin since the last run of _buttonLoop

pinVars  == <<down, irq>>
infoVars == <<lastPress, lastRelease, presses, pressed>>
lockVars == <<keyLock, prevPresses, ledPwm>>
ageVars  == <<pressAge, releaseAge>>
vars == <<now, pinVars, infoVars, pc, sysTime, lockVars, powerRequest,
          ageVars, cleanPress, lag, edges>>

LockedStates == {"locked_wait4release", "locked_idle"}
KeyStates == LockedStates \cup
             {"unlocking_hold", "unlocking_wait4release",
              "unlocking_release_delay", "unlocking_wait4ack",
              "unlocked_idle"}
LedLevels == {0, 1, 5, 255, 511, 1023}

Init ==
    /\ now = 0 /\ sysTime = 0
    /\ down = FALSE /\ irq = FALSE
    /\ lastPress = 0 /\ lastRelease = 0 /\ presses = 0 /\ pressed = FALSE
    /\ pc = "elsewhere"
    /\ keyLock = "locked_idle" /\ prevPresses = 0 /\ ledPwm = 0
    /\ powerRequest = FALSE
    /\ pressAge = 0 /\ releaseAge = 0 /\ cleanPress = FALSE
    /\ lag = 0 /\ edges = 0

-----------------------------------------------------------------------------
(* The surroundings: time and the contact of the button.                   *)

\* Time stands still while the handler is due: it preempts the loop at once.
Tick ==
    /\ ~irq
    /\ lag < MaxLag
    /\ pc = "before_snapshot" => Elapsed(now, sysTime) < SnapDelay
    /\ now' = NextMs(now)
    /\ pressAge' = Older(pressAge)
    /\ releaseAge' = Older(releaseAge)
    /\ lag' = lag + 1
    /\ UNCHANGED <<pinVars, infoVars, pc, sysTime, lockVars, powerRequest,
                   cleanPress, edges>>

Edge ==
    /\ edges < MaxEdges
    /\ irq => Coalesce
    /\ down' = ~down
    /\ irq' = TRUE
    /\ edges' = edges + 1
    /\ UNCHANGED <<now, infoVars, pc, sysTime, lockVars, powerRequest,
                   ageVars, cleanPress, lag>>

-----------------------------------------------------------------------------
(* _buttonISR.                                                             *)

\* Mutants: the counter is not cut to its width; below, a press does not
\* restart the measurement of the hold.
WidePress(n) == n + 1

NextPress(n) == IF n = PressMod - 1 THEN 0 ELSE n + 1

StalePress ==
    /\ presses' = NextPress(presses)
    /\ pressAge' = 0
    /\ cleanPress' = (cleanPress \/ releaseAge >= BounceTime)
    /\ UNCHANGED <<lastPress, lastRelease, releaseAge>>

RecordPress ==
    /\ lastPress' = now
    /\ presses' = NextPress(presses)
    /\ pressAge' = 0
    /\ cleanPress' = (cleanPress \/ releaseAge >= BounceTime)
    /\ UNCHANGED <<lastRelease, releaseAge>>

RecordRelease ==
    /\ lastRelease' = now
    /\ releaseAge' = 0
    /\ UNCHANGED <<lastPress, presses, pressAge, cleanPress>>

ButtonISR ==
    /\ irq
    /\ irq' = FALSE
    /\ IF down THEN RecordPress ELSE RecordRelease
    /\ pressed' = down
    /\ UNCHANGED <<now, down, pc, sysTime, lockVars, powerRequest,
                   lag, edges>>

-----------------------------------------------------------------------------
(* _buttonLoop.                                                            *)

ReadMillis ==
    /\ pc = "elsewhere"
    /\ sysTime' = now
    /\ pc' = "before_snapshot"
    /\ UNCHANGED <<now, pinVars, infoVars, lockVars, powerRequest, ageVars,
                   cleanPress, lag, edges>>

HeldFor(ms)  == Elapsed(sysTime, lastPress) >= ms
QuietFor(ms) == Elapsed(sysTime, lastRelease) >= ms

\* Mutant: absolute times are compared.
DeadlinePassed == /\ sysTime >= lastRelease + UnlockDuration
                  /\ sysTime >= lastPress + UnlockDuration

Inactive == QuietFor(UnlockDuration) /\ HeldFor(UnlockDuration)

\* Mutant: the wait for the release is skipped.
NoWait4Release ==
    /\ keyLock = "locked_wait4release"
    /\ keyLock' = "locked_idle"
    /\ UNCHANGED ledPwm

Wait4Release ==
    /\ keyLock = "locked_wait4release"
    /\ keyLock' = IF pressed THEN keyLock ELSE "locked_idle"
    /\ UNCHANGED ledPwm

LockedIdle ==
    /\ keyLock = "locked_idle"
    /\ keyLock' = IF pressed THEN "unlocking_hold" ELSE keyLock
    /\ ledPwm' = 1

UnlockingHold ==
    /\ keyLock = "unlocking_hold"
    /\ keyLock' = IF ~pressed THEN "locked_idle"
                  ELSE IF HeldFor(HoldTime) THEN "unlocking_wait4release"
                  ELSE keyLock
    /\ ledPwm' = 511

\* Mutant: the button may be held for ever.
NoReleaseLimit ==
    /\ keyLock = "unlocking_wait4release"
    /\ keyLock' = IF pressed THEN keyLock ELSE "unlocking_release_delay"
    /\ ledPwm' = 1

UnlockingWait4Release ==
    /\ keyLock = "unlocking_wait4release"
    /\ keyLock' = IF ~pressed THEN "unlocking_release_delay"
                  ELSE IF HeldFor(ReleaseLimit) THEN "locked_wait4release"
                  ELSE keyLock
    /\ ledPwm' = 1

UnlockingReleaseDelay ==
    /\ keyLock = "unlocking_release_delay"
    /\ keyLock' = IF pressed THEN "locked_wait4release"
                  ELSE IF QuietFor(QuietTime) THEN "unlocking_wait4ack"
                  ELSE keyLock
    /\ UNCHANGED ledPwm

\* Mutant: the acknowledge window never closes.
OpenAckWindow ==
    /\ keyLock = "unlocking_wait4ack"
    /\ keyLock' = IF pressed THEN "unlocked_idle" ELSE keyLock
    /\ ledPwm' = 1023

UnlockingWait4Ack ==
    /\ keyLock = "unlocking_wait4ack"
    /\ keyLock' = IF pressed THEN "unlocked_idle"
                  ELSE IF QuietFor(AckWindow) THEN "locked_idle"
                  ELSE keyLock
    /\ ledPwm' = 1023

UnlockedIdle ==
    /\ keyLock = "unlocked_idle"
    /\ keyLock' = IF Inactive THEN "locked_wait4release" ELSE keyLock
    /\ ledPwm' = IF pressed THEN 1023 ELSE IF powerRequest THEN 255 ELSE 5

LockStep ==
    \/ Wait4Release
    \/ LockedIdle
    \/ UnlockingHold
    \/ UnlockingWait4Release
    \/ UnlockingReleaseDelay
    \/ UnlockingWait4Ack
    \/ UnlockedIdle

\* Mutant: no debounce.
TogglesOnBounce(key) == presses # prevPresses /\ key = "unlocked_idle"

\* lines 161-163, where key is the state after the switch statement
TogglesRequest(key) ==
    /\ presses # prevPresses
    /\ key = "unlocked_idle"
    /\ Elapsed(sysTime, lastRelease) > DebounceTime

\* the copy of the button record (line 48) and everything computed from it
ButtonLoop ==
    /\ pc = "before_snapshot"
    /\ LockStep
    /\ powerRequest' = IF TogglesRequest(keyLock') THEN ~powerRequest
                                                   ELSE powerRequest
    /\ prevPresses' = presses
    /\ pc' = "elsewhere"
    /\ cleanPress' = FALSE
    /\ lag' = Elapsed(now, sysTime)
    /\ edges' = 0
    /\ UNCHANGED <<now, pinVars, infoVars, sysTime, pressAge, releaseAge>>

(***************************************************************************)
(* switcher::loop lines 326-336: a command of the telegram bot sets the    *)
(* request, the other commands are ignored.                                *)
(***************************************************************************)
RemoteCommand(on) ==
    /\ pc = "elsewhere"
    /\ powerRequest' = on
    /\ UNCHANGED <<now, pinVars, infoVars, pc, sysTime, lockVars, ageVars,
                   cleanPress, lag, edges>>

Next ==
    \/ Tick
    \/ Edge
    \/ ButtonISR
    \/ ReadMillis
    \/ ButtonLoop
    \/ \E on \in BOOLEAN : RemoteCommand(on)

(***************************************************************************)
(* The main loop never stops and its energy.loop calls delay(10), so time  *)
(* passes; a pending interrupt is served.  Nothing is assumed about the    *)
(* user or about telegram.                                                 *)
(***************************************************************************)
Fairness ==
    /\ WF_vars(ButtonISR)
    /\ WF_vars(ReadMillis)
    /\ WF_vars(ButtonLoop)
    /\ SF_vars(Tick)

Spec == Init /\ [][Next]_vars
FairSpec == Spec /\ Fairness

-----------------------------------------------------------------------------
(* Properties.                                                             *)

\* Every variable keeps its type; in particular the timestamps stay 32 bit.
TypeOK ==
    /\ now \in Time /\ sysTime \in Time
    /\ down \in BOOLEAN /\ irq \in BOOLEAN
    /\ lastPress \in Time /\ lastRelease \in Time
    /\ presses \in 0 .. PressMod - 1 /\ prevPresses \in 0 .. PressMod - 1
    /\ pressed \in BOOLEAN /\ powerRequest \in BOOLEAN
    /\ pc \in {"elsewhere", "before_snapshot"}
    /\ keyLock \in KeyStates /\ ledPwm \in LedLevels
    /\ pressAge \in Age /\ releaseAge \in Age /\ cleanPress \in BOOLEAN
    /\ lag \in 0 .. MaxLag /\ edges \in 0 .. MaxEdges

\* A press the loop sees while it waits for one - to start the sequence, to
\* disturb the quiet time or to acknowledge - was made since its last run:
\* the press that held the button down before can not acknowledge.
PressIsFresh ==
    /\ keyLock \in {"locked_idle", "unlocking_release_delay",
                    "unlocking_wait4ack"}
    /\ pressed
    => pressAge <= lag

\* What unlocks the button is the whole sequence: a contact closed for the
\* hold time without a gap, then open for the quiet time without a gap, then
\* a new press, whatever millis() does in between.
UnlockSequence ==
    [][/\ keyLock = "unlocking_hold" /\ keyLock' = "unlocking_wait4release"
          => pressed /\ pressAge >= HoldTime
       /\ keyLock = "unlocking_release_delay" /\ keyLock' = "unlocking_wait4ack"
          => ~pressed /\ releaseAge >= QuietTime
       /\ keyLock # "unlocked_idle" /\ keyLock' = "unlocked_idle"
          => keyLock = "unlocking_wait4ack" /\ pressed /\ pressAge <= lag
      ]_vars

\* An unlocked button that nobody touches is locked by the first run of the
\* loop after UnlockDuration: the wrap of millis() never extends it.
UnlockedExpires ==
    keyLock = "unlocked_idle" =>
        \/ pressAge < UnlockDuration + lag
        \/ releaseAge < UnlockDuration + lag

\* The acknowledge window closes on time: no press later than the window,
\* plus the time the loop was busy, can unlock.
AckWindowCloses ==
    keyLock = "unlocking_wait4ack" =>
        \/ releaseAge < AckWindow + lag
        \/ releaseAge < QuietTime + 2 * MaxLag + lag

TogglesNow ==
    pc = "before_snapshot" /\ pc' = "elsewhere" /\ powerRequest' # powerRequest

\* How long the loop was away when this run of _buttonLoop read millis().
SinceLastRun == lag - Elapsed(now, sysTime)

\* Longer than the debounce time outlasts a bounce.
RunWasLate == SinceLastRun + BounceTime > DebounceTime + 1

\* The last release fell between lines 47 and 48, later than millis().
ReleasedInGap == releaseAge < Elapsed(now, sysTime)

\* A bounce of the contact toggles the power request in two cases only: the
\* loop comes so late that the debounce time is over before it looks, or the
\* release is newer than the time it is subtracted from.  Behind every other
\* toggle there is a press that followed a release of at least BounceTime.
Debounced ==
    [][TogglesNow => cleanPress \/ RunWasLate \/ ReleasedInGap]_vars

\* A button that is left alone ends up locked, wherever it was left.
AutoRelock ==
    []<><<Edge>>_vars \/ <>[](keyLock \in LockedStates)
=============================================================================
