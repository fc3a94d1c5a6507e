---------------------------- MODULE KeyLockProofs ---------------------------
(***************************************************************************)
(* Proofs about the key lock, for every width of the clock and every value *)
(* of the time constants.                                                  *)
(***************************************************************************)
EXTENDS KeyLock, MillisProofs

USE TimeModAssumption, KeyLockAssumption

\* The truth values of TypeOK, which Zenon proves apart from the numbers.
Flags == /\ down \in BOOLEAN /\ irq \in BOOLEAN /\ pressed \in BOOLEAN
         /\ powerRequest \in BOOLEAN /\ cleanPress \in BOOLEAN

\* The snapshot is taken at most SnapDelay after millis() is read.
SnapshotInTime == pc = "before_snapshot" => Elapsed(now, sysTime) <= SnapDelay

\* The timestamps of the handler date the last press and the last release.
StampsExact == /\ Dates(now, lastPress, pressAge)
               /\ Dates(now, lastRelease, releaseAge)

ClockInv == TypeOK /\ SnapshotInTime /\ StampsExact

LEMMA ClockInit == Init => ClockInv
<1> SUFFICES ASSUME Init PROVE ClockInv
  OBVIOUS
<1>1. 0 \in Time
  BY DEF Time
<1>2. TypeOK
  <2>1. Flags
    BY DEF Init, Flags
  <2>2. QED
    BY <1>1, <2>1 DEF Init, TypeOK, Flags, KeyStates, LockedStates,
                      LedLevels, Age
<1>3. SnapshotInTime /\ StampsExact
  BY <1>1, DatesNow DEF Init, SnapshotInTime, StampsExact
<1>4. QED
  BY <1>2, <1>3 DEF ClockInv

LEMMA ClockNext == ClockInv /\ [Next]_vars => ClockInv'
<1> SUFFICES ASSUME ClockInv, [Next]_vars PROVE ClockInv'
  OBVIOUS
<1> USE DEF ClockInv
<1>1. CASE Tick
  <2>1. /\ now' \in Time
        /\ pressAge' \in Age /\ releaseAge' \in Age
        /\ lag' \in 0 .. MaxLag
    BY <1>1, NextMsType, OlderType DEF Tick, TypeOK
  <2>2. TypeOK'
    BY <1>1, <2>1
    DEF Tick, TypeOK, pinVars, infoVars, lockVars
  <2>3. SnapshotInTime'
    <3>1. Elapsed(now, sysTime) \in Time
      BY ElapsedType DEF TypeOK
    <3>2. QED
      BY <1>1, <3>1, ElapsedTick DEF Tick, TypeOK, SnapshotInTime, Time
  <2>4. StampsExact'
    BY <1>1, DatesTick DEF Tick, TypeOK, StampsExact, infoVars
  <2>5. QED
    BY <2>2, <2>3, <2>4
<1>2. CASE Edge
  BY <1>2 DEF Edge, TypeOK, SnapshotInTime, StampsExact, Dates,
              infoVars, lockVars, ageVars
<1>3. CASE ButtonISR
  <2>1. CASE down
    <3>1. Dates(now, now, 0)
      BY DatesNow DEF TypeOK
    <3>2. Flags'
      BY <1>3, <2>1 DEF ButtonISR, RecordPress, TypeOK, Flags, lockVars
    <3>3. TypeOK' /\ SnapshotInTime'
      BY <1>3, <2>1, <3>2 DEF ButtonISR, RecordPress, NextPress, TypeOK, Flags,
                              SnapshotInTime, Age, lockVars
    <3>4. StampsExact'
      BY <1>3, <2>1, <3>1 DEF ButtonISR, RecordPress, StampsExact
    <3>5. QED
      BY <3>3, <3>4
  <2>2. CASE ~down
    <3>1. Dates(now, now, 0)
      BY DatesNow DEF TypeOK
    <3>2. Flags'
      BY <1>3, <2>2 DEF ButtonISR, RecordRelease, TypeOK, Flags, lockVars
    <3>3. TypeOK' /\ SnapshotInTime'
      BY <1>3, <2>2, <3>2 DEF ButtonISR, RecordRelease, TypeOK, Flags,
                              SnapshotInTime, Age, lockVars
    <3>4. StampsExact'
      BY <1>3, <2>2, <3>1 DEF ButtonISR, RecordRelease, StampsExact
    <3>5. QED
      BY <3>3, <3>4
  <2>3. QED
    BY <2>1, <2>2
<1>4. CASE ReadMillis
  <2>1. Elapsed(now, now) = 0
    BY ElapsedSelf DEF TypeOK
  <2>2. QED
    BY <1>4, <2>1 DEF ReadMillis, TypeOK, SnapshotInTime, StampsExact, Dates,
                      pinVars, infoVars, lockVars, ageVars
<1>5. CASE ButtonLoop
  <2>1. Elapsed(now, sysTime) \in 0 .. MaxLag
    BY <1>5, ElapsedType DEF ButtonLoop, SnapshotInTime, TypeOK, Time
  <2>2. keyLock' \in KeyStates /\ ledPwm' \in LedLevels
    BY <1>5 DEF ButtonLoop, LockStep, Wait4Release, LockedIdle, UnlockingHold,
                UnlockingWait4Release, UnlockingReleaseDelay,
                UnlockingWait4Ack, UnlockedIdle, KeyStates, LockedStates,
                LedLevels, TypeOK
  <2>3. TypeOK'
    <3>1. Flags'
      BY <1>5 DEF ButtonLoop, TypeOK, Flags, pinVars, infoVars
    <3>2. QED
      BY <1>5, <2>1, <2>2, <3>1
      DEF ButtonLoop, TypeOK, Flags, pinVars, infoVars
  <2>4. SnapshotInTime' /\ StampsExact'
    BY <1>5 DEF ButtonLoop, SnapshotInTime, StampsExact, Dates, infoVars
  <2>5. QED
    BY <2>3, <2>4
<1>6. ASSUME NEW on \in BOOLEAN, RemoteCommand(on) PROVE ClockInv'
  BY <1>6 DEF RemoteCommand, TypeOK, SnapshotInTime, StampsExact, Dates,
              pinVars, infoVars, lockVars, ageVars
<1>7. CASE UNCHANGED vars
  BY <1>7 DEF vars, TypeOK, SnapshotInTime, StampsExact, Dates,
              pinVars, infoVars, lockVars, ageVars
<1>8. QED
  BY <1>1, <1>2, <1>3, <1>4, <1>5, <1>6, <1>7 DEF Next

\* Every variable keeps its type: the timestamps and the press counter stay
\* within 32 bit, and the time the loop may be busy is never exceeded.
THEOREM TypeCorrect == Spec => []TypeOK
<1>1. Spec => []ClockInv
  BY ClockInit, ClockNext, PTL DEF Spec
<1>2. ClockInv => TypeOK
  BY DEF ClockInv
<1>3. QED
  BY <1>1, <1>2, PTL

-----------------------------------------------------------------------------
(* A press the loop sees while it waits for one is a new press.            *)

LEMMA FreshNext == TypeOK /\ PressIsFresh /\ [Next]_vars => PressIsFresh'
<1> SUFFICES ASSUME TypeOK, PressIsFresh, [Next]_vars PROVE PressIsFresh'
  OBVIOUS
<1>1. CASE Tick
  BY <1>1 DEF Tick, TypeOK, PressIsFresh, Older, Age, infoVars, lockVars
<1>2. CASE Edge
  BY <1>2 DEF Edge, PressIsFresh, infoVars, lockVars, ageVars
<1>3. CASE ButtonISR
  <2>1. CASE down
    BY <1>3, <2>1 DEF ButtonISR, RecordPress, TypeOK, PressIsFresh, lockVars
  <2>2. CASE ~down
    BY <1>3, <2>2 DEF ButtonISR, PressIsFresh
  <2>3. QED
    BY <2>1, <2>2
<1>4. CASE ReadMillis
  BY <1>4 DEF ReadMillis, PressIsFresh, infoVars, lockVars, ageVars
<1>5. CASE ButtonLoop
  \* a state that waits for a press is entered only with the button released
  <2>1. pressed => keyLock' \notin {"locked_idle", "unlocking_release_delay",
                                    "unlocking_wait4ack"}
    BY <1>5 DEF ButtonLoop, LockStep, Wait4Release, LockedIdle, UnlockingHold,
                UnlockingWait4Release, UnlockingReleaseDelay,
                UnlockingWait4Ack, UnlockedIdle
  <2>2. QED
    BY <1>5, <2>1 DEF ButtonLoop, PressIsFresh, infoVars
<1>6. ASSUME NEW on \in BOOLEAN, RemoteCommand(on) PROVE PressIsFresh'
  BY <1>6 DEF RemoteCommand, PressIsFresh, infoVars, lockVars, ageVars
<1>7. CASE UNCHANGED vars
  BY <1>7 DEF vars, PressIsFresh, infoVars, lockVars, ageVars
<1>8. QED
  BY <1>1, <1>2, <1>3, <1>4, <1>5, <1>6, <1>7 DEF Next

\* The press that held the button down before can never start, disturb or
\* acknowledge the sequence.
THEOREM FreshPress == Spec => []PressIsFresh
<1>1. Init => PressIsFresh
  BY DEF Init, PressIsFresh
<1>2. QED
  BY <1>1, FreshNext, TypeCorrect, PTL DEF Spec

\* If nothing can happen between reading millis() and copying the button
\* record, one step honours the sequence.
LEMMA SequenceStep ==
    ASSUME SnapDelay = 0, ClockInv, PressIsFresh, [Next]_vars
    PROVE  /\ keyLock = "unlocking_hold"
              /\ keyLock' = "unlocking_wait4release"
              => pressed /\ pressAge >= HoldTime
           /\ keyLock = "unlocking_release_delay"
              /\ keyLock' = "unlocking_wait4ack"
              => ~pressed /\ releaseAge >= QuietTime
           /\ keyLock # "unlocked_idle" /\ keyLock' = "unlocked_idle"
              => keyLock = "unlocking_wait4ack" /\ pressed /\ pressAge <= lag
<1>1. CASE ButtonLoop
  <2>1. sysTime = now
    BY <1>1, SnapDelay = 0
    DEF ButtonLoop, ClockInv, TypeOK, SnapshotInTime, Elapsed, Time
  <2>2. /\ Elapsed(sysTime, lastPress) <= pressAge
        /\ Elapsed(sysTime, lastRelease) <= releaseAge
    BY <2>1 DEF ClockInv, StampsExact, Dates
  <2>3. /\ Elapsed(sysTime, lastPress) \in Int
        /\ Elapsed(sysTime, lastRelease) \in Int
        /\ pressAge \in Int /\ releaseAge \in Int
    BY DEF Elapsed, ClockInv, TypeOK, Time, Age
  <2>4. CASE keyLock = "unlocking_hold"
    BY <1>1, <2>2, <2>3, <2>4
    DEF ButtonLoop, LockStep, Wait4Release, LockedIdle, UnlockingHold,
        UnlockingWait4Release, UnlockingReleaseDelay, UnlockingWait4Ack,
        UnlockedIdle, HeldFor
  <2>5. CASE keyLock = "unlocking_release_delay"
    BY <1>1, <2>2, <2>3, <2>5
    DEF ButtonLoop, LockStep, Wait4Release, LockedIdle, UnlockingHold,
        UnlockingWait4Release, UnlockingReleaseDelay, UnlockingWait4Ack,
        UnlockedIdle, QuietFor
  <2>6. CASE keyLock \notin {"unlocking_hold", "unlocking_release_delay"}
    BY <1>1, <2>6
    DEF ButtonLoop, LockStep, Wait4Release, LockedIdle, UnlockingHold,
        UnlockingWait4Release, UnlockingReleaseDelay, UnlockingWait4Ack,
        UnlockedIdle, PressIsFresh
  <2>7. QED
    BY <2>4, <2>5, <2>6
<1>2. CASE UNCHANGED keyLock
  BY <1>2
<1>3. ASSUME ~ButtonLoop PROVE UNCHANGED keyLock
  BY <1>3 DEF Next, vars, Tick, Edge, ButtonISR, ReadMillis, RemoteCommand,
              lockVars
<1>4. QED
  BY <1>1, <1>2, <1>3

\* The button is unlocked by the whole sequence only, for every width of the
\* clock and every wrap of it, provided the two reads of lines 47 and 48 see
\* the same moment (with SnapDelay = 1 TLC finds the sequence cut short).
THEOREM SequenceHonoured == ASSUME SnapDelay = 0 PROVE Spec => UnlockSequence
<1>1. Spec => []ClockInv
  BY ClockInit, ClockNext, PTL DEF Spec
<1>2. ClockInv /\ PressIsFresh /\ [Next]_vars
        => [/\ keyLock = "unlocking_hold"
               /\ keyLock' = "unlocking_wait4release"
               => pressed /\ pressAge >= HoldTime
            /\ keyLock = "unlocking_release_delay"
               /\ keyLock' = "unlocking_wait4ack"
               => ~pressed /\ releaseAge >= QuietTime
            /\ keyLock # "unlocked_idle" /\ keyLock' = "unlocked_idle"
               => keyLock = "unlocking_wait4ack" /\ pressed /\ pressAge <= lag
           ]_vars
  BY SequenceStep
<1>3. QED
  BY <1>1, <1>2, FreshPress, PTL DEF Spec, UnlockSequence

-----------------------------------------------------------------------------
(***************************************************************************)
(* The unlocked state expires.  A timeout compares differences modulo      *)
(* TimeMod, so the proof has to bound the true age of BOTH timestamps the  *)
(* test of line 149 uses: the newer one by the timeout itself, the older   *)
(* one by the time between two edges, which no state of the lock lets grow *)
(* beyond UnlockDuration + MaxLag.                                         *)
(***************************************************************************)

\* The handler keeps up with the contact.
Alternates == pressed = (IF irq THEN ~down ELSE down)

\* The record says which edge was the last one.
Newest == IF pressed THEN pressAge <= releaseAge ELSE releaseAge <= pressAge

\* A release the loop sees during the hold came since its last run.
ReleaseIsFresh ==
    /\ keyLock \in {"unlocking_hold", "unlocking_wait4release"}
    /\ ~pressed
    => releaseAge <= lag

\* Before the unlocked state the last release is young.
DelayBound == keyLock = "unlocking_release_delay" =>
                  \/ releaseAge < QuietTime + lag
                  \/ releaseAge <= MaxLag + lag
AckBound == keyLock = "unlocking_wait4ack" => releaseAge < UnlockDuration + lag

\* In the unlocked state the two edges are less than an unlock time apart.
Gap == keyLock = "unlocked_idle" =>
          IF pressed THEN releaseAge < pressAge + UnlockDuration + MaxLag
                     ELSE pressAge < releaseAge + UnlockDuration + MaxLag

ExpiryInv == /\ ClockInv /\ PressIsFresh
             /\ Alternates /\ Newest /\ ReleaseIsFresh
             /\ DelayBound /\ AckBound /\ Gap /\ UnlockedExpires

\* The acknowledge window, the quiet time and two busy periods of the loop
\* fit in the unlock time (2 s, 1 s and 10 s on the device).
UnlockTimeDominates ==
    /\ AckWindow <= UnlockDuration
    /\ QuietTime + MaxLag <= UnlockDuration
    /\ 2 * MaxLag < UnlockDuration

LEMMA ExpiryInit == Init => ExpiryInv
<1> SUFFICES ASSUME Init PROVE ExpiryInv
  OBVIOUS
<1>1. ClockInv
  BY ClockInit
<1>2. Alternates
  BY DEF Init, Alternates
<1>3. QED
  BY <1>1, <1>2
  DEF Init, ExpiryInv, PressIsFresh, Newest, ReleaseIsFresh, DelayBound,
      AckBound, Gap, UnlockedExpires

\* Time passes: both ages grow together, and neither saturates while a bound
\* on it is claimed.
LEMMA ExpiryTick == ExpiryInv /\ Tick => ExpiryInv'
<1> SUFFICES ASSUME ExpiryInv, Tick PROVE ExpiryInv'
  OBVIOUS
<1> USE DEF ExpiryInv
<1>1. ClockInv' /\ PressIsFresh'
  BY ClockNext, FreshNext DEF Next, ClockInv
<1>2. /\ pressAge \in 0 .. TimeMod /\ releaseAge \in 0 .. TimeMod
      /\ lag \in 0 .. MaxLag /\ lag' = lag + 1
      /\ pressAge' = Older(pressAge) /\ releaseAge' = Older(releaseAge)
      /\ UNCHANGED <<keyLock, pressed, down, irq>> /\ lag' <= MaxLag
  BY DEF Tick, ClockInv, TypeOK, Age, infoVars, pinVars, lockVars
<1>3. Alternates'
  BY <1>2 DEF Alternates
<1>4. Newest' /\ ReleaseIsFresh' /\ DelayBound' /\ AckBound'
  BY <1>2 DEF Newest, ReleaseIsFresh, DelayBound, AckBound, Older
<1>5. Gap' /\ UnlockedExpires'
  BY <1>2 DEF Newest, Gap, UnlockedExpires, Older
<1>6. QED
  BY <1>1, <1>3, <1>4, <1>5

\* An edge is recorded: the age that becomes the older one was the newer one.
LEMMA ExpiryISR == ExpiryInv /\ ButtonISR => ExpiryInv'
<1> SUFFICES ASSUME ExpiryInv, ButtonISR PROVE ExpiryInv'
  OBVIOUS
<1> USE DEF ExpiryInv
<1>1. ClockInv' /\ PressIsFresh'
  BY ClockNext, FreshNext DEF Next, ClockInv
<1>2. /\ pressAge \in 0 .. TimeMod /\ releaseAge \in 0 .. TimeMod
      /\ lag \in 0 .. MaxLag
      /\ UNCHANGED <<keyLock, lag, down>>
  BY DEF ButtonISR, ClockInv, TypeOK, Age, lockVars
<1>3. Alternates'
  BY DEF ButtonISR, Alternates
<1>4. CASE down
  <2>1. ~pressed /\ pressed' /\ pressAge' = 0 /\ releaseAge' = releaseAge
    BY <1>4 DEF ButtonISR, RecordPress, Alternates, ClockInv, TypeOK
  <2>2. QED
    BY <1>1, <1>2, <1>3, <2>1
    DEF Newest, ReleaseIsFresh, DelayBound, AckBound, Gap, UnlockedExpires
<1>5. CASE ~down
  <2>1. pressed /\ ~pressed' /\ releaseAge' = 0 /\ pressAge' = pressAge
    BY <1>5 DEF ButtonISR, RecordRelease, Alternates, ClockInv, TypeOK
  <2>2. QED
    BY <1>1, <1>2, <1>3, <2>1
    DEF Newest, ReleaseIsFresh, DelayBound, AckBound, Gap, UnlockedExpires
<1>6. QED
  BY <1>4, <1>5

\* The loop runs: an age that was compared with a timeout is the true age.
LEMMA ExpiryLoop ==
    UnlockTimeDominates /\ ExpiryInv /\ ButtonLoop => ExpiryInv'
<1> SUFFICES ASSUME UnlockTimeDominates, ExpiryInv, ButtonLoop
             PROVE  ExpiryInv'
  OBVIOUS
<1> USE DEF ExpiryInv
<1>1. ClockInv' /\ PressIsFresh'
  BY ClockNext, FreshNext DEF Next, ClockInv
<1>2. /\ pressAge \in 0 .. TimeMod /\ releaseAge \in 0 .. TimeMod
      /\ lag \in 0 .. MaxLag /\ lag' \in 0 .. MaxLag
      /\ UNCHANGED <<pressed, pressAge, releaseAge, down, irq>>
  BY <1>1 DEF ButtonLoop, ClockInv, TypeOK, Age, infoVars, pinVars
<1>3. Alternates' /\ Newest'
  BY <1>2 DEF Alternates, Newest
<1>4. /\ Elapsed(sysTime, lastPress) \in Int
      /\ Elapsed(sysTime, lastRelease) \in Int
      /\ pressAge < TimeMod =>
             pressAge <= Elapsed(sysTime, lastPress) + lag'
      /\ releaseAge < TimeMod =>
             releaseAge <= Elapsed(sysTime, lastRelease) + lag'
  <2>1. lag' = Elapsed(now, sysTime)
    BY DEF ButtonLoop
  <2>2. /\ Elapsed(now, lastPress) <= Elapsed(sysTime, lastPress) + lag'
        /\ Elapsed(now, lastRelease) <= Elapsed(sysTime, lastRelease) + lag'
    BY <2>1, ElapsedTriangle DEF ClockInv, TypeOK
  <2>3. /\ Elapsed(sysTime, lastPress) \in Int
        /\ Elapsed(sysTime, lastRelease) \in Int
    BY DEF Elapsed, ClockInv, TypeOK, Time
  <2>4. QED
    BY <2>2, <2>3 DEF ClockInv, StampsExact, Dates
<1>5. CASE keyLock = "unlocking_wait4release"
  BY <1>1, <1>2, <1>3, <1>5
  DEF ButtonLoop, LockStep, Wait4Release, LockedIdle, UnlockingHold,
      UnlockingWait4Release, UnlockingReleaseDelay, UnlockingWait4Ack,
      UnlockedIdle, ReleaseIsFresh, DelayBound, AckBound, Gap, UnlockedExpires
<1>6. CASE keyLock = "unlocking_release_delay"
  BY <1>1, <1>2, <1>3, <1>4, <1>6
  DEF ButtonLoop, LockStep, Wait4Release, LockedIdle, UnlockingHold,
      UnlockingWait4Release, UnlockingReleaseDelay, UnlockingWait4Ack,
      UnlockedIdle, QuietFor, ReleaseIsFresh, DelayBound, AckBound, Gap,
      UnlockedExpires, UnlockTimeDominates
<1>7. CASE keyLock = "unlocking_wait4ack"
  BY <1>1, <1>2, <1>3, <1>4, <1>7
  DEF ButtonLoop, LockStep, Wait4Release, LockedIdle, UnlockingHold,
      UnlockingWait4Release, UnlockingReleaseDelay, UnlockingWait4Ack,
      UnlockedIdle, QuietFor, ReleaseIsFresh, DelayBound, AckBound, Gap,
      UnlockedExpires, UnlockTimeDominates, PressIsFresh
<1>8. CASE keyLock = "unlocked_idle"
  BY <1>1, <1>2, <1>3, <1>4, <1>8
  DEF ButtonLoop, LockStep, Wait4Release, LockedIdle, UnlockingHold,
      UnlockingWait4Release, UnlockingReleaseDelay, UnlockingWait4Ack,
      UnlockedIdle, QuietFor, HeldFor, Inactive, Newest, ReleaseIsFresh,
      DelayBound, AckBound, Gap, UnlockedExpires
<1>9. CASE keyLock \in {"locked_wait4release", "locked_idle",
                        "unlocking_hold"}
  BY <1>1, <1>2, <1>3, <1>9
  DEF ButtonLoop, LockStep, Wait4Release, LockedIdle, UnlockingHold,
      UnlockingWait4Release, UnlockingReleaseDelay, UnlockingWait4Ack,
      UnlockedIdle, ReleaseIsFresh, DelayBound, AckBound, Gap, UnlockedExpires
<1>10. QED
  BY <1>5, <1>6, <1>7, <1>8, <1>9 DEF ClockInv, TypeOK, KeyStates, LockedStates

LEMMA ExpiryNext ==
    ASSUME ~Coalesce, UnlockTimeDominates, ExpiryInv, [Next]_vars
    PROVE  ExpiryInv'
<1> USE DEF ExpiryInv
<1>1. CASE Tick
  BY <1>1, ExpiryTick
<1>2. CASE Edge
  <2>1. ClockInv' /\ PressIsFresh'
    BY ClockNext, FreshNext DEF ClockInv
  <2>2. Alternates'
    BY <1>2 DEF Edge, Alternates, ClockInv, TypeOK, infoVars
  <2>3. QED
    BY <1>2, <2>1, <2>2
    DEF Edge, infoVars, lockVars, ageVars, Newest, ReleaseIsFresh, DelayBound,
        AckBound, Gap, UnlockedExpires
<1>3. CASE ButtonISR
  BY <1>3, ExpiryISR
<1>4. CASE ButtonLoop
  BY <1>4, ExpiryLoop
<1>5. CASE UNCHANGED <<pinVars, infoVars, keyLock, ageVars, lag>>
  <2>1. ClockInv' /\ PressIsFresh'
    BY ClockNext, FreshNext DEF ClockInv
  <2>2. QED
    BY <1>5, <2>1
    DEF pinVars, infoVars, ageVars, Alternates, Newest, ReleaseIsFresh,
        DelayBound, AckBound, Gap, UnlockedExpires
<1>6. ASSUME ~Tick, ~Edge, ~ButtonISR, ~ButtonLoop
      PROVE  UNCHANGED <<pinVars, infoVars, keyLock, ageVars, lag>>
  BY <1>6 DEF Next, vars, ReadMillis, RemoteCommand, lockVars
<1>7. QED
  BY <1>1, <1>2, <1>3, <1>4, <1>5, <1>6

\* Whatever the wrap of millis() does, an unlocked button nobody touches is
\* locked by the first run of the loop after UnlockDuration.
THEOREM UnlockExpires ==
    ASSUME ~Coalesce, UnlockTimeDominates
    PROVE  Spec => []UnlockedExpires
<1>1. ExpiryInv /\ [Next]_vars => ExpiryInv'
  BY ExpiryNext
<1>2. ExpiryInv => UnlockedExpires
  BY DEF ExpiryInv
<1>3. QED
  BY <1>1, <1>2, ExpiryInit, PTL DEF Spec

-----------------------------------------------------------------------------
(***************************************************************************)
(* The window of the second press closes.  Its limit is a difference of    *)
(* two dates, so the true age of the release has to be bounded from the    *)
(* moment it was recorded: during the hold by the lag of the loop, during  *)
(* the quiet time by that time.  Merged edges do not matter.               *)
(***************************************************************************)

AckInv == ClockInv /\ ReleaseIsFresh /\ DelayBound /\ AckWindowCloses

\* There is a quiet time, and both bounds on the window fit into the clock
\* (1 s, 2 s and 49.7 days on the device).
AckTimesFit == /\ QuietTime > 0
               /\ AckWindow + MaxLag < TimeMod
               /\ QuietTime + 3 * MaxLag < TimeMod

\* The difference the loop computes is never shorter than the true age of the
\* release, less the time since the loop read the clock.
LEMMA QuietIsTrue ==
    ASSUME ClockInv, ButtonLoop
    PROVE  /\ Elapsed(sysTime, lastRelease) \in Int
           /\ lag' \in 0 .. MaxLag
           /\ releaseAge < TimeMod =>
                  releaseAge <= Elapsed(sysTime, lastRelease) + lag'
<1>1. ClockInv'
  BY ClockNext DEF Next
<1>2. lag' = Elapsed(now, sysTime) /\ lag' \in 0 .. MaxLag
  BY <1>1 DEF ButtonLoop, ClockInv, TypeOK
<1>3. Elapsed(now, lastRelease) <= Elapsed(sysTime, lastRelease) + lag'
  BY <1>2, ElapsedTriangle DEF ClockInv, TypeOK
<1>4. Elapsed(sysTime, lastRelease) \in Int
  BY DEF Elapsed, ClockInv, TypeOK, Time
<1>5. QED
  BY <1>2, <1>3, <1>4 DEF ClockInv, StampsExact, Dates

LEMMA AckLoop ==
    ASSUME AckTimesFit, AckInv, ButtonLoop
    PROVE  ReleaseIsFresh' /\ DelayBound' /\ AckWindowCloses'
<1> USE DEF AckInv
<1>1. /\ releaseAge \in 0 .. TimeMod /\ lag \in 0 .. MaxLag
      /\ UNCHANGED <<pressed, releaseAge>>
  BY DEF ButtonLoop, ClockInv, TypeOK, Age, infoVars
<1>2. PICK d \in 0 .. MaxLag :
          /\ lag' = d
          /\ releaseAge < TimeMod =>
                 releaseAge <= Elapsed(sysTime, lastRelease) + d
  BY QuietIsTrue
<1>3. Elapsed(sysTime, lastRelease) \in Int
  BY QuietIsTrue
<1>4. LockStep /\ keyLock \in KeyStates
  BY DEF ButtonLoop, ClockInv, TypeOK
<1>5. CASE UnlockingReleaseDelay
  <2>1. /\ keyLock = "unlocking_release_delay"
        /\ keyLock' \in {"locked_wait4release", "unlocking_wait4ack", keyLock}
        /\ keyLock' = keyLock => Elapsed(sysTime, lastRelease) < QuietTime
    BY <1>2, <1>3, <1>5 DEF UnlockingReleaseDelay, QuietFor
  <2>2. releaseAge < QuietTime + lag \/ releaseAge <= MaxLag + lag
    BY <2>1 DEF DelayBound
  <2>3. releaseAge < TimeMod
    BY <1>1, <2>2 DEF AckTimesFit
  <2>4. keyLock' = keyLock => releaseAge' < QuietTime + lag'
    BY <1>1, <1>2, <1>3, <2>1, <2>3
  <2>5. releaseAge' < QuietTime + 2 * MaxLag + lag'
    BY <1>1, <1>2, <1>3, <2>2 DEF AckTimesFit
  <2>6. QED
    BY <2>1, <2>4, <2>5 DEF ReleaseIsFresh, DelayBound, AckWindowCloses
<1>6. CASE UnlockingWait4Ack
  <2>1. /\ keyLock = "unlocking_wait4ack"
        /\ keyLock' \in {"unlocked_idle", "locked_idle", keyLock}
        /\ keyLock' = keyLock => Elapsed(sysTime, lastRelease) < AckWindow
    BY <1>2, <1>3, <1>6 DEF UnlockingWait4Ack, QuietFor
  <2>2. \/ releaseAge < AckWindow + lag
        \/ releaseAge < QuietTime + 2 * MaxLag + lag
    BY <2>1 DEF AckWindowCloses
  <2>3. releaseAge < TimeMod
    BY <1>1, <2>2 DEF AckTimesFit
  <2>4. keyLock' = keyLock => releaseAge' < AckWindow + lag'
    BY <1>1, <1>2, <1>3, <2>1, <2>3
  <2>5. QED
    BY <2>1, <2>4 DEF ReleaseIsFresh, DelayBound, AckWindowCloses
<1>7. CASE UnlockingWait4Release
  BY <1>1, <1>2, <1>7
  DEF UnlockingWait4Release, ReleaseIsFresh, DelayBound, AckWindowCloses
<1>8. CASE UnlockingHold
  BY <1>1, <1>2, <1>8
  DEF UnlockingHold, ReleaseIsFresh, DelayBound, AckWindowCloses
<1>9. CASE Wait4Release \/ LockedIdle \/ UnlockedIdle
  BY <1>1, <1>9
  DEF Wait4Release, LockedIdle, UnlockedIdle, ReleaseIsFresh, DelayBound,
      AckWindowCloses
<1>10. QED
  BY <1>4, <1>5, <1>6, <1>7, <1>8, <1>9 DEF LockStep

LEMMA AckNext == ASSUME AckTimesFit, AckInv, [Next]_vars PROVE AckInv'
<1> USE DEF AckInv
<1>1. ClockInv'
  BY ClockNext
<1>2. releaseAge \in 0 .. TimeMod /\ lag \in 0 .. MaxLag
  BY DEF ClockInv, TypeOK, Age
<1>3. CASE Tick
  BY <1>1, <1>2, <1>3
  DEF Tick, infoVars, lockVars, Older, ReleaseIsFresh, DelayBound,
      AckWindowCloses
<1>4. CASE ButtonISR
  <2>1. pressed' = down /\ UNCHANGED <<keyLock, lag>>
    BY <1>4 DEF ButtonISR, lockVars
  <2>2. IF down THEN UNCHANGED releaseAge ELSE releaseAge' = 0
    BY <1>4 DEF ButtonISR, RecordPress, RecordRelease
  <2>3. QED
    BY <1>1, <1>2, <2>1, <2>2
    DEF ReleaseIsFresh, DelayBound, AckWindowCloses, AckTimesFit
<1>5. CASE ButtonLoop
  BY <1>1, <1>5, AckLoop
<1>6. CASE UNCHANGED <<pressed, keyLock, releaseAge, lag>>
  BY <1>1, <1>6 DEF ReleaseIsFresh, DelayBound, AckWindowCloses
<1>7. ASSUME ~Tick, ~ButtonISR, ~ButtonLoop
      PROVE  UNCHANGED <<pressed, keyLock, releaseAge, lag>>
  BY <1>7 DEF Next, vars, Edge, ReadMillis, RemoteCommand, infoVars,
              lockVars, ageVars
<1>8. QED
  BY <1>3, <1>4, <1>5, <1>6, <1>7

\* No press after the window, plus the time the loop was busy, can unlock,
\* for every width of the clock and also if edges are merged.
THEOREM AckWindowIsKept ==
    ASSUME AckTimesFit PROVE Spec => []AckWindowCloses
<1>1. Init => AckInv
  BY ClockInit
  DEF Init, AckInv, ReleaseIsFresh, DelayBound, AckWindowCloses
<1>2. AckInv /\ [Next]_vars => AckInv'
  BY AckNext
<1>3. AckInv => AckWindowCloses
  BY DEF AckInv
<1>4. QED
  BY <1>1, <1>2, <1>3, PTL DEF Spec

-----------------------------------------------------------------------------
(***************************************************************************)
(* A bounce never toggles the request.  If all presses since the last run  *)
(* were bounces, the last release is as young as a bounce and that run.    *)
(***************************************************************************)
BounceIsYoung ==
    presses # prevPresses =>
        cleanPress \/ (BounceTime > 0 /\ releaseAge < BounceTime + lag)

BounceInv == ClockInv /\ BounceIsYoung

LEMMA BounceNext == BounceInv /\ [Next]_vars => BounceInv'
<1> SUFFICES ASSUME BounceInv, [Next]_vars PROVE BounceInv'
  OBVIOUS
<1> USE DEF BounceInv
<1>1. ClockInv'
  BY ClockNext
<1>2. /\ releaseAge \in 0 .. TimeMod /\ lag \in 0 .. MaxLag
      /\ cleanPress \in BOOLEAN
  BY DEF ClockInv, TypeOK, Age
<1>3. CASE Tick
  BY <1>1, <1>2, <1>3 DEF Tick, infoVars, lockVars, Older, BounceIsYoung
<1>4. CASE ButtonISR
  <2>1. UNCHANGED <<prevPresses, lag>>
    BY <1>4 DEF ButtonISR, lockVars
  <2>2. CASE down
    <3>1. /\ cleanPress' = (cleanPress \/ releaseAge >= BounceTime)
          /\ releaseAge' = releaseAge
      BY <1>4, <2>2 DEF ButtonISR, RecordPress
    <3>2. releaseAge >= BounceTime \/ (BounceTime > 0
                                        /\ releaseAge < BounceTime + lag)
      BY <1>2
    <3>3. QED
      BY <1>1, <2>1, <3>1, <3>2, Zenon DEF BounceIsYoung
  <2>3. CASE ~down
    BY <1>1, <1>2, <1>4, <2>1, <2>3
    DEF ButtonISR, RecordRelease, BounceIsYoung
  <2>4. QED
    BY <2>2, <2>3
<1>5. CASE ButtonLoop
  BY <1>1, <1>5 DEF ButtonLoop, infoVars, BounceIsYoung
<1>6. CASE UNCHANGED <<presses, prevPresses, cleanPress, releaseAge, lag>>
  BY <1>1, <1>6 DEF BounceIsYoung
<1>7. ASSUME ~Tick, ~ButtonISR, ~ButtonLoop
      PROVE  UNCHANGED <<presses, prevPresses, cleanPress, releaseAge, lag>>
  BY <1>7 DEF Next, vars, Edge, ReadMillis, RemoteCommand, infoVars,
              lockVars, ageVars
<1>8. QED
  BY <1>3, <1>4, <1>5, <1>6, <1>7

\* A date no older than a full turn of the clock, seen from an earlier time.
LEMMA SeenEarlier ==
    ASSUME NEW t \in Time, NEW u \in Time, NEW d \in Time,
           Elapsed(t, u) <= Elapsed(t, d)
    PROVE  Elapsed(u, d) = Elapsed(t, d) - Elapsed(t, u)
BY DEF Elapsed, Time

LEMMA ToggleIsClean ==
    ASSUME BounceInv, [Next]_vars, TogglesNow
    PROVE  cleanPress \/ RunWasLate \/ ReleasedInGap
<1> USE DEF BounceInv
<1>1. ButtonLoop
  BY DEF TogglesNow, Next, vars, Tick, Edge, ButtonISR, ReadMillis,
         RemoteCommand
<1>2. TogglesRequest(keyLock')
  BY <1>1 DEF ButtonLoop, TogglesNow
<1>3. /\ now \in Time /\ sysTime \in Time /\ lastRelease \in Time
      /\ releaseAge \in 0 .. TimeMod /\ lag \in 0 .. MaxLag
      /\ Elapsed(now, sysTime) \in Int
  BY DEF ClockInv, TypeOK, Age, Elapsed, Time
<1>4. SUFFICES ASSUME ~cleanPress, ~ReleasedInGap PROVE RunWasLate
  OBVIOUS
<1>5. releaseAge < BounceTime + lag
  BY <1>2, <1>4 DEF TogglesRequest, BounceIsYoung
<1>6. Elapsed(now, lastRelease) = releaseAge
  BY <1>3, <1>5 DEF ClockInv, StampsExact, Dates
<1>7. Elapsed(now, sysTime) <= releaseAge
  BY <1>3, <1>4 DEF ReleasedInGap
<1>8. Elapsed(sysTime, lastRelease) = releaseAge - Elapsed(now, sysTime)
  BY <1>3, <1>6, <1>7, SeenEarlier
<1>9. DebounceTime < releaseAge - Elapsed(now, sysTime)
  BY <1>2, <1>8 DEF TogglesRequest
<1>10. QED
  BY <1>3, <1>5, <1>9 DEF RunWasLate, SinceLastRun

\* A bounce of the contact toggles the power request only if the loop comes
\* too late or the release falls between lines 47 and 48: however long the
\* loop is away, wherever the edges fall and whatever millis() does.
THEOREM BouncesNeverToggle == Spec => Debounced
<1>1. Init => BounceInv
  BY ClockInit DEF Init, BounceInv, BounceIsYoung
<1>2. BounceInv /\ [Next]_vars
          => [TogglesNow => cleanPress \/ RunWasLate \/ ReleasedInGap]_vars
  BY ToggleIsClean
<1>3. QED
  BY <1>1, <1>2, BounceNext, PTL DEF Spec, Debounced
=============================================================================
