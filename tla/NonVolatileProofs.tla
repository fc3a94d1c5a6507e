-------------------------- MODULE NonVolatileProofs -------------------------
(***************************************************************************)
(* What the non-volatile memory guarantees for every delay, every limit    *)
(* and every width of the clock.                                           *)
(***************************************************************************)
EXTENDS NonVolatile, MillisProofs

\* What the file restores is a charge.
LEMMA RestoredType == ASSUME TypeOK PROVE Restored(file) \in Charges
BY NonVolatileAssumption DEF TypeOK, Restored, Charges

\* A distance is a number, and none is left to itself.
LEMMA DistanceFacts ==
    \A a, b \in Charges : Distance(a, b) \in Nat /\ Distance(a, a) = 0
BY NonVolatileAssumption DEF Distance, Charges

(***************************************************************************)
(* The invariant ties the file to the copies in memory, as long as no save *)
(* failed: what was saved is in the file, nothing but a modification makes *)
(* stats differ from it, and a modification is dated.                      *)
(***************************************************************************)
FileInv ==
    ~failed => /\ saved = Restored(file)
               /\ dirty \/ stats = saved
               /\ Distance(saved, known) <= SaveDelta

DatedInv ==
    mounted /\ ~failed /\ dirty /\ lastMod # 0 =>
        Dates(now, lastMod, modAge) /\ modAge <= SaveDelay + lag

MountInv == mounted => ~updating

NvInv == TypeOK /\ FileInv /\ DatedInv /\ MountInv

\* A fresh start, of the box or after a reset, is one the invariant allows.
LEMMA NvInit == Init => NvInv
<1> SUFFICES ASSUME Init PROVE NvInv
  OBVIOUS
<1>1. Restored(file) \in Charges
  BY NonVolatileAssumption DEF Init, Restored, Charges
<1>2. TypeOK
  <2>1. now \in Time /\ lastMod \in Time /\ modAge \in Age /\ lag \in 0 .. MaxLag
    BY NonVolatileAssumption, TimeModAssumption DEF Init, Time, Age
  <2>2. QED
    BY <1>1, <2>1 DEF Init, TypeOK
<1>3. FileInv
  BY <1>1, DistanceFacts, NonVolatileAssumption DEF Init, FileInv
<1>4. QED
  BY <1>2, <1>3 DEF NvInv, Init, DatedInv, MountInv

\* So is a restart.
LEMMA NvBoot == NvInv /\ Boot => NvInv'
<1> SUFFICES ASSUME NvInv, Boot PROVE NvInv'
  OBVIOUS
<1>1. Restored(file) \in Charges /\ Restored(file)' = Restored(file)
  BY RestoredType DEF NvInv, Boot, Restored
<1>2. TypeOK'
  <2>1. now' \in Time /\ lastMod' \in Time /\ modAge' \in Age
        /\ lag' \in 0 .. MaxLag
    BY NonVolatileAssumption, TimeModAssumption DEF Boot, Time, Age
  <2>2. QED
    BY <1>1, <2>1 DEF NvInv, Boot, TypeOK
<1>3. FileInv'
  <2>1. Distance(saved', known') = 0
    BY <1>1, DistanceFacts DEF Boot
  <2>2. QED
    BY <1>1, <2>1, NonVolatileAssumption DEF Boot, FileInv
<1>4. QED
  BY <1>2, <1>3 DEF NvInv, Boot, DatedInv, MountInv

\* A run of the loop leaves nothing unsaved that is due.
LEMMA NvLoop == NvInv /\ Loop => NvInv'
<1> SUFFICES ASSUME NvInv, Loop PROVE NvInv'
  OBVIOUS
<1>1. TypeOK /\ FileInv /\ DatedInv /\ MountInv
  BY DEF NvInv
<1>2. /\ ~updating /\ known' = stats /\ lag' = 0
      /\ UNCHANGED <<now, mounted, updating, modAge>>
  BY DEF Loop
<1>3. stats \in Charges /\ saved \in Charges
  BY <1>1 DEF TypeOK
<1>4. CASE SaveDue /\ Save
  <2>1. /\ dirty' = FALSE /\ lastMod' = 0 /\ stats' = stats
        /\ \/ file' = stats /\ saved' = stats /\ failed' = FALSE
           \/ /\ file' \in {file, Unreadable} /\ failed' = TRUE
              /\ saved' \in {saved, stats}
    BY <1>4 DEF Save, Written, Spoiled, NotOpened, ShortWrite
  <2>2. TypeOK'
    <3>1. lastMod' \in Time /\ lag' \in 0 .. MaxLag
      BY <1>2, <2>1, NonVolatileAssumption, TimeModAssumption DEF Time
    <3>2. file' \in Charges \cup {Unreadable} /\ saved' \in Charges
          /\ failed' \in BOOLEAN
      BY <1>1, <1>3, <2>1 DEF TypeOK
    <3>3. QED
      BY <1>1, <1>2, <2>1, <3>1, <3>2 DEF TypeOK
  <2>3. FileInv'
    <3>1. CASE failed' = TRUE
      BY <3>1 DEF FileInv
    <3>2. CASE file' = stats /\ saved' = stats /\ failed' = FALSE
      <4>1. Restored(file)' = stats
        BY <1>3, <3>2, NonVolatileAssumption DEF Restored, Charges
      <4>2. Distance(saved, known)' <= SaveDelta
        BY <1>2, <1>3, <3>2, DistanceFacts, NonVolatileAssumption
        DEF Distance
      <4>3. QED
        BY <2>1, <3>2, <4>1, <4>2 DEF FileInv
    <3>3. QED
      BY <2>1, <3>1, <3>2
  <2>4. DatedInv' /\ MountInv'
    BY <1>2, <2>1 DEF DatedInv, MountInv
  <2>5. QED
    BY <2>2, <2>3, <2>4 DEF NvInv
<1>5. CASE ~(SaveDue /\ dirty) /\ UNCHANGED <<file, chargeVars, failed>>
  <2>1. UNCHANGED <<file, stats, saved, dirty, lastMod, failed>>
    BY <1>5 DEF chargeVars
  <2>2. TypeOK'
    BY <1>1, <1>2, <2>1, NonVolatileAssumption DEF TypeOK
  <2>3. FileInv'
    <3> SUFFICES ASSUME ~failed PROVE FileInv'
      BY <2>1 DEF FileInv
    <3>1. CASE dirty
      <4>1. Distance(saved, stats) <= SaveDelta
        BY <1>3, <1>5, <3>1, DistanceFacts, NonVolatileAssumption DEF SaveDue
      <4>2. QED
        BY <1>1, <1>2, <2>1, <3>1, <4>1 DEF FileInv, Restored, Distance
    <3>2. CASE ~dirty
      <4>1. Distance(saved, stats) <= SaveDelta
        BY <1>1, <1>3, <3>2, DistanceFacts, NonVolatileAssumption DEF FileInv
      <4>2. QED
        BY <1>1, <1>2, <2>1, <4>1 DEF FileInv, Restored, Distance
    <3>3. QED
      BY <3>1, <3>2
  <2>4. DatedInv'
    <3> SUFFICES ASSUME mounted, ~failed, dirty, lastMod # 0
                 PROVE  Dates(now, lastMod, modAge) /\ modAge <= SaveDelay
      BY <1>2, <2>1, NonVolatileAssumption DEF DatedInv, Dates
    <3>1. Dates(now, lastMod, modAge) /\ modAge <= SaveDelay + lag
      BY <1>1 DEF DatedInv
    <3>2. lag \in 0 .. MaxLag /\ modAge \in 0 .. TimeMod
      BY <1>1 DEF TypeOK, Age
    <3>3. Elapsed(now, lastMod) = modAge
      BY <3>1, <3>2, NonVolatileAssumption, TimeModAssumption DEF Dates
    <3>4. ~(Elapsed(now, lastMod) > SaveDelay)
      BY <1>5 DEF SaveDue, TimeSinceLastModification
    <3>5. QED
      BY <3>1, <3>2, <3>3, <3>4, NonVolatileAssumption
  <2>5. QED
    BY <1>1, <1>2, <2>1, <2>2, <2>3, <2>4 DEF NvInv, MountInv
<1>6. QED
  BY <1>4, <1>5 DEF Loop

\* The invariant is kept by every step.
LEMMA NvNext == NvInv /\ [Next]_vars => NvInv'
<1> SUFFICES ASSUME NvInv, [Next]_vars PROVE NvInv'
  OBVIOUS
<1>1. TypeOK /\ FileInv /\ DatedInv /\ MountInv
  BY DEF NvInv
<1>2. CASE Tick
  <2>1. /\ UNCHANGED <<file, mounted, updating, stats, saved, dirty, lastMod,
                       failed, known>>
        /\ now' = NextMs(now) /\ modAge' = Older(modAge)
        /\ lag < MaxLag /\ lag' = IF updating THEN lag ELSE lag + 1
    BY <1>2 DEF Tick, chargeVars
  <2>2. TypeOK'
    BY <1>1, <2>1, NextMsType, OlderType, NonVolatileAssumption DEF TypeOK
  <2>3. FileInv' /\ MountInv'
    BY <1>1, <2>1 DEF FileInv, MountInv, Restored, Distance
  <2>4. DatedInv'
    <3> SUFFICES ASSUME mounted, ~failed, dirty, lastMod # 0
                 PROVE  /\ Dates(now', lastMod, modAge')
                        /\ modAge' <= SaveDelay + lag'
      BY <2>1 DEF DatedInv, Dates
    <3>1. Dates(now, lastMod, modAge) /\ modAge <= SaveDelay + lag
          /\ lag' = lag + 1
      BY <1>1, <2>1 DEF DatedInv, MountInv
    <3>2. now \in Time /\ lastMod \in Time /\ modAge \in Age
          /\ lag \in 0 .. MaxLag
      BY <1>1 DEF TypeOK
    <3>3. Dates(now', lastMod, modAge')
      BY <2>1, <3>1, <3>2, DatesTick
    <3>4. modAge' <= SaveDelay + lag'
      BY <2>1, <3>1, <3>2, NonVolatileAssumption, TimeModAssumption
      DEF Older, Age
    <3>5. QED
      BY <3>3, <3>4
  <2>5. QED
    BY <2>2, <2>3, <2>4 DEF NvInv
<1>3. ASSUME NEW charge \in Charges, SetRemainingCharge(charge) PROVE NvInv'
  <2>1. /\ dirty' = TRUE /\ lastMod' = now /\ modAge' = 0 /\ stats' = charge
        /\ UNCHANGED <<now, file, mounted, updating, saved, failed, known,
                       lag>>
    BY <1>3 DEF SetRemainingCharge, Modify
  <2>2. TypeOK'
    BY <1>1, <2>1, TimeModAssumption DEF TypeOK, Age
  <2>3. FileInv' /\ MountInv'
    BY <1>1, <2>1 DEF FileInv, MountInv, Restored, Distance
  <2>4. DatedInv'
    <3>1. now \in Time /\ lag \in 0 .. MaxLag
      BY <1>1 DEF TypeOK
    <3>2. Dates(now, now, 0)
      BY <3>1, DatesNow
    <3>3. QED
      BY <2>1, <3>1, <3>2, NonVolatileAssumption DEF DatedInv, Dates
  <2>5. QED
    BY <2>2, <2>3, <2>4 DEF NvInv
<1>4. CASE Loop
  BY <1>4, NvLoop
<1>5. CASE Restart \/ OtaEnd
  BY <1>5, NvBoot DEF Restart, OtaEnd
<1>6. CASE OtaStart \/ OtaError
  <2>1. \/ mounted' = FALSE /\ updating' = TRUE
        \/ mounted' = mounted /\ updating' = FALSE
    BY <1>6 DEF OtaStart, OtaError
  <2>2. UNCHANGED <<now, file, stats, saved, dirty, lastMod, failed, known,
                    modAge, lag>>
    BY <1>6 DEF OtaStart, OtaError, chargeVars
  <2>3. TypeOK'
    BY <1>1, <2>1, <2>2 DEF TypeOK
  <2>4. QED
    BY <1>1, <2>1, <2>2, <2>3
    DEF NvInv, FileInv, DatedInv, MountInv, Restored, Distance, Dates
<1>7. CASE UNCHANGED vars
  BY <1>1, <1>7
  DEF vars, chargeVars, NvInv, TypeOK, FileInv, DatedInv, MountInv, Restored,
      Distance, Dates
<1>8. QED
  BY <1>2, <1>3, <1>4, <1>5, <1>6, <1>7 DEF Next

\* Every variable of the non-volatile memory keeps its type.
THEOREM TypeCorrect == Spec => []TypeOK
<1>1. NvInv => TypeOK
  BY DEF NvInv
<1>2. QED
  BY <1>1, NvInit, NvNext, PTL DEF Spec

\* A charge that stays the same reaches the file after SaveDelay and the lag
\* of the loop, across every wrap of millis(), but for a change that comes
\* when millis() is 0.
THEOREM QuietChargeIsSaved == Spec => []QuietIsSaved
<1>1. NvInv => QuietIsSaved
  BY DEF NvInv, FileInv, DatedInv, QuietIsSaved
<1>2. QED
  BY <1>1, NvInit, NvNext, PTL DEF Spec

\* As long as saves succeed, a reset at any point, also during an update,
\* costs at most SaveDelta of what the last run of the loop knew.
THEOREM ResetLosesLittle == Spec => RestartLosesLittle
<1>1. NvInv /\ [Next]_vars
        => [Boot /\ ~failed => Distance(stats', known) <= SaveDelta]_vars
  BY DEF NvInv, FileInv, Boot
<1>2. QED
  BY <1>1, NvInit, NvNext, PTL DEF Spec, RestartLosesLittle
=============================================================================
