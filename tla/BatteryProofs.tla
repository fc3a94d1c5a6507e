---------------------------- MODULE BatteryProofs ---------------------------
(***************************************************************************)
(* What the counter of the charge and the switch of the charger guarantee  *)
(* for every battery, every current, every pair of limits and every width  *)
(* of the clock.                                                           *)
(***************************************************************************)
EXTENDS ChargeSwitch, MillisProofs

-----------------------------------------------------------------------------
(* The arithmetic.                                                         *)

LEMMA WithinType ==
    \A x \in Int, high \in Nat : Within(x, 0, high) \in 0 .. high
BY DEF Within, AtMost, AtLeast

LEMMA MagnitudeType == \A x \in Int : Magnitude(x) \in Nat
BY DEF Magnitude

LEMMA HalfType == \A x \in Int : Half(x) \in Int
BY DEF Half

\* A number below the modulus is its own remainder.
LEMMA SmallRemainder ==
    \A a \in Nat, b \in Nat \ {0} : a < b => a % b = a
OBVIOUS

LEMMA SignedType ==
    \A x \in Int, w \in Nat \ {0} : Signed(x, w) \in Int
BY DEF Signed

\* A signed integer holds what lies within half of its range.
LEMMA SignedFits ==
    \A x \in Int, w \in Nat \ {0} :
        Magnitude(x) < w \div 2 => Signed(x, w) = x
<1> SUFFICES ASSUME NEW x \in Int, NEW w \in Nat \ {0},
                    Magnitude(x) < w \div 2
             PROVE  Signed(x, w) = x
  OBVIOUS
<1>1. w \div 2 \in Nat /\ (w \div 2) + (w \div 2) <= w
  OBVIOUS
<1>2. x + w \div 2 \in Nat /\ x + w \div 2 < w
  BY <1>1 DEF Magnitude
<1>3. (x + w \div 2) % w = x + w \div 2
  BY <1>2, SmallRemainder
<1>4. QED
  BY <1>1, <1>3 DEF Signed

\* The table is one of numbers, and no interval of it is used that has no
\* length.
LEMMA RestingVoltageType ==
    \A v \in Nat : SoCFromRestingVoltage(v) \in Int
<1> SUFFICES ASSUME NEW v \in Nat PROVE SoCFromRestingVoltage(v) \in Int
  OBVIOUS
<1>1. \A i \in 1 .. 11 : Curve[i][1] \in Int /\ Curve[i][2] \in Int
  BY DEF Curve
<1>2. CASE v > 100 /\ v < 136
  <2>1. \E i \in 2 .. 11 : Curve[i - 1][1] < v /\ v <= Curve[i][1]
    BY <1>2 DEF Curve
  <2>2. PICK n \in 2 .. 11 : n = Entry(v) /\ Curve[n - 1][1] < v /\ v <= Curve[n][1]
    BY <2>1 DEF Entry
  <2>3. n \in 1 .. 11 /\ n - 1 \in 1 .. 11
    OBVIOUS
  <2>4. /\ Curve[n][1] \in Int /\ Curve[n - 1][1] \in Int
        /\ Curve[n][2] \in Int /\ Curve[n - 1][2] \in Int
    BY <1>1, <2>3
  <2>5. \A a, c, d, w \in Int :
           c < w /\ w <= a => (d * (w - c)) \div (a - c) \in Int
    OBVIOUS
  <2>6. ((Curve[n][2] - Curve[n - 1][2]) * (v - Curve[n - 1][1]))
          \div (Curve[n][1] - Curve[n - 1][1]) \in Int
    BY <2>2, <2>4, <2>5
  <2>7. Between(v, Curve[n - 1], Curve[n]) \in Int
    BY <2>4, <2>6 DEF Between
  <2>8. QED
    BY <1>2, <2>2, <2>7 DEF SoCFromRestingVoltage
<1>3. CASE v <= 100 \/ v >= 136
  BY <1>3 DEF SoCFromRestingVoltage
<1>4. QED
  BY <1>2, <1>3

LEMMA SoCTypes ==
    /\ \A v \in Voltages : SoCFromVoltage(v) \in Percent
    /\ \A c \in Charges : SoCFromCharge(c) \in Percent
<1>1. ASSUME NEW v \in Voltages PROVE SoCFromVoltage(v) \in Percent
  <2>1. SoCFromRestingVoltage(v) \in Int
    BY RestingVoltageType, BatteryAssumption
  <2>2. QED
    BY <2>1, WithinType DEF SoCFromVoltage, Percent
<1>2. ASSUME NEW c \in Charges PROVE SoCFromCharge(c) \in Percent
  <2>1. (c * 100) \div Full \in Int
    BY BatteryAssumption DEF Charges
  <2>2. QED
    BY <2>1, WithinType DEF SoCFromCharge, Percent
<1>3. QED
  BY <1>1, <1>2

\* A part of the battery is no more than all of it.
LEMMA PartOfFull ==
    \A percent \in Percent : (Full * percent) \div 100 \in Charges
<1> SUFFICES ASSUME NEW percent \in Percent
             PROVE  (Full * percent) \div 100 \in Charges
  OBVIOUS
<1>1. Full * percent \in Nat /\ Full * percent <= Full * 100
  BY BatteryAssumption DEF Percent
<1>2. QED
  BY <1>1, BatteryAssumption DEF Charges

LEMMA CurrentsType == Currents \subseteq Int /\ 0 \in Currents
<1>1. \A c \in Discharging : c \in Nat /\ -c \in Int
  BY BatteryAssumption
<1>2. \A c \in Currents : c = 0 \/ c \in Charging \/ \E d \in Discharging : c = -d
  BY DEF Currents
<1>3. 0 \in Currents
  BY DEF Currents
<1>4. \A c \in Charging : c \in Int
  BY BatteryAssumption
<1>5. QED
  BY <1>1, <1>2, <1>3, <1>4

LEMMA CountedType ==
    ASSUME TypeOK, NEW current \in Currents
    PROVE  Counted(current) \in Charges
<1>1. Elapsed(now, lastUpdate) \in Int
  BY ElapsedType, TimeModAssumption DEF TypeOK, Time
<1>2. Signed(Elapsed(now, lastUpdate), TimeMod) \in Int
  BY <1>1, SignedType, TimeModAssumption
<1>3. current + prevCurrent \in Int
  BY CurrentsType DEF TypeOK
<1>4. (current + prevCurrent) * Signed(Elapsed(now, lastUpdate), TimeMod) \in Int
  BY <1>2, <1>3
<1> DEFINE area == Signed((current + prevCurrent)
                          * Signed(Elapsed(now, lastUpdate), TimeMod), IntWidth)
<1>5. area \in Int
  BY <1>4, SignedType, BatteryAssumption
<1>6. Half(area) \in Int
  BY <1>5, HalfType
<1> HIDE DEF area
<1>7. charge + Half(area) \in Int
  BY <1>6 DEF TypeOK, Charges
<1>8. Within(charge + Half(area), 0, Full) \in 0 .. Full
  BY <1>7, WithinType, BatteryAssumption
<1>9. QED
  BY <1>8 DEF Counted, Charges, area

-----------------------------------------------------------------------------
(* The invariant: both dates are those of what they date, by true time.    *)

UpdateDated == Dates(now, lastUpdate, updateAge)
RestDated == Dates(now, idleCurrentSince, restAge)

BatteryInv == TypeOK /\ UpdateDated /\ RestDated

\* What a start of the program assigns.
LEMMA FreshState ==
    /\ 0 \in Time /\ 0 \in Age /\ 0 \in 0 .. MaxLag
    /\ 0 \in Charges /\ 0 \in Percent /\ 0 \in Currents
    /\ Dates(0, 0, 0)
<1>1. 0 \in Time /\ 0 \in Age
  BY TimeModAssumption DEF Time, Age
<1>2. QED
  BY <1>1, DatesNow, CurrentsType, BatteryAssumption DEF Charges, Percent

LEMMA BatteryInit == Init => BatteryInv
BY FreshState DEF Init, BatteryInv, TypeOK, UpdateDated, RestDated

LEMMA BatteryRestart == Restart => BatteryInv'
<1> SUFFICES ASSUME Restart PROVE BatteryInv'
  OBVIOUS
<1>1. /\ now' = 0 /\ lastUpdate' = 0 /\ idleCurrentSince' = 0
      /\ updateAge' = 0 /\ restAge' = 0
  BY DEF Restart
<1>2. TypeOK'
  BY FreshState DEF Restart, TypeOK
<1>3. QED
  BY <1>1, <1>2, FreshState DEF BatteryInv, UpdateDated, RestDated

LEMMA BatteryTick == BatteryInv /\ Tick => BatteryInv'
<1> SUFFICES ASSUME BatteryInv, Tick PROVE BatteryInv'
  OBVIOUS
<1>1. TypeOK /\ UpdateDated /\ RestDated
  BY DEF BatteryInv
<1>2. /\ now' = NextMs(now) /\ UNCHANGED <<lastUpdate, idleCurrentSince>>
      /\ updateAge' = Older(updateAge) /\ restAge' = Older(restAge)
  BY DEF Tick
<1>3. /\ now \in Time /\ lastUpdate \in Time /\ idleCurrentSince \in Time
      /\ updateAge \in Age /\ restAge \in Age
  BY <1>1 DEF TypeOK
<1>4. lag' \in 0 .. MaxLag
  BY <1>1, BatteryAssumption DEF Tick, TypeOK
<1>5. TypeOK'
  BY <1>1, <1>2, <1>3, <1>4, NextMsType, OlderType
  DEF Tick, chargeVars, TypeOK
<1>6. UpdateDated' /\ RestDated'
  BY <1>1, <1>2, <1>3, DatesTick DEF UpdateDated, RestDated
<1>7. QED
  BY <1>5, <1>6 DEF BatteryInv

LEMMA BatteryBegin == BatteryInv /\ BeginUpdate => BatteryInv'
<1> SUFFICES ASSUME BatteryInv, BeginUpdate PROVE BatteryInv'
  OBVIOUS
<1>1. TypeOK /\ UpdateDated /\ RestDated
  BY DEF BatteryInv
<1>2. UNCHANGED <<now, dateVars>> /\ lag' = 0 /\ pc' \in {"waits", "reads"}
  BY DEF BeginUpdate
<1>3. /\ initialized' \in BOOLEAN /\ SoCgood' \in BOOLEAN
      /\ charge' \in Charges /\ remaining' \in Charges /\ SoC' \in Percent
  BY <1>1 DEF BeginUpdate, InitFromMemory, chargeVars, TypeOK
<1>4. TypeOK'
  BY <1>1, <1>2, <1>3, FreshState DEF dateVars, TypeOK
<1>5. QED
  BY <1>1, <1>2, <1>4 DEF BatteryInv, UpdateDated, RestDated, dateVars

\* An update keeps the charge within the battery.
LEMMA ChargeType ==
    ASSUME TypeOK, NEW voltage \in Voltages, NEW current \in Currents,
           UpdateCharge(voltage, current)
    PROVE  /\ charge' \in Charges /\ remaining' \in Charges
           /\ SoC' \in Percent /\ SoCgood' \in BOOLEAN
<1>1. Counted(current) \in Charges
  BY CountedType
<1>2. /\ SoCFromVoltage(voltage) \in Percent
      /\ SoCFromCharge(Counted(current)) \in Percent
  BY <1>1, SoCTypes
<1>3. (Full * SoCFromVoltage(voltage)) \div 100 \in Charges
  BY <1>2, PartOfFull
<1>4. charge' \in Charges
  BY <1>1, <1>3 DEF UpdateCharge
<1>5. remaining' \in Charges
  BY <1>1 DEF UpdateCharge
<1>6. SoC' \in Percent
  BY <1>2 DEF UpdateCharge
<1>7. SoCgood' \in BOOLEAN
  BY Zenon DEF UpdateCharge
<1>8. QED
  BY <1>4, <1>5, <1>6, <1>7

LEMMA BatteryUpdate ==
    ASSUME BatteryInv, NEW voltage \in Voltages, NEW current \in Currents,
           Update(voltage, current)
    PROVE  BatteryInv'
<1>1. TypeOK /\ UpdateDated /\ RestDated
  BY DEF BatteryInv
<1>2. now \in Time /\ now' = now /\ Dates(now, now, 0)
  BY <1>1, DatesNow DEF Update, TypeOK
<1>3. lastUpdate' = now /\ updateAge' = 0
  BY DEF Update, DateUpdate
<1>4. \/ UNCHANGED <<idleCurrentSince, restAge>>
      \/ idleCurrentSince' = now /\ restAge' = 0
  BY DEF Update
<1>5. /\ charge' \in Charges /\ remaining' \in Charges
      /\ SoC' \in Percent /\ SoCgood' \in BOOLEAN
  <2>1. CASE lastUpdate # 0
    BY <1>1, <2>1, ChargeType DEF Update
  <2>2. CASE lastUpdate = 0
    BY <1>1, <2>2 DEF Update, TypeOK
  <2>3. QED
    BY <2>1, <2>2
<1>6. /\ pc' = "waits" /\ prevCurrent' = current
      /\ UNCHANGED <<initialized, lag>>
  BY DEF Update
<1>7. TypeOK'
  BY <1>1, <1>2, <1>3, <1>4, <1>5, <1>6, FreshState DEF TypeOK
<1>8. UpdateDated' /\ RestDated'
  BY <1>1, <1>2, <1>3, <1>4 DEF UpdateDated, RestDated
<1>9. QED
  BY <1>7, <1>8 DEF BatteryInv

LEMMA BatteryNext == BatteryInv /\ [Next]_vars => BatteryInv'
<1> SUFFICES ASSUME BatteryInv, [Next]_vars PROVE BatteryInv'
  OBVIOUS
<1>1. CASE UNCHANGED vars
  BY <1>1
  DEF vars, chargeVars, dateVars, BatteryInv, TypeOK, UpdateDated, RestDated
<1>2. QED
  BY <1>1, BatteryTick, BatteryRestart, BatteryBegin, BatteryUpdate DEF Next

LEMMA BatteryAlways == Spec => []BatteryInv
BY BatteryInit, BatteryNext, PTL DEF Spec

-----------------------------------------------------------------------------
(* The results.                                                            *)

\* The charge never leaves the battery, for every current, every delay and
\* every product that overflows.
THEOREM BatteryTypeCorrect == Spec => []TypeOK
<1>1. BatteryInv => TypeOK
  BY DEF BatteryInv
<1>2. QED
  BY <1>1, BatteryAlways, PTL

\* Only an update gives up the counted charge.
LEMMA CorrectionIsUpdate ==
    ASSUME Next, charge' # remaining', charge' # charge
    PROVE  IdleCurrentTimeAchieved
<1>1. CASE Tick
  BY <1>1 DEF Tick, chargeVars
<1>2. CASE Restart
  BY <1>2 DEF Restart
<1>3. CASE BeginUpdate
  BY <1>3 DEF BeginUpdate, InitFromMemory, chargeVars
<1>4. ASSUME NEW voltage \in Voltages, NEW current \in Currents,
             Update(voltage, current)
      PROVE  IdleCurrentTimeAchieved
  BY <1>4 DEF Update, UpdateCharge
<1>5. QED
  BY <1>1, <1>2, <1>3, <1>4 DEF Next

\* The counted charge is given up after a true rest of more than IdleTime
\* only, for every width of the clock and also across its wrap.
THEOREM RestBeforeCorrection == Spec => CorrectedAfterRest
<1>1. BatteryInv /\ [Next]_vars =>
         [charge' # remaining' /\ charge' # charge => restAge > IdleTime]_vars
  <2> SUFFICES ASSUME BatteryInv, Next, charge' # remaining', charge' # charge
               PROVE  restAge > IdleTime
    OBVIOUS
  <2>1. Elapsed(now, idleCurrentSince) > IdleTime
    BY CorrectionIsUpdate DEF IdleCurrentTimeAchieved
  <2>2. Elapsed(now, idleCurrentSince) <= restAge
    BY DEF BatteryInv, RestDated, Dates
  <2>3. restAge \in Nat /\ Elapsed(now, idleCurrentSince) \in Int
    BY ElapsedType, TimeModAssumption DEF BatteryInv, TypeOK, Age, Time
  <2>4. QED
    BY <2>1, <2>2, <2>3, BatteryAssumption
<1>2. QED
  BY <1>1, BatteryAlways, PTL DEF Spec, CorrectedAfterRest

\* Neither integer of line 86 overflows where the property speaks.
LEMMA CountedExactly ==
    ASSUME BatteryInv, NEW current \in Currents,
           updateAge < TimeMod \div 2,
           Magnitude((current + prevCurrent) * updateAge) < IntWidth \div 2
    PROVE  Counted(current)
             = Within(charge + Half((current + prevCurrent) * updateAge), 0, Full)
<1>1. updateAge \in Nat /\ current + prevCurrent \in Int
  BY CurrentsType, TimeModAssumption DEF BatteryInv, TypeOK, Age
<1>2. updateAge < TimeMod
  BY <1>1, TimeModAssumption
<1>3. Elapsed(now, lastUpdate) = updateAge
  BY <1>2 DEF BatteryInv, UpdateDated, Dates
<1>4. Signed(updateAge, TimeMod) = updateAge
  <2>1. updateAge \in Int /\ TimeMod \in Nat \ {0} /\ Magnitude(updateAge) = updateAge
    BY <1>1, TimeModAssumption DEF Magnitude
  <2>2. QED
    BY <2>1, SignedFits
<1> DEFINE area == (current + prevCurrent) * updateAge
<1>5. area \in Int
  BY <1>1
<1>6. Magnitude(area) < IntWidth \div 2
  OBVIOUS
<1> HIDE DEF area
<1>7. Signed(area, IntWidth) = area
  BY <1>5, <1>6, SignedFits, BatteryAssumption
<1>8. Counted(current) = Within(charge + Half(Signed(area, IntWidth)), 0, Full)
  BY <1>3, <1>4 DEF Counted, area
<1>9. QED
  BY <1>7, <1>8 DEF area

\* Each update counts the current of the true time since the last one, for
\* every width of the clock and of the integers.
THEOREM MomentsCountOnce == Spec => EachMomentCountedOnce
<1> DEFINE Exact ==
      LET area == (prevCurrent' + prevCurrent) * updateAge
      IN  /\ pc = "reads" /\ pc' = "waits" /\ initialized'
          /\ lastUpdate # 0 /\ updateAge < TimeMod \div 2
          /\ Magnitude(area) < IntWidth \div 2
          => remaining' = Within(charge + Half(area), 0, Full)
<1>1. BatteryInv /\ [Next]_vars => [Exact]_vars
  <2> SUFFICES ASSUME BatteryInv, Next,
                      pc = "reads", pc' = "waits", initialized' = TRUE,
                      lastUpdate # 0, updateAge < TimeMod \div 2,
                      Magnitude((prevCurrent' + prevCurrent) * updateAge)
                        < IntWidth \div 2
               PROVE  remaining' = Within(
                        charge + Half((prevCurrent' + prevCurrent) * updateAge),
                        0, Full)
    OBVIOUS
  <2>1. PICK voltage \in Voltages, current \in Currents :
           Update(voltage, current)
    BY DEF Next, Tick, Restart, BeginUpdate
  <2>2. prevCurrent' = current /\ UpdateCharge(voltage, current)
    BY <2>1 DEF Update
  <2>3. remaining' = Counted(current)
    BY <2>2 DEF UpdateCharge
  <2>4. QED
    BY <2>2, <2>3, CountedExactly
<1> HIDE DEF Exact
<1>2. Spec => [][Exact]_vars
  BY <1>1, BatteryAlways, PTL DEF Spec
<1>3. QED
  BY <1>2 DEF EachMomentCountedOnce, Exact

-----------------------------------------------------------------------------
(* The switch of the charger.                                              *)

\* The switch only watches the battery.
LEMMA ChargeStepIsBatteryStep == [ChargeNext]_allVars => [Next]_vars
<1> SUFFICES ASSUME [ChargeNext]_allVars PROVE [Next]_vars
  OBVIOUS
<1>1. CASE UNCHANGED allVars
  BY <1>1 DEF allVars
<1>2. CASE Tick /\ UNCHANGED switchVars
  BY <1>2 DEF Next
<1>3. CASE ChargeRestart
  BY <1>3 DEF ChargeRestart, Next
<1>4. CASE \E current \in Currents : ChargeSwitchLoop(current)
  BY <1>4 DEF ChargeSwitchLoop
<1>5. CASE BatteryLoop
  BY <1>5 DEF BatteryLoop, Next
<1>6. CASE BatteryReads
  BY <1>6 DEF BatteryReads, Next
<1>7. QED
  BY <1>1, <1>2, <1>3, <1>4, <1>5, <1>6 DEF ChargeNext

\* The battery behaves the same with the charger switched: what is proved of
\* it holds of the two together.
THEOREM SwitchedBatteryIsBattery == ChargeSpec => Spec
<1>1. ChargeInit => Init
  BY DEF ChargeInit
<1>2. QED
  BY <1>1, ChargeStepIsBatteryStep, PTL DEF ChargeSpec, Spec

\* The switch as the loop calls it, whatever it reads.
LEMMA SwitchTypes ==
    ASSUME NEW charges \in BOOLEAN, Switch(charges),
           charger \in BOOLEAN, wasCharging \in BOOLEAN
    PROVE  charger' \in BOOLEAN /\ wasCharging' \in BOOLEAN
BY DEF Switch, SwitchOn, SwitchOff, LeaveIt, SetCharger

\* What the switch keeps: its types and, of a charger that is off, that it was
\* charging.
SwitchInv == /\ charger \in BOOLEAN /\ wasCharging \in BOOLEAN
             /\ switched \in BOOLEAN
             /\ OffIsRemembered

LEMMA SwitchInvKept == SwitchInv /\ [ChargeNext]_allVars => SwitchInv'
<1> SUFFICES ASSUME SwitchInv, [ChargeNext]_allVars PROVE SwitchInv'
  OBVIOUS
<1>1. CASE UNCHANGED switchVars
  BY <1>1 DEF switchVars, SwitchInv, OffIsRemembered
<1>2. CASE ChargeRestart
  BY <1>2 DEF ChargeRestart, SwitchInv, OffIsRemembered
<1>3. ASSUME NEW current \in Currents, ChargeSwitchLoop(current)
      PROVE  SwitchInv'
  <2> DEFINE charges == wasCharging \/ current > ChargeCurrent
  <2>1. charges \in BOOLEAN /\ (wasCharging => charges)
    BY DEF SwitchInv
  <2>2. Switch(charges) /\ switched' = TRUE
    BY <1>3 DEF ChargeSwitchLoop
  <2> HIDE DEF charges
  <2>3. charger' \in BOOLEAN /\ wasCharging' \in BOOLEAN
    BY <2>1, <2>2, SwitchTypes DEF SwitchInv
  <2>4. OffIsRemembered'
    BY <2>1, <2>2
    DEF Switch, SwitchOn, SwitchOff, LeaveIt, SetCharger, SwitchInv, OffIsRemembered
  <2>5. QED
    BY <2>2, <2>3, <2>4 DEF SwitchInv
<1>4. CASE BatteryLoop
  BY <1>4 DEF BatteryLoop, SwitchInv, OffIsRemembered
<1>5. CASE UNCHANGED allVars
  BY <1>1, <1>5 DEF allVars
<1>6. CASE BatteryReads
  BY <1>1, <1>6 DEF BatteryReads
<1>7. QED
  BY <1>1, <1>2, <1>3, <1>4, <1>5, <1>6 DEF ChargeNext

LEMMA SwitchAlways == ChargeSpec => []SwitchInv
<1>1. ChargeInit => SwitchInv
  BY DEF ChargeInit, SwitchInv, OffIsRemembered
<1>2. QED
  BY <1>1, SwitchInvKept, PTL DEF ChargeSpec

\* The battery and the switch of its charger keep their types.
THEOREM TypeCorrect == ChargeSpec => []ChargeTypeOK
<1>1. SwitchInv /\ TypeOK => ChargeTypeOK
  BY DEF SwitchInv, ChargeTypeOK
<1>2. QED
  BY <1>1, SwitchAlways, SwitchedBatteryIsBattery, BatteryTypeCorrect, PTL

\* A charger that is off is never forgotten, for every battery and all limits.
THEOREM NeverForgotten == ChargeSpec => []OffIsRemembered
<1>1. SwitchInv => OffIsRemembered
  BY DEF SwitchInv
<1>2. QED
  BY <1>1, SwitchAlways, PTL

\* With the limit of 100 % that the firmware is built with (switcher.cpp line
\* 7) the charger is never switched off: a state of charge is no more than
\* that (battery.cpp lines 97 and 99).
THEOREM ConfiguredNeverStops ==
    ASSUME StopSoC = 100 PROVE ChargeSpec => []charger
<1>1. ChargeInit => charger
  BY DEF ChargeInit
<1>2. charger /\ TypeOK /\ [ChargeNext]_allVars => charger'
  <2> SUFFICES ASSUME charger, TypeOK, [ChargeNext]_allVars PROVE charger'
    OBVIOUS
  <2>1. CASE UNCHANGED charger
    BY <2>1
  <2>2. CASE ChargeRestart
    BY <2>2 DEF ChargeRestart
  <2>3. ASSUME NEW charges, Switch(charges) PROVE charger'
    <3>1. ~ (SoC > StopSoC)
      BY DEF TypeOK, Percent
    <3>2. ~ SwitchOff(charges)
      BY <3>1, Zenon DEF SwitchOff, TooFull
    <3>3. QED
      BY <2>3, <3>2 DEF Switch, SwitchOn, SetCharger, LeaveIt
  <2>4. CASE \E current \in Currents : ChargeSwitchLoop(current)
    BY <2>3, <2>4 DEF ChargeSwitchLoop
  <2>5. QED
    BY <2>1, <2>2, <2>4
    DEF ChargeNext, BatteryLoop, BatteryReads, allVars, switchVars
<1>3. QED
  BY <1>1, <1>2, SwitchedBatteryIsBattery, BatteryTypeCorrect, PTL DEF ChargeSpec
=============================================================================
