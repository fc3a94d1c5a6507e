------------------------------ MODULE Battery -------------------------------
(***************************************************************************)
(* The state of charge: class lifepo4_battery of src/src/battery, which    *)
(* counts the charge that flows (the area under the current, by            *)
(* trapezoids), holds it against the resting voltage, and replaces it when *)
(* the two disagree for too long.                                          *)
(*                                                                         *)
(* Charges are in units of which Full make a full battery, states of       *)
(* charge in percent, voltages in tenths of a volt.                        *)
(***************************************************************************)
EXTENDS Millis

CONSTANTS
    UpdateDelay,      \* _updateDelay, 200 ms
    IdleTime,         \* 300000 ms, line 74
    IdleCurrent,      \* 100 mA, line 78
    Full,             \* _chargeTotal_fine
    IntWidth,         \* 2^32, the range of an int32_t
    Charging,         \* currents the sensor may deliver, into the battery
    Discharging,      \* and out of it
    Voltages,         \* what the sensor may deliver; 0 is also a failed read
    MaxLag            \* longest time between two runs of battery.loop

ASSUME BatteryAssumption ==
    /\ UpdateDelay \in Nat \ {0} /\ IdleTime \in Nat /\ IdleCurrent \in Nat
    /\ Full \in Nat \ {0} /\ IntWidth \in Nat \ {0, 1}
    /\ Charging \subseteq Nat /\ Discharging \subseteq Nat
    /\ Voltages \subseteq Nat /\ MaxLag \in Nat

VARIABLES
    now,              \* millis()
    pc,               \* between two runs, or while one reads the sensor
    initialized,      \* _initialized
    charge,           \* _chargeRemaining_fine
    remaining,        \* _chargeRemaining, which the memory is told
    SoC, SoCgood,
    lastUpdate,       \* _lastUpdate, 0 for none
    prevCurrent,      \* _prevCurrentMilliAmps
    idleCurrentSince,
    \* history, not in the program
    updateAge,        \* true time since lastUpdate was written
    restAge,          \* true time since a reading that was not at rest
    lag               \* time since the last run of battery.loop

chargeVars == <<initialized, charge, remaining, SoC, SoCgood>>
dateVars == <<lastUpdate, prevCurrent, idleCurrentSince, updateAge, restAge>>
vars == <<now, pc, chargeVars, dateVars, lag>>

Charges == 0 .. Full
Currents == {0} \cup Charging \cup {-c : c \in Discharging}
Percent == 0 .. 100

Init ==
    /\ now = 0 /\ pc = "waits" /\ initialized = FALSE
    /\ charge = 0 /\ remaining = 0 /\ SoC = 0 /\ SoCgood = FALSE
    /\ lastUpdate = 0 /\ prevCurrent = 0 /\ idleCurrentSince = 0
    /\ updateAge = 0 /\ restAge = 0 /\ lag = 0

-----------------------------------------------------------------------------
(* The surroundings.                                                       *)

Tick ==
    /\ lag < MaxLag
    /\ now' = NextMs(now)
    /\ updateAge' = Older(updateAge) /\ restAge' = Older(restAge)
    /\ lag' = lag + 1
    /\ UNCHANGED <<pc, chargeVars, lastUpdate, prevCurrent, idleCurrentSince>>

\* a watchdog or brownout reset
Restart ==
    /\ now' = 0 /\ pc' = "waits" /\ initialized' = FALSE
    /\ charge' = 0 /\ remaining' = 0 /\ SoC' = 0 /\ SoCgood' = FALSE
    /\ lastUpdate' = 0 /\ prevCurrent' = 0 /\ idleCurrentSince' = 0
    /\ updateAge' = 0 /\ restAge' = 0 /\ lag' = 0

-----------------------------------------------------------------------------
(* The arithmetic.                                                         *)

AtMost(x, limit) == IF x < limit THEN x ELSE limit
AtLeast(x, limit) == IF x > limit THEN x ELSE limit
Within(x, low, high) == AtLeast(AtMost(x, high), low)
Magnitude(x) == IF x < 0 THEN -x ELSE x

\* what a signed integer of that range makes of it
Signed(x, width) == ((x + width \div 2) % width) - width \div 2

\* x / 2, which rounds towards 0
Half(x) == IF x < 0 THEN -((-x) \div 2) ELSE x \div 2

\* _getSoCFromRestingVoltage: a straight line between two entries of a table
Curve ==
    << <<100, 0>>, <<120, 10>>, <<128, 20>>, <<129, 30>>, <<130, 40>>,
       <<130, 50>>, <<131, 60>>, <<132, 70>>, <<133, 80>>, <<134, 90>>,
       <<136, 100>> >>

Entry(v) == CHOOSE i \in 2 .. 11 : Curve[i - 1][1] < v /\ v <= Curve[i][1]

Between(v, from, to) ==
    from[2] + ((to[2] - from[2]) * (v - from[1])) \div (to[1] - from[1])

SoCFromRestingVoltage(v) ==
    IF v <= 100 THEN 0
    ELSE IF v >= 136 THEN 100
    ELSE Between(v, Curve[Entry(v) - 1], Curve[Entry(v)])

SoCFromVoltage(v) == Within(SoCFromRestingVoltage(v), 0, 100)
SoCFromCharge(c) == Within((c * 100) \div Full, 0, 100)

-----------------------------------------------------------------------------
(* battery.loop.                                                           *)

\* Mutant: a deadline, as in line 67, instead of a difference.
IdleDeadlinePassed == now > (idleCurrentSince + IdleTime) % TimeMod

IdleCurrentTimeAchieved == Elapsed(now, idleCurrentSince) > IdleTime

ChargerConnected(voltage, current) == current > 0 \/ voltage > 142
AtRest(voltage, current) == /\ ~ChargerConnected(voltage, current)
                            /\ Magnitude(current) <= IdleCurrent
LowVoltage(voltage) == voltage <= 125

\* plausibility of the charge that was counted
Implausible(voltage, counted) ==
    LET diff == Magnitude(SoCFromVoltage(voltage) - SoCFromCharge(counted))
    IN  \/ diff > 90
        \/ SoCFromCharge(counted) < 10 /\ ~LowVoltage(voltage)
        \/ /\ diff > 10
           /\ \/ LowVoltage(voltage)
              \/ voltage >= 134 /\ IdleCurrentTimeAchieved

\* Mutant: the charge is not held to what the battery can store.
CountedUnlimited(current) ==
    charge + Half((current + prevCurrent) * Elapsed(now, lastUpdate))

Counted(current) ==
    LET deltaTime == Signed(Elapsed(now, lastUpdate), TimeMod)
        area == Signed((current + prevCurrent) * deltaTime, IntWidth)
    IN  Within(charge + Half(area), 0, Full)

UpdateCharge(voltage, current) ==
    LET counted == Counted(current)
        wrong == Implausible(voltage, counted)
    IN  /\ remaining' = counted
        /\ SoC' = IF wrong THEN SoCFromVoltage(voltage)
                           ELSE SoCFromCharge(counted)
        /\ SoCgood' = ~wrong
        /\ charge' = IF wrong /\ IdleCurrentTimeAchieved
                     THEN (Full * SoCFromVoltage(voltage)) \div 100
                     ELSE counted

\* the sum wraps, and may do so before millis() does
Due == now >= (lastUpdate + UpdateDelay) % TimeMod

InitFromMemory ==
    IF initialized
    THEN UNCHANGED chargeVars
    ELSE /\ initialized' = TRUE
         /\ \E stored \in Charges : charge' = stored /\ remaining' = stored
         /\ UNCHANGED <<SoC, SoCgood>>

\* Up to line 67; reading the sensor takes time.
BeginUpdate ==
    /\ pc = "waits"
    /\ InitFromMemory
    /\ pc' = IF Due THEN "reads" ELSE "waits"
    /\ lag' = 0
    /\ UNCHANGED <<now, dateVars>>

\* Mutant: the date is that of the test of line 67, before the sensor was read.
DateOfTest == /\ lastUpdate' = Elapsed(now, lag)
              /\ updateAge' = 0

DateUpdate == lastUpdate' = now /\ updateAge' = 0

\* From line 72.
Update(voltage, current) ==
    /\ pc = "reads"
    /\ pc' = "waits"
    /\ prevCurrent' = current
    /\ IF AtRest(voltage, current)
       THEN UNCHANGED <<idleCurrentSince, restAge>>
       ELSE idleCurrentSince' = now /\ restAge' = 0
    /\ IF lastUpdate # 0 THEN UpdateCharge(voltage, current)
                         ELSE UNCHANGED <<charge, remaining, SoC, SoCgood>>
    /\ DateUpdate
    /\ UNCHANGED <<now, initialized, lag>>

Next ==
    \/ Tick
    \/ Restart
    \/ BeginUpdate
    \/ \E voltage \in Voltages, current \in Currents : Update(voltage, current)

Spec == Init /\ [][Next]_vars

-----------------------------------------------------------------------------
(* Properties.                                                             *)

\* Every variable keeps its type; the charge stays within the battery.
TypeOK ==
    /\ now \in Time /\ lastUpdate \in Time /\ idleCurrentSince \in Time
    /\ pc \in {"waits", "reads"}
    /\ initialized \in BOOLEAN /\ SoCgood \in BOOLEAN
    /\ charge \in Charges /\ remaining \in Charges
    /\ SoC \in Percent /\ prevCurrent \in Currents
    /\ updateAge \in Age /\ restAge \in Age /\ lag \in 0 .. MaxLag

\* Each update counts the current of the true time since the last one, no
\* moment twice and none left out, also across the wrap of millis().  The code
\* does not keep this up after an update at millis() = 0, after one that comes
\* half a wrap late, and when the product exceeds 31 bits.
EachMomentCountedOnce ==
    [][LET area == (prevCurrent' + prevCurrent) * updateAge
       IN  /\ pc = "reads" /\ pc' = "waits" /\ initialized'
           /\ lastUpdate # 0 /\ updateAge < TimeMod \div 2
           /\ Magnitude(area) < IntWidth \div 2
           => remaining' = Within(charge + Half(area), 0, Full)]_vars

\* The charge that was counted is given up for the voltage only after every
\* reading of more than IdleTime, in true time, found the battery at rest -
\* but for the present reading, which may already be under load.
CorrectedAfterRest ==
    [][charge' # remaining' /\ charge' # charge => restAge > IdleTime]_vars
=============================================================================
