----------------------------- MODULE PowerSensor ----------------------------
(***************************************************************************)
(* One channel of an INA3221 as the firmware reads it: the cached register *)
(* read of src/src/sensors/power/ina3221.cpp, which every part of the main *)
(* loop calls when it wants a voltage or a current, and psens::loop of     *)
(* psens.cpp, which derives the powers every UpdateDelay.                  *)
(*                                                                         *)
(* Both compare millis() with a date in the future, a sum that wraps, and  *)
(* not a difference.  LastTick tells the first 49.7 days from later.       *)
(***************************************************************************)
EXTENDS Millis

CONSTANTS
    ReadDelay,        \* _minReadDelay, 10 ms
    UpdateDelay,      \* psens::_updateDelay, 100 ms
    MaxLag,           \* longest time between two runs of psens::loop
    LastTick,         \* bound: the clock stops here, or never (TimeMod - 1)
    Measured,         \* what the sensor may measure
    Zero              \* the reading of rawData = 0

ASSUME SensorAssumption ==
    /\ ReadDelay \in Nat \ {0} /\ UpdateDelay \in Nat \ {0} /\ MaxLag \in Nat
    /\ ReadDelay < TimeMod /\ UpdateDelay + MaxLag < TimeMod
    /\ LastTick \in Time
    /\ Zero \in Measured

VARIABLES
    now,              \* millis()
    register,         \* the data register of the sensor
    reading,          \* dest.value
    readTime,         \* dest.time
    valid,            \* dest.valid
    power,            \* _powers, of the channel
    nextUpdate,       \* _nextUpdate
    \* history, not in the program
    readAge,          \* true time since readTime was written
    updateAge,        \* true time since nextUpdate was written
    lag               \* time since the last run of psens::loop

cacheVars  == <<reading, readTime, valid, readAge>>
updateVars == <<power, nextUpdate, updateAge>>
vars == <<now, register, cacheVars, updateVars, lag>>

Init ==
    /\ now = 0 /\ register \in Measured
    /\ reading = Zero /\ readTime = 0 /\ valid = FALSE
    /\ power = Zero /\ nextUpdate = 0
    /\ readAge = 0 /\ updateAge = 0 /\ lag = 0

-----------------------------------------------------------------------------
(* The surroundings.                                                       *)

Tick ==
    /\ lag < MaxLag
    /\ now < LastTick \/ LastTick = TimeMod - 1
    /\ now' = NextMs(now)
    /\ readAge' = Older(readAge)
    /\ updateAge' = Older(updateAge)
    /\ lag' = lag + 1
    /\ UNCHANGED <<register, reading, readTime, valid, power, nextUpdate>>

\* a conversion is complete
Measure(value) ==
    /\ register' = value
    /\ UNCHANGED <<now, cacheVars, updateVars, lag>>

-----------------------------------------------------------------------------
(* ina3221.cpp.                                                            *)

\* Mutant: the sum is wider than the date.
WideLater(date, delay) == date + delay

Later(date, delay) == (date + delay) % TimeMod

\* Mutant: the comparison is swapped.
CachedOnceOld == now >= Later(readTime, ReadDelay) /\ valid

Cached == now < Later(readTime, ReadDelay) /\ valid

\* "no attempt to read new values from the sensor if this duration did not yet
\* elapse since the last read" (ina3221.hpp line 44)
FromCache == Cached /\ UNCHANGED cacheVars

\* A sensor that delivers no two bytes is read as 0, and the value is valid;
\* only a register pointer that cannot be set is reported.
FromBus ==
    /\ ~Cached
    /\ \/ /\ reading' \in {register, Zero}
          /\ readTime' = now /\ readAge' = 0
          /\ valid' = TRUE
       \/ /\ valid' = FALSE
          /\ UNCHANGED <<reading, readTime, readAge>>

ReadValue == FromCache \/ FromBus

\* getVoltage or getCurrent, from anywhere in the main loop
Get ==
    /\ ReadValue
    /\ UNCHANGED <<now, register, updateVars, lag>>

-----------------------------------------------------------------------------
(* psens::loop.                                                            *)

\* the power is voltage times current; one of the two stands for both
Update ==
    /\ now >= nextUpdate
    /\ nextUpdate' = Later(now, UpdateDelay)
    /\ updateAge' = 0
    /\ ReadValue
    /\ power' = reading'

\* Mutant: every run puts the date off.
Postponed ==
    /\ now < nextUpdate
    /\ nextUpdate' = Later(now, UpdateDelay)
    /\ UNCHANGED <<cacheVars, power, updateAge>>

NotDue ==
    /\ now < nextUpdate
    /\ UNCHANGED <<cacheVars, updateVars>>

PsensLoop ==
    /\ \/ Update
       \/ NotDue
    /\ lag' = 0
    /\ UNCHANGED <<now, register>>

Next ==
    \/ Tick
    \/ \E value \in Measured : Measure(value)
    \/ Get
    \/ PsensLoop

Spec == Init /\ [][Next]_vars

-----------------------------------------------------------------------------
(* Properties.                                                             *)

\* Every variable keeps its type.
TypeOK ==
    /\ now \in Time /\ readTime \in Time /\ nextUpdate \in Time
    /\ register \in Measured /\ reading \in Measured /\ power \in Measured
    /\ valid \in BOOLEAN
    /\ readAge \in Age /\ updateAge \in Age /\ lag \in 0 .. MaxLag

\* The powers are derived anew at least once per UpdateDelay, but for the
\* time the main loop is late.
PowersFollow == updateAge <= UpdateDelay + lag

=============================================================================
