---------------------------- MODULE ChargeSwitch ----------------------------
(***************************************************************************)
(* The charger: _chargeSwitchLoop of src/src/switcher/switcher.cpp, which  *)
(* disconnects it from a full battery and connects it again when the       *)
(* battery is no longer full, composed with the battery whose state of     *)
(* charge it reads.  The main loop runs the two in turn: the switch        *)
(* decides on the state of charge of the iteration before.                 *)
(***************************************************************************)
EXTENDS Battery

CONSTANTS
    StopSoC,          \* _chargeLimitSoC[0], 100 % as configured
    RestartSoC,       \* _chargeLimitSoC[1], 95 % as configured
    ChargeCurrent     \* 100 mA, line 275

ASSUME LimitsAssumption == /\ StopSoC \in Percent /\ RestartSoC \in Percent
                           /\ RestartSoC <= StopSoC
                           /\ ChargeCurrent \in Nat

VARIABLES
    charger,          \* the pin is low: the charger is connected
    wasCharging,
    switched          \* the switch has run in this iteration

switchVars == <<charger, wasCharging, switched>>
allVars == <<vars, switchVars>>

\* The outputs of a reset chip are low, which connects the charger.
ChargeInit == Init /\ charger = TRUE /\ wasCharging = FALSE /\ switched = FALSE

ChargeRestart ==
    /\ Restart
    /\ charger' = TRUE /\ wasCharging' = FALSE /\ switched' = FALSE

SetCharger(on) == charger' = on

\* Lines 278 to 290: charges is wasCharging after line 276.
SwitchOn(charges) == /\ charges /\ SoC < RestartSoC
                     /\ SetCharger(TRUE) /\ wasCharging' = FALSE

TooFull(charges) == charges /\ SoC > StopSoC

\* Mutants: the switch forgets what it did; it does nothing.
SwitchOffAndForget(charges) ==
    TooFull(charges) /\ SetCharger(FALSE) /\ wasCharging' = FALSE
StayOn(charges) ==
    TooFull(charges) /\ wasCharging' = TRUE /\ UNCHANGED charger

SwitchOff(charges) == /\ TooFull(charges)
                      /\ SetCharger(FALSE) /\ wasCharging' = TRUE

LeaveIt(charges) == /\ ~charges \/ SoC \in RestartSoC .. StopSoC
                    /\ wasCharging' = charges
                    /\ UNCHANGED charger

Switch(charges) == SwitchOn(charges) \/ SwitchOff(charges) \/ LeaveIt(charges)

\* The current is read through the cache of the sensor; a failed read is 0.
ChargeSwitchLoop(current) ==
    /\ pc = "waits" /\ ~switched
    /\ Switch(wasCharging \/ current > ChargeCurrent)
    /\ switched' = TRUE
    /\ UNCHANGED vars

-----------------------------------------------------------------------------
(* The main loop: switcher.loop, then battery.loop.                        *)

BatteryLoop == /\ switched /\ BeginUpdate
               /\ switched' = FALSE
               /\ UNCHANGED <<charger, wasCharging>>

BatteryReads == /\ \E voltage \in Voltages, current \in Currents :
                      Update(voltage, current)
                /\ UNCHANGED switchVars

ChargeNext ==
    \/ Tick /\ UNCHANGED switchVars
    \/ ChargeRestart
    \/ \E current \in Currents : ChargeSwitchLoop(current)
    \/ BatteryLoop
    \/ BatteryReads

\* One part of the loop makes room for the next, or a reset ends it.
TurnEnds ==
    \/ pc = "waits" /\ switched' = ~switched /\ pc' \in {"waits", "reads"}
    \/ pc = "reads" /\ pc' = "waits" /\ UNCHANGED switched

\* The main loop goes on: neither part of it waits for anything.
ChargeSpec == ChargeInit /\ [][ChargeNext]_allVars /\ WF_<<pc, switched>>(TurnEnds)

-----------------------------------------------------------------------------
(* Properties.                                                             *)

\* Every variable keeps its type.
ChargeTypeOK == /\ TypeOK
                /\ charger \in BOOLEAN /\ wasCharging \in BOOLEAN
                /\ switched \in BOOLEAN

\* A charger that was switched off is remembered as such: only then does line
\* 278 ever connect it again.  A battery without its charger runs empty.
OffIsRemembered == ~charger => wasCharging

\* A battery that stays below RestartSoC gets its charger back, and one that
\* was charged and stays above StopSoC loses it, again and again.
ChargerFollowsLimits ==
    /\ []<>(charger \/ SoC >= RestartSoC)
    /\ []<>(~charger \/ ~wasCharging \/ SoC <= StopSoC)
=============================================================================
