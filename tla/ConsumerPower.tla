---------------------------- MODULE ConsumerPower ---------------------------
(***************************************************************************)
(* The power sequence of the consumers: _consumerPowerLoop in              *)
(* src/src/switcher/switcher.cpp, run once per iteration of the main loop. *)
(* It drives three outputs - the relay of all consumers, and behind it the *)
(* mount (normally closed) and the camera - and watches the PC behind the  *)
(* relay, which is asked to shut down before the relay opens.              *)
(*                                                                         *)
(* The outputs are named by what getConsumers, getMount and getCamera      *)
(* return.  The heaters are left out: the code only ever sets them to 0.   *)
(* A run of the loop is one step: what time its sensor reads take counts   *)
(* as time before the next run.                                            *)
(***************************************************************************)
EXTENDS Millis

CONSTANTS
    PrepareTime,      \* 200 ms, line 206
    LoadTime,         \* 100 ms, line 215
    VoltageTimeout,   \* 3000 ms, line 217
    MountDelay,       \* 500 ms, line 226
    ActivationTime,   \* 1000 ms, line 229
    PowerDownTime,    \* 200 ms, line 252
    PcTimeout,        \* one hour, line 262
    MaxLag,           \* longest time between two runs of the loop
    VoltageChecks,    \* outcomes of voltage >= BAT_MIN_TURN_ON_VOLTAGE: only
                      \* TRUE as configured (-1.0), both with the 11.0 of
                      \* config.hpp line 20
    SensorGlitch      \* may a read of the PC current wrongly return 0?

ASSUME PowerAssumption ==
    /\ PrepareTime \in Nat /\ LoadTime \in Nat /\ VoltageTimeout \in Nat
    /\ MountDelay \in Nat /\ ActivationTime \in Nat /\ PowerDownTime \in Nat
    /\ PcTimeout \in Nat /\ MaxLag \in Nat
    /\ MountDelay <= ActivationTime /\ LoadTime <= VoltageTimeout
    /\ \A limit \in {PrepareTime, VoltageTimeout, ActivationTime,
                     PowerDownTime, PcTimeout} : limit + MaxLag < TimeMod
    /\ VoltageChecks \subseteq BOOLEAN /\ SensorGlitch \in BOOLEAN

VARIABLES
    now,              \* millis()
    powerRequest,     \* _consumerPowerRequest, the argument requestedState
    consumersState,   \* _consumersState
    lastStateChange,  \* the static local of _consumerPowerLoop
    consumers,        \* the relay of the consumers is closed
    mount,            \* the relay of the mount is closed
    camera,           \* the camera is switched on
    pcOn,             \* the PC behind the relay runs (draws 0.2 A or more)
    \* history, not in the program
    stateAge,         \* true time since lastStateChange was written
    offAge,           \* time since the loop last saw the request on, capped
    pcOnAge,          \* time for which the PC has run behind a start that
                      \* passed the voltage check, capped
    lag               \* time since the last run of the loop

pinVars   == <<consumers, mount, camera>>
stateVars == <<consumersState, lastStateChange, stateAge>>
vars == <<now, powerRequest, stateVars, pinVars, pcOn, offAge, pcOnAge, lag>>

ConsumersStates ==
    {"off_idle", "off_prepare_activation", "on_subs_off",
     "on_subs_activation", "on_idle", "on_prepare_power_down",
     "on_wait4pc_shutdown"}

\* All outputs are low at boot: the normally closed mount relay is closed.
Init ==
    /\ now = 0 /\ powerRequest = FALSE
    /\ consumersState = "off_idle" /\ lastStateChange = 0 /\ stateAge = 0
    /\ consumers = FALSE /\ mount = TRUE /\ camera = FALSE
    /\ pcOn = FALSE /\ offAge = 0 /\ pcOnAge = 0 /\ lag = 0

-----------------------------------------------------------------------------
(* The surroundings: time, who asks for power, the PC, a reset.            *)

CappedAt(age, cap) == IF age > cap THEN age ELSE age + 1

Tick ==
    /\ lag < MaxLag
    /\ now' = NextMs(now)
    /\ lag' = lag + 1
    /\ stateAge' = Older(stateAge)
    /\ offAge' = CappedAt(offAge, PcTimeout)
    /\ pcOnAge' = IF pcOn /\ consumersState # "on_subs_off"
                  THEN CappedAt(pcOnAge, MaxLag) ELSE 0
    /\ UNCHANGED <<powerRequest, consumersState, lastStateChange, pinVars,
                   pcOn>>

\* the button or a telegram command; see KeyLock for when they do
Request(on) ==
    /\ powerRequest' = on
    /\ UNCHANGED <<now, stateVars, pinVars, pcOn, offAge, pcOnAge, lag>>

PcBoots ==
    /\ consumers /\ ~pcOn
    /\ pcOn' = TRUE
    /\ UNCHANGED <<now, powerRequest, stateVars, pinVars, offAge, pcOnAge,
                   lag>>

PcShutsDown ==
    /\ pcOn
    /\ pcOn' = FALSE /\ pcOnAge' = 0
    /\ UNCHANGED <<now, powerRequest, stateVars, pinVars, offAge, lag>>

\* a watchdog or brownout reset: RAM and outputs are lost
Restart ==
    /\ now' = 0 /\ powerRequest' = FALSE
    /\ consumersState' = "off_idle" /\ lastStateChange' = 0 /\ stateAge' = 0
    /\ consumers' = FALSE /\ mount' = TRUE /\ camera' = FALSE
    /\ pcOn' = FALSE /\ offAge' = 0 /\ pcOnAge' = 0 /\ lag' = 0

-----------------------------------------------------------------------------
(* _consumerPowerLoop.                                                     *)

TimeInState == Elapsed(now, lastStateChange)

\* Mutant: the deadline of the first phase is stored, and never wrapped.
GoToUntil(state) ==
    /\ consumersState' = state
    /\ lastStateChange' = now + PrepareTime /\ stateAge' = 0

GoTo(state) ==
    /\ consumersState' = state
    /\ lastStateChange' = now /\ stateAge' = 0

Stay == UNCHANGED stateVars

SetPins(c, m, k) == consumers' = c /\ mount' = m /\ camera' = k

\* what a read of the PC current may report
ReadsLow  == ~pcOn \/ SensorGlitch
ReadsHigh == pcOn

OffIdle ==
    /\ consumersState = "off_idle"
    /\ \/ powerRequest /\ GoTo("off_prepare_activation") /\ UNCHANGED pinVars
       \/ ~powerRequest /\ Stay /\ SetPins(FALSE, TRUE, FALSE)

\* Mutant: the mount is left as it was.
MountLeftOn ==
    /\ consumersState = "off_prepare_activation"
    /\ SetPins(consumers, mount, FALSE)
    /\ IF TimeInState > PrepareTime THEN GoTo("on_subs_off") ELSE Stay

OffPrepareActivation ==
    /\ consumersState = "off_prepare_activation"
    /\ SetPins(consumers, FALSE, FALSE)
    /\ IF TimeInState > PrepareTime THEN GoTo("on_subs_off") ELSE Stay

OnSubsOff(voltageOk) ==
    /\ consumersState = "on_subs_off"
    /\ SetPins(TRUE, mount, camera)
    /\ IF TimeInState > LoadTime /\ voltageOk THEN GoTo("on_subs_activation")
       ELSE IF TimeInState > VoltageTimeout THEN GoTo("off_idle")
       ELSE Stay

\* Mutants: camera and mount together; the mount one tick too late.
AllAtOnce ==
    /\ consumersState = "on_subs_activation"
    /\ SetPins(consumers, TRUE, TRUE)
    /\ IF TimeInState >= ActivationTime THEN GoTo("on_idle") ELSE Stay
MountTooLate ==
    /\ consumersState = "on_subs_activation"
    /\ SetPins(consumers, mount \/ TimeInState > ActivationTime, TRUE)
    /\ IF TimeInState >= ActivationTime THEN GoTo("on_idle") ELSE Stay

OnSubsActivation ==
    /\ consumersState = "on_subs_activation"
    /\ SetPins(consumers, mount \/ TimeInState >= MountDelay, TRUE)
    /\ IF TimeInState >= ActivationTime THEN GoTo("on_idle") ELSE Stay

\* Mutant: the PC is not waited for.
HardPowerDown ==
    /\ consumersState = "on_idle"
    /\ UNCHANGED pinVars
    /\ IF powerRequest THEN Stay ELSE GoTo("off_idle")

OnIdle ==
    /\ consumersState = "on_idle"
    /\ UNCHANGED pinVars
    /\ IF powerRequest THEN Stay ELSE GoTo("on_prepare_power_down")

OnPreparePowerDown ==
    /\ consumersState = "on_prepare_power_down"
    /\ SetPins(consumers, FALSE, camera)
    /\ IF TimeInState > PowerDownTime THEN GoTo("on_wait4pc_shutdown")
                                      ELSE Stay

\* Mutant: no timeout for the PC.
WaitForEver ==
    /\ consumersState = "on_wait4pc_shutdown"
    /\ UNCHANGED pinVars
    /\ \/ powerRequest /\ GoTo("on_subs_activation")
       \/ ~powerRequest /\ ReadsLow /\ GoTo("off_idle")
       \/ ~powerRequest /\ ReadsHigh /\ Stay

OnWait4PcShutdown ==
    /\ consumersState = "on_wait4pc_shutdown"
    /\ UNCHANGED pinVars
    /\ \/ powerRequest /\ GoTo("on_subs_activation")
       \/ ~powerRequest /\ ReadsLow /\ GoTo("off_idle")
       \/ /\ ~powerRequest /\ ReadsHigh
          /\ IF TimeInState > PcTimeout THEN GoTo("off_idle") ELSE Stay

PowerStep ==
    \/ OffIdle
    \/ OffPrepareActivation
    \/ \E voltageOk \in VoltageChecks : OnSubsOff(voltageOk)
    \/ OnSubsActivation
    \/ OnIdle
    \/ OnPreparePowerDown
    \/ OnWait4PcShutdown

\* a PC whose relay opens is off
ConsumerPowerLoop ==
    /\ PowerStep
    /\ pcOn' = (pcOn /\ consumers')
    /\ pcOnAge' = IF pcOn' /\ consumersState' # "on_subs_off"
                  THEN pcOnAge ELSE 0
    /\ offAge' = IF powerRequest THEN 0 ELSE offAge
    /\ lag' = 0
    /\ UNCHANGED <<now, powerRequest>>

Next ==
    \/ Tick
    \/ \E on \in BOOLEAN : Request(on)
    \/ PcBoots
    \/ PcShutsDown
    \/ Restart
    \/ ConsumerPowerLoop

(***************************************************************************)
(* The main loop keeps running and its delay(10) lets time pass.  Nothing  *)
(* is assumed about the PC: it may ignore the shutdown for ever.           *)
(***************************************************************************)
Fairness == WF_vars(ConsumerPowerLoop) /\ SF_vars(Tick)

Spec == Init /\ [][Next]_vars
FairSpec == Spec /\ Fairness

-----------------------------------------------------------------------------
(* Properties.                                                             *)

\* Every variable keeps its type.
TypeOK ==
    /\ now \in Time /\ lastStateChange \in Time /\ stateAge \in Age
    /\ powerRequest \in BOOLEAN /\ consumersState \in ConsumersStates
    /\ consumers \in BOOLEAN /\ mount \in BOOLEAN /\ camera \in BOOLEAN
    /\ pcOn \in BOOLEAN
    /\ offAge \in 0 .. PcTimeout + 1 /\ pcOnAge \in 0 .. MaxLag + 1
    /\ lag \in 0 .. MaxLag

\* The outputs agree with what the state's name says: in the "on" states the
\* relay is closed, the sub-consumers are off until they are activated, all
\* of them are on once the start is complete, and the mount is off before the
\* PC is waited for.
PinsFollowState ==
    /\ consumersState = "on_subs_off" => ~mount /\ ~camera
    /\ consumersState \in {"on_subs_activation", "on_prepare_power_down"}
          => consumers
    /\ consumersState = "on_idle" => consumers /\ mount /\ camera
    /\ consumersState = "on_prepare_power_down" => camera
    /\ consumersState = "on_wait4pc_shutdown" => consumers /\ ~mount /\ camera

\* The peak current is limited: the relay never closes onto a mount or a
\* camera that is switched on, however the outputs stood before.
SoftStart == [][~consumers /\ consumers' => ~mount' /\ ~camera']_vars

MountPowered == consumers /\ mount

\* The mount, the largest load, is connected no earlier than MountDelay after
\* the sub-consumers may be switched on, and to a rail that already feeds the
\* camera.  Camera and mount are switched by one and the same run of the loop
\* only if the loop was away for the whole delay.
MountComesLast ==
    [][~MountPowered /\ MountPowered'
          => consumers /\ stateAge >= MountDelay
             /\ (camera \/ lag >= MountDelay)]_vars

\* Every transient state is left on time, whatever millis() does: at most the
\* timeout of the state plus the time since the loop last ran.
PhaseLimit(state) ==
    CASE state = "off_prepare_activation" -> PrepareTime
      [] state = "on_subs_off"            -> VoltageTimeout
      [] state = "on_subs_activation"     -> ActivationTime
      [] state = "on_prepare_power_down"  -> PowerDownTime
      [] state = "on_wait4pc_shutdown"    -> PcTimeout

TransientStates == ConsumersStates \ {"off_idle", "on_idle"}

PhaseDeadline ==
    consumersState \in TransientStates =>
        stateAge <= PhaseLimit(consumersState) + lag

\* The power of a PC that runs is cut, if not by a reset, only after it was
\* given PcTimeout to shut down with nobody asking for power in between.  A
\* PC that booted since the decision is excepted, as the relay opens one run
\* of the loop later, and so is a start that fails the voltage check.
GracefulCut ==
    [][consumers /\ ~consumers' /\ ~Restart
          => pcOnAge <= MaxLag \/ offAge > PcTimeout]_vars

\* Once nobody asks for power any more, the consumers end up switched off,
\* even if the PC never shuts down.
ShutdownCompletes ==
    []<>powerRequest \/ <>[](consumersState = "off_idle" /\ ~consumers)

StartFails == consumersState = "on_subs_off" /\ consumersState' = "off_idle"

\* Once power is asked for and nobody withdraws it, everything ends up on,
\* unless the voltage stays too low: then the start is tried for ever.
StartupCompletes ==
    \/ []<>~powerRequest
    \/ []<><<StartFails>>_vars
    \/ <>[](consumersState = "on_idle" /\ mount /\ camera)
=============================================================================
