------------------------- MODULE ConsumerPowerProofs ------------------------
(***************************************************************************)
(* Proofs about the power sequence of the consumers, for every value of    *)
(* its timeouts and every width of the clock, and about the two modules    *)
(* that run it: Switcher, which carries the requests to it, and            *)
(* ShutdownProtocol, which gets the PC behind it to shut down.  Both are   *)
(* shown to implement ConsumerPower first, so that its invariants can be   *)
(* used for them.                                                          *)
(***************************************************************************)
EXTENDS Switcher, ShutdownProtocol, MillisProofs, SequenceTheorems

USE TimeModAssumption, PowerAssumption

\* The truth values of TypeOK, which Zenon proves apart from the numbers.
Flags == /\ powerRequest \in BOOLEAN /\ consumers \in BOOLEAN
         /\ mount \in BOOLEAN /\ camera \in BOOLEAN /\ pcOn \in BOOLEAN

\* What a step of the loop may do, whatever the state: stay, or go to another
\* state now.
LEMMA PowerStepShape ==
    ASSUME TypeOK, ConsumerPowerLoop
    PROVE  \/ Stay
           \/ consumersState' \in ConsumersStates /\ GoTo(consumersState')
BY DEF ConsumerPowerLoop, PowerStep, OffIdle, OffPrepareActivation, OnSubsOff,
       OnSubsActivation, OnIdle, OnPreparePowerDown, OnWait4PcShutdown,
       ConsumersStates, GoTo, Stay

\* Stamps: lastStateChange dates the last change of the state.
PowerInv == TypeOK /\ Dates(now, lastStateChange, stateAge)

LEMMA PowerInit == Init => PowerInv
<1> SUFFICES ASSUME Init PROVE PowerInv
  OBVIOUS
<1>1. 0 \in Time
  BY DEF Time
<1>2. Flags
  BY DEF Init, Flags
<1>3. TypeOK
  BY <1>1, <1>2 DEF Init, TypeOK, Flags, Age, ConsumersStates
<1>4. QED
  BY <1>1, <1>3, DatesNow DEF Init, PowerInv

LEMMA PowerNext == PowerInv /\ [Next]_vars => PowerInv'
<1> SUFFICES ASSUME PowerInv, [Next]_vars PROVE PowerInv'
  OBVIOUS
<1> USE DEF PowerInv
<1>1. CASE Tick
  <2>1. now' \in Time /\ stateAge' \in Age
    BY <1>1, NextMsType, OlderType DEF Tick, TypeOK
  <2>2. Flags'
    BY <1>1 DEF Tick, TypeOK, Flags, pinVars
  <2>3. TypeOK'
    BY <1>1, <2>1, <2>2 DEF Tick, TypeOK, Flags, CappedAt
  <2>4. QED
    BY <1>1, <2>3, DatesTick DEF Tick, TypeOK
<1>2. ASSUME NEW on \in BOOLEAN, Request(on) PROVE PowerInv'
  BY <1>2 DEF Request, TypeOK, Dates, stateVars, pinVars
<1>3. CASE PcBoots
  BY <1>3 DEF PcBoots, TypeOK, Dates, stateVars, pinVars
<1>4. CASE PcShutsDown
  <2>1. Flags'
    BY <1>4 DEF PcShutsDown, TypeOK, Flags, pinVars
  <2>2. QED
    BY <1>4, <2>1 DEF PcShutsDown, TypeOK, Flags, Dates, stateVars
<1>5. CASE Restart
  <2>1. 0 \in Time
    BY DEF Time
  <2>2. Flags'
    BY <1>5 DEF Restart, Flags
  <2>3. TypeOK'
    BY <1>5, <2>1, <2>2 DEF Restart, TypeOK, Flags, Age, ConsumersStates
  <2>4. QED
    BY <1>5, <2>1, <2>3, DatesNow DEF Restart
<1>6. CASE ConsumerPowerLoop
  <2>1. Dates(now, now, 0)
    BY DatesNow DEF TypeOK
  <2>2. /\ lastStateChange' \in Time /\ stateAge' \in Age
        /\ consumersState' \in ConsumersStates
        /\ Dates(now, lastStateChange', stateAge')
    BY <1>6, <2>1, PowerStepShape DEF TypeOK, GoTo, Stay, stateVars, Age
  <2>3. consumers' \in BOOLEAN /\ mount' \in BOOLEAN /\ camera' \in BOOLEAN
    BY <1>6
    DEF ConsumerPowerLoop, PowerStep, OffIdle, OffPrepareActivation, OnSubsOff,
        OnSubsActivation, OnIdle, OnPreparePowerDown, OnWait4PcShutdown,
        SetPins, pinVars, TypeOK
  <2>4. Flags'
    BY <1>6, <2>3 DEF ConsumerPowerLoop, TypeOK, Flags
  <2>5. TypeOK'
    BY <1>6, <2>2, <2>4 DEF ConsumerPowerLoop, TypeOK, Flags
  <2>6. QED
    BY <1>6, <2>2, <2>5 DEF ConsumerPowerLoop
<1>7. CASE UNCHANGED vars
  BY <1>7 DEF vars, TypeOK, Dates, stateVars, pinVars
<1>8. QED
  BY <1>1, <1>2, <1>3, <1>4, <1>5, <1>6, <1>7 DEF Next

\* Every variable keeps its type.
THEOREM TypeCorrect == Spec => []TypeOK
<1>1. Spec => []PowerInv
  BY PowerInit, PowerNext, PTL DEF Spec
<1>2. PowerInv => TypeOK
  BY DEF PowerInv
<1>3. QED
  BY <1>1, <1>2, PTL

-----------------------------------------------------------------------------
(* The outputs.  PinsFollowState is inductive as it stands.                *)

LEMMA PinsNext == TypeOK /\ PinsFollowState /\ [Next]_vars => PinsFollowState'
<1> SUFFICES ASSUME TypeOK, PinsFollowState, [Next]_vars
             PROVE  PinsFollowState'
  OBVIOUS
<1>1. CASE ConsumerPowerLoop
  <2>1. CASE OffIdle
    BY <2>1 DEF OffIdle, GoTo, Stay, stateVars, PinsFollowState
  <2>2. CASE OffPrepareActivation
    BY <2>2 DEF OffPrepareActivation, GoTo, Stay, SetPins, stateVars,
                PinsFollowState
  <2>3. ASSUME NEW voltageOk \in VoltageChecks, OnSubsOff(voltageOk)
        PROVE  PinsFollowState'
    BY <2>3 DEF OnSubsOff, GoTo, Stay, SetPins, stateVars, PinsFollowState
  <2>4. CASE OnSubsActivation
    <3>1. TimeInState >= ActivationTime => TimeInState >= MountDelay
      BY DEF TimeInState, Elapsed, TypeOK, Time
    <3>2. consumersState' \in {"on_subs_activation", "on_idle"}
      BY <2>4 DEF OnSubsActivation, GoTo, Stay, stateVars
    <3>3. consumersState' = "on_idle" => TimeInState >= ActivationTime
      BY <2>4 DEF OnSubsActivation, GoTo, Stay, stateVars
    <3>4. /\ consumers' = consumers /\ camera'
          /\ TimeInState >= MountDelay => mount'
      BY <2>4 DEF OnSubsActivation, SetPins
    <3>5. consumers'
      BY <2>4, <3>4 DEF OnSubsActivation, PinsFollowState
    <3>6. QED
      BY <3>1, <3>2, <3>3, <3>4, <3>5 DEF PinsFollowState
  <2>5. CASE OnIdle
    BY <2>5 DEF OnIdle, GoTo, Stay, pinVars, stateVars, PinsFollowState
  <2>6. CASE OnPreparePowerDown
    BY <2>6 DEF OnPreparePowerDown, GoTo, Stay, SetPins, stateVars,
                PinsFollowState
  <2>7. CASE OnWait4PcShutdown
    BY <2>7 DEF OnWait4PcShutdown, GoTo, Stay, pinVars, stateVars,
                PinsFollowState
  <2>8. QED
    BY <1>1, <2>1, <2>2, <2>3, <2>4, <2>5, <2>6, <2>7
    DEF ConsumerPowerLoop, PowerStep
<1>2. CASE Restart
  BY <1>2 DEF Restart, PinsFollowState
<1>3. CASE UNCHANGED <<consumersState, pinVars>>
  BY <1>3 DEF pinVars, PinsFollowState
<1>4. ASSUME ~ConsumerPowerLoop, ~Restart
      PROVE  UNCHANGED <<consumersState, pinVars>>
  BY <1>4 DEF Next, vars, stateVars, Tick, Request, PcBoots, PcShutsDown
<1>5. QED
  BY <1>1, <1>2, <1>3, <1>4

\* The outputs always agree with the state: sub-consumers off until they are
\* activated, everything on when the start is complete, the mount off before
\* the PC is waited for.
THEOREM PinsAgree == Spec => []PinsFollowState
<1>1. Init => PinsFollowState
  BY DEF Init, PinsFollowState
<1>2. QED
  BY <1>1, PinsNext, TypeCorrect, PTL DEF Spec

\* The relay only ever closes onto switched-off consumers.
THEOREM StartIsSoft == Spec => SoftStart
<1>1. PinsFollowState /\ [Next]_vars
        => [~consumers /\ consumers' => ~mount' /\ ~camera']_vars
  <2> SUFFICES ASSUME PinsFollowState, Next, ~consumers, consumers'
               PROVE  ~mount' /\ ~camera'
    BY DEF vars
  <2>1. CASE ConsumerPowerLoop
    <3>1. PowerStep
      BY <2>1 DEF ConsumerPowerLoop
    <3>2. ~OffIdle /\ ~OffPrepareActivation /\ ~OnSubsActivation /\ ~OnIdle
          /\ ~OnPreparePowerDown /\ ~OnWait4PcShutdown
      BY DEF OffIdle, OffPrepareActivation, OnSubsActivation, OnIdle,
             OnPreparePowerDown, OnWait4PcShutdown, SetPins, pinVars
    <3>3. PICK voltageOk \in VoltageChecks : OnSubsOff(voltageOk)
      BY <3>1, <3>2 DEF PowerStep
    <3>4. QED
      BY <3>3 DEF OnSubsOff, SetPins, PinsFollowState
  <2>2. CASE ~ConsumerPowerLoop
    BY <2>2 DEF Next, pinVars, Tick, Request, PcBoots, PcShutsDown, Restart
  <2>3. QED
    BY <2>1, <2>2
<1>2. QED
  BY <1>1, PinsAgree, PTL DEF Spec, SoftStart

-----------------------------------------------------------------------------
(* The deadlines: as long as a transient state is not over time, the       *)
(* wrapping difference the code compares is the true time in the state.    *)

DeadlineInv == PowerInv /\ PhaseDeadline

LEMMA DeadlineNext == DeadlineInv /\ [Next]_vars => DeadlineInv'
<1> SUFFICES ASSUME DeadlineInv, [Next]_vars PROVE DeadlineInv'
  OBVIOUS
<1>1. PowerInv /\ PowerInv' /\ PhaseDeadline
  BY PowerNext DEF DeadlineInv
<1>2. /\ stateAge \in 0 .. TimeMod /\ stateAge' \in 0 .. TimeMod
      /\ lag \in 0 .. MaxLag /\ lag' \in 0 .. MaxLag
  BY <1>1 DEF PowerInv, TypeOK, Age
<1>3. \A s \in TransientStates : PhaseLimit(s) \in Nat
                                 /\ PhaseLimit(s) + MaxLag < TimeMod
  BY DEF TransientStates, ConsumersStates, PhaseLimit
<1>4. CASE Tick
  BY <1>1, <1>2, <1>3, <1>4 DEF Tick, Older, PhaseDeadline, DeadlineInv
<1>5. CASE ConsumerPowerLoop
  <2>1. CASE GoTo(consumersState')
    BY <1>1, <1>2, <1>3, <2>1 DEF GoTo, PhaseDeadline, DeadlineInv
  <2>2. CASE Stay
    <3>1. consumersState \in TransientStates
            => TimeInState <= PhaseLimit(consumersState)
      <4>1. consumersState' = consumersState /\ TimeInState \in Int
        BY <1>1, <2>2 DEF Stay, stateVars, TimeInState, Elapsed, PowerInv,
                          TypeOK, Time
      <4>2. CASE OffPrepareActivation
        BY <4>1, <4>2 DEF OffPrepareActivation, GoTo, PhaseLimit
      <4>3. ASSUME NEW voltageOk \in VoltageChecks, OnSubsOff(voltageOk)
            PROVE  TimeInState <= PhaseLimit(consumersState)
        BY <4>1, <4>3 DEF OnSubsOff, GoTo, PhaseLimit
      <4>4. CASE OnSubsActivation
        BY <4>1, <4>4 DEF OnSubsActivation, GoTo, PhaseLimit
      <4>5. CASE OnPreparePowerDown
        BY <4>1, <4>5 DEF OnPreparePowerDown, GoTo, PhaseLimit
      <4>6. CASE OnWait4PcShutdown
        BY <4>1, <4>6 DEF OnWait4PcShutdown, GoTo, PhaseLimit
      <4>7. CASE OffIdle \/ OnIdle
        BY <4>7 DEF OffIdle, OnIdle, TransientStates
      <4>8. QED
        BY <1>5, <4>2, <4>3, <4>4, <4>5, <4>6, <4>7
        DEF ConsumerPowerLoop, PowerStep
    <3>2. consumersState \in TransientStates => TimeInState = stateAge
      BY <1>1, <1>2, <1>3
      DEF PhaseDeadline, PowerInv, Dates, TimeInState
    <3>3. QED
      BY <1>1, <1>2, <1>3, <2>2, <3>1, <3>2
      DEF Stay, stateVars, PhaseDeadline, DeadlineInv
  <2>3. QED
    BY <1>1, <1>5, <2>1, <2>2, PowerStepShape DEF PowerInv
<1>6. CASE Restart
  BY <1>1, <1>6 DEF Restart, PhaseDeadline, TransientStates, DeadlineInv
<1>7. CASE UNCHANGED <<stateVars, lag>>
  BY <1>1, <1>7 DEF stateVars, PhaseDeadline, DeadlineInv
<1>8. ASSUME ~Tick, ~ConsumerPowerLoop, ~Restart
      PROVE  UNCHANGED <<stateVars, lag>>
  BY <1>8 DEF Next, vars, Request, PcBoots, PcShutsDown
<1>9. QED
  BY <1>4, <1>5, <1>6, <1>7, <1>8

\* No transient state outlasts its timeout by more than the time the loop was
\* busy: no wrap of millis() makes the sequence hang.
THEOREM DeadlinesMet == Spec => []PhaseDeadline
<1>1. Init => DeadlineInv
  BY PowerInit DEF Init, DeadlineInv, PhaseDeadline, TransientStates
<1>2. DeadlineInv => PhaseDeadline
  BY DEF DeadlineInv
<1>3. QED
  BY <1>1, <1>2, DeadlineNext, PTL DEF Spec

-----------------------------------------------------------------------------
(* The mount comes last: as long as the loop did not run in a state that   *)
(* activates the consumers, that state is no older than the last run.      *)

CameraFirst ==
    consumersState = "on_subs_activation" => camera \/ stateAge <= lag

LEMMA CameraNext ==
    PowerInv /\ CameraFirst /\ [Next]_vars => CameraFirst'
<1> SUFFICES ASSUME PowerInv, CameraFirst, [Next]_vars PROVE CameraFirst'
  OBVIOUS
<1>1. /\ stateAge \in 0 .. TimeMod /\ lag \in 0 .. MaxLag
  BY DEF PowerInv, TypeOK, Age
<1>2. CASE Tick
  BY <1>1, <1>2 DEF Tick, pinVars, Older, CameraFirst
<1>3. CASE ConsumerPowerLoop
  <2>1. CASE OnSubsActivation
    BY <2>1 DEF OnSubsActivation, SetPins, CameraFirst
  <2>2. CASE ~OnSubsActivation
    <3>1. consumersState # "on_subs_activation"
      BY <1>3, <2>2
      DEF ConsumerPowerLoop, PowerStep, OffIdle, OffPrepareActivation,
          OnSubsOff, OnIdle, OnPreparePowerDown, OnWait4PcShutdown
    <3>2. consumersState' = "on_subs_activation" => stateAge' = 0
      BY <1>3, <3>1, PowerStepShape DEF PowerInv, GoTo, Stay, stateVars
    <3>3. QED
      BY <1>3, <3>2 DEF ConsumerPowerLoop, CameraFirst
  <2>3. QED
    BY <2>1, <2>2
<1>4. CASE Restart
  BY <1>4 DEF Restart, CameraFirst
<1>5. CASE UNCHANGED <<stateVars, camera, lag>>
  BY <1>5 DEF stateVars, CameraFirst
<1>6. ASSUME ~Tick, ~ConsumerPowerLoop, ~Restart
      PROVE  UNCHANGED <<stateVars, camera, lag>>
  BY <1>6 DEF Next, vars, pinVars, Request, PcBoots, PcShutsDown
<1>7. QED
  BY <1>2, <1>3, <1>4, <1>5, <1>6

\* However late the loop runs, the mount is never connected before its delay,
\* nor to a rail without the camera unless the loop was away for that delay.
THEOREM MountIsLast == Spec => MountComesLast
<1>1. PowerInv /\ PinsFollowState /\ CameraFirst /\ [Next]_vars
        => [~MountPowered /\ MountPowered'
               => consumers /\ stateAge >= MountDelay
                  /\ (camera \/ lag >= MountDelay)]_vars
  <2> SUFFICES ASSUME PowerInv, PinsFollowState, CameraFirst, Next,
                      ~MountPowered, MountPowered'
               PROVE  consumers /\ stateAge >= MountDelay
                      /\ (camera \/ lag >= MountDelay)
    BY DEF vars
  <2>1. CASE ConsumerPowerLoop
    <3>1. PowerStep
      BY <2>1 DEF ConsumerPowerLoop
    <3>2. ~OffIdle /\ ~OffPrepareActivation /\ ~OnIdle
          /\ ~OnPreparePowerDown /\ ~OnWait4PcShutdown
      BY DEF OffIdle, OffPrepareActivation, OnIdle, OnPreparePowerDown,
             OnWait4PcShutdown, SetPins, pinVars, MountPowered
    <3>3. ASSUME NEW voltageOk \in VoltageChecks PROVE ~OnSubsOff(voltageOk)
      BY DEF OnSubsOff, SetPins, PinsFollowState, MountPowered
    <3>4. OnSubsActivation
      BY <3>1, <3>2, <3>3 DEF PowerStep
    <3>5. TimeInState >= MountDelay
      BY <3>4 DEF OnSubsActivation, SetPins, MountPowered
    <3>6. TimeInState <= stateAge
      BY DEF TimeInState, PowerInv, Dates
    <3>7. TimeInState \in Int /\ stateAge \in Int /\ lag \in 0 .. MaxLag
      BY DEF TimeInState, Elapsed, PowerInv, TypeOK, Age, Time
    <3>8. stateAge >= MountDelay
      BY <3>5, <3>6, <3>7 DEF PowerAssumption
    <3>9. consumersState = "on_subs_activation"
      BY <3>4 DEF OnSubsActivation
    <3>10. camera \/ lag >= MountDelay
      BY <3>7, <3>8, <3>9 DEF CameraFirst
    <3>11. QED
      BY <3>8, <3>9, <3>10 DEF PinsFollowState
  <2>2. CASE ~ConsumerPowerLoop
    BY <2>2 DEF Next, pinVars, Tick, Request, PcBoots, PcShutsDown, Restart,
                MountPowered
  <2>3. QED
    BY <2>1, <2>2
<1>2. Init => CameraFirst
  BY DEF Init, CameraFirst
<1>3. QED
  BY <1>1, <1>2, PowerInit, PowerNext, CameraNext, PinsAgree, PTL
  DEF Spec, MountComesLast

-----------------------------------------------------------------------------
(* The graceful cut: why the relay of a running PC opens.                  *)

\* The request has been off for as long as the PC is waited for.
Waited == consumersState = "on_wait4pc_shutdown" =>
              offAge > PcTimeout \/ stateAge <= offAge

\* A closed relay in the off state is about to open, for a good reason.
CutDecided == consumersState = "off_idle" /\ consumers =>
                  pcOnAge <= lag \/ offAge > PcTimeout

\* A start that may still fail does not count.
StartNotCounted == consumersState = "on_subs_off" => pcOnAge = 0

CutInv == PowerInv /\ Waited /\ CutDecided /\ StartNotCounted

LEMMA CutNext ==
    ASSUME ~SensorGlitch, CutInv, [Next]_vars
    PROVE  CutInv'
<1> USE DEF CutInv
<1>1. PowerInv' /\ PowerInv
  BY PowerNext
<1>2. /\ stateAge \in 0 .. TimeMod /\ lag \in 0 .. MaxLag
      /\ offAge \in 0 .. PcTimeout + 1 /\ pcOnAge \in 0 .. MaxLag + 1
  BY DEF PowerInv, TypeOK, Age
<1>3. CASE Tick
  BY <1>1, <1>2, <1>3
  DEF Tick, pinVars, CappedAt, Older, Waited, CutDecided, StartNotCounted
<1>4. CASE PcShutsDown
  BY <1>1, <1>2, <1>4
  DEF PcShutsDown, pinVars, stateVars, Waited, CutDecided, StartNotCounted
<1>5. CASE ConsumerPowerLoop
  <2> USE <1>5 DEF ConsumerPowerLoop
  <2>1. CASE OffIdle
    BY <1>1, <2>1 DEF OffIdle, GoTo, Stay, SetPins, stateVars, Waited,
                      CutDecided, StartNotCounted
  <2>2. CASE OnPreparePowerDown
    BY <1>1, <1>2, <2>2 DEF OnPreparePowerDown, GoTo, Stay, stateVars, Waited,
                            CutDecided, StartNotCounted
  <2>3. CASE OnWait4PcShutdown
    <3>1. CASE powerRequest
      BY <1>1, <2>3, <3>1
      DEF OnWait4PcShutdown, GoTo, Waited, CutDecided, StartNotCounted
    <3>2. CASE ~powerRequest /\ ~pcOn
      BY <1>1, <1>2, <2>3, <3>2
      DEF OnWait4PcShutdown, ReadsHigh, GoTo, Waited, CutDecided,
          StartNotCounted
    <3>3. CASE ~powerRequest /\ pcOn
      <4>1. TimeInState <= stateAge /\ TimeInState \in Int
        BY DEF TimeInState, Elapsed, PowerInv, Dates, TypeOK, Time
      <4>2. TimeInState > PcTimeout => offAge > PcTimeout
        BY <1>2, <2>3, <4>1 DEF OnWait4PcShutdown, Waited
      <4>3. QED
        BY <1>1, <2>3, <3>3, <4>2
        DEF OnWait4PcShutdown, ReadsLow, ReadsHigh, GoTo, Stay, stateVars,
            Waited, CutDecided, StartNotCounted
    <3>4. QED
      BY <3>1, <3>2, <3>3
  <2>4. ASSUME NEW voltageOk \in VoltageChecks, OnSubsOff(voltageOk)
        PROVE  CutInv'
    <3>1. /\ pcOnAge = 0 /\ pcOnAge' = 0 /\ lag' = 0
          /\ consumersState' # "on_wait4pc_shutdown"
      BY <2>4 DEF OnSubsOff, GoTo, Stay, stateVars, StartNotCounted
    <3>2. QED
      BY <1>1, <3>1 DEF Waited, CutDecided, StartNotCounted
  <2>5. ASSUME OffPrepareActivation \/ OnSubsActivation \/ OnIdle
        PROVE  CutInv'
    <3>1. consumersState' \notin {"off_idle", "on_wait4pc_shutdown"}
      BY <2>5
      DEF OffPrepareActivation, OnSubsActivation, OnIdle, GoTo, Stay, stateVars
    <3>2. consumersState' = "on_subs_off" => pcOnAge' = 0
      OBVIOUS
    <3>3. QED
      BY <1>1, <3>1, <3>2 DEF Waited, CutDecided, StartNotCounted
  <2>6. QED
    BY <2>1, <2>2, <2>3, <2>4, <2>5 DEF PowerStep
<1>6. CASE Restart
  BY <1>1, <1>6 DEF Restart, Waited, CutDecided, StartNotCounted
<1>7. CASE UNCHANGED <<stateVars, consumers, offAge, pcOnAge, lag>>
  BY <1>1, <1>7 DEF stateVars, Waited, CutDecided, StartNotCounted
<1>8. ASSUME ~Tick, ~PcShutsDown, ~ConsumerPowerLoop, ~Restart
      PROVE  UNCHANGED <<stateVars, consumers, offAge, pcOnAge, lag>>
  BY <1>8 DEF Next, vars, pinVars, Request, PcBoots
<1>9. QED
  BY <1>3, <1>4, <1>5, <1>6, <1>7, <1>8

\* With sensors that do not misread, no PC that runs is cut off before it had
\* PcTimeout to shut down, however the button, the commands, the voltage and
\* the wrap of millis() fall.
THEOREM CutIsGraceful ==
    ASSUME ~SensorGlitch
    PROVE  Spec => GracefulCut
<1>1. CutInv /\ [Next]_vars
        => [consumers /\ ~consumers' /\ ~Restart
               => pcOnAge <= MaxLag \/ offAge > PcTimeout]_vars
  <2> SUFFICES ASSUME CutInv, Next, consumers, ~consumers', ~Restart
               PROVE  pcOnAge <= MaxLag \/ offAge > PcTimeout
    BY DEF vars
  <2>1. ConsumerPowerLoop
    BY DEF Next, pinVars, Tick, Request, PcBoots, PcShutsDown
  <2>2. OffIdle
    BY <2>1
    DEF ConsumerPowerLoop, PowerStep, OffPrepareActivation, OnSubsOff,
        OnSubsActivation, OnIdle, OnPreparePowerDown, OnWait4PcShutdown,
        SetPins, pinVars
  <2>3. lag \in 0 .. MaxLag /\ pcOnAge \in Int
    BY DEF CutInv, PowerInv, TypeOK
  <2>4. QED
    BY <2>2, <2>3 DEF OffIdle, CutInv, CutDecided
<1>2. Init => CutInv
  BY PowerInit DEF Init, CutInv, Waited, CutDecided, StartNotCounted
<1>3. CutInv /\ [Next]_vars => CutInv'
  BY CutNext
<1>4. QED
  BY <1>1, <1>2, <1>3, PTL DEF Spec, GracefulCut
-----------------------------------------------------------------------------
(* Switcher implements ConsumerPower.                                      *)

\* A command is a request, or changes nothing of the power sequence.
LEMMA CommandIsRequest ==
    ASSUME GetAndClearCommand
    PROVE  Next \/ UNCHANGED vars
<1>1. CASE powerRequest' = powerRequest
  BY <1>1 DEF GetAndClearCommand, vars
<1>2. CASE powerRequest' # powerRequest
  <2>1. powerRequest' \in BOOLEAN
    BY <1>2 DEF GetAndClearCommand, Obey, Carry
  <2>2. Request(powerRequest')
    BY DEF GetAndClearCommand, Request
  <2>3. QED
    BY <2>1, <2>2 DEF Next
<1>3. QED
  BY <1>1, <1>2

LEMMA PowerSteps == [SwitcherNext]_switcherVars => [Next]_vars
<1> SUFFICES ASSUME [SwitcherNext]_switcherVars
             PROVE  Next \/ UNCHANGED vars
  OBVIOUS
<1>1. CASE Surroundings
  BY <1>1 DEF Surroundings, Next
<1>2. CASE SwitcherRestart
  BY <1>2 DEF SwitcherRestart, Next
<1>3. CASE HandleMessage
  BY <1>3 DEF HandleMessage
<1>4. ASSUME NEW toggles \in BOOLEAN, ButtonLoop(toggles)
      PROVE  Next \/ UNCHANGED vars
  <2>1. CASE UNCHANGED vars
    BY <2>1
  <2>2. CASE Request(~powerRequest)
    <3>1. \/ (~powerRequest) = TRUE
          \/ (~powerRequest) = FALSE
      OBVIOUS
    <3>2. Request(TRUE) \/ Request(FALSE)
      BY <2>2, <3>1
    <3>3. QED
      BY <3>2 DEF Next
  <2>3. QED
    BY <1>4, <2>1, <2>2 DEF ButtonLoop
<1>5. CASE GetAndClearCommand
  BY <1>5, CommandIsRequest
<1>6. CASE PowerLoop
  BY <1>6 DEF PowerLoop, Next
<1>7. CASE UNCHANGED switcherVars
  BY <1>7 DEF switcherVars
<1>8. QED
  BY <1>1, <1>2, <1>3, <1>4, <1>5, <1>6, <1>7 DEF SwitcherNext

\* Whatever the chat and the button do, the relays do what ConsumerPower says:
\* all its theorems hold here.
THEOREM RunsThePowerSequence == SwitcherSpec => Spec
<1>1. SwitcherInit => Init
  BY DEF SwitcherInit
<1>2. QED
  BY <1>1, PowerSteps, PTL DEF SwitcherSpec, Spec

-----------------------------------------------------------------------------
(* The queue between the two.                                              *)

QueueTypes == /\ pendingCommands \in Seq(Commands)
              /\ Len(pendingCommands) <= QueueSize
              /\ askRuns \in 0 .. QueueSize

Says(cmd, on) == \/ cmd = "on" /\ on = TRUE
                 \/ cmd = "off" /\ on = FALSE

Places == 1 .. Len(pendingCommands)

(***************************************************************************)
(* The invariant: either the last ask waits in the queue, at a place that  *)
(* is reached in time, and only heater commands wait behind it; or it is   *)
(* the request, and only heater commands wait at all.                      *)
(***************************************************************************)
AskQueued ==
    \E i \in Places :
        /\ Says(pendingCommands[i], prevailing)
        /\ i + askRuns <= QueueSize
        /\ \A j \in Places : j > i => pendingCommands[j] \notin PowerCommands

AskDone == /\ powerRequest = prevailing
           /\ \A j \in Places : pendingCommands[j] \notin PowerCommands

AskInv == QueueTypes /\ (AskQueued \/ AskDone)

LEMMA NothingQueued == /\ << >> \in Seq(Commands)
                       /\ Len(<< >>) = 0
                       /\ 1 .. 0 = {}
                       /\ 0 \in 0 .. QueueSize /\ 0 <= QueueSize
BY EmptySeq, SwitcherAssumption

LEMMA AskInit == SwitcherInit => AskInv
<1> SUFFICES ASSUME SwitcherInit PROVE AskInv
  OBVIOUS
<1>1. pendingCommands = << >> /\ askRuns = 0
  BY DEF SwitcherInit
<1>2. powerRequest = prevailing
  BY Zenon DEF SwitcherInit, Init
<1>3. QueueTypes /\ Places = {}
  BY <1>1, NothingQueued DEF QueueTypes, Places
<1>4. QED
  BY <1>2, <1>3 DEF AskInv, AskDone

\* A message that switches the power waits at the end of the queue, or is
\* refused and changes nothing.
LEMMA AskSubrelay ==
    ASSUME AskInv, SubrelayConsumers, UNCHANGED powerRequest
    PROVE  AskInv'
<1> USE DEF AskInv
<1>1. CASE Fits
  <2>1. PICK cmd \in Commands :
           /\ pendingCommands' = Append(pendingCommands, cmd)
           /\ Says(cmd, prevailing') /\ askRuns' = 0
    <3>1. CASE (~consumers) = TRUE
      BY <1>1, <3>1
      DEF SubrelayConsumers, Write, Ask, Says, Commands, PowerCommands
    <3>2. CASE (~consumers) = FALSE
      BY <1>1, <3>2
      DEF SubrelayConsumers, Write, Ask, Says, Commands, PowerCommands
    <3>3. QED
      BY <3>1, <3>2
  <2>2. /\ pendingCommands' \in Seq(Commands)
        /\ Len(pendingCommands') = Len(pendingCommands) + 1
        /\ pendingCommands'[Len(pendingCommands) + 1] = cmd
        /\ Len(pendingCommands) \in Nat
    BY <2>1, AppendProperties DEF QueueTypes
  <2>3. AskQueued'
    BY <1>1, <2>1, <2>2, SwitcherAssumption DEF AskQueued, Places, Fits
  <2>4. 0 \in 0 .. QueueSize
    BY SwitcherAssumption
  <2>5. QED
    BY <1>1, <2>1, <2>2, <2>3, <2>4, SwitcherAssumption
    DEF QueueTypes, Fits
<1>2. CASE ~Fits
  BY <1>2
  DEF SubrelayConsumers, Write, askVars, QueueTypes, AskQueued, AskDone, Places
<1>3. QED
  BY <1>1, <1>2

\* A heater command behind it changes nothing.
LEMMA AskHeater ==
    ASSUME AskInv, HandleReplies, UNCHANGED powerRequest
    PROVE  AskInv'
<1> USE DEF AskInv
<1>1. UNCHANGED <<prevailing, askRuns>>
  BY DEF HandleReplies, askVars
<1>2. CASE Fits
  <2>1. pendingCommands' = Append(pendingCommands, "heater")
    BY <1>2 DEF HandleReplies, Write
  <2>2. "heater" \in Commands /\ "heater" \notin PowerCommands
    BY DEF Commands, PowerCommands
  <2>3. /\ pendingCommands' \in Seq(Commands)
        /\ Len(pendingCommands') = Len(pendingCommands) + 1
        /\ Len(pendingCommands) \in Nat
        /\ pendingCommands'[Len(pendingCommands) + 1] = "heater"
        /\ \A j \in Places : pendingCommands'[j] = pendingCommands[j]
    BY <2>1, <2>2, AppendProperties DEF QueueTypes, Places
  <2>4. QueueTypes'
    BY <1>1, <1>2, <2>3, SwitcherAssumption DEF QueueTypes, Fits
  <2>5. AskQueued => AskQueued'
    BY <1>1, <2>2, <2>3 DEF AskQueued, Places
  <2>6. AskDone => AskDone'
    BY <1>1, <2>2, <2>3 DEF AskDone, Places
  <2>7. QED
    BY <1>1, <2>4, <2>5, <2>6
<1>3. CASE ~Fits
  <2>1. UNCHANGED pendingCommands
    BY <1>3 DEF HandleReplies, Write
  <2>2. QED
    BY <1>1, <2>1 DEF QueueTypes, AskQueued, AskDone, Places
<1>4. QED
  BY <1>2, <1>3

\* A press counts at once, unless a command is still to come.
LEMMA AskPress ==
    ASSUME AskInv, NEW toggles \in BOOLEAN, ButtonLoop(toggles)
    PROVE  AskInv'
<1> USE DEF AskInv
<1>1. UNCHANGED pendingCommands
  BY DEF ButtonLoop
<1>2. CASE ~toggles
  BY <1>1, <1>2
  DEF ButtonLoop, vars, askVars, QueueTypes, AskQueued, AskDone, Places
<1>3. CASE toggles /\ PowerCommandQueued
  <2>1. ~AskDone
    BY <1>3 DEF PowerCommandQueued, Range, AskDone, Places, QueueTypes
  <2>2. QED
    BY <1>1, <1>3, <2>1
    DEF ButtonLoop, askVars, QueueTypes, AskQueued, Places
<1>4. CASE toggles /\ ~PowerCommandQueued
  <2>1. /\ prevailing' = (~powerRequest) /\ powerRequest' = (~powerRequest)
        /\ askRuns' = 0
    BY <1>4 DEF ButtonLoop, Ask, Request
  <2>2. 0 \in 0 .. QueueSize
    BY SwitcherAssumption
  <2>3. AskDone'
    BY <1>1, <1>4, <2>1
    DEF PowerCommandQueued, Range, AskDone, Places, QueueTypes
  <2>4. QED
    BY <1>1, <2>1, <2>2, <2>3 DEF QueueTypes
<1>5. QED
  BY <1>2, <1>3, <1>4

\* Each read brings the last ask one place nearer, or carries it out.
LEMMA AskRead ==
    ASSUME AskInv, GetAndClearCommand
    PROVE  AskInv'
<1> USE DEF AskInv
<1>1. /\ UNCHANGED prevailing
      /\ askRuns' \in 0 .. QueueSize
      /\ askRuns < QueueSize => askRuns' = askRuns + 1
  BY SwitcherAssumption DEF GetAndClearCommand, QueueTypes
<1>2. CASE pendingCommands = << >>
  <2>1. Places = {} /\ UNCHANGED <<pendingCommands, powerRequest>>
    BY <1>2 DEF GetAndClearCommand, Places
  <2>2. QED
    BY <1>1, <2>1 DEF QueueTypes, AskQueued, AskDone, Places
<1>3. CASE pendingCommands # << >>
  <2>1. Obey
    BY <1>3 DEF GetAndClearCommand
  <2>2. /\ pendingCommands' \in Seq(Commands)
        /\ Len(pendingCommands) \in Nat \ {0}
        /\ Len(pendingCommands') = Len(pendingCommands) - 1
        /\ \A j \in Places' : pendingCommands'[j] = pendingCommands[j + 1]
        /\ Head(pendingCommands) = pendingCommands[1]
    BY <1>3, <2>1, HeadTailProperties DEF Obey, QueueTypes, Places
  <2>3. QueueTypes'
    BY <1>1, <2>2, SwitcherAssumption DEF QueueTypes
  <2>4. ASSUME AskDone PROVE AskDone'
    <3>1. pendingCommands[1] \notin PowerCommands
      BY <2>2, <2>4 DEF AskDone, Places
    <3>2. powerRequest' = powerRequest
      BY <2>1, <2>2, <3>1 DEF Obey, Carry, PowerCommands
    <3>3. QED
      BY <1>1, <2>2, <2>4, <3>2 DEF AskDone, Places
  <2>5. ASSUME AskQueued PROVE AskQueued' \/ AskDone'
    <3>1. PICK i \in Places :
             /\ Says(pendingCommands[i], prevailing)
             /\ i + askRuns <= QueueSize
             /\ \A j \in Places :
                   j > i => pendingCommands[j] \notin PowerCommands
      BY <2>5 DEF AskQueued
    <3>2. CASE i = 1
      <4>1. powerRequest' = prevailing
        BY <2>1, <2>2, <3>1, <3>2 DEF Obey, Carry, Says, PowerCommands
      <4>2. \A j \in Places' : pendingCommands'[j] \notin PowerCommands
        BY <2>2, <3>1, <3>2 DEF Places
      <4>3. QED
        BY <1>1, <4>1, <4>2 DEF AskDone
    <3>3. CASE i > 1
      <4>1. i - 1 \in Places' /\ Says(pendingCommands[i - 1], prevailing)'
        BY <1>1, <2>2, <3>1, <3>3 DEF Places, Says
      <4>2. (i - 1) + askRuns' <= QueueSize
        BY <1>1, <2>2, <3>1, <3>3, SwitcherAssumption DEF QueueTypes, Places
      <4>3. \A j \in Places' :
               j > i - 1 => pendingCommands'[j] \notin PowerCommands
        BY <2>2, <3>1 DEF Places
      <4>4. QED
        BY <4>1, <4>2, <4>3 DEF AskQueued
    <3>4. QED
      BY <3>2, <3>3 DEF Places
  <2>6. QED
    BY <1>1, <2>3, <2>4, <2>5
<1>4. QED
  BY <1>2, <1>3

LEMMA AskNext == AskInv /\ [SwitcherNext]_switcherVars => AskInv'
<1> SUFFICES ASSUME AskInv, [SwitcherNext]_switcherVars PROVE AskInv'
  OBVIOUS
<1>1. CASE UNCHANGED <<pendingCommands, askVars, powerRequest>>
  BY <1>1 DEF AskInv, askVars, QueueTypes, AskQueued, AskDone, Places
<1>2. CASE Surroundings
  BY <1>1, <1>2 DEF Surroundings, Tick, PcBoots, PcShutsDown
<1>3. CASE SwitcherRestart
  <2>1. pendingCommands' = << >> /\ askRuns' = 0
    BY <1>3 DEF SwitcherRestart
  <2>2. powerRequest' = prevailing'
    BY <1>3, Zenon DEF SwitcherRestart, Restart
  <2>3. QueueTypes' /\ Places' = {}
    BY <2>1, NothingQueued DEF QueueTypes, Places
  <2>4. QED
    BY <2>2, <2>3 DEF AskInv, AskDone
<1>4. CASE HandleMessage
  <2>1. UNCHANGED powerRequest
    BY <1>4 DEF HandleMessage, vars
  <2>2. QED
    BY <1>4, <2>1, AskSubrelay, AskHeater DEF HandleMessage
<1>5. ASSUME NEW toggles \in BOOLEAN, ButtonLoop(toggles) PROVE AskInv'
  BY <1>5, AskPress
<1>6. CASE GetAndClearCommand
  BY <1>6, AskRead
<1>7. CASE PowerLoop
  BY <1>1, <1>7 DEF PowerLoop, ConsumerPowerLoop
<1>8. CASE UNCHANGED switcherVars
  BY <1>1, <1>8 DEF switcherVars, vars
<1>9. QED
  BY <1>2, <1>3, <1>4, <1>5, <1>6, <1>7, <1>8 DEF SwitcherNext

\* For every size of the queue: the last ask that was neither refused by a
\* full queue nor, as a press, overridden by an older queued command is the
\* request after at most QueueSize runs of the loop.
THEOREM PrevailingAskCounts == SwitcherSpec => []AsksAreObeyed
<1>1. AskInv => AsksAreObeyed
  BY SwitcherAssumption
  DEF AskInv, AsksAreObeyed, AskQueued, AskDone, Places, QueueTypes
<1>2. QED
  BY <1>1, AskInit, AskNext, PTL DEF SwitcherSpec

-----------------------------------------------------------------------------
(* The types of the composition: those of ConsumerPower, of the queue, and *)
(* of the rest, which is inductive with the first.                         *)

LoopTypes == /\ pc \in {"bot", "command", "power"}
             /\ replies \in 0 .. MaxReplies
             /\ prevailing \in BOOLEAN

LEMMA LoopTypesInit == SwitcherInit => LoopTypes
<1>1. 0 \in 0 .. MaxReplies
  BY SwitcherAssumption
<1>2. QED
  BY <1>1, Zenon DEF SwitcherInit, LoopTypes

LEMMA LoopTypesNext ==
    LoopTypes /\ [SwitcherNext]_switcherVars => LoopTypes'
<1> SUFFICES ASSUME LoopTypes, [SwitcherNext]_switcherVars PROVE LoopTypes'
  OBVIOUS
<1> USE DEF LoopTypes
<1>1. CASE SwitcherRestart
  <2>1. 0 \in 0 .. MaxReplies
    BY SwitcherAssumption
  <2>2. QED
    BY <1>1, <2>1, Zenon DEF SwitcherRestart
<1>2. CASE HandleMessage
  <2>1. replies' \in 0 .. MaxReplies /\ UNCHANGED pc
    BY <1>2, SwitcherAssumption DEF HandleMessage
  <2>2. prevailing' \in BOOLEAN
    <3>1. CASE HandleReplies
      BY <3>1 DEF HandleReplies, askVars
    <3>2. CASE SubrelayConsumers
      <4>1. Ask(~consumers) \/ UNCHANGED askVars
        BY <3>2 DEF SubrelayConsumers
      <4>2. QED
        BY <4>1, Zenon DEF Ask, askVars
    <3>3. QED
      BY <1>2, <3>1, <3>2 DEF HandleMessage
  <2>3. QED
    BY <2>1, <2>2
<1>3. ASSUME NEW toggles \in BOOLEAN, ButtonLoop(toggles) PROVE LoopTypes'
  <2>1. pc' = "command" /\ replies' = 0
    BY <1>3 DEF ButtonLoop
  <2>2. prevailing' \in BOOLEAN
    <3>1. CASE Ask(~powerRequest)
      BY <3>1, Zenon DEF Ask
    <3>2. CASE UNCHANGED askVars
      BY <3>2 DEF askVars
    <3>3. QED
      BY <1>3, <3>1, <3>2 DEF ButtonLoop
  <2>3. QED
    BY <2>1, <2>2, SwitcherAssumption
<1>4. CASE GetAndClearCommand \/ PowerLoop \/ Surroundings
           \/ UNCHANGED switcherVars
  BY <1>4
  DEF GetAndClearCommand, PowerLoop, Surroundings, switcherVars, askVars
<1>5. QED
  BY <1>1, <1>2, <1>3, <1>4 DEF SwitcherNext

\* Every variable keeps its type, and the queue its bound.
THEOREM SwitcherTypeCorrect == SwitcherSpec => []SwitcherTypeOK
<1>1. SwitcherSpec => []TypeOK
  BY RunsThePowerSequence, TypeCorrect
<1>2. SwitcherSpec => []AskInv
  BY AskInit, AskNext, PTL DEF SwitcherSpec
<1>3. SwitcherSpec => []LoopTypes
  BY LoopTypesInit, LoopTypesNext, PTL DEF SwitcherSpec
<1>4. TypeOK /\ AskInv /\ LoopTypes => SwitcherTypeOK
  BY DEF AskInv, QueueTypes, LoopTypes, SwitcherTypeOK
<1>5. QED
  BY <1>1, <1>2, <1>3, <1>4, PTL

-----------------------------------------------------------------------------
(* ShutdownProtocol runs the sequence of ConsumerPower.                    *)

USE ShutdownAssumption

LEMMA ShutdownPowerSteps ==
    [ShutdownNext]_shutdownVars => [Next]_vars
<1> SUFFICES ASSUME [ShutdownNext]_shutdownVars
             PROVE  Next \/ UNCHANGED vars
  OBVIOUS
<1>1. CASE TimePasses \/ PcStarts \/ PcStops \/ ShutdownRestart
  BY <1>1 DEF TimePasses, PcStarts, PcStops, ShutdownRestart, Next
<1>2. ASSUME NEW on \in BOOLEAN, AskForPower(on) PROVE Next
  BY <1>2 DEF AskForPower, Next
<1>3. ASSUME NEW delivered \in BOOLEAN, MainLoop(delivered) PROVE Next
  BY <1>3 DEF MainLoop, Next
<1>4. CASE GuiStartsOrStops \/ LinkChanges \/ UNCHANGED shutdownVars
  BY <1>4 DEF GuiStartsOrStops, LinkChanges, shutdownVars
<1>5. QED
  BY <1>1, <1>2, <1>3, <1>4 DEF ShutdownNext

\* Network, GUI and PC add no step to the power sequence: its theorems hold
\* for this composition as well.
THEOREM ProtocolRunsThePowerSequence == ShutdownSpec => Spec
<1>1. ShutdownInit => Init
  BY DEF ShutdownInit
<1>2. QED
  BY <1>1, ShutdownPowerSteps, PTL DEF ShutdownSpec, Spec

-----------------------------------------------------------------------------
(* A shutdown is never late: as long as the box waits, waitAge is zero,    *)
(* and from then on it grows as fast as the delay of the PC runs down.     *)

PcTypes == /\ pending \in {NoShutdown} \cup 0 .. ShutdownDelay
           /\ waitAge \in 0 .. PcTimeout + 1

RecentInv == /\ PcTypes /\ ShutdownIsRecent
             /\ Waiting => waitAge = 0

LEMMA RecentNext ==
    RecentInv /\ [ShutdownNext]_shutdownVars => RecentInv'
<1> SUFFICES ASSUME RecentInv, [ShutdownNext]_shutdownVars PROVE RecentInv'
  OBVIOUS
<1> USE DEF RecentInv, PcTypes, ShutdownIsRecent, NoShutdown, Waiting
<1>1. CASE TimePasses
  <2>1. consumersState' = consumersState
    BY <1>1 DEF TimePasses, Tick
  <2>2. CASE pending = NoShutdown
    BY <1>1, <2>1, <2>2 DEF TimePasses, CappedAt
  <2>3. CASE pending # NoShutdown
    BY <1>1, <2>1, <2>3 DEF TimePasses, CappedAt
  <2>4. QED
    BY <2>2, <2>3
<1>2. CASE PcStops \/ ShutdownRestart
  BY <1>2
  DEF PcStops, PcShutsDown, stateVars, ShutdownRestart, Restart
<1>3. ASSUME NEW delivered \in BOOLEAN, MainLoop(delivered) PROVE RecentInv'
  <2>1. \/ pending' \in {NoShutdown, pending}
        \/ pending' = ShutdownDelay /\ Waiting
    BY <1>3 DEF MainLoop, StartsShutdown, AsksPc
  <2>2. waitAge' = IF Waiting' THEN 0 ELSE waitAge
    BY <1>3 DEF MainLoop
  <2>3. QED
    BY <2>1, <2>2
<1>4. CASE UNCHANGED <<consumersState, pending, waitAge>>
  BY <1>4
<1>5. ASSUME ~TimePasses, ~PcStops, ~ShutdownRestart,
             ~ \E delivered \in BOOLEAN : MainLoop(delivered)
      PROVE  UNCHANGED <<consumersState, pending, waitAge>>
  BY <1>5
  DEF ShutdownNext, shutdownVars, vars, stateVars, pcVars, AskForPower,
      Request, PcStarts, PcBoots, GuiStartsOrStops, LinkChanges
<1>6. QED
  BY <1>1, <1>2, <1>3, <1>4, <1>5

\* The box never shuts a PC down that it has not waited for within the delay,
\* for every timing of the request, the network and the PC.
THEOREM ShutdownInTime == ShutdownSpec => []ShutdownIsRecent
<1>1. ShutdownInit => RecentInv
  BY DEF ShutdownInit, Init, RecentInv, PcTypes, ShutdownIsRecent, Waiting
<1>2. RecentInv => ShutdownIsRecent
  BY DEF RecentInv
<1>3. QED
  BY <1>1, <1>2, RecentNext, PTL DEF ShutdownSpec

-----------------------------------------------------------------------------
(* The clean cut.  While the box waits and is served, either no shutdown   *)
(* is pending, and then it has waited no longer than since the last        *)
(* status, which is young; or the time waited and the delay that is left   *)
(* are together less than the patience of the box.                         *)

SinceStatus == Elapsed(now, lastTxTime)

StatusIsYoung ==
    Waiting /\ served /\ pending = NoShutdown =>
        stateAge <= SinceStatus /\ SinceStatus <= TxInterval + lag

ShutdownIsNear ==
    Waiting /\ served /\ pending # NoShutdown =>
        stateAge + pending <= TxInterval + MaxLag + ShutdownDelay

\* What served says of the present, and of a relay about to open.
ServedNow == served => connected /\ listening /\ pcOn
NotServedAtTheCut == consumersState = "off_idle" /\ consumers => ~served

CleanInv == /\ PowerInv /\ RecentInv /\ lastTxTime \in Time
            /\ StatusIsYoung /\ ShutdownIsNear
            /\ ServedNow /\ NotServedAtTheCut

\* The sensor does not misread and no start fails, as the box is configured.
AsConfigured == ~SensorGlitch /\ FALSE \notin VoltageChecks

\* The relay is about to open only if the PC is off, or had its time.
LEMMA WhyItOpens ==
    ASSUME AsConfigured, PowerInv, ConsumerPowerLoop,
           consumersState' = "off_idle", consumers'
    PROVE  /\ Waiting
           /\ ~pcOn \/ stateAge > PcTimeout
<1>1. PowerStep
  BY DEF ConsumerPowerLoop
<1>2. ~OffIdle /\ ~OffPrepareActivation /\ ~OnSubsActivation /\ ~OnIdle
      /\ ~OnPreparePowerDown
  BY DEF OffIdle, OffPrepareActivation, OnSubsActivation, OnIdle,
         OnPreparePowerDown, GoTo, Stay, SetPins, stateVars
<1>3. ASSUME NEW voltageOk \in VoltageChecks PROVE ~OnSubsOff(voltageOk)
  <2>1. voltageOk = TRUE
    BY DEF AsConfigured
  <2>2. TimeInState \in Int
    BY DEF TimeInState, Elapsed, PowerInv, TypeOK, Time
  <2>3. TimeInState > VoltageTimeout => TimeInState > LoadTime
    BY <2>2
  <2>4. QED
    BY <2>1, <2>3 DEF OnSubsOff, GoTo, Stay, stateVars
<1>4. OnWait4PcShutdown
  BY <1>1, <1>2, <1>3 DEF PowerStep
<1>5. ~pcOn \/ TimeInState > PcTimeout
  BY <1>4 DEF OnWait4PcShutdown, ReadsLow, GoTo, Stay, stateVars, AsConfigured
<1>6. TimeInState \in Int /\ stateAge \in Int /\ TimeInState <= stateAge
  BY DEF TimeInState, Elapsed, PowerInv, TypeOK, Dates, Time, Age
<1>7. QED
  BY <1>4, <1>5, <1>6 DEF OnWait4PcShutdown, Waiting

\* What served is, in every step.
LEMMA ServedStep ==
    ASSUME ServedNow, [ShutdownNext]_shutdownVars
    PROVE  /\ ServedNow'
           /\ served' /\ (Waiting \/ consumersState = "off_idle") => served
<1>1. ASSUME NEW delivered \in BOOLEAN, Serve(delivered)
      PROVE  /\ ServedNow'
             /\ served' /\ (Waiting \/ consumersState = "off_idle") => served
  BY <1>1, Zenon DEF Serve, ServedNow
<1>2. CASE \E delivered \in BOOLEAN : Serve(delivered)
  BY <1>1, <1>2
<1>3. CASE UNCHANGED shutdownVars
  BY <1>3 DEF shutdownVars, vars, linkVars, pcVars, ServedNow
<1>4. CASE ShutdownRestart
  BY <1>4 DEF ShutdownRestart, ServedNow
<1>5. ASSUME ~ShutdownRestart, ShutdownNext
      PROVE  \E delivered \in BOOLEAN : Serve(delivered)
  BY <1>5
  DEF ShutdownNext, TimePasses, AskForPower, PcStarts, GuiStartsOrStops,
      PcStops, LinkChanges, MainLoop, Silent
<1>6. QED
  BY <1>2, <1>3, <1>4, <1>5

\* A box that waits and is served has waited for less than its patience.
LEMMA PatienceLeft ==
    ASSUME CleanInv, Waiting, served
    PROVE  stateAge < PcTimeout
<1>1. stateAge \in Int /\ lag \in 0 .. MaxLag /\ SinceStatus \in Int
  BY DEF CleanInv, PowerInv, TypeOK, Age, SinceStatus, Elapsed, Time
<1>2. CASE pending = NoShutdown
  BY <1>1, <1>2 DEF CleanInv, StatusIsYoung
<1>3. CASE pending # NoShutdown
  <2>1. pending \in 0 .. ShutdownDelay
    BY <1>3 DEF CleanInv, RecentInv, PcTypes
  <2>2. stateAge + pending <= TxInterval + MaxLag + ShutdownDelay
    BY <1>3 DEF CleanInv, ShutdownIsNear
  <2>3. QED
    BY <1>1, <2>1, <2>2
<1>4. QED
  BY <1>2, <1>3

LEMMA CutNotServed ==
    ASSUME AsConfigured, CleanInv, [ShutdownNext]_shutdownVars
    PROVE  NotServedAtTheCut'
<1>1. SUFFICES ASSUME consumersState' = "off_idle", consumers', served'
               PROVE  FALSE
  BY DEF NotServedAtTheCut
<1>2. served' /\ (Waiting \/ consumersState = "off_idle") => served
  BY ServedStep DEF CleanInv
<1>3. CASE ConsumerPowerLoop
  <2>1. Waiting /\ (~pcOn \/ stateAge > PcTimeout)
    BY <1>1, <1>3, WhyItOpens DEF CleanInv
  <2>2. served /\ pcOn
    BY <1>1, <1>2, <2>1 DEF CleanInv, ServedNow
  <2>3. stateAge < PcTimeout /\ stateAge \in Int
    BY <2>1, <2>2, PatienceLeft DEF CleanInv, PowerInv, TypeOK, Age
  <2>4. QED
    BY <2>1, <2>2, <2>3
<1>4. CASE UNCHANGED <<consumersState, consumers>>
  BY <1>1, <1>2, <1>4 DEF CleanInv, NotServedAtTheCut
<1>5. CASE Restart
  BY <1>1, <1>5 DEF Restart
<1>6. QED
  BY <1>3, <1>4, <1>5, ShutdownPowerSteps
  DEF Next, vars, stateVars, pinVars, Tick, Request, PcBoots, PcShutsDown

LEMMA WaitTick ==
    ASSUME CleanInv, TimePasses
    PROVE  StatusIsYoung' /\ ShutdownIsNear'
<1>1. SUFFICES ASSUME Waiting', served'
               PROVE  StatusIsYoung' /\ ShutdownIsNear'
  BY DEF StatusIsYoung, ShutdownIsNear
<1>2. Waiting /\ UNCHANGED lastTxTime
  BY <1>1 DEF TimePasses, Silent, linkVars, Tick, Waiting
<1>3. served
  BY <1>1, <1>2, ServedStep DEF CleanInv, ShutdownNext
<1>4. /\ stateAge \in 0 .. TimeMod /\ SinceStatus \in Int
      /\ lag \in 0 .. MaxLag /\ lag < MaxLag /\ lag' = lag + 1
      /\ stateAge' = Older(stateAge)
  BY DEF CleanInv, PowerInv, TypeOK, Age, SinceStatus, Elapsed, Time,
         TimePasses, Tick
<1>5. CASE pending = NoShutdown
  <2>1. pending' = NoShutdown
    BY <1>5 DEF TimePasses, NoShutdown
  <2>2. stateAge <= SinceStatus /\ SinceStatus <= TxInterval + lag
    BY <1>2, <1>3, <1>5 DEF CleanInv, StatusIsYoung
  <2>3. SinceStatus' = SinceStatus + 1
    <3>1. SinceStatus # TimeMod - 1
      BY <1>4, <2>2
    <3>2. now' = NextMs(now) /\ now \in Time /\ lastTxTime \in Time
      BY DEF TimePasses, Tick, CleanInv, PowerInv, TypeOK
    <3>3. QED
      BY <1>2, <3>1, <3>2, ElapsedTick DEF SinceStatus
  <2>4. stateAge' = stateAge + 1
    BY <1>4, <2>2 DEF Older
  <2>5. QED
    BY <1>4, <2>1, <2>2, <2>3, <2>4 DEF StatusIsYoung, ShutdownIsNear
<1>6. CASE pending # NoShutdown
  <2>1. pending \in 1 .. ShutdownDelay /\ pending' = pending - 1
    BY <1>6 DEF TimePasses, CleanInv, RecentInv, PcTypes, NoShutdown
  <2>2. stateAge + pending <= TxInterval + MaxLag + ShutdownDelay
    BY <1>2, <1>3, <1>6 DEF CleanInv, ShutdownIsNear
  <2>3. stateAge' = stateAge + 1
    BY <1>4, <2>1, <2>2 DEF Older
  <2>4. QED
    BY <1>4, <2>1, <2>2, <2>3 DEF StatusIsYoung, ShutdownIsNear, NoShutdown
<1>7. QED
  BY <1>5, <1>6

LEMMA WaitLoop ==
    ASSUME CleanInv, NEW delivered \in BOOLEAN, MainLoop(delivered)
    PROVE  StatusIsYoung' /\ ShutdownIsNear'
<1>1. SUFFICES ASSUME Waiting', served'
               PROVE  StatusIsYoung' /\ ShutdownIsNear'
  BY DEF StatusIsYoung, ShutdownIsNear
<1>2. /\ lag' = 0 /\ now' = now /\ connected /\ pcOn' /\ delivered
      /\ ConsumerPowerLoop
  BY <1>1 DEF MainLoop, ConsumerPowerLoop, Serve
<1>3. /\ stateAge \in 0 .. TimeMod /\ SinceStatus \in Int
      /\ lag \in 0 .. MaxLag
      /\ pending \in {NoShutdown} \cup 0 .. ShutdownDelay
  BY DEF CleanInv, PowerInv, RecentInv, PcTypes, TypeOK, Age, SinceStatus,
         Elapsed, Time
\* the box is connected, so the status is young after the step
<1>4. IF SinceStatus > TxInterval THEN SinceStatus' = 0
                                  ELSE SinceStatus' = SinceStatus
  <2>1. Elapsed(now, now) = 0
    BY ElapsedSelf DEF CleanInv, PowerInv, TypeOK
  <2>2. QED
    BY <1>2, <2>1 DEF MainLoop, StatusDue, Send, SinceStatus
<1>5. CASE ~Waiting
  <2>1. stateAge' = 0
    BY <1>1, <1>2, <1>5, PowerStepShape
    DEF CleanInv, PowerInv, GoTo, Stay, stateVars, Waiting
  <2>2. pending' = pending
    BY <1>2, <1>5 DEF MainLoop, StartsShutdown, AsksPc
  <2>3. SinceStatus' \in 0 .. TxInterval
    BY <1>3, <1>4 DEF CleanInv, SinceStatus, Elapsed, PowerInv, TypeOK, Time
  <2>4. PICK e \in 0 .. TxInterval : SinceStatus' = e
    BY <2>3
  <2>5. QED
    BY <1>2, <1>3, <2>1, <2>2, <2>4 DEF StatusIsYoung, ShutdownIsNear
<1>6. CASE Waiting
  <2>1. served /\ listening
    BY <1>1, <1>6, ServedStep DEF CleanInv, ServedNow, ShutdownNext
  <2>2. stateAge' = stateAge \/ stateAge' = 0
    BY <1>2, PowerStepShape DEF CleanInv, PowerInv, GoTo, Stay, stateVars
  <2>3. CASE pending = NoShutdown
    <3>1. stateAge <= SinceStatus /\ SinceStatus <= TxInterval + lag
      BY <1>6, <2>1, <2>3 DEF CleanInv, StatusIsYoung
    <3>2. CASE SinceStatus > TxInterval
      <4>1. pending' = ShutdownDelay
        BY <1>2, <1>6, <2>1, <2>3, <3>2
        DEF MainLoop, StartsShutdown, StatusDue, AsksPc, SinceStatus
      <4>2. QED
        BY <1>3, <2>2, <3>1, <4>1
        DEF StatusIsYoung, ShutdownIsNear, NoShutdown
    <3>3. CASE SinceStatus <= TxInterval
      <4>1. pending' = NoShutdown /\ SinceStatus' = SinceStatus
        BY <1>2, <1>3, <1>4, <2>3, <3>3
        DEF MainLoop, StartsShutdown, StatusDue, SinceStatus
      <4>2. QED
        BY <1>2, <1>3, <2>2, <3>1, <3>3, <4>1
        DEF StatusIsYoung, ShutdownIsNear
    <3>4. QED
      BY <1>3, <3>2, <3>3
  <2>4. CASE pending # NoShutdown
    <3>1. pending' = pending
      BY <1>2, <2>4 DEF MainLoop, StartsShutdown
    <3>2. stateAge + pending <= TxInterval + MaxLag + ShutdownDelay
      BY <1>6, <2>1, <2>4 DEF CleanInv, ShutdownIsNear
    <3>3. QED
      BY <1>3, <2>2, <2>4, <3>1, <3>2
      DEF StatusIsYoung, ShutdownIsNear, NoShutdown
  <2>5. QED
    BY <2>3, <2>4
<1>7. QED
  BY <1>5, <1>6

LEMMA WaitNext ==
    ASSUME CleanInv, [ShutdownNext]_shutdownVars
    PROVE  StatusIsYoung' /\ ShutdownIsNear'
<1>1. SUFFICES ASSUME Waiting', served'
               PROVE  StatusIsYoung' /\ ShutdownIsNear'
  BY DEF StatusIsYoung, ShutdownIsNear
<1>2. CASE TimePasses
  BY <1>2, WaitTick
<1>3. ASSUME NEW delivered \in BOOLEAN, MainLoop(delivered)
      PROVE  StatusIsYoung' /\ ShutdownIsNear'
  BY <1>3, WaitLoop
<1>4. CASE UNCHANGED <<now, stateVars, lag, lastTxTime, pending>>
  <2>1. Waiting
    BY <1>1, <1>4 DEF Waiting, stateVars
  <2>2. served
    BY <1>1, <2>1, ServedStep DEF CleanInv
  <2>3. QED
    BY <1>4, <2>1, <2>2
    DEF CleanInv, StatusIsYoung, ShutdownIsNear, SinceStatus, stateVars
<1>5. ~ShutdownRestart /\ ~PcStops
  <2>1. ~ShutdownRestart
    BY <1>1 DEF ShutdownRestart
  <2>2. PcStops => ~served'
    BY DEF PcStops, PcShutsDown, Silent, Serve
  <2>3. QED
    BY <1>1, <2>1, <2>2
<1>6. ASSUME ~TimePasses, ~ \E delivered \in BOOLEAN : MainLoop(delivered)
      PROVE  UNCHANGED <<now, stateVars, lag, lastTxTime, pending>>
  BY <1>5, <1>6
  DEF ShutdownNext, shutdownVars, vars, linkVars, pcVars, Silent, AskForPower,
      Request, PcStarts, PcBoots, GuiStartsOrStops, LinkChanges
<1>7. QED
  BY <1>2, <1>3, <1>4, <1>6

LEMMA CleanNext ==
    ASSUME AsConfigured, CleanInv, [ShutdownNext]_shutdownVars
    PROVE  CleanInv'
<1>1. PowerInv' /\ RecentInv'
  BY ShutdownPowerSteps, PowerNext, RecentNext DEF CleanInv
<1>2. lastTxTime' \in Time
  <2>1. 0 \in Time /\ now \in Time /\ lastTxTime \in Time
    BY DEF Time, CleanInv, PowerInv, TypeOK
  <2>2. lastTxTime' \in {lastTxTime, now, 0}
    BY DEF ShutdownNext, shutdownVars, linkVars, Silent, TimePasses,
           AskForPower, PcStarts, GuiStartsOrStops, PcStops, LinkChanges,
           ShutdownRestart, MainLoop, Send
  <2>3. QED
    BY <2>1, <2>2
<1>3. StatusIsYoung' /\ ShutdownIsNear'
  BY WaitNext
<1>4. ServedNow' /\ NotServedAtTheCut'
  BY ServedStep, CutNotServed DEF CleanInv
<1>5. QED
  BY <1>1, <1>2, <1>3, <1>4 DEF CleanInv

\* A PC that could be asked is never cut while it runs: with a sensor that
\* does not misread and starts that do not fail, for every value of the
\* timeouts, every lag of the loop and across every wrap of millis().
THEOREM CutIsClean ==
    ASSUME AsConfigured PROVE ShutdownSpec => CleanCut
<1>1. ShutdownInit => CleanInv
  <2> SUFFICES ASSUME ShutdownInit PROVE CleanInv
    OBVIOUS
  <2>1. PowerInv
    BY PowerInit DEF ShutdownInit
  <2>2. RecentInv
    BY DEF ShutdownInit, Init, RecentInv, PcTypes, ShutdownIsRecent, Waiting
  <2>3. lastTxTime \in Time /\ ~served /\ ~Waiting
    BY DEF ShutdownInit, Init, Time, Waiting
  <2>4. QED
    BY <2>1, <2>2, <2>3
    DEF CleanInv, StatusIsYoung, ShutdownIsNear, ServedNow, NotServedAtTheCut
<1>2. CleanInv /\ [ShutdownNext]_shutdownVars => CleanInv'
  BY CleanNext
<1>3. CleanInv /\ [ShutdownNext]_shutdownVars
        => [consumers /\ ~consumers' /\ ~ShutdownRestart
               => ~pcOn \/ ~served]_shutdownVars
  <2> SUFFICES ASSUME CleanInv, ShutdownNext, consumers, ~consumers',
                      ~ShutdownRestart
               PROVE  ~served
    BY DEF shutdownVars, vars, pinVars
  <2>1. PICK delivered \in BOOLEAN : MainLoop(delivered)
    BY DEF ShutdownNext, TimePasses, Tick, AskForPower, Request, PcStarts,
           PcBoots, GuiStartsOrStops, PcStops, PcShutsDown, LinkChanges,
           vars, pinVars
  <2>2. OffIdle
    BY <2>1
    DEF MainLoop, ConsumerPowerLoop, PowerStep, OffPrepareActivation,
        OnSubsOff, OnSubsActivation, OnIdle, OnPreparePowerDown,
        OnWait4PcShutdown, SetPins, pinVars
  <2>3. QED
    BY <2>2 DEF OffIdle, CleanInv, NotServedAtTheCut
<1>4. QED
  BY <1>1, <1>2, <1>3, PTL DEF ShutdownSpec, CleanCut
=============================================================================
