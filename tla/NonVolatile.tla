----------------------------- MODULE NonVolatile ----------------------------
(***************************************************************************)
(* The charge that survives a reset: class non_volatile of                 *)
(* src/src/non volatile, which keeps the remaining charge of the battery   *)
(* in a file, and src/src/ota, whose updates unmount the file system under *)
(* it.  battery.loop reports the charge, the main loop calls               *)
(* non_volatile::loop once per iteration, and a reset may come any time.   *)
(*                                                                         *)
(* LittleFS commits a file when it is closed, so a reset during save finds *)
(* the old content or the new one, and save is one step.                   *)
(***************************************************************************)
EXTENDS Millis

CONSTANTS
    SaveDelay,        \* 60000 ms, line 102
    SaveDelta,        \* 100 mAh, line 103
    MaxCharge,        \* bound: the charge of a full battery
    MaxLag,           \* longest time between two runs of non_volatile::loop
    Unreadable,       \* no file, or one that is no JSON
    WriteFails,       \* may seek, serializeJson or close fail?
    UpdateFails       \* may an update fail?

ASSUME NonVolatileAssumption ==
    /\ SaveDelay \in Nat /\ SaveDelta \in Nat /\ MaxCharge \in Nat
    /\ MaxLag \in Nat /\ SaveDelay + MaxLag < TimeMod - 1
    /\ Unreadable \notin Nat
    /\ WriteFails \in BOOLEAN /\ UpdateFails \in BOOLEAN

VARIABLES
    now,              \* millis()
    file,             \* NVMEM_FILEPATH: the charge in it
    mounted,          \* LittleFS is mounted
    updating,         \* _sigUpdateStarted of ota.cpp
    stats,            \* _stats.remainingCharge
    saved,            \* _savedStats.remainingCharge
    dirty,            \* _dirty
    lastMod,          \* _lastMod, 0 for none
    \* history, not in the program
    failed,           \* no save succeeded since one failed, noticed or not
    known,            \* stats when non_volatile::loop last ran
    modAge,           \* true time since the last modification
    lag               \* time since the last run of non_volatile::loop

chargeVars == <<stats, saved, dirty, lastMod>>
vars == <<now, file, mounted, updating, chargeVars, failed, known, modAge,
          lag>>

Charges == 0 .. MaxCharge

\* what the constructor makes of the file
Restored(content) == IF content = Unreadable THEN 0 ELSE content

Distance(a, b) == IF a > b THEN a - b ELSE b - a

Init ==
    /\ now = 0 /\ mounted = TRUE /\ updating = FALSE
    /\ file \in Charges \cup {Unreadable}
    /\ stats = Restored(file) /\ saved = Restored(file)
    /\ dirty = FALSE /\ lastMod = 0
    /\ failed = FALSE /\ known = stats /\ modAge = 0 /\ lag = 0

-----------------------------------------------------------------------------
(* The surroundings: time, a reset, the updater.                           *)

Tick ==
    /\ lag < MaxLag
    /\ now' = NextMs(now)
    /\ modAge' = Older(modAge)
    /\ lag' = IF updating THEN lag ELSE lag + 1
    /\ UNCHANGED <<file, mounted, updating, chargeVars, failed, known>>

\* the constructor reads what is in the file
Boot ==
    /\ now' = 0 /\ mounted' = TRUE /\ updating' = FALSE
    /\ stats' = Restored(file) /\ saved' = Restored(file)
    /\ dirty' = FALSE /\ lastMod' = 0
    /\ failed' = FALSE /\ known' = Restored(file) /\ modAge' = 0 /\ lag' = 0
    /\ UNCHANGED file

\* a watchdog or brownout reset
Restart == Boot

-----------------------------------------------------------------------------
(* ota.cpp.                                                                *)

\* onStart; handle lets it run only while the consumers are off
OtaStart ==
    /\ ~updating
    /\ updating' = TRUE /\ mounted' = FALSE
    /\ UNCHANGED <<now, file, chargeVars, failed, known, modAge, lag>>

\* onEnd: the new firmware is started
OtaEnd == updating /\ Boot

\* onError: the main loop goes on, the file system stays unmounted
OtaError ==
    /\ UpdateFails
    /\ updating
    /\ updating' = FALSE
    /\ UNCHANGED <<now, file, mounted, chargeVars, failed, known, modAge, lag>>

-----------------------------------------------------------------------------
(* non_volatile.cpp.                                                       *)

\* Mutant: the date of the save is stored, and never wrapped.
ModifyUntil ==
    /\ dirty' = TRUE
    /\ lastMod' = now + SaveDelay
    /\ modAge' = 0

\* _modify()
Modify ==
    /\ dirty' = TRUE
    /\ lastMod' = now
    /\ modAge' = 0

SetRemainingCharge(charge) ==
    /\ ~updating
    /\ charge # stats
    /\ Modify
    /\ stats' = charge
    /\ UNCHANGED <<now, file, mounted, updating, saved, failed, known, lag>>

\* getTimeSinceLastModification()
TimeSinceLastModification ==
    IF lastMod = 0 THEN 0 ELSE Elapsed(now, lastMod)

\* Mutants: one of the two reasons for a save is forgotten.
DueByTimeOnly == TimeSinceLastModification > SaveDelay
DueByChargeOnly == Distance(saved, stats) > SaveDelta

SaveDue ==
    \/ TimeSinceLastModification > SaveDelay
    \/ Distance(saved, stats) > SaveDelta

\* the file is cut to nothing when it is opened, and committed when closed
Written == mounted /\ file' = stats /\ saved' = stats /\ failed' = FALSE
Spoiled == mounted /\ WriteFails /\ file' = Unreadable /\ UNCHANGED saved
NotOpened == ~mounted /\ UNCHANGED <<file, saved>>

\* One byte written counts as success, and an error of close goes unnoticed:
\* the file is cut off or keeps the old content, and the save counts as done.
ShortWrite ==
    /\ mounted /\ WriteFails
    /\ file' \in {file, Unreadable} /\ saved' = stats

Save ==
    /\ dirty
    /\ dirty' = FALSE /\ lastMod' = 0
    /\ \/ Written
       \/ (Spoiled \/ NotOpened \/ ShortWrite) /\ failed' = TRUE
    /\ UNCHANGED stats

\* main.cpp runs nothing but the updater while it is updating
Loop ==
    /\ ~updating
    /\ \/ SaveDue /\ Save
       \/ ~(SaveDue /\ dirty) /\ UNCHANGED <<file, chargeVars, failed>>
    /\ known' = stats /\ lag' = 0
    /\ UNCHANGED <<now, mounted, updating, modAge>>

Next ==
    \/ Tick
    \/ Restart
    \/ OtaStart
    \/ OtaEnd
    \/ OtaError
    \/ \E charge \in Charges : SetRemainingCharge(charge)
    \/ Loop

Spec == Init /\ [][Next]_vars

-----------------------------------------------------------------------------
(* Properties.                                                             *)

\* Every variable keeps its type.
TypeOK ==
    /\ now \in Time /\ lastMod \in Time
    /\ file \in Charges \cup {Unreadable}
    /\ stats \in Charges /\ saved \in Charges /\ known \in Charges
    /\ mounted \in BOOLEAN /\ updating \in BOOLEAN
    /\ dirty \in BOOLEAN /\ failed \in BOOLEAN
    /\ modAge \in Age /\ lag \in 0 .. MaxLag

\* A reset costs at most SaveDelta of what the last run of the loop knew, as
\* long as no save failed since the last one that succeeded; also a reset
\* during an update, and also after an update that failed.
RestartLosesLittle ==
    [][Boot /\ ~failed => Distance(stats', known) <= SaveDelta]_vars

\* A charge that stays the same is in the file after SaveDelay, but for the
\* lag of the loop.  One change in 49.7 days is excepted: one that comes when
\* millis() is 0 counts as none.
QuietIsSaved ==
    mounted /\ ~failed =>
        \/ Restored(file) = stats
        \/ modAge <= SaveDelay + lag
        \/ dirty /\ lastMod = 0

\* The charge is saved "every 100 mAh" (line 103): after each run of the loop
\* the file is no further than that from what is known.
EveryHundredMAh ==
    [][Loop => Distance(Restored(file'), stats') <= SaveDelta]_vars
=============================================================================
