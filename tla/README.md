# AstroPhotoPowerBox: TLA+ specifications

The repository holds the firmware of a power box for astrophotography (an
ESP8266 that switches a PC, a mount, a camera and a charger) and a small GUI
for the PC it supplies.  The modules here specify its control logic; TLC checks
them on small instances, and TLAPS proves the main results for every setting.

## 1. Inventory

The firmware is a single cooperative main loop (`src/src/main.cpp:52-83`).
Beside it run the interrupt handler of the push button and the WiFi event
callbacks, which may run whenever the loop waits.  All dates are unsigned 32
bit milliseconds from `millis()`, which wraps after 49.7 days.

| Component | State | Operations | Interacts with | What is hard |
|---|---|---|---|---|
| Key lock (`switcher.cpp:15-172`) | `_btnInfo`, `_keyLockState`, LED level, power request | `_buttonISR`, `_buttonLoop` | interrupt; power sequence (request) | interrupt between two reads; bounces; late or merged interrupts; wrap |
| Power sequence (`switcher.cpp:174-270`) | `_consumersState`, `lastStateChange`, three relays | `_consumerPowerLoop` | request; PC current; status broadcast | order and deadlines of phases in a loop that may be late; PC that never stops; failed reads |
| Charge switch (`switcher.cpp:272-291`) | `wasCharging`, charger relay | `_chargeSwitchLoop` | battery, current | hysteresis armed by a current it switches itself |
| Ring buffer (`src/lib/ringbuffer`) | memory, two indices, two flags, a walk | `write`, `write_lossy`, `read`, `peak`, `clear`, `peak_all_*` | bot, moving average | equal indices; walk over changing content; no memory |
| Telegram bot (`telegram_bot.cpp`) | queue of 10 commands, keyboards | `loop`, callbacks, `getAndClearCommand` | switcher | queue overflow that was confirmed; toggles of a stale state |
| Connection (`connection.cpp`) | `_gotIp`, dates, started flags | two event callbacks, `loop` | bot, mDNS, display | events during a blocking start; dates that mean "unset" as 0 |
| UDP status (`communication.cpp`) | last receive and transmit | `loop`, `transmit` | GUI | lost or repeated shutdown requests |
| OTA (`ota.cpp`) | update flag | four callbacks, `handle` | main loop, file system, switcher | failed update leaves the file system unmounted |
| Non-volatile memory (`non_volatile.cpp`) | stats, saved stats, dirty, date | `setRemainingCharge`, `save`, `loop` | file system, battery | reset during a save; failed save |
| Battery (`battery.cpp`) | charge, SoC, dates | `loop` | sensors, memory, charge switch | overflow, wrap, plausibility of a failed read |
| Sensors (`ina3221.cpp`, `psens.cpp`) | cached values with dates | `getVoltage`, `getCurrent`, `loop` | everything that decides on currents | failed read that looks like 0; wrap |
| Display, status bar (`oled`) | buffer, screen, three dates, `_wasSuppressed` | `loop`, `setScreen`, `suppressContentTemporary` | everyone draws messages into its buffer, also event handlers | messages that overlap; a screen that does not clear; wrap of its dates |
| Moving average (`mavg.cpp`) | ring buffer, sum | `addValue`, `reset` | - | sum against content |
| Energy saver (`energy_saver.cpp`) | - (as called) | `loop` = `delay(10)` | main loop | - |
| GUI (`esp_comm.cpp`) | address of the box | `_parseRxData` | UDP status | each datagram starts a shutdown |

What makes them correct:

- Key lock: a sequence hold - release - wait - press opens it and nothing else;
  it closes by itself; one press toggles the power once.
- Power sequence: the outputs follow the state; no inrush onto loads that are
  on; phases end in time; a running PC is not cut early; each request ends in
  the idle state it asks for.
- Ring buffer: a bounded first-in first-out queue.
- Charge switch: charger off above the upper, on below the lower limit, no
  chatter between.  Bot: commands act in order, and the last one counts that the
  queue had room for.
- Connection: a box without network keeps trying; the bot is started again after
  each lost link.  Shutdown request: a PC that is waited for is asked, and one
  that is not waited for is not.
- OTA and memory: what is saved is at most 100 mAh and a minute old (the
  comments' claim); a reset never loses all of it.
- Battery and sensors: the charge stays within its limits; a value that is
  served is fresh.
- Display: what it shows is fresh; a message is kept for its time, then goes, and
  nothing of it is left.

Vendored code (`gui/AstroBoxGUI/qtzeroconf`: avahi, bonjour), drawing, and the
circuit files in `assets` are left aside.

## 2. Modules

| Module | What it is |
|---|---|
| `Millis` | the clock: `NextMs`, `Elapsed` (unsigned difference), and `Older`, the age of a date as a history variable |
| `KeyLock` | interrupt handler, lock and debounced toggle |
| `ConsumerPower` | power sequence with the PC behind the relay |
| `BoundedFifo` | abstract: the queue that `rb.h` promises |
| `RingBuffer` | the class `rb_base`, with the refinement mapping `Fifo` |
| `Battery` | coulomb counter, resting voltage table and plausibility (`battery.cpp`) |
| `ChargeSwitch` | composition: `_chargeSwitchLoop` (`switcher.cpp`) in turn with the `Battery` whose state of charge it reads; proved to implement `Battery` |
| `NonVolatile` | the saved charge, with resets, failed saves and the file system that an update unmounts (`non_volatile.cpp`, `ota.cpp`) |
| `PowerSensor` | one channel of the INA3221: cached read, schedule of the powers (`ina3221.cpp`, `psens.cpp`) |
| `Display` | composition: messages, home screen and status bar of `oled.cpp` with the `PowerSensor` whose voltage the screen shows; proved to implement `PowerSensor` |
| `Connection` | WiFi events against the connection loop and the start of the bot, which blocks |
| `Switcher` | composition: bot, queue of commands, button request and `ConsumerPower` (which it extends) in the order of `switcher::loop`; proved to implement `ConsumerPower` |
| `ShutdownProtocol` | composition: `ConsumerPower` (which it extends), the status broadcast, a network that loses datagrams, the GUI and its PC; proved to implement `ConsumerPower` |
| `MillisProofs`, `KeyLockProofs`, `ConsumerPowerProofs`, `RingBufferProofs`, `NonVolatileProofs`, `ConnectionProofs`, `BatteryProofs`, `DisplayProofs` | theorems and proofs; `ConsumerPowerProofs` and `DisplayProofs` hold those of the compositions, too |

The configurations instantiate the specifications directly, their constants
are numbers and two model values.

**Time.**  `Tick` advances `now` by one unit modulo `TimeMod`.  The loop of a
component must run at least once per `MaxLag` ticks (`lag` counts them): the
loop is late when another component blocks (bot, OTA, I2C timeouts), and how
late decides some properties.  `now`, dates and differences are modulo
`TimeMod` like the program's `uint32_t`; the `...Age` variables are history and
never wrap, so the properties talk of true time.

**KeyLock.**  `Edge` moves the pin (bounces are at least `BounceTime` apart only
where a run says so, `MaxEdges` of them per loop run).  `ButtonISR` is the
interrupt: it reads the level *then*, and with `Coalesce` it may read after several
edges and stand for all of them.  No time passes while one is due.  `ReadMillis` and
`ButtonLoop` are the two halves of `_buttonLoop` around the gap between line 47 and
line 48: at most `SnapDelay` ticks and any interrupt fit into it.  `ButtonLoop`
takes the snapshot, runs the `switch` (`LockStep`, an action per case) and the
toggle of lines 160-170. `RemoteCommand` is what `loop` takes from the bot.

**ConsumerPower.**  One action per `case`; `ConsumerPowerLoop` is one run with
its trailing update of `lastStateChange`.  The environment boots and stops the
PC at any time, asks for power and withdraws it, and resets the box.
`VoltageChecks` are the possible outcomes of the comparison of line 215:
`{TRUE}` as configured (`BAT_MIN_TURN_ON_VOLTAGE` is -1.0), both with the limit
of 11 V that `config.hpp:20` has commented out, which is what
the run takes.  `SensorGlitch` lets a read of the current return 0 although the PC
runs, which `_read16` does when the sensor does not answer.

**RingBuffer.**  One action per member function; `result` is what the call
returned and wrote to its argument.  `memOk` is chosen at the start (`calloc`).
`stale` is history: the content changed since `peak_all_start`, after which
`rb.h:65` promises nothing.

**NonVolatile.**  `file` is what a reset finds.  LittleFS commits a file when it
is closed, so `save` is one step with four outcomes: `Written`, `Spoiled` (the
file was opened, and thereby emptied, but seek or write failed), `NotOpened`
(unmounted) and `ShortWrite`: line 65 takes a single byte for success and nobody
looks at `close`, so a save may count as done that left a cut-off or the old file.
`failed` is history and knows of both kinds, noticed or not.  `Restart` may come between any two steps.  `OtaStart`, `OtaError`
and `OtaEnd` are the callbacks; between them the main loop does nothing else.
`known` is what the last run of the loop had in memory: the property on resets
cannot promise more.

**Battery.**  `BeginUpdate` is `loop` up to the test of line 67 and the readings,
`Update` the rest from the date of line 72; time passes in between, because the
sensor is slow.  `Signed` is what an `int32_t` of the target makes of a product
that does not fit.  `charge` is `_chargeRemaining_fine` and `remaining` is what the
memory is told; they differ after a correction, until the next update.  A restart
finds any charge in the memory: what it may have lost is the subject of
`NonVolatile`.

**PowerSensor.**  `Measure` changes the register at any time.  A read from the
bus has three outcomes: the register, 0 (no answer counts as success), or a
failure that is reported.  `LastTick` bounds the clock: below `TimeMod - 1` it
is the first 49.7 days, at `TimeMod - 1` the clock wraps.  `powerDown`
is left out: nothing calls it.  (It would not do what `ina3221.hpp:49` says: no
read wakes the sensor, since line 246 restores the configuration in memory only.)

**ChargeSwitch.**  The variables of `Battery` and three more.  The switch and the
battery alternate (`switched`), so the switch decides on the state of charge of the
iteration before.  After a reset all outputs are low, which connects the charger.
`switcher.cpp:357-360` is the only writer of the pin, and `setChargeLimit`
is called by no code, so the limits are constants.  The reading of the current is
free, also between the one of the switch and the one of the battery, since a failed
read is 0.

**Display.**  The variables of `PowerSensor` and the display's.  The buffer is the set
of what can be seen in it: something of the content, something of a message.
`Notice` is what clears the display first (WiFi events, saving, a failed update, a
ping), `BotMessage` what does not (`telegram_bot.cpp:154-160`); both come at any
time.  `homeScreen::show` draws over a part of the display only, so what it leaves of
a message depends on `_wasSuppressed`.  The main loop runs sensors and display in
turn.  The state after `setup()` has the home screen and five seconds of suppressed
content: the startup screen is replaced before it is ever drawn.  The status bar has
columns of its own and only its date is kept.  Screens that no code selects,
`setStatusBarVisible` (called by code in comments only) and the drawing of an update,
during which the main loop rests, are left out.

**Connection.**  `GotIP` and `Disconnected` are the event handlers; they may run
between any two steps, also between `EnterBegin` and `BeginReturns`, the two ends
of `telegramBot.begin()`, which may succeed or fail whatever became of the link.
`overtaken` is history: the link was lost inside the last call of `begin()`; `fresh`
says that the bot was started on the present link.  `_connectedSince` is written and
never read, and is left out.

**Switcher.**  `HandleMessage` is one message of `telegramBot.loop`; only the
relay button and the heater replies reach the queue, everything else is an answer.
`ButtonLoop(toggles)`, `GetAndClearCommand` and `PowerLoop` are the three
steps of `switcher::loop`.  The relay button asks for the opposite of what the
relay shows, tells the user, and then queues the command; `Write` drops it when
the queue is full and nobody looks at the result.  `prevailing` is history: the last
ask, by message or button, that counts.  Two asks do not, because the code drops
them: a message that meets a full queue, although its user was told otherwise, and a
press made while a power command waits in the queue, which is read after the press
(`switcher.cpp:325-336`) and overrides it although it is the older one.  The direct queries of lines 193-208 are left
out: no keyboard of the program sends them.

**ShutdownProtocol.**  One `MainLoop` step is the part of an iteration that
matters here: the status goes out before the power sequence runs, and whether it
is delivered is chosen.  `pending` is the `/t 10` of `shutdown`; a second call
while one is pending changes nothing.  `served` is history: since the box began
to wait it was connected, the GUI listened and no datagram was lost.

## 3. Runs

| Run | Bounds | Shows |
|---|---|---|
| `key_lock` (`KeyLock.cfg`) | `TimeMod` 11, phases of 2-3 ticks, lag 2, debounce and bounce time 1, fairness | a press that is timed is fresh; the sequence is kept; the lock expires; the second press is in its window; a bounce toggles the request only if the loop comes too late; an untouched button ends up locked |
| `key_lock_race` (violation) | gap of one tick | `UnlockSequence` fails when the press falls between lines 47 and 48 |
| `consumer_power` | `TimeMod` 11, lag 2, mount delay 2, activation 4, both voltage outcomes, true sensor, fairness | types, deadlines, soft start, mount last also in a loop that was away for its whole delay; graceful cut; shutdown and start complete |
| `consumer_power_glitch` (violation) | one failed read | `GracefulCut` fails |
| `ring_buffer` | 3 slots, 2 elements, with and without memory | indices, and `BoundedFifo` implemented |
| `non_volatile` | charges 0-4, save from a difference of 2 or after 3 ticks, lag 2, failures of saves and updates | what a reset loses; a quiet charge is saved |
| `non_volatile_update` (violation) | an update that fails | `EveryHundredMAh` fails: nothing is saved after it |
| `display` | read delay 2, powers every 6, screen every 4, messages of 2 and 4 ticks, loop at least once per tick, 13 ticks without wrap | powers follow; what is shown is no older than a cached value and a screen; a message is kept, goes, and leaves nothing |
| `charge_switch` | 4 units of charge, update after 2 ticks, rest of 3, lag 2, wrap at 12, products modulo 16, four voltages with 0 among them, limits 60 % and 80 %, fairness | the charge stays in the battery; time is counted once; the count is given up after a rest only; a charger that is off is remembered and follows its limits |
| `connection` | 2 networks, attempt of 3 ticks, reconnect after 5, lag 2, wrap at 9, fairness | a network gets its time and no more; every network is tried again and again; a box that stays online gets its bot back |
| `switcher` | queue of 3, 2 messages per run of the bot, `TimeMod` 5, lag 1, fairness | the last ask that is neither refused nor overridden is obeyed in time, and ends up done |
| `shutdown` | PC timeout 4, status interval 1, delay 1, lag 1, wrap at 8, lossy | clean cut; no late shutdown |

*Why the bounds are enough.*  Each timed phase has a length of its own, so all
orders of "before, at and after the limit" occur, also for a loop that skips over a
limit (lag 2).  `TimeMod` exceeds every sum the assumptions relate and is small
enough that the clock wraps within every phase.  Three slots have a first, a middle
and a last index; two elements tell order and duplication apart.  13 ticks of the
display are three screens, and a message before, between and after them.  The limits
of the charge switch lie between the states of charge of five charges, so that each
side of both occurs.  Five charges leave room on both sides of `SaveDelta`; two
networks are the smallest list with a next one.  `ShutdownProtocol` keeps the phases
that do not matter to it at length 0; its timeout is the smallest that its
assumption allows.  What holds for other values of the constants is the theorems'
part.

*Fairness.*  Weak fairness of the loop: the firmware is `loop()` for ever and
calls no code of ours that waits without a limit.  Fairness of `Tick`:
`energy.loop(0)` ends each iteration with `delay(10)`.  In `Connection` also the
return of `begin()`, whose network calls have timeouts.  An update that neither
ends nor fails would stop all but the bot's own callbacks and is excluded: the
updater's connection has a timeout.  In `ChargeSwitch` the fairness is that of
`TurnEnds`, which hands the main loop on from switch to battery and back (each of
the two steps is always possible, nothing waits).  Nothing is assumed of
the user, of the PC or of the interrupt beyond what the run states.

*Findings* (each is the run marked "violation").  (1) The snapshot of the button
is taken after the date it is compared with; a press between the two skips the
hold phase.  (2) A failed I2C read counts as "PC is off" and cuts its power.
(3) After
a failed update the file system stays unmounted and the charge is not saved any
more.

*Limits the runs assume.*  Three dates are compared by a sum that may wrap before
`millis()` does, where all other code subtracts: `ina3221.cpp:196`, `psens.cpp:34`
and `battery.cpp:67`.  So is the display's date of the suppressed content
(`oled.cpp:29`, `oled.hpp:42`).  In the last moments before the wrap the sensor
cache is not used and the battery is updated on every iteration, which is harmless;
but if no iteration falls between the sum and the wrap, powers and charge stand
still for 49.7 days; a message in the last seconds before the wrap is not kept, or,
if the sum just does not wrap, keeps the content away for 49.7 days.  `display` is
about the first 49.7 days; `charge_switch` covers the wrap, and
`EachMomentCountedOnce` excepts an update that comes half a wrap late.  Its other
exception, the overflow of line 86, needs an iteration of 35 s at 30 A.
`CorrectedAfterRest` says nothing of the reading that gives the count up: line 76
decides before line 78 looks at the current, so it may be one under load, or a
failed one of 0 V.  `Debounced` names two cases in which a bounce does toggle the
request back: a loop that is away for longer than the debounce time less the bounce
(`RunWasLate`; a blocking start of the bot may take that long), and a release between
the lines 47 and 48 (`ReleasedInGap`), which is later than the date it is subtracted
from, so that the difference wraps and the release looks old.  `MountComesLast` bounds
what `switcher.cpp:226` leaves open: camera and mount are switched by one run if the
loop was away for the whole mount delay, and only then.  `UnlockedExpires` needs an
interrupt per edge (`Coalesce` FALSE): if for 49.7 days only the releases (or only
the presses) of an unlocked button were recorded, the other date would look recent
again.  The other safety properties of the lock do not depend on it; for
`PressIsFresh` and `UnlockSequence` the theorems say so.

`ShownIsFresh` excepts a sensor whose register pointer cannot be set: then
`_readValue` leaves the old value and everybody is served it, however old, because
no caller looks at `valid`.  `ChargerFollowsLimits` does not say that the charger
comes back when the battery is low without having been charged: the switch then has
nothing to do, the charger is connected already.

*As configured.*  The limit of 100 % is never exceeded (`battery.cpp:97-99` caps the
state of charge), so the charger is never switched off (theorem
`ConfiguredNeverStops`), although `switcher.cpp:7` configures a restart at 95 %.
The run takes 60 % and 80 %, which `setChargeLimit` is there for.

*Comments that are out of date.*  `switcher.cpp:148` says the lock closes "after
a minute", line 11 has ten seconds.  `communication.hpp:43` says the status is
sent on request only; `communication.cpp:170-175` sends it every second.  No run
is spent on either.

## 4. Proofs

Each theorem is of a module's whole specification, from the assumptions on its
constants and what is stated here, and so holds for the real 2^32 ms and the real
timeouts.

- `MillisProofs`: the difference of a date with itself, with a later clock, and
  the triangle of two dates, modulo `TimeMod`; `Dates(now, date, age)` says that
  a date of age `age < TimeMod` is `age` ago by the clock.  That is what makes a
  wrapping difference equal to true time.
- `KeyLockProofs`: `TypeCorrect`; `FreshPress` and `SequenceHonoured` (needs
  `SnapDelay = 0`: with a gap it is false, see the run) from one invariant that
  ties the state to what the handler has recorded; `UnlockExpires`
  (without merged edges, and with the unlock time longer than every other phase)
  from an invariant on the ages of both dates while unlocked: the lock looks at
  both, and at least one of them is that of the last edge.  `AckWindowIsKept` holds
  for merged edges, too.  The limit is a difference of two dates, so each phase of
  the sequence bounds the true age of the release from the moment it was recorded:
  by the lag in the hold, by the quiet time in the wait (`AckInv`).  It needs a
  quiet time, and a wrap longer than both bounds (`AckTimesFit`).
  `BouncesNeverToggle` assumes no bound on lag or gap: if all presses since the last
  run were bounces, the last release is as young as a bounce and that run
  (`BounceInv`); line 163 computes exactly that age, less the gap (`SeenEarlier`), and
  refuses to toggle unless the run was late or the release fell into the gap.
- `ConsumerPowerProofs`: `PinsAgree` is inductive with the types.  `SoftStart`
  and `GracefulCut` follow from it step by step.  `DeadlinesMet` strengthens
  `PhaseDeadline` by `Dates`: the difference the code computes is the age as
  long as the age is below `TimeMod`, and it is because the phase ends in time.
  `MountIsLast` holds for every lag: as long as the loop has not run in the
  activating state, that state is no older than the last run (`CameraFirst`), so a
  mount that is due before the camera is on means a loop that was away for its delay.  `CutIsGraceful` needs a sensor that reads
  true, and excepts the start that fails the voltage check.
- `RingBufferProofs`: the flags invariant; per operation that the stored
  sequence changes as the queue does (`Stored`, `Head`, `Tail`, `Append`
  lemmas by index arithmetic); then `RingIsFifo`, `Spec => Fifo!Spec`.

- `NonVolatileProofs`: as long as no save failed, the file holds what was saved,
  only a modification makes the charge in memory differ, and a modification is
  dated (`FileInv`, `DatedInv`).  `ResetLosesLittle` and `QuietChargeIsSaved` are
  consequences.
- `ConnectionProofs`: `_disconnectedSince` never lies before the outage it stands
  for (`AgeInv`), and dates it unless it was written twice (`OutageInv`), which
  gives both bounds on an attempt.
- `ConsumerPowerProofs`, the bot: `RunsThePowerSequence`, a refinement: a queued
  command is a `Request` of `ConsumerPower` or changes nothing.  `PrevailingAskCounts`
  from an invariant on the queue: the ask that counts waits at a place that is reached
  in time and nothing that switches waits behind it, or it is the request and nothing
  that switches waits at all.  `SwitcherTypeCorrect` bounds the queue.
- `ConsumerPowerProofs`, the shutdown: `ProtocolRunsThePowerSequence`, by
  which the theorems of `ConsumerPower` hold of the composition.  `ShutdownInTime`: while the box waits, what it waited for is now
  (`RecentInv`), so only a request that was withdrawn can come late, and it comes
  within the delay.  `CutIsClean` needs a sensor that reads true and starts that
  pass the voltage check (`AsConfigured`); its argument is a chain of dates
  (`CleanInv`).  The last status is at most an interval and a lag old
  (`StatusIsYoung`), so a wait that was served all along and has lasted that long
  has started a shutdown; a shutdown once started is over within its delay
  (`ShutdownIsNear`); the PC is therefore off before the timeout, which the
  assumption of the module makes longer than the sum.
- `DisplayProofs`: `DisplayTypeCorrect` and `DisplayReadsTheSensor`, a refinement,
  hold across every wrap.  `PowersAreFollowed`, of the sensor alone, holds until the
  clock wraps (`BeforeTheWrap`): a planned date that has wrapped already lies in the
  past, so the next run follows it (`PlanInv`). The other three need that no sum wraps
  either (`DatesFit`), so that `oled.cpp:29` compares with the date it means.
  `ScreenIsFresh`, `MessageIsKept` and `MessageIsGone` share one invariant
  (`ScreenInv`): from a message to the next screen `_wasSuppressed` is set, so what is
  drawn next clears the display; from a screen to the next message buffer and panel
  hold nothing but the screen; and the dates say how old both are. The proof needed no
  slack of a tick in `MessageGoes`, and the property has none any more.
- `BatteryProofs`: both dates are true dates (`Dates`) whatever the clock does, so the
  rest that the code computes is at most the true one (`RestBeforeCorrection`) and the
  time it counts is the true time while it is less than half a wrap
  (`MomentsCountOnce`). `BatteryTypeCorrect` holds for products that overflow, too.
  `SwitchedBatteryIsBattery`: a step of the composition is one of `Battery` or changes
  nothing of it, so the three theorems carry over. `NeverForgotten` from the types and
  itself (`SwitchInv`): line 288 runs with `wasCharging` only, and line 283 clears it
  where line 284 connects the charger.

Every invariant and every action property that a run checks is stated by a theorem.
Model-checked only is liveness, which is outside the prover's reach: `AutoRelock`,
`ShutdownCompletes`, `StartupCompletes`, `KeepsTrying`, `BotComesBack`,
`AsksAreCarriedOut`, `ChargerFollowsLimits`.

## 5. Not modelled, and the plan

Next, in this order:

1. Theorems with less assumed: what of `MessageIsKept` and `PowersAreFollowed` holds
   across the wrap, what a gap (`SnapDelay > 0`) leaves of the unlock sequence.
2. `KeyLock` in the place of the free `toggles` of `Switcher`.
3. `NonVolatile` composed with the `Battery`, which now restores any charge.

What the map does not cover, and why:

- The vendored code: of the repository's lines of C and C++ nine in ten are in
  `gui/AstroBoxGUI/qtzeroconf` (avahi, bonjour).  The GUI starts a browser there and
  never uses its answer, because `esp_comm.cpp:23` has fixed the address already.  Of
  the other lines (about 4000) the map covers a third.
- Drawing (`status_bar.cpp`, the texts and bitmaps of `oled.cpp`), conversions to JSON
  (`communication_types.cpp`, lines 38-144 of `communication.cpp`), headers with
  constants and declarations, the register layout of the sensor: data without
  control.
- `MovingAverage`: `main.cpp:11` includes it, nothing makes one.  `energy_saver.cpp`
  is `delay(10)` as it is called.  `powerDown`, `getSensor`, the display's other
  screens and the direct relay queries of the bot are reached by no code or by no
  keyboard.
- All components in one module: the product of `KeyLock`, `ConsumerPower` and
  `Connection` alone is beyond what TLC can enumerate.  The main loop is composed
  where two components answer to each other.

Of what is modelled, these hazards stay open; the properties name each as their
exception, because the code does not exclude it and no document says it does.  The link
is lost inside `begin()`, which succeeds all the same (`connection.cpp:105`): the bot is
then not started on the next link (`BotComesBack`).  A PC hibernates after its shutdown
was withdrawn, and nobody starts it again (`ShutdownIsRecent` only bounds when that
happens).  A confirmed message that the full queue refuses, and a press that an older
command overrides, are lost (`AsksAreObeyed`).  A bounce after a late loop toggles
(`Debounced`).  A save that failed unnoticed is lost with the next reset
(`RestartLosesLittle`).

TLS, mDNS and the chip's own behaviour are taken as their library's.
