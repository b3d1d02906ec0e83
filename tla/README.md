# A verification project for canids_export

`canids_export` is an intrusion detector for the CAN bus of a car: models
trained offline in Python, exported to C, run in an STM32 firmware ("F6"), and
shown in a browser dashboard and in a Renode simulation of two ECUs. This
directory holds TLA+ modules for the parts whose correctness depends on
interleaving, ordering, failure or boundary values, the TLC runs that check
them and the proofs TLAPS checks. Paths below are relative to the repository;
its own directory `src/` is `src/src/` in `PROJECT.json`.

## 1. Inventory

### Components, their state and their operations

| component | state | operations | what makes it correct |
|---|---|---|---|
| F6 firmware `models_c/f6_v2/main.c` | bxCAN FIFO0 (hardware), software ring `g_rx_queue`/`g_q_head`/`g_q_tail`, receive, IDS and control counters | `CAN1_RX0_IRQHandler`, `SysTick_Handler`, the loop of `main` | no frame is lost off the record, torn, repeated or reordered; control work comes before the IDS; deadline statistics are true |
| V2 feature stream in C `models_c/f6_v2/feature_v2_stream.c` | circular ID window, last payload per ID and a bitmap of valid ones | `feature_v2_reset`, `feature_v2_process` | the features equal the ones the model was trained on |
| the same in Python `dashboard/v2_stream.py`, `src/13_build_features_v2.py` | list of IDs, dictionary of payloads | `reset`, `process` | the reference for the C code |
| hybrid decision `models_c/08_export_v2_to_c.py` (211-277, the text of `can_ids_predict` in the generated `can_ids_embedded_v2.c`), `dashboard/app.py` (52-84) | none across calls | `can_ids_predict`, `hybrid_predict` | both give the same verdict wherever rounding cannot decide |
| dashboard `dashboard/static/app.js`, `dashboard/app.py` | the page's `state` object, the suspended asynchronous functions, the one extractor of the back end | clicks, `init`, `loadScenario`, `runDemo`, `fullReset`, `stopDemo`; the four end points | counters add up, one run at a time is current, a complete run is whole, the button never sticks |
| simulation service `docker_sim/service.py` | `PENDING` under `MATCH`, `STOP`, `READER_READY`, `GATE`, the log | `uart_reader` (two threads), `replay_dataset`, `bus_reader`, the loop of `main` | a decision belongs to the row it is logged for; success means complete; the shutdown ends |
| simulated ECUs `docker_sim/firmware.c`, `sl_application.h` | the F6 state, a transmit queue, the applications' modes and time-outs | wrapper of the receive interrupt, `tx_poll`, `send_frame`, `application_receive`, `application_step`, idle wait | arrival ticks belong to their frames, the mode cycle goes on over a lossy bus |
| ICSim ground truth `src/42`, `22`, `23`, `43`, `44` | ground-truth log, capture, prediction file | log, send, capture, detect, match, attach | the matching is one to one, an attack that was captured counts as one, a verdict counts for its own frame |
| detector of version 1 `src/15`, `16`, `17` (`24`, `27`) | schedule of the generator, windows, predictions | inject, send due frames, receive, predict, count by window | predictions in the window of a burst are that burst's |
| load and stability runs `src/46`, `src/47` | running totals, interval counters, rows | receive loop, report, monitor thread | rows add up, one per interval; the summary is that of the file |
| feature builders `src/01`, `13`, `34`, `38` | window of all identifiers, histories and run length per identifier | one pass over a log | the features equal their definition over the log |
| training, other evaluation, export | files | batch scripts | numerical results |

### How they interact

The C feature stream and the decision are called from the foreground of the F6
firmware and, unchanged, from the simulated ECU B, which includes F6's `main.c`
and wraps its interrupt handler. The dashboard's back end runs the Python
stream and the Python decision on the same frozen model. The service talks to
the two simulated ECUs over a virtual CAN bus and reads their UARTs. The page
and its back end exchange HTTP requests; the threads of the service share
memory under two locks. The measuring programs meet on a bus and in files: the
injector logs and sends, candump and the detector receive, and the matcher and
the evaluations read what the three have written.

### What is hard

* Interrupts preempt `main` between any two memory accesses, while the CAN
  controller goes on receiving during the handler itself.
* Two queues in a row may overflow (hardware FIFO0, software ring), with one
  flag and one counter to tell.
* Counters are free-running and compared after a wrap.
* The circular window and the bitmap must agree with a list and a dictionary
  for any sequence of frames, refused frames and resets.
* The page's functions are suspended at every `await`, several at once, and
  share one object; answers come in any order.
* The service waits with a time-out for an answer that may be lost or late,
  while another thread may be told to stop.
* The simulated ECU sleeps with interrupts masked, and a finished transmission
  wakes nobody; its applications time each other out over a lossy bus.
* Log, capture and prediction of one frame carry three different times, and
  are joined again by content and time alone.

`PROJECT.json` lists each such place with its line under `hazards`.

## 2. Modules

| module | models | remarks |
|---|---|---|
| `LossyFifo` | a bounded FIFO that refuses only when full | abstract specification |
| `F6Constants` | sizes, bounds and index arithmetic of the two firmwares | |
| `F6Firmware` | F6 firmware and FIFO0 | refines `LossyFifo` (`ImplementsFifo`) |
| `F6IdsOff` | the baseline firmware `main_ids_off.c`, with variables and actions of its own | refines `F6Firmware` (`OffIsOnWithoutVerdicts`) |
| `FeatureWindow` | the Python stream | abstract specification |
| `FeatureStream` | the C stream | refines `FeatureWindow` (`ImplementsPython`) |
| `HybridPredict` | the C decision step by step, the Python decision as an operator on its softmax and its own quadratic form | `AgreesUpToRounding` |
| `Dashboard` | page and back end | |
| `ReplayService` | the service's threads around one replay | |
| `SimEcu` | `docker_sim/firmware.c`: stamps, transmit queue, sleep | its transmit queue refines `LossyFifo` (`ImplementsTxFifo`) |
| `EcuApplication` | `sl_application.h`: both applications and the bus between them | |
| `GroundTruth` | `src/22`, `42`, `43`: log, capture, matching | |
| `IndependentEvaluation` | `src/23`, `44`: predictions and their attachment to captures | |
| `BurstEvaluation` | `src/15`, `16`, `17`: bursts, windows, predictions | |
| `StabilityRun` | the loop of `src/47` | |
| `TemporalFeatures` | the state per identifier of `src/34` and `38` | |
| `Experiments` | the last four, one at a time | instances of them, with the assumptions on their constants |
| `MC*` | instances for TLC | |
| `*_proofs` | theorems | |

### F6Firmware

One action is one atomic access as the hardware and the other side see it.
`MailboxStore` and `MailboxOverrun` are the controller (external). The handler
is `IsrEnter` (copy of `RF0R`), `IsrClearOverrun` (the write that clears
`FOVR0`), and `IsrNoMailbox`, `IsrEnqueue` or `IsrOverflow`; the controller may
act between them. Once the handler is entered neither `main` nor SysTick runs,
both interrupts having the reset priority. `main` is a program counter `pc`:
test of the control counters, workload, test of the queue, four loads of the
slot, release, decode, prediction, count. A frame is its arrival number; a slot
holds one number per field, so a slot mixed from two frames is visible. The
counters of the control task are kept modulo `CounterMod` (2^32 in the code);
the others are statistics and unbounded naturals. Two of them decide something,
and only about statistics: `g_hw_rx_count == 1u` whether the first arrival is
stamped (again after 2^32 frames in the code, never in the model), and the
maximum depth whether it is raised. The prediction is any member of `Codes`. An interrupt may
be taken once more for an empty FIFO (`latched`), because the release of the
mailbox can reach the controller after the handler has returned.

### FeatureStream and FeatureWindow

`feature_v2_process` is one action, as the code is not reentrant and is called
from one place. `id_window` is a function over the slots, the bitmap a function
over bytes and bits addressed as in the code. The refinement mapping reads the
circular window oldest first and keeps the payloads whose bit is set. Features
are abstracted to what state they depend on: the counts of the window, the
distance to the previous payload and the byte multiplicities entropy is taken
from. The mean byte and the value z-score depend on one frame and on constants
only and are left out.

### HybridPredict

The scan over the class scores is a loop with `best` and `cls` (the code's `i`);
scores are integers, which is all the comparison sees. The two sides start from
the same sums: the trees are written with 17 digits, which reads back to the
same double, and added per class in the order LightGBM adds them. From there on
they differ, and the model keeps them apart. The C loop compares the sums; `raw` is
what `lgbm.predict` returns, any member of `Softmax(scores)`: floating-point
exponential, sum and division keep the order of the scores, may make two that are
near each other equal, and keep below the largest what is `Gap` or more
below it. numpy's `argmax` is taken over `raw`. `dist2` is the quadratic form as the C
loops compute it and `form` as numpy does, in another order of operations, so
that they differ by up to `Noise`. `maha_distance2` is the C clamp of a negative form
and `RootExceeds` the comparison of a root with the threshold, false for the
root of a negative number on both sides. The trees that produce the scores are
generated code and abstracted to any scores.

`AgreesUpToRounding` says what is left: the verdicts differ only if the softmax rounded a
class of smaller number up to the one whose sum is the largest, their sums
being less than `Gap` apart, or if that class is the normal one and the form lies
within `Noise` of the threshold. Exact ties, of any number of classes, never part
them.

### Dashboard

`task[n]` is the asynchronous function started by click `n` (function 0 is
`init`), with the `await` it is suspended in. `Answer` is the back end: it takes
effect and replies in one step, in any order, and a request may fail before or
after it took effect. One action of the page is the code from one `await` to
the next: `BeginLoop` and `ContinueLoop` go through the head of the loop of
`runDemo`, `FrameDone` is `processFrame` after its answer, `RunFails` the catch
and finally blocks. `window` is what the detector has seen since its last
reset. Rendering is left out except `trafficState` (`shown`).

### ReplayService

`uart_reader`, `replay_dataset` and `main` run concurrently. `MATCH` is a lock
held by the replay thread from `ReplayLocks` to `ReplayWaits` (or to an
exception) and in its tests; the reader's critical section is one step, as
nothing outside can see its parts. `wait_for` is its implementation: test, wait,
take the lock back, test again, the last time after the ten seconds. The bus
and ECU B may lose a frame, the UART may garble a line, a reader may end, and
Renode may die or a deadline pass at any round of `main`; B also records the
frames ECU A sends it, whose identifiers no data set contains. The log keeps, with
each decision, the row the record was really about (`of`), which the service
cannot know, so a wrong attribution is visible. The class `Handler` is never
started (`server` stays `None`) and not modelled.

### F6IdsOff

`main_ids_off.c` is a copy of `main.c` in which the prediction was replaced by the
constant 0 (lines 464 to 470). The module does not take that for granted: it is
translated from `main_ids_off.c` line by line, names its variables as that file does
(`g_q_tail`, `g_hw_rx_count`, ...), and shares with `F6Firmware` only the
constants and the index arithmetic of `F6Constants`. The two are brought together by
a refinement mapping alone, which gives the firmware the verdicts the baseline
does not count; a statement forgotten, moved or added in the copy would be a
step that the firmware cannot take. The four mutants of the run are such slips
of a copy: no count of a push, a slot released before it is copied, a `continue`
left out, and the count of processed frames dropped with the prediction.

### SimEcu

`main` is a program counter over the loop of `firmware.c:85-104`. The receive
handler of F6 is one step here, as `F6Firmware` has its parts; its wrapper first
stamps the slot at the head. `came` is the tick a slot's frame really came in,
and `taken` relates the recorded stamp to it. `cpsid` is `masked`: while it is
set an interrupt may become pending and is not taken, which ends the sleep but
runs no handler. The mailbox finishes when it likes and raises no interrupt.
Lines 98 to 103 are four steps: the test of the queue with interrupts enabled
(`NothingReceived`, to "mask"), `cpsid` (`Mask`), the second test of queue and
control counters (`IdleTest`), and the sleep or `cpsie`; a frame or a tick between the
first test and `cpsid` is what the second test is for. The counters of the control
task are free-running modulo `CounterMod` and compared as the code does, with `<` in the
loop (90) and for equality before the sleep (100). Behind the wrap of the release
counter `main` therefore neither runs the job nor sleeps on it.
What `application_step` sends is any number of frames up to `Burst`.

### EcuApplication

The two applications take turns, a tick each; a frame arrives before the next
turn or never, and a frame of a lossy kind may be lost at every turn. An ECU may
skip a tick, as its main loop handles one tick however many have passed. Ages
(`now - bms_tick` and the like) are counted up to where nothing distinguishes
them; a frame never seen is as old as one too old. The high voltage is the
number of steps from its resting value.

### GroundTruth and IndependentEvaluation

In `GroundTruth` a key is an identifier with a payload, and the bus keeps the
number of the row a frame was logged under, which nobody can read from the frame
itself; candump may miss a frame and stamps what it captures when it does. The
matcher is one step per row, `Candidates` the unused captures of the key within
the tolerance, `Nearest` the first with the least difference. In
`IndependentEvaluation` a frame reaches candump, the detector's socket or both;
the detector stamps a prediction when it is made. `Neighbourhood` is the slice
of the captures of an identifier that `src/44` looks at around the position of
the time in the sorted list.

### BurstEvaluation

The generator is cut where it reads the time: the head of the loop, the choice
between a burst and normal frames, the test in the injecting loop, the frame,
the row. The frame of a burst carries the burst's number; `late` counts frames
of the burst sent behind its window. A frame is no longer than `MaxLag` on the
bus and in the detector. The generator may be killed between any two steps.

### StabilityRun

The loop of `src/47` is cut at its readings of the time and in its report: `Keep`
appends a row to the list, `Write` to the file, `Reset` begins the next interval.
Time passes and `KeyboardInterrupt` may come between any two steps.

### TemporalFeatures

One step is one row of the log: distance, interval, run length and the pushes
into the bounded histories of its identifier. Identifiers are mixed at will
and stamps may go backwards. A payload is a number; the distance of two, a sum
of absolute differences of bytes in the code, is their difference. The
properties read the log of an identifier backwards: `Ago(id, n)` is the frame
that `n` others of the identifier have followed.

### Experiments

The four measuring programs have no common state but the clock. `Experiments`
instantiates their modules, lets one of them run (`experiment`) and leaves the
variables of the others where they begin. It states the assumptions on all
constants, conjoins the properties of each program into one (`Attachment`,
`Windows`, `Rows`, `Histories`), and is the module their theorems are about.

## 3. Runs

| run | question | bounds |
|---|---|---|
| `f6_firmware` | frames conserved, whole, in order and settled; control first, statistics true; refinement of `LossyFifo` | ring of 4 slots (3 usable), FIFO0 of 2, modulus 8, an extended frame; 5 frames with a tick or 5 ticks with a frame, 3 frames with 2 ticks (`MCBound`) |
| `f6_wrap` | control priority across the wrap (violated) | modulus 3, 4 ticks |
| `f6_ids_off` | the baseline is the firmware without verdicts | ring of 4 slots (3 usable), FIFO0 of 2, modulus 8, an extended frame, 4 frames, 3 ticks |
| `feature_stream` | the C stream is the Python stream | window of 3 slots, 16 identifiers (two bytes of bitmap) of which three are used and one is refused, three payloads, unbounded sequences |
| `hybrid_predict` | same verdict but for rounding | 5 classes with scores from {0, 1, 3} and `Gap` 2, so that every tie, near-tie and order occurs; every rounding onto three probabilities; forms on both sides of zero and of the threshold, `Noise` 1 |
| `dashboard` | counters, the current run, what older runs leave in it, whole runs, ends | 3 clicks, two scenarios of 3 and 1 frames, an extended frame |
| `replay` | attribution, backpressure, success, stop, end | 3 rows, two equal; one signal; application frames up to 2 unread lines |
| `sim_ecu` | stamps, sleep, transmit queue | ring of 2 (1 usable), transmit queue of 3 (2 usable), bursts of 2, 4 frames to send, modulus 2, unbounded ticks |
| `ecu_application` | time-outs, precharge and mode cycle over a lossy bus | all five kinds of frame lossy, skipped ticks, time-outs scaled down |
| `ground_truth` | the matching | two keys, 3 rows, 3 frames, 4 instants, tolerance 2 |
| `unprocessed_attack` | an attack without a prediction is missed (violated) | one identifier, 3 frames, tolerance 2, reach 1 |
| `experiments` | `Attachment`, `Windows`, `Rows`, `Histories`, `RunEnds` of the four measuring programs | see `MCExperiments.cfg` |

Why the bounds suffice. In `f6_firmware` five frames are one more than the
usable slots need to overflow together with the hardware FIFO after the ring's
index has wrapped; five ticks give backlogs of two and more with completions
between them; `MCBound` cuts off only the states with many of both. `sim_ecu`
refuses received and transmitted frames, and wraps both rings; with modulus 2 the
counters wrap every two ticks, so every comparison is made before, across and behind
a wrap, and stamps, which are only compared for equality, are told from
those of the tick before. The feature
stream needs more than one turn of the window and identifiers in different
bytes of the bitmap, and its run explores all reachable states, of sequences of
any length. Three clicks are a run, its end and a second run, with `init` still
suspended; every race of two runs and one more function fits. Three rows are two
equal ones and a different one; a late answer meets the following row in every
way. In `ecu_application` the constants keep the order the code gives them: A
waits as long for a mode as B for the longer of its time-outs and as A trusts a
state (30, 30, 30: here 6, 6, 6), the shorter time-out is one period (10: 2), the
times in a mode are no shorter than these and the one in mode 0 is the
longest (300 and 400: 6 and 8), and the
voltage is ready a step before its target. Three attack
frames are the least with which a row can take the capture of another that then
takes a third one's; with a normal frame of the same content in between the
tolerance makes a difference.

`experiments` runs the four measuring programs one at a time. They share no
state, so its state graph is the disjoint union of theirs; each property is
the conjunction of the properties of one program, stated in its module, and of
its `TypeOK`. Bursts:
two of them, with a stall or a lag at every step. Long run: three intervals, the
last one short, stalls over more than one. Evaluation: three frames of one
identifier and a neighbourhood that may be too small. Features: two
identifiers, five rows, histories of two and three, so that both overflow.

Two runs show a disagreement between code and comment.

* `f6_wrap`: `main.c:378` compares the two counters with `<`, so when the release
  counter has wrapped and the completion counter has not, a released job is not
  seen and `main` goes to the IDS queue, against "Periodic ECU-control work has
  priority over foreground IDS processing" (`main.c:373`). With 10 ms ticks this
  is after about 497 days of operation. `SysTick_Handler` itself takes the
  wrapping difference (`main.c:183`).
* `unprocessed_attack`: `src/44:371` attaches a prediction to the nearest unused
  capture of its identifier. When the detector missed an attack frame and judged
  a neighbour, the neighbour's verdict counts for the attack, against "If
  detector failed to produce a prediction for an attack frame, it counts as not
  detected (FN)." (`src/44:452`). `Attachment` states when it cannot happen.

A third needs no run: the comment at `src/44:341`, "More than enough because CAN frames
are chronologically sorted", holds only if few enough captures of the identifier
lie within the tolerance. With more of them than the eight positions on each
side the nearest unused capture may lie outside the slice and the prediction
stays without one. `Attachment` promises the nearest capture under that premise
(`NearIsNeighbour` in the proofs is the count behind it).

Every property of a passing run has a mutant in `PROJECT.json`, and those that
are conjunctions of several have one for each part: a faulty variant of one
definition, kept next to it under a comment "Fault", under which TLC refutes
the property. Invariants that are proved for all values of the constants and that no run
repeats are the `TypeOK` of the modules with proofs, `HighWater`,
`SlotStableDuringCopy` and `CountsFit`.

### Behaviour the models contain and no property forbids

* Firmware and dashboard: where two classes are nearly tied, or the form is within
  rounding of the threshold, the verdicts may differ (`NearTie`, `NearThreshold`).
* Simulated ECU: behind the wrap of the release counter (497 days of ticks) released jobs
  are not run, as in `f6_wrap`, and the loop spins instead of sleeping.
* Dashboard: the answer of a frame, or of a reset, of a run that was stopped may
  come during the next run. It is then counted in, or clears, the new run's
  counters, and the shared stream has seen a frame of the other run. A load
  that is answered late replaces `scenarioData` during a run. `CompleteIsWhole`
  is stated for runs during which no other function of the page was suspended;
  `CountersAdd` and `RunButtonNeverStuck` hold for all, and `StaleAtMostOnce` bounds
  what is left behind: one frame in the stream and one count for each older function.
* Dashboard: `resetVisuals` writes "IDLE" over "STREAMING", which the page
  therefore shows only until the back end has been reset.
* Service: a signal ends the loop of `main` without an error also while a
  replay is incomplete; the log then says `replay_failed`. `SuccessIsWhole`
  excludes signals.
* Evaluation of version 1: a frame of a burst that is stamped behind the window is
  counted as normal traffic, and its detection as a false alarm (`src/17:58`
  under the heading "false positives of the normal section", `:54`). The
  window ends at the planned time, the test is before the frame (`src/15:54-72`),
  and the detector stamps later still.
* Generator: during a burst no normal frame is sent, the injecting function not
  returning before its end (`src/15:119`); the doc string (`:2`) says that normal
  traffic goes on all the time.
* Long run: the time is read at the head of the loop (`src/47:144`) and again
  behind `recv` (`:260`); when it runs out between, the last interval gets no row
  although "one row per reporting interval" is recorded (`:7`). `Rows` says that
  no frames but those since the last row are in none.
* Features of V3: the first frame of an identifier puts a zero into the history
  of changes (`src/34:175`), which then counts as one of the "transitions" of
  `:180`. `Histories` states it.
* Service: an error line may be read between the copy of the gate and the start
  of the replay.

## 4. Fairness

* `F6Firmware!FairSpec`: the handler and the foreground go on. The processor
  does not stop, an enabled interrupt is taken, and `main` has no blocking
  call. Ticks and frames are not forced; their number is bounded, by constants
  and by `MCBound`, so the property says that frames are settled once ticks leave
  time, not that they do so under a permanent overload.
* `Dashboard!FairSpec`: every request is answered (by success or failure) and
  every continuation and timer is resumed: the back end is local and its
  handlers do not block, and the event loop drops nothing. Clicks are free.
* `ReplayService!FairSpec`: the two threads that take part in the shutdown are
  scheduled. Answers, lines and the expiry of waits are not forced. `StopEnds`
  holds so; `ReplayEnds` has the premise that time passes, `WF_vars(Timeout)`.
* `SimEcu!FairSpec`: `main`, the timer and the mailbox go on (weak). The two
  interrupt handlers are strongly fair, because `main` masks and unmasks them in
  every round of an idle loop: a pending interrupt is taken in one of the
  windows. Nothing wakes `main` but the timer and a received frame.
* `EcuApplication!FairSpec`: time passes (`WF_vars(Next)`); a state that B sends
  again and again gets through again and again, and A does not for ever skip
  just those ticks in which it could act on it (strong). `NotAskedForever` holds
  under this. `ModesRecur` has the premise that the disturbance ends.
* `StabilityRun`: time passes, and the loop goes on, its `recv` waiting 0.2
  seconds at most. `Experiments` states this of its steps.

## 5. Proofs

The theorems hold for all values of the constants that satisfy the named
assumptions (sizes are positive, codes are verdicts, sequences are sequences).

* `F6Firmware_proofs`. `TypeCorrect` needs that a handler which read a non-zero
  FMP0 still finds a mailbox (`MailboxHeld`). `CopyIsWhole` and `SlotIsStable`
  rest on `RingInv`: while `main` copies, the slot is in the queue, and a
  handler that enqueues writes the slot at `head`, which is never `tail` of a
  non-empty ring. `NothingDisappears` and `HighWaterMark` use how the depth of
  the ring changes when an index moves (`DepthPush`, `DepthPop`, `DepthFull`).
  `OverrunsLeaveATrace` adds that a handler about to clear the flag found it
  raised. `DeadlinesCounted`, `ControlComesFirst` and `SpanHappened` are
  conditional: as long as fewer ticks than the modulus have come; the wrap is
  exactly what `f6_wrap` refutes. `VerdictsCounted` is the sum of the IDS
  counters at every `pc`. `RingIsFifo` is the refinement of `LossyFifo`.
  `BaselineIsOn`, of `F6IdsOff`: under the mapping every step of the baseline's own
  actions is a step of the firmware (`ControllerOn`, `IrqOn`, `TickOn`, `MainOn`), the
  missing verdicts being derived from the frames decoded; it needs that the
  baseline's variables have their types (`TypedOff`), and that the wrapping
  subtractions of the two texts agree (`RingArithmetic`, `ControlArithmetic`).
* `FeatureStream_proofs`. `StreamIsPython`: every step of the circular window is a
  step of the list. Its core is that counting slots and counting positions of
  the list agree (`PositionBijection`, `SameCount`, `UniqueCount`).
  `CountsAlwaysFit` bounds the counts by the window. Counting arguments use the
  library's theorems on cardinality; the induction over positions is by the
  least element of a set. The last part is about `HybridPredict`: `SameVerdict`, from
  the loop invariant `BestSoFar` and from `ArgMaxExists`: the least class as probable as
  the firmware's is numpy's answer, and it is not behind the firmware's. That
  they are the same class, or a near-tie, then follows from what the softmax keeps; the
  two forms fall on the same side of the threshold unless it is within their noise.
* `Dashboard_proofs`, for any scenarios, verdicts and number of clicks.
  `OneCurrentRun` needs `TokenInv`: no run carries a token ahead of `runToken`,
  so that the token of the next run is one nobody holds. `PageTyped` needs that
  a run awaiting its reset has a scenario loaded (`RunHasScenario`).
  `EveryFrameCountedOnce` holds although answers of stopped runs are counted.
  `StaleRunsStainOnce` (`StaleInv`): once the stream of the current run has been reset, a
  function that has a frame in it has none on the way and, not being current, sends
  no other (`StreamOf`); every count beyond the run's own moves one older function
  out of those with a frame on the way, and none comes back (`CountOf`, `OlderGrows`).
  `CompleteRunIsWhole` follows one undisturbed run (`Undisturbed`): a function that
  is not overlapped is the only suspended one (`AloneActs`), so the loaded scenario
  is its own, the stream holds the supported frames up to the one it is at
  (`StreamedStd`, `StreamedExt`), one less while the answer is out, and these with
  the frames counted as unsupported make up the frames gone through (`Seen`).
* `ReplayService_proofs`, for any data set. `AttributionIsSound` rests on
  `OneUnderWay`: of the data set one frame or record at most is anywhere between
  the replay thread and the reader, and only while its row is pending, so that
  a row of equal content cannot be answered for by another. `EverySubmitWaited`
  follows from `LogInv`, which says for every point of the log what stands
  before it, and `SuccessMeansWhole` from `OutcomeInv`, which relates the state
  of `main` and of the replay thread to the log.
* `SimEcu_proofs`. `StampIsOwn`: a refused frame stamps the slot at the head only,
  which holds no frame, and the next accepted one stamps it again. `SleepsIdle`:
  interrupts are masked from `cpsid` to the sleep, so nothing that comes after the second
  test changes queue or counters; what came between the first test and `cpsid` that test
  sees. `TxQueueIsFifo`: the slots between tail and head, read in order
  (`WaitingOK`, `DepthOK`), are the queue of `LossyFifo`.
* `GroundTruth_proofs`. `MatchingIsOneToOne` and `MatchingIsMaximal` are about the
  row-by-row choice (`PairsInv`): captures are only ever used up, so a row that
  found none left over stays without. `AttacksAreLabelled` needs that log, bus and
  captures are in the order of the rows and their times (`RecordInv`, of the parts `Clocked`, `Logged`
  and `Ordered`), and then, by the order of the rows, that the captures of the rows gone
  through are used (`Settled`): the own capture of a row is taken already, or
  none is nearer that is not.
* `EcuApplication_proofs`, for any time-outs, waits and voltages that satisfy
  `TimeAssumption`. `EcusTyped` holds of any frames lost and ticks skipped.
  `ConverterStops` needs that while B is enabled, A has commanded a mode that needs
  it no longer ago than B has waited for A's next frame (`EnabledSince`), the frame
  under way included: the age of what B last heard bounds the age of what
  A last meant. `ConverterPrecharged` needs that a ready B has its voltage up, and
  that a converter in boost or buck has too (`ReadyInv`).
* `Experiments_proofs`, one invariant for each program; the step of another
  program leaves it alone.
  `EvaluationAttaches` (`AttachmentInv`, for any recording): captures, waiting frames
  and verdicts are in the order of the frames and agree on what a frame was
  (`InOrder`, `OneFrame`), and no capture has two predictions (`OneToOne`), so that
  both coverages count the two sides of a bijection. That the neighbourhood is wide
  enough is a count: the captures between one in reach and the prediction's
  time are in reach themselves (`NearIsNeighbour`). That a verdict finds its own
  frame among sparse ones is arithmetic of two lags (`OwnCaptureNearest`).
  `BurstWindows` (`WindowsInv`, for any gaps, stalls and lags): whatever is on the
  bus, in the detector or predicted was sent since the start of its burst's window
  (`Placed`), and, as long as the lag is shorter than the gaps, is seen before the
  next window and after the ones before its own (`Apart`); the one late frame
  of a burst is the one whose test was just passed (`LateInv`).
  `LongRunRows` (`RowsInv`, for any interval and duration): the reports are due at
  multiples of the interval (`OnMultiples`), each row begins where the one before
  it ended (`RowsLinked`), and the file lags behind by the row in hand at most
  (`FileFollows`); two rows lie in different intervals because a multiple lies
  between them (`MultipleBetween`).
  `FeatureHistories` (`FeatureInv`, for any identifiers and window lengths): the past
  of an identifier, as a function from "so many frames ago", gets a frame in
  front and moves the others one further (`PastGrows`, which needs that there is one
  frame for each age, `Ages`); each history is a prefix of that function, whether
  a push drops its oldest element or not (`Pushed`).
  An instance has its own copies of the library's operators
  (`Evaluation!Cardinality`); two lemmas relate them to those that the theorems of
  the library are about (`SameCardinality` and `Counted`).

Only model-checked: liveness (`EveryFrameSettled`, `EveryRunEnds`, `StopEnds`,
`ReplayEnds`, `TransmitQueueEmpties`, `SleepEnds`, `NotAskedForever`, `ModesRecur`,
`RunEnds`), which is out of the prover's reach, as are ENABLED and induction over
data.

## 6. Not modelled

Most of the repository's lines are no control of its own: the vendored Renode
distribution with its Python library, the generated C of the decision trees,
stored models and results. A map of the whole is therefore out of the question;
the modules stand for the hand-written firmware, services and measuring
programs.

In the modelled components these are left out: floating-point arithmetic and
the trees; register initialisation; rendering; the bus reader and the dead
HTTP handler of the service; parsing, formatting and payload encoding; the
resource monitor and the latency statistics of the long run; the metrics computed
from the counts of an evaluation. `src/46` has the loop of `src/47` with one row at
its end. `src/24` and `27` repeat the assignment of `src/17` with other windows.

Two hazards have no property, because the code promises nothing: a scenario that
is loaded late during a run, and an error line that comes after the gate was
copied. The extractor of the back end is one step; two threads inside it at once
appear as a failed request only.

Training and numerical evaluation, export, set-up and one-shot tools have no
state whose control could go wrong.

## 7. Plan

What is left, in order of what it would add:

1. The extractor at the grain of its statements under two threads of the back
   end, composed with `Dashboard`.
2. `SimEcu` composed with `EcuApplication` over the two-sided bus, so that the
   skipped ticks come from the load and not from a choice.
3. The logger of `src/42` with two callers, and the monitor thread of `src/46`.
