# TLA+ specifications of the ICM20602 driver and its capture tools

The repository holds a Linux 4.19 IIO driver for the ICM20602 inertial sensor
(`src/ICM20602.c`), two user-space programs that read it, and an earlier driver.
These modules specify the parts whose behaviour depends on interleaving,
failing transfers, restarts and limits, check them with TLC on small instances,
and prove some of their properties for all sizes with TLAPS.

## The system

| Part | Source | State it keeps | Operations | Modelled in |
|---|---|---|---|---|
| FIFO drain, flush, overflow recovery | `ICM20602.c` 268-544, 797-1013, 1303-1368, 1421-1461 | burst buffer, `fifo_pending_*`, `fifo_enabled`, the chip's FIFO and interrupt status | `fifo_drain`, `fifo_push_pending`, `fifo_check_and_recover_overflow`, `fifo_flush_store`, `trigger_handler` | `FifoDrain` |
| Buffer lifecycle, triggers, removal | `ICM20602.c` 1135-1300, 1503-1785, 2015-2119, 2206-2226 | the enable registers and thresholds, four flags, `fifo_watermark`, the IIO core's session | `preenable`, `postenable`, `predisable`, `postdisable`, two `set_trigger_state`, `irq_handler`, `fifo_watermark_store`, `remove` | `BufferLifecycle` |
| Interrupt line and wakeups | `ICM20602.c` 1421-1461, 1694-1710, 1761-1785 | the trigger's `use_count`, the chip's pulses | `irq_handler`, `trigger_handler`, attach and detach | `TriggerWakeup` |
| Settings | `ICM20602.c` 99-160, 578-780 | `sampling_frequency`, two scale indices, the registers behind them | `write_raw`, `set_*_scale`, `set_sampling_frequency`, `read_avail`, `read_raw` of settings | `Settings` |
| Probe and remove | `ICM20602.c` 1834-2204 | `config`, registers | `parse_dt`, `check_chip`, `soft_reset`, `apply_settings`, `init_device`, `probe`, `stop_device` | `Settings` |
| Capture tool (C): configuration and exits | `icm20602_iio_capture_fixed.c` 299-563, 905-1222 | sysfs attributes | `parse_args`, `configure_iio_sysfs`, `disable_iio_buffer`, `main` | `CaptureSession` |
| What the tools make of the dates | `icm20602_iio_capture_fixed.c` 580-628, `iio_icm20602_reader.cpp` 494-529 | the last timestamp, `estimated_drops` | `estimate_gap`, `process_frame`, `complete_sample` | `DrainHistory` |
| Capture tool (C): read loop and parser | `icm20602_iio_capture_fixed.c` 598-856 | carry, read buffer, `g_stop` | `process_bytes`, `drain_reads_until_eagain`, `run_poll_loop`, `run_epoll_loop` | `ReadLoop`, `CaptureReader`, `Readers` |
| Reader (C++): configuration and exits | `iio_icm20602_reader.cpp` 159-365, 835-928 | sysfs attributes | `IioConfigurator`, `write_one_of`, `main` | `CaptureSession` |
| Reader (C++): read loop | `iio_icm20602_reader.cpp` 600-765 | `staging_`, frame counter | `IioReader` | `ReadLoop`, `ReaderCpp`, `Readers` |
| First capture tool, earlier driver, key demos, test script, device tree | the other files | | | not modelled, see below |

**How they interact.** The chip samples on its own clock into its FIFO or its
data registers and raises one interrupt line. The hard interrupt handler reads
two flags without a lock and polls one of the driver's two triggers; an
external trigger may be polled instead. The IIO core wakes the trigger
handler's thread, which takes `data->lock`, talks to the chip over SPI one
transaction at a time, and pushes scans into the kfifo. Writes to sysfs
(`fifo_flush`, `fifo_watermark`, `buffer/enable`) run in other threads: the
first two take `data->lock`, the last runs the session callbacks under the
core's mlock, and each callback takes `data->lock` for itself; so do writes of
settings. `remove` takes `data->lock` but not mlock. A tool writes the
attributes one by one, turns the buffer on, reads the kfifo through the
character device with poll or epoll, and turns the buffer off; anybody else may
write to the same attributes at any time, and a killed tool leaves them as
they are.

**What is hard.** Samples arrive between any two transactions; every transfer
may fail and leaves what was done before it; the kfifo may be full in the
middle of a batch; popped frames exist nowhere but in the burst buffer; the
overflow bit is cleared by reading; sessions end while the handler waits for
the lock; remove runs beside sysfs; edge-triggered epoll announces data once.
`PROJECT.json` lists these hazards with their lines and the properties that
cover them.

**What makes the parts correct.** The drain: no popped frame is lost, repeated
or reordered, an overflow is noticed and repaired and only then are frames
given up, dates are not later than the samples, a flush empties what it found.
The lifecycle: chip, flags and trigger agree in a session, the chip is quiet
without one, nothing is routed without one, nobody waits for ever. The
interrupt line: a FIFO at the watermark does not stay unattended for good. The
settings: chip and driver agree on them, nothing changes under a session, the
chip is not slower than asked, a probe starts from nothing. The tools: they
capture with what they were asked for or fail, leave the buffer off, start
again after a kill; each line is a scan, in order, the limits hold, what is
readable is read, stopping stops. What they count as lost is an estimate from
the driver's dates: it must be right within a batch, and wrong between batches
by no more than the dates are.

## Modules

### `FifoDrain`: the data path under the lock

One action is one SPI transaction, one push or one lock operation. `pc` is
where the holder of `data->lock` is; the handler and `fifo_flush` share
`fifo_drain`, and `lock` tells which of them called (`Forced` is the argument
`force`, TRUE for the flush).

| Code | Definitions |
|---|---|
| `trigger_handler` | `HandlerLock`, `DirectRead`, `DirectPush`, `HandlerUnlock`, `NotifyDone` |
| `fifo_flush_store` | `FlushLock`, `FlushCount`, `FlushReturn`, `FlushUnlock` |
| `fifo_drain` | `EnterDrain`, `CheckOverflow`, `Count`, `ReadFrames`, `CountAfter`, `LoopEnd` |
| `fifo_push_pending` | `PushFrame`, `PushFull`, `PushDone` |
| `fifo_recover` (`fifo_disable`, then `fifo_enable`) | `Recover`, eight register operations |
| chip, trigger poll, kfifo reader | `Sample`, `Poll`, `UserRead` (external) |

Abstractions. The FIFO is counted in frames; 1024 bytes are not a multiple of
14, so from an overflow on every frame read straddles two samples until a
reset: chip state `align`. Samples are numbered and time is counted in
sampling periods. Polls may come at any moment the handler is idle, which is
what an external trigger does and includes every moment the watermark
interrupt could come. A transfer fails before it reaches the chip. Statistics
counters and log messages are left out. `ClearedBy` names the two readings of
how INT_STATUS is cleared: by any register read (the driver sets INT_RD_CLEAR)
or only by its own (what the comment at line 472 says).

### `LossyStream`: what the data path promises

An abstract stream: samples enter a queue and leave it from its head; only
between an overflow and its repair may samples get lost. `MCFifoDrain` maps
the queue to the popped frames that are not pushed yet followed by the chip's
FIFO, and damage to `align` or a recovery in progress, and checks
`ImplementsStream == Stream!Spec` as a property of the detailed specification.

### `DrainHistory`: what the dates and the overflow bit are worth

Extends `FifoDrain` with history variables, which constrain nothing: `late`, how
many samples were taken between the trigger and the dating of the pending batch
(lines 970-978 take the trigger's time but count what is left after the burst),
`last_late`, the same for the batch of the scan pushed last, and `missed`, whether
the last overflow fell where a register read may hide it. `HSpec` is `Spec` with
them. On top of it are the tools' estimates, `EstimateGap` and `EstimateGapCpp`, fed
with the dates the driver makes and not with ideal ones. The driver counts in
nanoseconds and the model in periods, so the parts of a period that the model
rounds away come back here as a `drift`, in quarters: it is the same for all
dates of a batch and differs between two batches by less than a period. The
module takes the driver's period (line 884) and the one a tool expects for the
chip's, which they are at the frequencies the driver lists. For others the
driver's period is that of a frequency rounded to whole Hz and the chip's is at
most the tool's (`RateContract`), so estimates drift with the time between scans;
no property here says how far.

### `BufferLifecycle`: sessions, triggers and removal

A callback that writes several registers is a *program*, a sequence of sections
of operations that `RunOp` executes one at a time: a failing operation ends
its section, as the early returns of the helpers do. `preenable` is one section
and gives up on an error; `postdisable` and `stop_device` have one section per
helper and go on. `session` is where the IIO core is (off, preenable, attach,
on, detach, free_irq, detached, postdisable), `removal` where `remove` and the
devm release after it are, `pool` how many poll functions each trigger has. The
data path is reduced to the handler taking the lock, possibly recovering the
FIFO, and the direct path that pushes after the unlock.

The IIO core's order of calls is external: a failed preenable is not followed
by postdisable; attaching turns the trigger on when it is its first user;
detaching turns it off first and stops there on an error, after which
postdisable runs all the same; `free_irq` waits for the handler's thread. The
board has an interrupt line, so both triggers exist. One handler thread is
modelled; a poll function that a failed detach leaves behind counts in `pool`
but does not get a thread of its own.

### `TriggerWakeup`: who wakes the driver

The interrupt is edge triggered (`imx6ull-mmc-npi.dts:421`) and nothing looks at
the chip again after a pulse that found the trigger's `use_count` not zero
(the handler still runs) or nobody attached (between preenable's start of the
chip and the attach that follows it). Whether the stream can stop for good
depends on every exit of the drain, so this module keeps the drain's control
and counts frames only. `missed` remembers that since the count was last read a
pulse was lost or a drain gave up with frames left. What the code cannot say is
assumed of the chip: one pulse when the watermark is crossed from below, and
one for each sample that overflows while FIFO_OFLOW_EN is set. A failed
recovery may leave the chip stopped; no property promises anything then.

### `Settings`: sampling frequency and scales, probe and remove

A setting lives in a register (`reg`) and in `icm20602_data` (`data`). A write is
a system call of a thread, step by step: the early look at
`iio_buffer_enabled` (`WriteRaw`), the claim of direct mode (`Claim`), the
register under `data->lock` (`WriteRegister`), then the field (`StoreSetting`).
`buffer/enable` is here a system call as well, which takes the mlock and changes
`enabled`; the details of its callbacks are in `BufferLifecycle`. Probe parses
the device tree, resets the chip, polls for the end of the reset and writes the
registers one by one; a chip still in reset forgets what is written. The tables
and conversions are translated with their integer divisions. What an earlier
session, a failed preenable or a failed stop leaves running is `~quiet`.

### `CaptureSession`: a capture from the outside

Extends `Settings` with the buffer's other attributes (`buf`) and a tool. A
tool's configuration is a program of steps, one attribute each, with how often
it is tried and whether failing is fatal: `Configure` for the C tool,
`ConfigureCpp` for the C++ tool, whose `write_one_of` tries every candidate twice
and then writes the per-type frequency attributes. Writes of settings and
of `buffer/enable` are the system calls of `Settings` (`ToolIssue`, `ToolCall`,
`ToolReturn`); the others are atomic. `ToolDisable` and `ToolExit` are the ways
out, `ToolKilled` SIGKILL, after which `ToolStart` begins the next run on what is
left. Somebody else (`OtherStart`, `OtherCall`) and the driver core (`BindStart`,
`BindStep`) act at any time; `outside` remembers that they changed something, `failed` that a
transfer or an open failed. The capture itself is one step here (`RunEnds`).

### `ReadLoop`, `CaptureReader`, `ReaderCpp`, `Readers`: the read loops

`ReadLoop` has the device (the kfifo, readiness, epoll's ready list, removal), the
signal and the duration. `CaptureReader` is the C loop: `Read`, `FillCarry`,
`ParseFrame`, `ParseEnd` and `ReadAgain` are `drain_reads_until_eagain` with
`process_bytes`, frame by frame because a signal may come between two frames.
`ReaderCpp` is the C++ loop: `CppTimeout` drains when a wait times out,
`CppRead` appends to `staging_`, `CppFrame` cuts a scan off. `Readers` runs either
tool in either mode. A byte is named by its scan and its position, scans by a
number modulo `IdMod` so that pushes need no bound. The kernel's read returns
whole scans; `SplitReads` lets it return any number of bytes, which both parsers
are written for. Decoding and statistics are left out.

### Composition

`CaptureSession` composes a tool, the settings, the lifecycle's outside and the
binding of the driver; `Readers` composes both loops with one device;
`FifoDrain` composes handler, flush, chip and kfifo; `DrainHistory` adds the tool's
view of the dates. `SessionProofs` shows that a
session implements `Settings`; that the data path implements `LossyStream` is
checked with `MCFifoDrain` and proved in `StreamProofs`.

## Runs

| Run | Expect | What it shows |
|---|---|---|
| `drain_own_read` | pass | popped frames are kept, dates are not in the future, overflows are seen, a successful flush has emptied what it found |
| `drain_any_read` | pass | with INT_RD_CLEAR, as the driver sets it: the drain implements `LossyStream`; no sound FIFO is thrown away; an overflow goes unreported only between a check and the `get_count` after its burst, or before `fifo_flush`'s own `get_count`; losses estimated from the dates are right within a batch, and between batches but for the samples taken between trigger and dating |
| `drain_faults` | pass | with a failing transfer anywhere retained frames are pushed once, in order, and in the end |
| `drain_lost_batch` | violation | the second `get_count` fails: the popped batch is lost |
| `drain_rd_clear` | violation | INT_RD_CLEAR: `get_count` clears the overflow bit of an overflow after the check |
| `drain_failed_recovery` | violation | a recovery that fails half way is never repeated |
| `life` | pass | routing, thresholds and flags over sessions, triggers, removal and two failing transfers; disabling and removal complete |
| `life_reset_running` | violation | a failed preenable leaves the FIFO enabled for the next one's reset |
| `wakeup` | pass | a FIFO at the watermark is attended to unless a pulse was lost or a drain gave up, and then an overflow gets the stream going again |
| `session` | pass | settings agree and stay fixed in a session, probe erases the past, rates keep their contract; the tools capture as asked, exit with the buffer off, start afresh after a kill, and never wait for ever |
| `reader_optional` | violation | `--strict-optional-sysfs` makes failures warnings instead of fatal |
| `readers` | pass | lines are scans in order however reads split them; the frame limit holds; poll and edge-triggered epoll leave nothing readable unread; the C++ tool reads what is below the watermark and notices a removal; stopping stops |

What each property says and which code it is about stands above its definition.
`OverflowReported` is stated for an INT_STATUS that only its own read clears, which
the comment at line 472 takes for granted and the driver's own INT_RD_CLEAR (2006)
does not give: under that setting `drain_rd_clear` violates it. What does hold
there, and for either reading, is `OverflowsMissed`. `NotFromTheFuture` is exact to a
period, as polls are. Others are conditional for a reason the code gives. `CapturesAsAsked`,
`ExitLeavesBufferOff` and `FreshStartSucceeds` say nothing once somebody else has
changed an attribute while the tool configures, or turned the buffer off while
it runs: no lock spans the tool's writes. `FreshStartSucceeds` is about the C
tool only: the C++ tool writes `buffer/watermark` before `buffer/length`, and on a
fresh device (length 2) its default watermark of 16 is refused.

**Bounds.** The FIFO holds 3 frames against batches of 2 and a watermark of 2,
so there are full and partial batches, frames left below the watermark, several
turns of the loop, flushes of more than one batch and overflows at every point.
The kfifo holds
1 or 2 scans, less than a FIFO, so a batch is cut in the middle. Six samples
are a full FIFO, an overflow of it and a second filling; one flush meets every
state of the handler. One failing transfer falls at each of the transactions in
turn. For `DrainHistory` six samples also make a batch with samples that come while
it is read, a second batch with losses before it, and an overflow at each of the
steps that `missed` tells apart. The lifecycle needs no bound but the number of failing transfers: two, so
that one may fail while an earlier failure's traces are still there; the two
watermarks are the default and the largest, which needs both threshold bytes.
In `wakeup` a FIFO of 5 against batches of 3, a watermark of 2 and 2 turns of
the loop lets the drain end in every way; the kfifo of 4 is smaller than what a
handler call can push. The readers' scans have 3 bytes and a read returns 1 to 7
of them, so scans are split between reads at every place and several come in
one; the kfifo holds more than a full read, so that a drain must read again, and
its watermark of 2 leaves a scan below it. In `session` there are two runs, so
that the second starts on what any end of the first left, and besides the first
binding one outside event, a system call of somebody else, a new binding or a
failing transfer, at any moment of either run; opens may fail and kills may come
in addition. (The safety properties were also checked with two outside events,
`MaxEvents = 2`, 9.5 million states, which takes longer than the run should.) Its command lines differ in every attribute: the
defaults, one whose values the driver must round and clamp (501 Hz, watermark
100), one whose buffer is shorter than its watermark, one that is refused. The
device tree has a value of its own, a default and one the driver does not know.
A reset is polled twice instead of 20 times. The proofs have none of these
bounds.

**Fairness.** `drain_faults` assumes that the threads run on, that an external
trigger keeps firing and that somebody reads the kfifo. `life` assumes that
callbacks and the handler run on and that whoever waits for `data->lock` gets it
in the end, which the kernel's mutex provides by handing over to its oldest
waiter; nothing is assumed of users. `wakeup` assumes that the chip samples,
the reader reads and the handler's thread runs; nothing of when. `session`
assumes the same of the mutexes (strong fairness of `ToolStep`) and that system
calls and the binding go on. `readers` assumes that the tool runs on and that a
wait ends: both tools give every wait a timeout (`timeout_ms_for_duration`;
`--timeout-ms` must not be negative); the driver may push for ever or never.

## Proofs

`FifoDrainProofs` proves, for every FIFO, batch, kfifo and watermark size and
any number of samples, flushes and failing transfers (assumption:
`ConstantsAssumption`, that these are positive numbers and the watermark fits
the FIFO):

- `TypeCorrect`: every variable keeps its type; with it, that the kfifo is never
  overfilled;
- `PendingFramesKept`: retained frames are pushed from the first one on, each
  exactly once, whatever fails.

The inductive invariant is `TypeOK /\ LockHeld /\ BatchInv /\ OffInv`. Types
alone are not inductive: that `burst[i + 1]` is a frame needs `BatchInv` (the
loop index is below `pending_frames`, which is at most the length of the burst;
a counted batch is still in the FIFO when it is read; nothing is pending while
the loop reads the chip). `PendingFramesKept` needs that nobody reads the
chip into the burst buffer while frames are pending (`BatchInv`) and that a
direct read only happens with none pending (`OffInv`: with `fifo_enabled` off,
as a recovery that failed half way leaves it, nothing is pending). The proof
takes each part of the invariant through each action, then combines them in
`NextIInv`; `AlwaysIInv` is the temporal step the theorems rest on.

`StreamProofs` and `DeliveryProofs` build on that invariant. For the same
constants `StreamProofs` shows:

- `ScansInOrder`: `InOrder`, with any failing transfers. The invariant
  `OrderInv` orders all that is on its way: scans in the FIFO (`FifoOrder`),
  those held in the burst buffer before them (`HeldOrder`), and the last one
  pushed before both (`LastOrder`);
- `PoppedFramesKept` (assuming `MaxFaults = 0`): `PoppedKept`. With failing
  transfers it is false, as the run `drain_lost_batch` shows;
- `StreamImplemented` (assuming `MaxFaults = 0` and `ClearedBy = "any_read"`):
  `ImplementsStream`, the refinement of `LossyStream`. The abstract queue is what
  is held in the burst buffer followed by the FIFO. A step that enters a scan,
  pushes one, loses some to an overflow or throws the FIFO away in a recovery is
  the abstract step of that name, all others stutter. `StreamInv` says that the
  FIFO runs except inside a recovery, and that an overflow that is reported has
  torn the frames;
- `RecoveriesNeeded` (`ClearedBy = "any_read"`): `RecoveryIsNeeded`;
- `OverflowsMissedThere` (assuming `MaxFaults = 0`, for either `ClearedBy`):
  `OverflowsMissed`. `MissedInv` says where an overflow that is still to be dealt
  with is remembered: torn frames are reported, about to be repaired, already
  being repaired, or `missed` says that they fell into one of the two gaps. The
  proof goes through every read of a register, each of which may clear the bit.
  `OverflowReported`, without gaps, is only model-checked: it is about a chip set up
  otherwise than the driver does.

`DeliveryProofs` shows:

- `NeverFromTheFuture` (assuming `MaxFaults = 0`): `NotFromTheFuture`. In
  `DateInv` scans in the FIFO are numbered without a gap up to the clock
  (`FifoDates`), so the frames counted after a batch make up for the time
  since the trigger (`BatchDates`) and pending frames keep a base that is early
  enough (`PendingDates`);
- `LossesBounded` (assuming `MaxFaults = 0`): `LossesEstimated`, for every size.
  `LateInv` gives each batch's dates from below as `DateInv` does from above: a
  scan of the pending batch is dated at most `late` periods before it was taken
  (`PendingLate`), the last one pushed at most `last_late` (`LastLate`), and the dates
  within a batch are a period apart like its scans (`Midway`). So two dates differ
  from their samples by at most those two, and `EstimateBounds` turns that into
  the tools' rounded counts;
- `FlushAlwaysDelivers`: `FlushDelivers`, with any failing transfers. `FlushInv`
  bounds how many of the scans that were there when the flush began are left by
  what the turns still to come can read: the bound falls by a batch each turn.

`WakeupProofs` proves of `TriggerWakeup`, for every FIFO, batch, kfifo, number of
turns and watermark (`WakeupAssumption`: positive numbers):

- `WakeupTypeCorrect`: `TypeOK`; `AttendedAlways`: `Attended`.

The invariant is `TypeFlags /\ TypeInv /\ DrainInv /\ SessionInv /\ MissedInv`.
`Attended` speaks of an idle handler; `MissedInv` adds the steps before: wherever
the handler is about to leave the FIFO alone, or has done so, a count at the
watermark means that a pulse found the handler busy with its last look behind it
or that a drain gave up. `DrainInv` says that the loop reads the chip with
nothing pending and never more than is there.

`ReadersProofs` proves of `Readers`, for scans, reads and kfifos of any size, any
limit, either tool and either way to wait (`ReaderAssumption`):

- `FrameLimitKept`: `FrameLimit`. The C tool tests the limit after a frame and
  only remembers it in `g_stop`: `CInv` says that it never processes frames
  without looking at `g_stop` once the limit is reached; the C++ tool tests it
  before each frame (`CppInv`);
- `ReadersTypeCorrect`: `TypeOK`; `NothingIsForgotten`: `NothingForgotten`;
  `LinesInOrder`: the action property `LinesAreScans`.

The last three rest on `TypeInv /\ CarryInv /\ StagingInv /\ StreamInv`.
`StreamInv` is the idea: the carry, the rest of the last read and the kfifo, one
behind the other (`UnderWay`), are the scans after the last line up to the last
one pushed, byte by byte, unless a C tool that stops has forgotten the rest of a
read (`Forgets`). It holds wherever a read cuts a scan, but only if the two
parsers put their leftovers where the next read continues them: `CarryInv` says
that the C tool carries less than a scan and never parses a full carry while a
read is left behind it, `StagingInv` that the C++ tool leaves no whole scan in
`staging_` while it goes on. The lemmas in front of it are about scans as bytes:
`ScanNamed`, that a scan's first byte names it, is what makes a line that is cut
off the front the next scan and not only some scan.

`LifecycleProofs` proves of `BufferLifecycle`, for any number of failing register
operations (`LifecycleAssumption`):

- `LifecycleTypeCorrect`: `TypeOK`; `StrayIrqsIgnored`: `StrayIrqIgnored`;
  `HandlersStopped`: `HandlerStopped`;
- `ChipQuiet`: `QuietWhenOff`; `TriggersRouted`: `TriggerRouting`;
  `WatermarkKept`: `WatermarkProgrammed`; `ResetsClean`: `CleanResets`, the
  reset's condition `ResetWhileStopped` as long as no transfer has failed; the run
  `life_reset_running` shows that a failing one breaks it.

The invariant has four layers. `LifeInv` is about who does what: `LockInv` says
who holds `data->lock` and that programs are run under it only, `StopInv` that
`stop_device`'s program never starts the FIFO. Hence nothing can start it without
a session, though `remove` runs its program at any time (`OffInv`). `PoolInv` says
that a trigger never has more poll functions than the session's own and one for
each failure, and that, while nothing has failed, the handler's thread does not
outlive `free_irq`. The registers need to know how far a program has come, and the
other layers say so in three ways. `QuietInv` looks ahead: a register that is not
yet off while the device is being stopped has an operation left that turns it
off (`Holds`); nothing failed, so a program that is over has left the chip quiet,
and a FIFO that is marked as off is off (`StillInv`). `RouteInv` looks back:
`Rest(f, k, p)` says that all but the first `k` operations of `f` are still to be
executed, and `DirectAt`, `WatermarkAt`, `ExternalAt` and `RecoverAt` what the first
`k` have done; what holds at the end of preenable (`Routed`) is then kept by the
session, in which only a recovery touches the chip. `TidyInv` is about the order of
what is left: nothing that stops the FIFO comes after a reset.

`SettingsProofs` proves, for any number of threads, any requests, any device
trees and any number of failing transfers (`SettingsAssumption`: requests are a
setting and an integer, device trees have natural numbers, no thread is called
"free"):

- `SettingsTypeCorrect`: types, with them that dividers fit their register;
- `RegistersAgree`: `SettingsAgree`; `ProbeErases`: `ProbeErasesThePast`;
- `SessionPeriodFixed`: `PeriodFixed`;
- `RateContractHolds`: `RateContract`, for every integer asked for.

The invariant is `IInv == SettingsTypeOK /\ LockInv /\ CallInv /\ ProbeInv /\
AgreeInv /\ RateInv`. `SettingsAgree` alone is not inductive: while a thread is
between register and field the two differ, so `AgreeInv` says that they differ
at most in what some thread is about to store, `CallInv` that the register then
holds exactly what it will store, and `LockInv` that it is one thread. `CallInv`
also says that whoever is past `Claim` finds the buffer off, which is why nobody
can start a session under it, and gives `PeriodFixed`. `ProbeInv` follows the
registers through the probe and says that nobody is in a system call of an
unregistered device; it gives `ProbeErases`. `RateInv` says that each divider
comes back from the rate it makes: 1000 divided by 1000 divided by n is not n, but
the third division changes nothing any more (`QuotientSettles`,
`RateOfDivider`).

`SessionProofs` proves of `CaptureSession`, for any tools, command lines and
bounds:

- `SessionImplementsSettings`: every step of a session is a step of `Settings` or
  leaves its variables alone; hence `SessionKeepsSettings`: all of the above
  holds in every session;
- `ExitsOff`: `ExitLeavesBufferOff`. Its invariant adds to `IInv` where the tool
  is in its own system call (`ToolInv`), and that from the call that turns
  the buffer off to the exit it stays off unless somebody else acts (`OffInv`);
- `SessionTypeCorrect`: `TypeOK`;
- `SessionCaptures`: `CapturesAsAsked`; `FreshStarts`: `FreshStartSucceeds`.

`SessionAssumption` says what the code does of the constants and no more: the
tools are the C tool and the C++ tool with and without
`--strict-optional-sysfs`, options are any integers, as the tools' own
checks come later (`ArgsAccepted`), and none or one of the driver's two triggers,
the only ones the model has, and somebody else writes to an attribute a value of
its kind. Command lines need neither be satisfiable nor be accepted.

`CapturesAsAsked` speaks of the capture, after the last step; nothing in it says
how the tool came there. The inductive invariant `SessionInvs` therefore follows
the program, step by step. `PlaceInv` says where the tool is in it and that a step
still has a try left. `DoneInv` says for each step what the steps before it have
set, in the order of either tool (`DoneC`, `DoneCpp`). A setting and
`buffer/enable` are not set in one step but in a system call of `Settings`, among
those of others: `OwnInv` says where the tool's own call is, and, when it is over
and has returned OK, that what it was to set is set. That nobody undid it needs
`SeenInv`: while `outside` is false a system call of somebody else has not got past
its claim of direct mode, and once the buffer is on it never will
(`RunUndisturbed`). `FreshInv` gives `FreshStartSucceeds`: the first step has
turned the buffer off and it stays off until the tool turns it on, so no store is
refused with EBUSY, the claim in `write_raw` is granted and the buffer's watermark
is at most the length written before it. `StepsOfC` and `StepsOfCpp` work out from
the definitions of `Configure` and `ConfigureCpp` which step comes where, for every
command line.

Only model-checked is what is outside TLAPS's reach: liveness (`PendingDelivered`,
`SessionEnds`, `RemovalCompletes`, `DrainedAgain`, `ToolSettles`, `ReadableIsRead`,
`LatencyBounded`, `RemovalNoticed`, `StopEndsLoop`), which needs the fairness of
the specifications and their ENABLED.

## What the runs found

Five places where the code does not do what its comments or its help say are in
`PROJECT.json` under `findings`, each with its run: the lost batch (956), the
overflow bit cleared by an unrelated read (2006), the failed recovery (535),
the reset of a running FIFO after a failed preenable (1637), and the C++ tool's
`--strict-optional-sysfs` that does the opposite (334). The lost batch, the failed
recovery and the reset need a failing SPI transfer; the cleared bit needs only an
overflow between the check and the next register read; the last a refused
attribute.

Also seen, without a run of its own:

- The drain dates a batch from the trigger's time (970) but counts what is left in
  the FIFO after the burst, samples that came since the trigger included, so the
  batch is dated too early by as many periods. The comment at 964-967 leaves this
  out, and the tools then count losses that were none (`estimated drops`) between
  that batch and the next: `LossesEstimated` bounds how many.
- A write that fails in postdisable (1665) may leave the overflow interrupt on, and
  a session with an external trigger does not clear it (1611-1635). Nothing is
  polled for it: both flags are 0.
- `fifo_flush` returns success when the chip's FIFO is empty although frames are
  still retained from an earlier round (1342-1343 come before the drain).
- On a fresh device the C++ tool fails with its defaults, because it writes
  `buffer/watermark` before `buffer/length`; and a length that is shorter than
  the watermark written before cuts it without a word.
- The C tool drains only after an event, so it may never read scans that stay
  below the buffer's watermark nor notice that the driver was removed, unless
  `--duration` ends it; the C++ tool drains on every timeout.
- A second tool started while one captures turns the first one's buffer off
  in its configuration, before its open fails with EBUSY.
- With a frequency the driver rounds (501 Hz gives 1000 Hz) the tools compare
  timestamps with the period they asked for, so single losses stay unseen.
- `--no-config` of the C++ tool still writes 0 to `buffer/enable` when it exits,
  though its help says "skip sysfs configuration and only read chardev"
  (`iio_icm20602_reader.cpp:792`).
- The first capture tool refuses `-d 0`, which its own usage shows
  (`icm20602_iio_capture.c:1010`); the fixed one has `parse_int_nonnegative` for it.
- The driver takes the chip's FIFO to hold 1024 bytes.

## Not modelled

- `read_raw`'s reads of single channels, the decoding of scans, CSV and summary:
  data without control of its own.
- `--no-config`: the tool without its configuration is the read loop of `Readers`.
- `icm20602_iio_capture.c`: the earlier version of the tool that is modelled.
- `RefCode.c`: an earlier driver, not built. `APP.c`, `pthreadAPP.c`: key input
  demos that do not touch the sensor. `test_icm20602_fifo_50hz.sh`: a manual test
  on the board. Device tree and build files: data; what the driver parses of the
  tree is in `Settings`.
- Shapes of time beyond order: bus delays, jitter, the drift between chip and
  host clock.

## Where it could go on

An abstract specification of a capture, a queue of scans that a tool copies line
by line, with `Readers` shown to implement it as `FifoDrain` implements
`LossyStream`; the lifecycle's callbacks composed with the session.
