------------------------------ MODULE FifoDrain ------------------------------
(***************************************************************************)
(* The FIFO data path of ICM20602.c while the IIO buffer is enabled: the   *)
(* chip writes one frame per sampling period into its FIFO, the trigger    *)
(* handler and the fifo_flush attribute drain it under data->lock, and a   *)
(* reader empties the kfifo.  One action is one SPI transaction, one push  *)
(* or one lock operation, so samples, polls and reads fall between any two *)
(* of them.  Samples are numbered and time is counted in sampling periods: *)
(* sample n is taken at time n.                                            *)
(*                                                                         *)
(* The FIFO is counted in whole frames.  In stream mode an overflow drops  *)
(* the oldest BYTES, and 1024 is not a multiple of the 14-byte frame, so   *)
(* after an overflow every frame read is torn (the tail of one sample and  *)
(* the head of the next) until the FIFO is reset: chip state align.        *)
(* A torn frame carries the number of the newer of its two samples.        *)
(* Register bits and C's bools are 0 or 1.                                 *)
(***************************************************************************)
EXTENDS Integers, Sequences, FiniteSets

CONSTANTS
    FifoFrames,      \* frames the FIFO holds (ICM20602_FIFO_WATERMARK_MAX, 73)
    DrainMax,        \* ICM20602_FIFO_DRAIN_MAX_FRAMES, 64
    Watermark,       \* data->fifo_watermark, fixed while the buffer is enabled
    KfifoLen,        \* length of the IIO kfifo
    ClearedBy,       \* what clears INT_STATUS: "any_read" of a register (INT_RD_CLEAR,
                     \* set at line 2006), or "own_read" (comment at line 472)
    MaxSamples,      \* bound: samples taken
    MaxFlushes,      \* bound: writes to fifo_flush
    MaxFaults        \* bound: SPI transactions that fail

ASSUME ConstantsAssumption ==
    /\ FifoFrames \in Nat \ {0}
    /\ DrainMax \in Nat \ {0}
    /\ Watermark \in 1 .. FifoFrames
    /\ KfifoLen \in Nat \ {0}
    /\ ClearedBy \in {"any_read", "own_read"}
    /\ MaxSamples \in Nat
    /\ MaxFlushes \in Nat
    /\ MaxFaults \in Nat

VARIABLES
    clock,           \* number of the last sample taken, and the time
    fifo,            \* numbers of the frames in the chip FIFO, oldest first
    align,           \* "torn" if the FIFO overflowed since it was last reset, else "whole"
    oflow,           \* FIFO_OFLOW_INT in INT_STATUS
    fifo_en,         \* FIFO_EN: accel and gyro go to the FIFO
    user_fifo_en,    \* USER_CTRL.FIFO_EN
    lock,            \* holder of data->lock
    handler,         \* the trigger's threaded handler; not "idle": use_count # 0
    pf_ts,           \* pf->timestamp
    pc,              \* where the holder of the lock is
    burst,           \* data->fifo_burst_buf
    pending_frames, pending_pos, pending_base_ts,
    fifo_enabled,    \* data->fifo_enabled
    i,               \* push_pending's loop index
    ts,              \* drain's timestamp argument
    loops, drain_frames, frames_after,     \* drain's locals
    step,            \* next register operation of fifo_recover
    ret,             \* what drain or flush_store returns: "ok" (0) or "error"
    flush_loops, flush_frames, flush_from, \* flush_store's locals, and the time it began
    kfifo,           \* scans in the kfifo
    last,            \* the scan pushed last
    frame,           \* the direct path's frame, between unlock and push
    flushes, faults  \* counted against MaxFlushes and MaxFaults

chip == <<clock, fifo, align, oflow, fifo_en, user_fifo_en>>
pending == <<pending_frames, pending_pos, pending_base_ts>>
locals == <<ts, loops, drain_frames, frames_after, step>>
flushing == <<flush_loops, flush_frames, flush_from>>
reader == <<kfifo, last>>
vars == <<chip, lock, handler, pf_ts, pc, burst, pending, fifo_enabled, i,
          locals, ret, flushing, reader, frame, flushes, faults>>

FlushMaxLoops == (FifoFrames + DrainMax - 1) \div DrainMax + 2

\* The eight register operations of fifo_recover: fifo_disable, fifo_enable.
RecoverSteps == 8

Init ==
    /\ clock = 0 /\ fifo = <<>> /\ align = "whole" /\ oflow = 0
    /\ fifo_en = 1 /\ user_fifo_en = 1
    /\ lock = "free" /\ handler = "idle" /\ pf_ts = 0 /\ pc = "out"
    /\ burst = <<>>
    /\ pending_frames = 0 /\ pending_pos = 0 /\ pending_base_ts = 0
    /\ fifo_enabled = 1
    /\ i = 0 /\ ts = 0 /\ loops = 0 /\ drain_frames = 0 /\ frames_after = 0
    /\ step = 1 /\ ret = "ok"
    /\ flush_loops = 0 /\ flush_frames = 0 /\ flush_from = 0
    /\ kfifo = 0 /\ last = [id |-> 0, ts |-> 0, kind |-> "whole"]
    /\ frame = 0
    /\ flushes = 0 /\ faults = 0

-----------------------------------------------------------------------------
(* The chip, the trigger and the reader.                                   *)

Running == fifo_en = 1 /\ user_fifo_en = 1

\* A sample is taken; it enters the FIFO while both enables are set, and
\* pushes the oldest data out of a full one.
Sample ==
    /\ clock < MaxSamples
    /\ clock' = clock + 1
    /\ \/ /\ Running /\ Len(fifo) < FifoFrames
          /\ fifo' = Append(fifo, clock + 1)
          /\ UNCHANGED <<align, oflow>>
       \/ /\ Running /\ Len(fifo) = FifoFrames
          /\ fifo' = Append(Tail(fifo), clock + 1)
          /\ align' = "torn" /\ oflow' = 1
       \/ /\ ~Running
          /\ UNCHANGED <<fifo, align, oflow>>
    /\ UNCHANGED <<fifo_en, user_fifo_en, lock, handler, pf_ts, pc, burst, pending,
                   fifo_enabled, i, locals, ret, flushing, reader, frame, flushes, faults>>

\* iio_trigger_poll: the top half stores the time and wakes the handler; a
\* poll that comes while use_count # 0 is dropped.
Poll ==
    /\ handler = "idle"
    /\ handler' = "woken" /\ pf_ts' = clock
    /\ UNCHANGED <<chip, lock, pc, burst, pending, fifo_enabled, i, locals, ret,
                   flushing, reader, frame, flushes, faults>>

\* The reader takes a scan out of the kfifo.
UserRead ==
    /\ kfifo > 0
    /\ kfifo' = kfifo - 1
    /\ UNCHANGED <<chip, lock, handler, pf_ts, pc, burst, pending, fifo_enabled, i,
                   locals, ret, flushing, last, frame, flushes, faults>>

-----------------------------------------------------------------------------
(* Building blocks.                                                        *)

\* An SPI read that reaches the chip clears INT_STATUS when any read does.
ReadClears == oflow' = IF ClearedBy = "any_read" THEN 0 ELSE oflow

\* What no step of fifo_drain touches.
OutsideDrain == <<lock, handler, pf_ts, flushing, frame, flushes>>

\* The drain in progress returns to its caller.
Return(r) == pc' = "return" /\ ret' = r

\* A transaction fails before it reaches the chip: the caller gets the error.
Fault ==
    /\ faults < MaxFaults
    /\ faults' = faults + 1
    /\ Return("error")
    /\ UNCHANGED <<chip, pending, fifo_enabled, burst, i, locals, reader, OutsideDrain>>

\* fifo_clear_pending
ClearPending == pending_frames' = 0 /\ pending_pos' = 0 /\ pending_base_ts' = 0

-----------------------------------------------------------------------------
(* icm20602_fifo_drain, one action per transaction or push.                *)

\* Mutant: fifo_flush drains like the handler, down to the watermark only.
Forced_Never == FALSE

Forced == lock = "flush"

\* Mutant: the retained frames are not pushed first (tests at lines 894 to 901 gone).
EnterDrain_Overwrites(t) ==
    /\ ts' = t /\ loops' = 0 /\ pc' = "check"
    /\ UNCHANGED <<i, drain_frames, frames_after, step>>

\* Mutant: drain only refuses to run while frames are retained (line 900 alone).
EnterDrain_Busy(t) ==
    /\ ts' = t /\ loops' = 0
    /\ pc' = IF pending_frames > 0 THEN "return" ELSE "check"
    /\ UNCHANGED <<i, drain_frames, frames_after, step>>

\* Entry: what an earlier round left pending is pushed before anything is read.
EnterDrain(t) ==
    /\ ts' = t /\ loops' = 0
    /\ pc' = IF pending_frames > 0 THEN "push_old" ELSE "check"
    /\ i' = IF pending_frames > 0 THEN pending_pos ELSE i
    /\ UNCHANGED <<drain_frames, frames_after, step>>

Pushing == pc \in {"push_old", "push"}

\* One turn of push_pending's loop: the scan fits into the kfifo.
PushFrame ==
    /\ Pushing /\ i < pending_frames /\ kfifo < KfifoLen
    /\ kfifo' = kfifo + 1
    /\ last' = [id |-> burst[i + 1].id, kind |-> burst[i + 1].kind,
                ts |-> pending_base_ts + i]
    /\ i' = i + 1
    /\ UNCHANGED <<chip, pc, burst, pending, fifo_enabled, locals, ret, faults, OutsideDrain>>

\* The kfifo is full: the frames from p on stay pending and drain returns.
Keep(p) ==
    /\ Pushing /\ i < pending_frames /\ kfifo = KfifoLen
    /\ pending_pos' = p
    /\ Return("error")
    /\ UNCHANGED <<chip, pending_frames, pending_base_ts, burst, fifo_enabled, i,
                   locals, reader, faults, OutsideDrain>>

\* Mutants: the frame that did not fit is skipped; the batch is pushed again
\* from its start; the position is one too low.
PushFull_Skips == Keep(i + 1)
PushFull_Restarts == Keep(0)
PushFull_StepsBack == Keep(i - 1)

PushFull == Keep(i)

\* Mutant: fifo_clear_pending is forgotten after a batch.
PushDone_KeepsPending ==
    /\ Pushing /\ i >= pending_frames
    /\ pc' = IF pc = "push_old" THEN "check" ELSE "loop"
    /\ UNCHANGED <<chip, pending, burst, fifo_enabled, i, locals, ret, reader, faults,
                   OutsideDrain>>

\* Everything is pushed: back to the loop, or on to its exit tests.
PushDone ==
    /\ Pushing /\ i >= pending_frames
    /\ ClearPending
    /\ pc' = IF pc = "push_old" THEN "check" ELSE "loop"
    /\ UNCHANGED <<chip, burst, fifo_enabled, i, locals, ret, reader, faults, OutsideDrain>>

\* fifo_check_overflow: reading INT_STATUS clears it.
CheckFor(overflow) ==
    /\ pc = "check"
    /\ \/ /\ loops' = loops + 1
          /\ pc' = IF overflow THEN "recover" ELSE "count"
          /\ step' = 1 /\ oflow' = 0
          /\ UNCHANGED <<clock, fifo, align, fifo_en, user_fifo_en, pending, burst,
                         fifo_enabled, i, ts, drain_frames, frames_after, ret, reader,
                         faults, OutsideDrain>>
       \/ Fault

\* Mutant: a full FIFO is taken for one that overflowed.
CheckOverflow_Full == CheckFor(oflow = 1 \/ Len(fifo) = FifoFrames)

CheckOverflow == CheckFor(oflow = 1)

\* fifo_recover: fifo_disable (steps 1 to 3), then fifo_enable (4 to 8); an
\* error at any step returns at once.  drain then returns 0.
RecoverWith(resets) ==
    /\ pc = "recover"
    /\ \/ /\ fifo_en' = CASE step \in {1, 4} -> 0 [] step = 8 -> 1 [] OTHER -> fifo_en
          /\ user_fifo_en' = CASE step \in {2, 5} -> 0 [] step = 7 -> 1 [] OTHER -> user_fifo_en
          /\ fifo' = IF step \in resets THEN <<>> ELSE fifo
          /\ align' = IF step \in resets THEN "whole" ELSE align
          /\ fifo_enabled' = CASE step = 3 -> 0 [] step = 8 -> 1 [] OTHER -> fifo_enabled
          /\ ReadClears
          /\ \/ /\ step < RecoverSteps
                /\ step' = step + 1
                /\ UNCHANGED <<pc, ret, pending>>
             \/ /\ step = RecoverSteps
                /\ ClearPending /\ Return("ok")
                /\ UNCHANGED step
          /\ UNCHANGED <<clock, burst, i, ts, loops, drain_frames, frames_after, reader,
                         faults, OutsideDrain>>
       \/ Fault

\* Mutant: the FIFO is switched off and on without a reset.
Recover_NoReset == RecoverWith({})

Recover == RecoverWith({3, 6})

Min2(a, b) == IF a < b THEN a ELSE b

\* get_count and the exits on an empty FIFO or, unless forced, on one below
\* the watermark.
Count ==
    /\ pc = "count"
    /\ \/ /\ ReadClears
          /\ \/ /\ Len(fifo) = 0 \/ (~Forced /\ Len(fifo) < Watermark)
                /\ Return("ok")
                /\ UNCHANGED drain_frames
             \/ /\ Len(fifo) > 0 /\ (Forced \/ Len(fifo) >= Watermark)
                /\ drain_frames' = Min2(Len(fifo), DrainMax)
                /\ pc' = "read"
                /\ UNCHANGED ret
          /\ UNCHANGED <<clock, fifo, align, fifo_en, user_fifo_en, pending, burst,
                         fifo_enabled, i, ts, loops, frames_after, step, reader, faults,
                         OutsideDrain>>
       \/ Fault

\* read_frames: one burst pops drain_frames frames.
ReadFrames ==
    /\ pc = "read"
    /\ \/ /\ burst' = [k \in 1 .. drain_frames |-> [id |-> fifo[k], kind |-> align]]
          /\ fifo' = SubSeq(fifo, drain_frames + 1, Len(fifo))
          /\ ReadClears
          /\ pc' = "count_after"
          /\ UNCHANGED <<clock, align, fifo_en, user_fifo_en, pending, fifo_enabled,
                         i, locals, ret, reader, faults, OutsideDrain>>
       \/ Fault

\* The second get_count dates the batch, which then becomes pending.
CountAfterWith(newest_ts) ==
    /\ pc = "count_after"
    /\ \/ /\ ReadClears
          /\ frames_after' = Len(fifo)
          /\ pending_base_ts' = newest_ts - (drain_frames - 1)
          /\ pending_frames' = drain_frames /\ pending_pos' = 0
          /\ i' = 0 /\ pc' = "push"
          /\ UNCHANGED <<clock, fifo, align, fifo_en, user_fifo_en, burst,
                         fifo_enabled, ts, loops, drain_frames, step, ret, reader, faults,
                         OutsideDrain>>
       \/ Fault

\* Mutant: the newest frame of the batch is dated with the trigger's time.
CountAfter_TriggerTime == CountAfterWith(ts)

CountAfter == CountAfterWith(ts - Len(fifo))

\* The exit tests at the bottom of the loop.
LoopEnd ==
    /\ pc = "loop"
    /\ \/ /\ \/ ~Forced /\ frames_after < Watermark
             \/ Forced /\ frames_after = 0
             \/ loops >= FlushMaxLoops
          /\ Return("ok")
       \/ /\ Forced \/ frames_after >= Watermark
          /\ ~Forced \/ frames_after # 0
          /\ loops < FlushMaxLoops
          /\ pc' = "check"
          /\ UNCHANGED ret
    /\ UNCHANGED <<chip, burst, pending, fifo_enabled, i, locals, reader, faults, OutsideDrain>>

-----------------------------------------------------------------------------
(* icm20602_trigger_handler                                                *)

HandlerEnter ==
    /\ handler = "woken"
    /\ lock' = "handler" /\ handler' = "running"
    /\ \/ fifo_enabled = 1 /\ EnterDrain(pf_ts)
       \/ /\ fifo_enabled = 0
          /\ pc' = "direct"
          /\ UNCHANGED <<i, locals>>
    /\ UNCHANGED <<chip, pf_ts, burst, pending, fifo_enabled, ret, flushing, reader, frame,
                   flushes, faults>>

HandlerLock == lock = "free" /\ HandlerEnter

\* The direct path reads the data registers under the lock ...
DirectRead ==
    /\ pc = "direct"
    /\ \/ /\ frame' = clock /\ ReadClears
          /\ lock' = "free" /\ pc' = "out" /\ handler' = "direct"
          /\ UNCHANGED <<clock, fifo, align, fifo_en, user_fifo_en, pf_ts, burst,
                         pending, fifo_enabled, i, locals, ret, flushing, reader, flushes,
                         faults>>
       \/ Fault

\* ... and pushes after it has released it; a full kfifo drops the scan.
DirectPush ==
    /\ handler = "direct"
    /\ handler' = "done"
    /\ \/ /\ kfifo < KfifoLen
          /\ kfifo' = kfifo + 1
          /\ last' = [id |-> frame, ts |-> pf_ts, kind |-> "whole"]
       \/ kfifo = KfifoLen /\ UNCHANGED reader
    /\ UNCHANGED <<chip, lock, pf_ts, pc, burst, pending, fifo_enabled, i, locals, ret,
                   flushing, frame, flushes, faults>>

HandlerUnlock ==
    /\ pc = "return" /\ lock = "handler"
    /\ lock' = "free" /\ pc' = "out" /\ handler' = "done"
    /\ UNCHANGED <<chip, pf_ts, burst, pending, fifo_enabled, i, locals, ret, flushing,
                   reader, frame, flushes, faults>>

\* iio_trigger_notify_done
NotifyDone ==
    /\ handler = "done"
    /\ handler' = "idle"
    /\ UNCHANGED <<chip, lock, pf_ts, pc, burst, pending, fifo_enabled, i, locals, ret,
                   flushing, reader, frame, flushes, faults>>

-----------------------------------------------------------------------------
(* icm20602_fifo_flush_store                                               *)

\* With the FIFO off it returns -EINVAL and leaves everything as it was.
FlushLock ==
    /\ lock = "free" /\ fifo_enabled = 1
    /\ flushes < MaxFlushes
    /\ flushes' = flushes + 1
    /\ lock' = "flush" /\ pc' = "flush_count"
    /\ flush_loops' = 0 /\ flush_frames' = 0 /\ flush_from' = clock
    /\ UNCHANGED <<chip, handler, pf_ts, burst, pending, fifo_enabled, i, locals, ret,
                   reader, frame, faults>>

\* get_count; an empty FIFO ends the flush, anything else is drained as of now.
FlushCount ==
    /\ pc = "flush_count"
    /\ \/ /\ ReadClears
          /\ flush_loops' = flush_loops + 1
          /\ flush_frames' = Len(fifo)
          /\ \/ /\ Len(fifo) = 0
                /\ pc' = "unlock" /\ ret' = "ok"
                /\ UNCHANGED <<i, locals>>
             \/ /\ Len(fifo) > 0
                /\ EnterDrain(clock)
                /\ UNCHANGED ret
          /\ UNCHANGED <<clock, fifo, align, fifo_en, user_fifo_en, lock, handler,
                         pf_ts, burst, pending, fifo_enabled, flush_from, reader, frame,
                         flushes, faults>>
       \/ Fault

\* Another turn while drain succeeds and more than one batch was counted.
FlushReturn ==
    /\ pc = "return" /\ lock = "flush"
    /\ pc' = IF ret = "ok" /\ flush_frames > DrainMax /\ flush_loops < FlushMaxLoops
                THEN "flush_count" ELSE "unlock"
    /\ UNCHANGED <<chip, lock, handler, pf_ts, burst, pending, fifo_enabled, i, locals,
                   ret, flushing, reader, frame, flushes, faults>>

FlushUnlock ==
    /\ pc = "unlock"
    /\ lock' = "free" /\ pc' = "out"
    /\ UNCHANGED <<chip, handler, pf_ts, burst, pending, fifo_enabled, i, locals, ret,
                   flushing, reader, frame, flushes, faults>>

-----------------------------------------------------------------------------
Drain == \/ PushFrame \/ PushFull \/ PushDone \/ CheckOverflow \/ Recover
         \/ Count \/ ReadFrames \/ CountAfter \/ LoopEnd

Handler == HandlerLock \/ DirectRead \/ DirectPush \/ HandlerUnlock \/ NotifyDone

Flush == FlushLock \/ FlushCount \/ FlushReturn \/ FlushUnlock

Next == Sample \/ Poll \/ UserRead \/ Drain \/ Handler \/ Flush

Spec == Init /\ [][Next]_vars

\* The scheduler runs both threads on, an external trigger keeps firing and the
\* reader keeps reading.
FairSpec ==
    /\ Spec
    /\ WF_vars(Poll) /\ WF_vars(UserRead) /\ WF_vars(Drain) /\ WF_vars(HandlerLock)
    /\ WF_vars(DirectRead \/ DirectPush \/ HandlerUnlock \/ NotifyDone)
    /\ WF_vars(FlushCount \/ FlushReturn \/ FlushUnlock)

-----------------------------------------------------------------------------
(* Properties.                                                             *)

Kinds == {"whole", "torn"}

Frames == [id : Nat, kind : Kinds]

PCs == {"out", "direct", "push_old", "check", "recover", "count", "read", "count_after",
        "push", "loop", "return", "flush_count", "unlock"}

TypeChip ==
    /\ clock \in Nat /\ fifo \in Seq(Nat) /\ align \in Kinds
    /\ oflow \in {0, 1} /\ fifo_en \in {0, 1} /\ user_fifo_en \in {0, 1}

TypeBatch ==
    /\ burst \in Seq(Frames) /\ drain_frames \in Nat /\ i \in Nat
    /\ pending_frames \in Nat /\ pending_pos \in Nat /\ pending_base_ts \in Int

TypeDrain ==
    /\ pc \in PCs /\ ret \in {"ok", "error"} /\ fifo_enabled \in {0, 1}
    /\ ts \in Nat /\ loops \in Nat /\ frames_after \in Nat /\ step \in 1 .. RecoverSteps

TypeCallers ==
    /\ lock \in {"free", "handler", "flush"}
    /\ handler \in {"idle", "woken", "running", "direct", "done"}
    /\ pf_ts \in Nat /\ frame \in Nat
    /\ flush_loops \in Nat /\ flush_frames \in Nat /\ flush_from \in Nat

TypeReader ==
    /\ kfifo \in 0 .. KfifoLen /\ last \in [id : Nat, ts : Int, kind : Kinds]
    /\ flushes \in Nat /\ faults \in Nat

\* Every variable keeps its type; the kfifo holds no more than it has room for.
TypeOK == TypeChip /\ TypeBatch /\ TypeDrain /\ TypeCallers /\ TypeReader

\* Indices of the frames retained for a later round: from the loop index while
\* they are being pushed, from fifo_pending_pos otherwise.
PendingFrom == IF Pushing THEN i ELSE pending_pos

Pending == SubSeq(burst, PendingFrom + 1, pending_frames)

\* Frames popped from the chip and not pushed yet: the pending ones, and the
\* batch just read that waits for its date.
Held == IF pc = "count_after" THEN SubSeq(burst, 1, drain_frames) ELSE Pending

\* Retained frames survive whatever fails (comment at line 891): as long as
\* some are pending, a step pushes the first of them or leaves them all in place.
PendingStep ==
    Pending # <<>> =>
        \/ Pending' = Pending /\ UNCHANGED last
        \/ /\ Pending' = Tail(Pending)
           /\ last'.id = Head(Pending).id /\ last'.kind = Head(Pending).kind

PendingKept == [][PendingStep]_vars

\* No frame popped from the chip is overwritten, lost or pushed twice before it
\* reached the kfifo (comments at lines 230 and 891), the undated batch included.
PoppedStep ==
    Held # <<>> =>
        \/ Held' = Held /\ UNCHANGED last
        \/ Held' = Tail(Held) /\ last'.id = Head(Held).id

PoppedKept == [][PoppedStep]_vars

\* Scans reach the kfifo in sampling order and none twice, whatever the handler,
\* flush, overflow recovery and a full kfifo do; only the direct path that a
\* failed recovery leaves behind may report the current sample again.
InOrderStep ==
    last' # last => last'.id > last.id \/ (handler = "direct" /\ last'.id = last.id)

InOrder == [][InOrderStep]_vars

\* A scan is never dated in a period after the one it was taken in (lines 962 to
\* 976), neither in a later turn of the loop nor when pushed rounds after.  Time is
\* counted in whole periods here, so "later" means by a period or more.
NotFromTheFuture == last.ts <= last.id

\* An overflow of the FIFO is reported by the next check (comment at lines 470 to
\* 473: bit 4 is set by an overflow, and the check returns 1 if there is one).
OverflowReported == [][pc = "check" /\ pc' = "count" => align = "whole"]_vars

\* A reported overflow is one of this FIFO (comment at line 540): a recovery
\* never throws away frames that are whole.
RecoveryIsNeeded == pc = "recover" /\ step <= 3 => align = "torn"

\* What was in the FIFO when fifo_flush was written has left it when the write
\* succeeds (lines 1327 to 1361): the loop limits are wide enough.
FlushDelivers ==
    pc = "unlock" /\ ret = "ok" => \A k \in DOMAIN fifo : fifo[k] > flush_from

\* Retained frames do not stay behind: while the trigger fires and the reader
\* reads, they are all pushed in the end.
PendingDelivered == pending_frames > 0 ~> pending_frames = 0

=============================================================================
