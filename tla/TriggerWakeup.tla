---------------------------- MODULE TriggerWakeup ----------------------------
(***************************************************************************)
(* Who wakes the driver.  The interrupt line is edge triggered and the     *)
(* chip pulses it once when the FIFO reaches the watermark, and whenever   *)
(* the FIFO overflows.  A pulse that finds the trigger's use_count not     *)
(* zero, or nobody attached, is lost, and no try_reenable looks again.     *)
(*                                                                         *)
(* Frames are only counted here; what becomes of them is in FifoDrain, and *)
(* the callbacks are in BufferLifecycle.                                   *)
(***************************************************************************)
EXTENDS Naturals

CONSTANTS
    FifoFrames,     \* ICM20602_FIFO_MAX_FRAMES
    DrainMax,       \* ICM20602_FIFO_DRAIN_MAX_FRAMES
    Watermark,      \* data->fifo_watermark
    MaxLoops,       \* ICM20602_FIFO_FLUSH_MAX_LOOPS
    KfifoLen,       \* buffer/length
    MaxFaults       \* bound: failing transfers

ASSUME WakeupAssumption ==
    /\ {FifoFrames, DrainMax, MaxLoops, KfifoLen} \subseteq Nat \ {0}
    /\ Watermark \in 1 .. FifoFrames /\ MaxFaults \in Nat

VARIABLES
    phase,          \* of the buffer: off, started, attached, detached
    running,        \* the chip puts frames into the FIFO
    oflow_en,       \* INT_ENABLE.FIFO_OFLOW_EN
    count,          \* frames in the FIFO
    overflow,       \* the overflow bit of INT_STATUS
    pc,             \* where the handler is; use_count is zero in "idle" only
    loops,          \* turns of fifo_drain's loop
    batch,          \* drain_frames
    after,          \* frames_after
    pending,        \* fifo_pending_frames - fifo_pending_pos
    kfifo,          \* frames in the kfifo
    missed,         \* since the count was last read a pulse was lost or a drain gave up
    faults

chip == <<running, oflow_en, count, overflow>>
locals == <<loops, batch, after>>
vars == <<phase, chip, pc, locals, pending, kfifo, missed, faults>>

Init ==
    /\ phase = "off" /\ running = FALSE /\ oflow_en = FALSE
    /\ count = 0 /\ overflow = FALSE
    /\ pc = "idle" /\ loops = 0 /\ batch = 0 /\ after = 0
    /\ pending = 0 /\ kfifo = 0 /\ missed = FALSE /\ faults = 0

Least(m, n) == IF m < n THEN m ELSE n

-----------------------------------------------------------------------------
(* The chip, the trigger and the reader.                                   *)

\* A pulse: irq_handler polls the trigger, which wakes the handler.
Pulse ==
    IF phase = "attached" /\ pc = "idle"
      THEN pc' = "pending" /\ UNCHANGED missed
      ELSE missed' = TRUE /\ UNCHANGED pc

NoPulse == UNCHANGED <<pc, missed>>

\* A frame is sampled; a full FIFO loses its oldest one.
Sample ==
    /\ running
    /\ IF count < FifoFrames
         THEN /\ count' = count + 1 /\ UNCHANGED overflow
              /\ IF count + 1 = Watermark THEN Pulse ELSE NoPulse
         ELSE /\ overflow' = TRUE /\ UNCHANGED count
              /\ IF oflow_en THEN Pulse ELSE NoPulse
    /\ UNCHANGED <<phase, running, oflow_en, locals, pending, kfifo, faults>>

UserRead ==
    /\ kfifo > 0 /\ kfifo' = kfifo - 1
    /\ UNCHANGED <<phase, chip, pc, locals, pending, missed, faults>>

-----------------------------------------------------------------------------
(* The buffer.                                                             *)

\* Mutant: the overflow interrupt is not enabled.
Preenable_NoOverflow ==
    /\ phase = "off" /\ phase' = "started"
    /\ running' = TRUE /\ oflow_en' = FALSE /\ count' = 0 /\ overflow' = FALSE
    /\ pending' = 0 /\ kfifo' = 0 /\ missed' = FALSE
    /\ UNCHANGED <<pc, locals, faults>>

\* preenable resets and starts the FIFO, and its reads clear the status bits; the
\* core empties the kfifo.
Preenable ==
    /\ phase = "off" /\ phase' = "started"
    /\ running' = TRUE /\ oflow_en' = TRUE /\ count' = 0 /\ overflow' = FALSE
    /\ pending' = 0 /\ kfifo' = 0 /\ missed' = FALSE
    /\ UNCHANGED <<pc, locals, faults>>

\* Only now iio_triggered_buffer_postenable attaches the handler.
Attach ==
    /\ phase = "started" /\ phase' = "attached"
    /\ UNCHANGED <<chip, pc, locals, pending, kfifo, missed, faults>>

\* Detaching waits for the handler.
Detach ==
    /\ phase = "attached" /\ pc = "idle" /\ phase' = "detached"
    /\ UNCHANGED <<chip, pc, locals, pending, kfifo, missed, faults>>

\* postdisable stops the chip and forgets pending frames.
Postdisable ==
    /\ phase = "detached" /\ phase' = "off"
    /\ running' = FALSE /\ oflow_en' = FALSE /\ pending' = 0
    /\ UNCHANGED <<count, overflow, pc, locals, kfifo, missed, faults>>

-----------------------------------------------------------------------------
(* trigger_handler and fifo_drain.                                         *)

\* A read of any register clears the status bits.
StatusRead == overflow' = FALSE

\* Frames are pushed as long as the kfifo has room for them.
Push(n) ==
    LET fit == Least(n, KfifoLen - kfifo)
    IN  kfifo' = kfifo + fit /\ pending' = n - fit

\* The drain returns with frames in the FIFO that it does not wait for.
GiveUp == pc' = "done" /\ missed' = TRUE

\* What the last drain retained comes first: -EBUSY if it still does not fit.
PushPending ==
    /\ pc = "pending" /\ loops' = 0
    /\ Push(pending)
    /\ IF pending' > 0 THEN GiveUp ELSE pc' = "check" /\ UNCHANGED missed
    /\ UNCHANGED <<phase, chip, batch, after, faults>>

CheckOverflow ==
    /\ pc = "check" /\ pc' = IF overflow THEN "recover" ELSE "count"
    /\ loops' = loops + 1 /\ StatusRead
    /\ UNCHANGED <<phase, running, oflow_en, count, batch, after, pending, kfifo, missed, faults>>

\* fifo_recover empties the FIFO.
Recover ==
    /\ pc = "recover" /\ pc' = "done"
    /\ count' = 0 /\ pending' = 0 /\ missed' = FALSE
    /\ UNCHANGED <<phase, running, oflow_en, overflow, locals, kfifo, faults>>

\* Mutant: a FIFO that is exactly at the watermark waits for the next interrupt.
Count_AboveOnly ==
    /\ pc = "count" /\ StatusRead /\ missed' = FALSE
    /\ pc' = IF count <= Watermark THEN "done" ELSE "read"
    /\ batch' = IF count <= Watermark THEN batch ELSE Least(count, DrainMax)
    /\ UNCHANGED <<phase, running, oflow_en, count, loops, after, pending, kfifo, faults>>

Count ==
    /\ pc = "count" /\ StatusRead /\ missed' = FALSE
    /\ pc' = IF count < Watermark THEN "done" ELSE "read"
    /\ batch' = IF count < Watermark THEN batch ELSE Least(count, DrainMax)
    /\ UNCHANGED <<phase, running, oflow_en, count, loops, after, pending, kfifo, faults>>

Read ==
    /\ pc = "read" /\ pc' = "after" /\ count' = count - batch /\ StatusRead
    /\ UNCHANGED <<phase, running, oflow_en, locals, pending, kfifo, missed, faults>>

CountAfter ==
    /\ pc = "after" /\ pc' = "push" /\ after' = count /\ StatusRead /\ missed' = FALSE
    /\ UNCHANGED <<phase, running, oflow_en, count, loops, batch, pending, kfifo, faults>>

\* Mutant: the loop starts again although frames are pending.
PushBatch_GoesOn ==
    /\ pc = "push" /\ Push(batch)
    /\ \/ after >= Watermark /\ loops < MaxLoops /\ pc' = "check" /\ UNCHANGED missed
       \/ after < Watermark /\ pc' = "done" /\ UNCHANGED missed
       \/ after >= Watermark /\ loops >= MaxLoops /\ GiveUp
    /\ UNCHANGED <<phase, chip, locals, faults>>

\* The batch is pushed; the loop ends when frames remain pending, below the
\* watermark, or after MaxLoops turns.
PushBatch ==
    /\ pc = "push" /\ Push(batch)
    /\ \/ (pending' > 0 \/ (after >= Watermark /\ loops >= MaxLoops)) /\ GiveUp
       \/ pending' = 0 /\ after < Watermark /\ pc' = "done" /\ UNCHANGED missed
       \/ /\ pending' = 0 /\ after >= Watermark /\ loops < MaxLoops
          /\ pc' = "check" /\ UNCHANGED missed
    /\ UNCHANGED <<phase, chip, locals, faults>>

\* A transfer fails: the drain returns.  A batch that was popped is lost; what the
\* chip made of the transfer is not known; a recovery may leave the FIFO stopped.
TransferFails ==
    /\ pc \in {"check", "count", "read", "after", "recover"}
    /\ faults < MaxFaults /\ faults' = faults + 1
    /\ GiveUp
    /\ \/ UNCHANGED <<running, count>>
       \/ pc = "read" /\ count' = count - batch /\ UNCHANGED running
       \/ pc = "recover" /\ running' = FALSE /\ count' \in {0, count}
    /\ overflow' \in {overflow, FALSE}
    /\ UNCHANGED <<phase, oflow_en, locals, pending, kfifo>>

\* iio_trigger_notify_done.
NotifyDone ==
    /\ pc = "done" /\ pc' = "idle"
    /\ UNCHANGED <<phase, chip, locals, pending, kfifo, missed, faults>>

-----------------------------------------------------------------------------
HandlerStep ==
    \/ PushPending \/ CheckOverflow \/ Recover \/ Count \/ Read \/ CountAfter \/ PushBatch
    \/ NotifyDone

Next ==
    \/ Sample \/ UserRead \/ Preenable \/ Attach \/ Detach \/ Postdisable
    \/ HandlerStep \/ TransferFails

Spec == Init /\ [][Next]_vars

\* The chip samples, the reader reads and the handler's thread runs.
FairSpec == Spec /\ WF_vars(Sample) /\ WF_vars(UserRead) /\ WF_vars(HandlerStep)

-----------------------------------------------------------------------------
(* Properties.                                                             *)

\* Types; a batch is never put over frames that are still pending.
TypeOK ==
    /\ phase \in {"off", "started", "attached", "detached"}
    /\ {running, oflow_en, overflow, missed} \subseteq BOOLEAN
    /\ count \in 0 .. FifoFrames /\ kfifo \in 0 .. KfifoLen
    /\ pc \in {"idle", "pending", "check", "recover", "count", "read", "after", "push", "done"}
    /\ loops \in 0 .. MaxLoops /\ batch \in 0 .. DrainMax /\ after \in 0 .. FifoFrames
    /\ pending \in 0 .. DrainMax /\ (pc \in {"check", "count", "read", "after", "push"} => pending = 0)
    /\ faults \in 0 .. MaxFaults

\* A FIFO at the watermark is attended to, unless a pulse was lost since its count
\* was read or a drain gave up: there is no third way to oversleep.
Attended == phase = "attached" /\ count >= Watermark => pc # "idle" \/ missed

\* However often that happens the stream goes on, at the price of an overflow: as
\* long as the buffer is on and the chip samples, the FIFO is drained or emptied
\* again and again.
DrainedAgain == []<>(phase # "attached" \/ ~running \/ count < Watermark)
=============================================================================
