---------------------------- MODULE DeliveryProofs ----------------------------
(***************************************************************************)
(* Theorems about what FifoDrain says of the scans it delivers: while no   *)
(* transfer fails none is dated after its sample was taken, the losses     *)
(* that the tools estimate from the dates are bounded by what the driver   *)
(* does, and a write to fifo_flush that succeeds has emptied the FIFO of   *)
(* what it found there.                                                    *)
(***************************************************************************)
EXTENDS StreamProofs

-----------------------------------------------------------------------------
(* Dates.                                                                  *)

\* While no transfer fails the FIFO holds the newest samples without a gap, except
\* during a recovery, which empties it before it runs again.
FifoDates ==
    /\ pc # "recover" =>
         /\ fifo_en = 1 /\ user_fifo_en = 1 /\ fifo_enabled = 1
         /\ \A k \in 1 .. Len(fifo) : fifo[k] = clock - Len(fifo) + k
    /\ pc = "recover" /\ step >= 2 => fifo_en = 0
    /\ pc = "recover" /\ step >= 4 => fifo = <<>>
    /\ pc = "recover" /\ step = RecoverSteps => user_fifo_en = 1

\* Trigger and drain do not date anything in advance.
TimeInv == pf_ts <= clock /\ ts <= clock

\* What is left in the FIFO is at least as much as was sampled after the batch and
\* before the drain's timestamp.
BatchDates ==
    pc = "count_after" =>
        \A k \in 1 .. drain_frames : burst[k].id >= ts - Len(fifo) - drain_frames + k

PendingDates == \A k \in 1 .. pending_frames : burst[k].id >= pending_base_ts + (k - 1)

DateInv == FifoDates /\ TimeInv /\ BatchDates /\ PendingDates /\ NotFromTheFuture

\* The FIFO after a sample: the newest is numbered like the clock.
LEMMA SampleDates == IInv /\ FifoDates /\ Sample => FifoDates' /\ Len(fifo') >= Len(fifo)
  <1> SUFFICES ASSUME IInv, FifoDates, Sample PROVE FifoDates' /\ Len(fifo') >= Len(fifo)
    OBVIOUS
  <1>1. fifo \in Seq(Nat) /\ clock \in Nat /\ step \in 1 .. RecoverSteps
    BY DEF IInv, TypeOK, TypeChip, TypeDrain
  <1> USE DEF RecoverSteps
  <1>2. UNCHANGED <<pc, step, fifo_en, user_fifo_en, fifo_enabled>> /\ clock' = clock + 1
    BY DEF Sample, locals
  <1>3. CASE Running /\ Len(fifo) < FifoFrames
    <2>1. fifo' = Append(fifo, clock + 1)
      BY <1>1, <1>3, ConstantsAssumption DEF Sample
    <2>2. Len(fifo') = Len(fifo) + 1 /\ \A k \in 1 .. Len(fifo') :
            fifo'[k] = IF k <= Len(fifo) THEN fifo[k] ELSE clock + 1
      BY <1>1, <2>1
    <2>3. Len(fifo) \in Nat
      BY <1>1
    <2>4. pc # "recover" => \A k \in 1 .. Len(fifo') : fifo'[k] = clock' - Len(fifo') + k
      BY <1>1, <1>2, <2>2, <2>3 DEF FifoDates
    <2> QED BY <1>1, <1>2, <1>3, <2>2, <2>3, <2>4 DEF FifoDates, Running
  <1>4. CASE Running /\ Len(fifo) = FifoFrames
    <2>1. Len(fifo) \in Nat /\ Len(fifo) > 0
      BY <1>1, <1>4, ConstantsAssumption
    <2>2. fifo' = Append(Tail(fifo), clock + 1)
      BY <1>1, <1>4, ConstantsAssumption DEF Sample
    <2>3. Len(fifo') = Len(fifo) /\ \A k \in 1 .. Len(fifo) :
            fifo'[k] = IF k < Len(fifo) THEN fifo[k + 1] ELSE clock + 1
      BY <1>1, <2>1, <2>2
    <2>4. ASSUME pc # "recover", NEW k \in 1 .. Len(fifo)
          PROVE  fifo'[k] = clock + 1 - Len(fifo) + k
      <3>1. CASE k = Len(fifo)
        BY <1>1, <2>1, <2>3, <2>4, <3>1
      <3>2. CASE k < Len(fifo)
        <4>1. k + 1 \in 1 .. Len(fifo) /\ fifo'[k] = fifo[k + 1]
          BY <2>1, <2>3, <2>4, <3>2
        <4>2. fifo[k + 1] = clock - Len(fifo) + (k + 1)
          BY <2>4, <4>1 DEF FifoDates
        <4> QED BY <1>1, <2>1, <4>1, <4>2
      <3> QED BY <2>1, <2>4, <3>1, <3>2
    <2> QED BY <1>1, <1>2, <1>4, <2>1, <2>3, <2>4 DEF FifoDates, Running
  <1>5. CASE ~Running
    BY <1>1, <1>2, <1>5 DEF Sample, FifoDates, Running
  <1> QED BY <1>3, <1>4, <1>5 DEF Sample

\* A sample only adds to what is younger than the batch.
LEMMA DatesSample == IInv /\ DateInv /\ Sample => DateInv'
  <1> SUFFICES ASSUME IInv, DateInv, Sample PROVE DateInv'
    OBVIOUS
  <1>1. /\ fifo \in Seq(Nat) /\ clock \in Nat /\ burst \in Seq(Frames) /\ ts \in Nat /\ pf_ts \in Nat
        /\ drain_frames \in Nat
        /\ pc = "count_after" => drain_frames = Len(burst)
    BY DEF IInv, TypeOK, TypeChip, TypeBatch, TypeDrain, TypeCallers, BatchInv
  <1>2. /\ UNCHANGED <<pc, ts, pf_ts, burst, pending, drain_frames, last>> /\ clock' = clock + 1
        /\ FifoDates' /\ Len(fifo') >= Len(fifo) /\ fifo' \in Seq(Nat)
    BY SampleDates, ChipStep DEF DateInv, Sample, locals, reader, IInv, TypeOK, TypeChip, TypeBatch,
       Next
  <1>3. BatchDates'
    <2>1. Len(fifo) \in Nat /\ Len(fifo') \in Nat
      BY <1>1, <1>2
    <2>2. ASSUME pc = "count_after", NEW k \in 1 .. drain_frames
          PROVE  burst[k].id >= ts - Len(fifo') - drain_frames + k
      <3>1. burst[k] \in Frames
        BY <1>1, <2>2
      <3>2. burst[k].id \in Nat
        BY <3>1 DEF Frames
      <3> QED BY <1>1, <1>2, <2>1, <2>2, <3>2 DEF DateInv, BatchDates
    <2> QED BY <1>2, <2>2 DEF BatchDates
  <1> QED BY <1>1, <1>2, <1>3 DEF DateInv, TimeInv, PendingDates, NotFromTheFuture, pending

\* The batch read is the oldest part of a FIFO without gaps.
LEMMA DatesRead == MaxFaults = 0 /\ IInv /\ DateInv /\ ReadFrames => DateInv'
  <1> SUFFICES ASSUME MaxFaults = 0, IInv, DateInv, ReadFrames PROVE DateInv'
    OBVIOUS
  <1>1. /\ fifo \in Seq(Nat) /\ clock \in Nat /\ burst \in Seq(Frames) /\ ts \in Nat
        /\ drain_frames \in 1 .. Len(fifo) /\ pending_frames = 0 /\ ~Fault /\ pc = "read"
    BY DEF IInv, TypeOK, TypeChip, TypeBatch, TypeDrain, TypeReader, BatchInv, ReadFrames, Fault
  <1>2. /\ UNCHANGED <<clock, fifo_en, user_fifo_en, fifo_enabled, last, pf_ts, ts, drain_frames,
                       pending_frames>>
        /\ pc' = "count_after"
        /\ burst' = [k \in 1 .. drain_frames |-> [id |-> fifo[k], kind |-> align]]
        /\ fifo' = SubSeq(fifo, drain_frames + 1, Len(fifo))
    BY <1>1 DEF ReadFrames, reader, locals, pending, OutsideDrain
  <1>3. /\ Len(fifo) \in Nat /\ Len(fifo') = Len(fifo) - drain_frames
        /\ \A k \in 1 .. Len(fifo') : fifo'[k] = fifo[k + drain_frames]
    BY <1>1, <1>2
  <1>4. FifoDates'
    <2>1. ASSUME NEW k \in 1 .. (Len(fifo) - drain_frames)
          PROVE  fifo'[k] = clock - (Len(fifo) - drain_frames) + k
      <3>1. k + drain_frames \in 1 .. Len(fifo) /\ fifo'[k] = fifo[k + drain_frames]
        BY <1>1, <1>3, <2>1
      <3>2. fifo[k + drain_frames] = clock - Len(fifo) + (k + drain_frames)
        BY <1>1, <3>1 DEF DateInv, FifoDates
      <3> QED BY <1>1, <1>2, <1>3, <2>1, <3>1, <3>2
    <2> QED BY <1>1, <1>2, <1>3, <2>1 DEF DateInv, FifoDates
  <1>5. BatchDates'
    <2>1. \A k \in 1 .. drain_frames : burst'[k].id = fifo[k] /\ k \in 1 .. Len(fifo)
      BY <1>1, <1>2, <1>3
    <2>2. \A k \in 1 .. Len(fifo) : fifo[k] = clock - Len(fifo) + k
      BY <1>1 DEF DateInv, FifoDates
    <2>3. ts <= clock
      BY DEF DateInv, TimeInv
    <2>4. ASSUME NEW k \in 1 .. drain_frames
          PROVE  burst'[k].id >= ts - Len(fifo') - drain_frames + k
      BY <1>1, <1>3, <2>1, <2>2, <2>3, <2>4
    <2> QED BY <1>2, <2>4 DEF BatchDates
  <1>6. TimeInv' /\ PendingDates' /\ NotFromTheFuture'
    BY <1>1, <1>2 DEF DateInv, TimeInv, PendingDates, NotFromTheFuture
  <1> QED BY <1>4, <1>5, <1>6 DEF DateInv

\* The newest frame of a batch is dated by the drain's timestamp less what is left.
LEMMA DatesCount == MaxFaults = 0 /\ IInv /\ DateInv /\ CountAfter => DateInv'
  <1> SUFFICES ASSUME MaxFaults = 0, IInv, DateInv, CountAfter PROVE DateInv'
    OBVIOUS
  <1>1. /\ Len(fifo) \in Nat /\ ts \in Nat /\ drain_frames \in Nat /\ ~Fault /\ pc = "count_after"
        /\ burst \in Seq(Frames) /\ drain_frames = Len(burst)
    BY DEF IInv, TypeOK, TypeChip, TypeBatch, TypeDrain, TypeReader, BatchInv, CountAfter,
       CountAfterWith, Fault
  <1>2. /\ UNCHANGED <<clock, fifo, fifo_en, user_fifo_en, fifo_enabled, last, pf_ts, ts,
                       drain_frames, burst>>
        /\ pc' = "push" /\ pending_frames' = drain_frames
        /\ pending_base_ts' = ts - Len(fifo) - (drain_frames - 1)
    BY <1>1 DEF CountAfter, CountAfterWith, reader, OutsideDrain
  <1>3. PendingDates'
    <2>1. ASSUME NEW k \in 1 .. drain_frames
          PROVE  burst[k].id >= (ts - Len(fifo) - (drain_frames - 1)) + (k - 1)
      <3>1. burst[k] \in Frames
        BY <1>1, <2>1
      <3>2. burst[k].id \in Nat
        BY <3>1 DEF Frames
      <3> QED BY <1>1, <2>1, <3>2 DEF DateInv, BatchDates
    <2> QED BY <1>2, <2>1 DEF PendingDates
  <1>4. FifoDates' /\ TimeInv' /\ BatchDates' /\ NotFromTheFuture'
    BY <1>1, <1>2 DEF DateInv, FifoDates, TimeInv, BatchDates, NotFromTheFuture
  <1> QED BY <1>3, <1>4 DEF DateInv

\* A scan is pushed with the date its batch gave it.
LEMMA DatesPush == IInv /\ DateInv /\ PushFrame => DateInv'
  <1> SUFFICES ASSUME IInv, DateInv, PushFrame PROVE DateInv'
    OBVIOUS
  <1>1. i \in Nat /\ pending_frames \in Nat /\ pending_base_ts \in Int /\ i + 1 \in 1 .. pending_frames
    BY DEF IInv, TypeOK, TypeBatch, PushFrame
  <1>2. /\ UNCHANGED <<clock, fifo, fifo_en, user_fifo_en, fifo_enabled, pf_ts, ts, drain_frames,
                       burst, pc, pending, step>>
        /\ last'.id = burst[i + 1].id /\ last'.ts = pending_base_ts + i
    BY DEF PushFrame, chip, OutsideDrain, locals
  <1>3. burst[i + 1].id >= pending_base_ts + ((i + 1) - 1)
    BY <1>1 DEF DateInv, PendingDates
  <1>4. NotFromTheFuture'
    BY <1>1, <1>2, <1>3 DEF NotFromTheFuture
  <1> QED BY <1>2, <1>4 DEF DateInv, FifoDates, TimeInv, BatchDates, PendingDates, pending

\* A recovery leaves an empty FIFO that runs.
LEMMA DatesRecover == MaxFaults = 0 /\ IInv /\ DateInv /\ Recover => DateInv'
  <1> SUFFICES ASSUME MaxFaults = 0, IInv, DateInv, Recover PROVE DateInv'
    OBVIOUS
  <1>1. /\ ~Fault /\ pc = "recover" /\ step \in 1 .. RecoverSteps /\ pending_frames = 0
        /\ clock \in Nat
    BY DEF IInv, TypeOK, TypeChip, TypeDrain, TypeReader, BatchInv, Recover, RecoverWith, Fault
  <1>2. /\ UNCHANGED <<clock, last, pf_ts, ts>> /\ pending_frames' = 0 /\ pc' # "count_after"
    BY <1>1 DEF Recover, RecoverWith, Return, ClearPending, pending, reader, OutsideDrain
  <1>3. FifoDates'
    BY <1>1 DEF Recover, RecoverWith, Return, RecoverSteps, DateInv, FifoDates
  <1> QED BY <1>2, <1>3 DEF DateInv, TimeInv, BatchDates, PendingDates, NotFromTheFuture

\* The other steps of the drain.
LEMMA DatesDrain ==
    /\ MaxFaults = 0 /\ IInv /\ DateInv
    /\ PushFull \/ PushDone \/ CheckOverflow \/ Count \/ LoopEnd
    => DateInv'
  <1> SUFFICES ASSUME MaxFaults = 0, IInv, DateInv,
                      PushFull \/ PushDone \/ CheckOverflow \/ Count \/ LoopEnd
               PROVE  DateInv'
    OBVIOUS
  <1>1. ~Fault
    BY DEF IInv, TypeOK, TypeReader, Fault
  <1> USE DEF DateInv, FifoDates, TimeInv, BatchDates, PendingDates, NotFromTheFuture, OutsideDrain,
              Return, chip, pending, locals, reader, RecoverSteps
  <1>2. CASE PushFull BY <1>2 DEF PushFull, Keep, Pushing
  <1>3. CASE PushDone BY <1>3 DEF PushDone, ClearPending, Pushing
  <1>4. CASE CheckOverflow BY <1>1, <1>4 DEF CheckOverflow, CheckFor
  <1>5. CASE Count BY <1>1, <1>5 DEF Count
  <1>6. CASE LoopEnd BY <1>6 DEF LoopEnd
  <1> QED BY <1>2, <1>3, <1>4, <1>5, <1>6

\* The handler and the flush; nobody takes the direct path.
LEMMA DatesCallers ==
    MaxFaults = 0 /\ IInv /\ DateInv /\ (Handler \/ Flush \/ Poll \/ UserRead) => DateInv'
  <1> SUFFICES ASSUME MaxFaults = 0, IInv, DateInv, Handler \/ Flush \/ Poll \/ UserRead
               PROVE  DateInv'
    OBVIOUS
  <1>1. /\ ~Fault /\ clock \in Nat /\ LockHeld /\ handler # "direct" /\ pc # "direct"
    BY DEF IInv, TypeOK, TypeChip, TypeReader, Fault, OffInv, DateInv, FifoDates
  <1> USE DEF DateInv, FifoDates, TimeInv, BatchDates, PendingDates, NotFromTheFuture, OutsideDrain,
              Return, chip, pending, locals, reader, flushing, LockHeld
  <1>2. CASE HandlerLock
    BY <1>1, <1>2 DEF HandlerLock, HandlerEnter, EnterDrain
  <1>3. CASE DirectRead \/ DirectPush
    BY <1>1, <1>3 DEF DirectRead, DirectPush
  <1>4. CASE HandlerUnlock
    BY <1>1, <1>4 DEF HandlerUnlock
  <1>5. CASE NotifyDone
    BY <1>5 DEF NotifyDone
  <1>6. CASE FlushLock
    BY <1>1, <1>6 DEF FlushLock
  <1>7. CASE FlushCount
    BY <1>1, <1>7 DEF FlushCount, EnterDrain
  <1>8. CASE FlushReturn
    BY <1>1, <1>8 DEF FlushReturn
  <1>9. CASE FlushUnlock
    BY <1>1, <1>9 DEF FlushUnlock
  <1>10. CASE Poll
    BY <1>1, <1>10 DEF Poll
  <1>11. CASE UserRead
    BY <1>11 DEF UserRead
  <1> QED BY <1>2, <1>3, <1>4, <1>5, <1>6, <1>7, <1>8, <1>9, <1>10, <1>11 DEF Handler, Flush

\* Each step.
LEMMA DatesStep == MaxFaults = 0 /\ IInv /\ DateInv /\ [Next]_vars => DateInv'
  <1> SUFFICES ASSUME MaxFaults = 0, IInv, DateInv, [Next]_vars PROVE DateInv'
    OBVIOUS
  <1>1. CASE UNCHANGED vars
    BY <1>1 DEF vars, chip, pending, locals, reader, DateInv, FifoDates, TimeInv, BatchDates,
       PendingDates, NotFromTheFuture
  <1> QED BY <1>1, DatesSample, DatesRead, DatesCount, DatesPush, DatesRecover, DatesDrain,
             DatesCallers DEF Next, Drain

\* While no transfer fails, a scan is never dated later than it was taken, neither in
\* a later turn of the drain's loop nor when it is pushed rounds after: the frames
\* counted after the batch make up for the time since the trigger (fifo_drain).
THEOREM NeverFromTheFuture == ASSUME MaxFaults = 0 PROVE Spec => []NotFromTheFuture
  <1>1. Init => DateInv
    BY DEF Init, DateInv, FifoDates, TimeInv, BatchDates, PendingDates, NotFromTheFuture
  <1>2. IInv /\ DateInv /\ [Next]_vars => DateInv'
    BY DatesStep
  <1>3. DateInv => NotFromTheFuture
    BY DEF DateInv
  <1> QED BY <1>1, <1>2, <1>3, AlwaysIInv, PTL DEF Spec

-----------------------------------------------------------------------------
(* What the tools make of the dates.                                       *)

\* A batch that waits for its date is the oldest part of what there was, without a
\* gap; frames that overflowed since make it older still.
BatchLate ==
    pc = "count_after" =>
        \A k \in 1 .. drain_frames :
            /\ burst[k].id = burst[1].id + (k - 1)
            /\ burst[k].id <= clock - Len(fifo) - drain_frames + k

\* A pending batch is dated early by no more than was sampled in between.
PendingLate ==
    \A k \in 1 .. pending_frames :
        /\ burst[k].id = burst[1].id + (k - 1)
        /\ burst[k].id <= pending_base_ts + (k - 1) + late

LastLate == last.id <= last.ts + last_late

\* In the middle of a batch the last scan is the frame before the next one.
Midway ==
    pending_frames > 0 /\ PendingFrom > 0 =>
        last.id = burst[PendingFrom].id /\ last.ts = pending_base_ts + (PendingFrom - 1)

LateInv == late \in Int /\ last_late \in Int /\ BatchLate /\ PendingLate /\ LastLate /\ Midway

\* What a step other than dating and pushing leaves of the history.
LEMMA LateKept ==
    ASSUME HNext, ~Dates, ~Pushes PROVE late' = late /\ last_late' = last_late
  BY DEF HNext

\* A sample.
LEMMA LateSample == IInv /\ LateInv /\ HNext /\ Sample => LateInv'
  <1> SUFFICES ASSUME IInv, LateInv, HNext, Sample PROVE LateInv'
    OBVIOUS
  <1>1. /\ fifo \in Seq(Nat) /\ clock \in Nat /\ burst \in Seq(Frames) /\ drain_frames \in Nat
        /\ kfifo \in Int
        /\ pc = "count_after" => drain_frames = Len(burst)
    BY DEF IInv, TypeOK, TypeChip, TypeBatch, TypeReader, BatchInv
  <1>2. /\ UNCHANGED <<pc, burst, pending, drain_frames, last, i, kfifo>> /\ clock' = clock + 1
    BY DEF Sample, locals, reader
  <1>3. Len(fifo) \in Nat /\ Len(fifo') \in Nat /\ Len(fifo') <= Len(fifo) + 1
    <2>1. CASE fifo' = Append(fifo, clock + 1)
      BY <1>1, <2>1
    <2>2. CASE Len(fifo) = FifoFrames /\ fifo' = Append(Tail(fifo), clock + 1)
      BY <1>1, <2>2, EnterTyped, ConstantsAssumption
    <2>3. CASE fifo' = fifo
      BY <1>1, <2>3
    <2> QED BY <2>1, <2>2, <2>3 DEF Sample
  <1>4. late' = late /\ last_late' = last_late
    BY <1>1, <1>2, LateKept DEF Dates, Pushes
  <1>5. BatchLate'
    <2>1. ASSUME pc = "count_after", NEW k \in 1 .. drain_frames
          PROVE  burst[k].id <= clock + 1 - Len(fifo') - drain_frames + k
      <3>1. burst[k] \in Frames
        BY <1>1, <2>1
      <3>2. burst[k].id \in Nat
        BY <3>1 DEF Frames
      <3> QED BY <1>1, <1>3, <2>1, <3>2 DEF LateInv, BatchLate
    <2> QED BY <1>1, <1>2, <1>3, <2>1 DEF LateInv, BatchLate
  <1> QED BY <1>2, <1>4, <1>5
          DEF LateInv, PendingLate, LastLate, Midway, PendingFrom, Pushing, pending

\* A batch is read.
LEMMA LateRead == MaxFaults = 0 /\ IInv /\ DateInv /\ LateInv /\ HNext /\ ReadFrames => LateInv'
  <1> SUFFICES ASSUME MaxFaults = 0, IInv, DateInv, LateInv, HNext, ReadFrames PROVE LateInv'
    OBVIOUS
  <1>1. /\ fifo \in Seq(Nat) /\ clock \in Nat /\ kfifo \in Int
        /\ drain_frames \in 1 .. Len(fifo) /\ pending_frames = 0 /\ ~Fault /\ pc = "read"
    BY DEF IInv, TypeOK, TypeChip, TypeBatch, TypeReader, BatchInv, ReadFrames, Fault
  <1>2. /\ UNCHANGED <<clock, last, drain_frames, pending_frames, kfifo>>
        /\ pc' = "count_after"
        /\ burst' = [k \in 1 .. drain_frames |-> [id |-> fifo[k], kind |-> align]]
        /\ fifo' = SubSeq(fifo, drain_frames + 1, Len(fifo))
    BY <1>1 DEF ReadFrames, reader, locals, pending
  <1>3. late' = late /\ last_late' = last_late
    BY <1>1, <1>2, LateKept DEF Dates, Pushes
  <1>4. Len(fifo) \in Nat /\ Len(fifo') = Len(fifo) - drain_frames
    BY <1>1, <1>2
  <1>5. \A k \in 1 .. drain_frames : burst'[k].id = fifo[k] /\ k \in 1 .. Len(fifo)
    BY <1>1, <1>2, <1>4
  <1>6. \A k \in 1 .. Len(fifo) : fifo[k] = clock - Len(fifo) + k
    BY <1>1 DEF DateInv, FifoDates
  <1>7. \A k \in 1 .. drain_frames : burst'[k].id = clock - Len(fifo) + k
    BY <1>5, <1>6
  <1>8. burst'[1].id = clock - Len(fifo) + 1
    BY <1>1, <1>7
  <1>9. ASSUME NEW k \in 1 .. drain_frames
        PROVE  /\ burst'[k].id = burst'[1].id + (k - 1)
               /\ burst'[k].id <= clock - Len(fifo') - drain_frames + k
    BY <1>1, <1>4, <1>7, <1>8, <1>9
  <1>10. BatchLate'
    BY <1>2, <1>9 DEF BatchLate
  <1> QED BY <1>1, <1>2, <1>3, <1>10 DEF LateInv, PendingLate, LastLate, Midway

\* A batch is dated.
LEMMA LateDated == MaxFaults = 0 /\ IInv /\ LateInv /\ HNext /\ CountAfter => LateInv'
  <1> SUFFICES ASSUME MaxFaults = 0, IInv, LateInv, HNext, CountAfter PROVE LateInv'
    OBVIOUS
  <1>1. /\ Len(fifo) \in Nat /\ ts \in Nat /\ clock \in Nat /\ drain_frames \in Nat /\ ~Fault
        /\ pc = "count_after" /\ burst \in Seq(Frames) /\ drain_frames = Len(burst)
    BY DEF IInv, TypeOK, TypeChip, TypeBatch, TypeDrain, TypeReader, BatchInv, CountAfter,
       CountAfterWith, Fault
  <1>2. /\ UNCHANGED <<last, burst>> /\ i' = 0
        /\ pc' = "push" /\ pending_frames' = drain_frames
        /\ pending_base_ts' = ts - Len(fifo) - (drain_frames - 1)
    BY <1>1 DEF CountAfter, CountAfterWith, reader
  <1>3. late' = clock - ts /\ last_late' = last_late
    BY <1>1, <1>2 DEF HNext, Dates, Pushes, Pushing
  <1>4. PendingLate'
    <2>1. ASSUME NEW k \in 1 .. drain_frames
          PROVE  burst[k].id <= (ts - Len(fifo) - (drain_frames - 1)) + (k - 1) + (clock - ts)
      <3>1. burst[k] \in Frames
        BY <1>1, <2>1
      <3>2. burst[k].id \in Nat
        BY <3>1 DEF Frames
      <3> QED BY <1>1, <2>1, <3>2 DEF LateInv, BatchLate
    <2> QED BY <1>1, <1>2, <1>3, <2>1 DEF PendingLate, LateInv, BatchLate
  <1>5. BatchLate' /\ LastLate' /\ Midway'
    BY <1>2, <1>3 DEF LateInv, BatchLate, LastLate, Midway, PendingFrom, Pushing
  <1> QED BY <1>1, <1>3, <1>4, <1>5 DEF LateInv

\* A scan is pushed.
LEMMA LatePush == IInv /\ LateInv /\ HNext /\ PushFrame => LateInv'
  <1> SUFFICES ASSUME IInv, LateInv, HNext, PushFrame PROVE LateInv'
    OBVIOUS
  <1>1. /\ i \in Nat /\ pending_frames \in Nat /\ pending_base_ts \in Int
        /\ i + 1 \in 1 .. pending_frames /\ Pushing
    BY DEF IInv, TypeOK, TypeBatch, PushFrame
  <1>2. /\ UNCHANGED <<burst, pc, pending>> /\ i' = i + 1 /\ kfifo' = kfifo + 1
        /\ last'.id = burst[i + 1].id /\ last'.ts = pending_base_ts + i
    BY DEF PushFrame
  <1>3. late' = late /\ last_late' = late
    BY <1>1, <1>2 DEF HNext, Dates, Pushes, Pushing
  <1>4. burst[i + 1].id <= pending_base_ts + ((i + 1) - 1) + late
    BY <1>1 DEF LateInv, PendingLate
  <1>5. LastLate'
    BY <1>1, <1>2, <1>3, <1>4 DEF LastLate
  <1>6. Midway'
    BY <1>1, <1>2 DEF Midway, PendingFrom, Pushing, pending
  <1>7. BatchLate'
    BY <1>1, <1>2 DEF BatchLate, Pushing
  <1> QED BY <1>2, <1>3, <1>5, <1>6, <1>7 DEF LateInv, PendingLate, pending

\* The other steps of the drain.
LEMMA LateDrain ==
    /\ MaxFaults = 0 /\ IInv /\ LateInv /\ HNext
    /\ PushFull \/ PushDone \/ CheckOverflow \/ Recover \/ Count \/ LoopEnd
    => LateInv'
  <1> SUFFICES ASSUME MaxFaults = 0, IInv, LateInv, HNext,
                      PushFull \/ PushDone \/ CheckOverflow \/ Recover \/ Count \/ LoopEnd
               PROVE  LateInv'
    OBVIOUS
  <1>1. ~Fault /\ kfifo \in Int /\ BatchInv
    BY DEF IInv, TypeOK, TypeReader, Fault
  <1>2. UNCHANGED <<kfifo, last, burst>> /\ pc # "count_after" /\ pc' # "count_after"
    BY <1>1 DEF PushFull, Keep, PushDone, CheckOverflow, CheckFor, Recover, RecoverWith, Count,
       LoopEnd, Pushing, reader, Return
  <1>3. late' = late /\ last_late' = last_late
    BY <1>1, <1>2, LateKept DEF Dates, Pushes
  <1>4. PendingLate' /\ Midway'
    <2> USE DEF LateInv, PendingLate, Midway, PendingFrom, Pushing, pending, Return
    <2>1. CASE PushFull BY <1>2, <1>3, <2>1 DEF PushFull, Keep
    <2>2. CASE PushDone BY <2>2 DEF PushDone, ClearPending
    <2>3. CASE CheckOverflow \/ Count \/ LoopEnd \/ Recover
      BY <1>1, <2>3 DEF CheckOverflow, CheckFor, Count, LoopEnd, Recover, RecoverWith, ClearPending,
         BatchInv
    <2> QED BY <2>1, <2>2, <2>3
  <1> QED BY <1>2, <1>3, <1>4 DEF LateInv, BatchLate, LastLate

\* The handler and the flush; nobody takes the direct path.
LEMMA LateCallers ==
    /\ MaxFaults = 0 /\ IInv /\ DateInv /\ LateInv /\ HNext
    /\ Handler \/ Flush \/ Poll \/ UserRead
    => LateInv'
  <1> SUFFICES ASSUME MaxFaults = 0, IInv, DateInv, LateInv, HNext,
                      Handler \/ Flush \/ Poll \/ UserRead
               PROVE  LateInv'
    OBVIOUS
  <1>1. /\ ~Fault /\ LockHeld /\ handler # "direct" /\ pc # "direct" /\ kfifo \in Int
        /\ pending_pos \in Nat
    BY DEF IInv, TypeOK, TypeReader, TypeBatch, Fault, OffInv, DateInv, FifoDates
  <1> USE DEF LateInv, BatchLate, PendingLate, LastLate, Midway, PendingFrom, Pushing, pending,
              reader, LockHeld, Dates, Pushes
  <1>2. CASE HandlerLock
    <2>1. late' = late /\ last_late' = last_late
      BY <1>1, <1>2, LateKept DEF HandlerLock, HandlerEnter
    <2> QED BY <1>1, <1>2, <2>1 DEF HandlerLock, HandlerEnter, EnterDrain
  <1>3. CASE DirectRead \/ DirectPush
    BY <1>1, <1>3 DEF DirectRead, DirectPush
  <1>4. CASE FlushCount
    <2>1. late' = late /\ last_late' = last_late
      BY <1>1, <1>4, LateKept DEF FlushCount
    <2> QED BY <1>1, <1>4, <2>1 DEF FlushCount, EnterDrain
  <1>5. CASE HandlerUnlock \/ NotifyDone
    <2>1. late' = late /\ last_late' = last_late
      BY <1>1, <1>5, LateKept DEF HandlerUnlock, NotifyDone
    <2> QED BY <1>1, <1>5, <2>1 DEF HandlerUnlock, NotifyDone, chip, locals
  <1>6. CASE FlushLock \/ FlushReturn \/ FlushUnlock
    <2>1. late' = late /\ last_late' = last_late
      BY <1>1, <1>6, LateKept DEF FlushLock, FlushReturn, FlushUnlock
    <2> QED BY <1>1, <1>6, <2>1 DEF FlushLock, FlushReturn, FlushUnlock, chip, locals
  <1>7. CASE Poll \/ UserRead
    <2>1. late' = late /\ last_late' = last_late
      BY <1>1, <1>7, LateKept DEF Poll, UserRead
    <2> QED BY <1>1, <1>7, <2>1 DEF Poll, UserRead, chip, locals
  <1> QED BY <1>2, <1>3, <1>4, <1>5, <1>6, <1>7 DEF Handler, Flush

\* Each step.
LEMMA LateStep == MaxFaults = 0 /\ IInv /\ DateInv /\ LateInv /\ [HNext]_hvars => LateInv'
  <1> SUFFICES ASSUME MaxFaults = 0, IInv, DateInv, LateInv, [HNext]_hvars PROVE LateInv'
    OBVIOUS
  <1>1. CASE UNCHANGED hvars
    BY <1>1 DEF hvars, vars, chip, pending, locals, reader, history, LateInv, BatchLate, PendingLate,
       LastLate, Midway, PendingFrom, Pushing
  <1>2. CASE HNext
    <2>1. Next
      BY <1>2 DEF HNext
    <2> QED BY <1>2, <2>1, LateSample, LateRead, LateDated, LatePush, LateDrain, LateCallers
            DEF Next, Drain
  <1> QED BY <1>1, <1>2

\* The number a tool counts between scans with so many lost, whose dates are e1 and
\* e2 periods early: e1 too many at most, e2 too few, and one for the rounding.
Within(est, lost, e1, e2, d) ==
    /\ est \in Int
    /\ est <= lost + e1 + (IF d >= 2 THEN 1 ELSE 0)
    /\ est >= lost - e2 - (IF d <= -2 THEN 1 ELSE 0)

\* The tools' arithmetic.
LEMMA EstimateBounds ==
    ASSUME NEW lost \in Nat, NEW e1 \in Nat, NEW e2 \in Nat, NEW d \in -3 .. 3, NEW dt \in Int,
           dt = 4 * (lost + 1 + e1 - e2) + d
    PROVE  /\ Within(EstimateGap(dt), lost, e1, e2, d)
           /\ Within(EstimateGapCpp(dt), lost, e1, e2, d)
  <1> DEFINE n == lost + 1 + e1 - e2
  <1>1. n \in Int /\ n - 1 <= lost + e1 /\ n - 1 >= lost - e2 /\ dt = 4 * n + d
    OBVIOUS
  <1> HIDE DEF n
  <1>2. (dt + 2) \div 4 = n + (IF d >= 2 THEN 1 ELSE IF d = -3 THEN -1 ELSE 0)
    BY <1>1
  <1> DEFINE periods == (dt + 2) \div 4
  <1>3. periods \in Int /\ periods - 1 <= n - 1 + (IF d >= 2 THEN 1 ELSE 0)
        /\ periods - 1 >= n - 1 - (IF d = -3 THEN 1 ELSE 0)
    BY <1>1, <1>2
  <1>4. 2 * dt <= 3 * 4 => n - 1 <= (IF d <= -2 THEN 1 ELSE 0)
    BY <1>1
  <1>5. 2 * dt > 3 * 4 => periods >= 2
    BY <1>1, <1>2
  <1>6. lost + e1 >= 0
    OBVIOUS
  <1> HIDE DEF periods
  <1>7. CASE 2 * dt <= 3 * 4
    <2>1. EstimateGap(dt) = 0 /\ EstimateGapCpp(dt) = 0
      BY <1>1, <1>7 DEF EstimateGap, EstimateGapCpp
    <2>2. /\ 0 <= lost + e1 + (IF d >= 2 THEN 1 ELSE 0)
          /\ 0 >= lost - e2 - (IF d <= -2 THEN 1 ELSE 0)
      BY <1>1, <1>4, <1>6, <1>7
    <2> QED BY <2>1, <2>2 DEF Within
  <1>8. CASE 2 * dt > 3 * 4
    <2>1. EstimateGap(dt) = periods - 1 /\ EstimateGapCpp(dt) = periods - 1
      <3>1. ~(2 * dt <= 3 * 4) /\ ~(periods <= 1) /\ periods - 1 > 0
        BY <1>1, <1>3, <1>5, <1>8
      <3>2. /\ EstimateGap(dt) =
                 (IF 2 * dt <= 3 * 4 THEN 0 ELSE IF periods <= 1 THEN 1 ELSE periods - 1)
            /\ EstimateGapCpp(dt) =
                 (IF 2 * dt > 3 * 4 /\ periods - 1 > 0 THEN periods - 1 ELSE 0)
        BY DEF EstimateGap, EstimateGapCpp, periods
      <3> QED BY <1>8, <3>1, <3>2
    <2>2. /\ periods - 1 \in Int
          /\ periods - 1 <= lost + e1 + (IF d >= 2 THEN 1 ELSE 0)
          /\ periods - 1 >= lost - e2 - (IF d <= -2 THEN 1 ELSE 0)
      BY <1>1, <1>3
    <2> QED BY <2>1, <2>2 DEF Within
  <1> QED BY <1>7, <1>8

\* A scan pushed after another.
LEMMA LossesStep ==
    IInv /\ DateInv /\ OrderInv /\ LateInv /\ [HNext]_hvars => [EstimateStep]_hvars
  <1> SUFFICES ASSUME IInv, DateInv, OrderInv, LateInv, HNext, Pushes, last.id > 0,
                      NEW drift \in Drifts, NEW est \in Estimates(drift)
               PROVE  /\ i > 0 => est = Lost
                      /\ est <= Lost + last_late + (IF drift >= 2 THEN 1 ELSE 0)
                      /\ est >= Lost - late - (IF drift <= -2 THEN 1 ELSE 0)
    BY DEF EstimateStep
  <1>1. /\ i \in Nat /\ pending_frames \in Nat /\ pending_base_ts \in Int /\ kfifo \in Int
        /\ burst \in Seq(Frames) /\ pending_frames <= Len(burst) /\ last.id \in Nat
        /\ last.ts \in Int /\ late \in Int /\ last_late \in Int
    BY DEF IInv, TypeOK, TypeBatch, TypeReader, BatchInv, LateInv
  <1>2. PushFrame
    BY <1>1 DEF HNext, Next, Drain, Handler, Flush, Sample, Poll, UserRead, PushFull, PushDone,
       Keep, Pushes, Pushing, CheckOverflow, CheckFor, Recover, RecoverWith, Count, ReadFrames,
       CountAfter, CountAfterWith, LoopEnd, HandlerLock, HandlerEnter, DirectRead, DirectPush,
       HandlerUnlock, NotifyDone, FlushLock, FlushCount, FlushReturn, FlushUnlock, IInv, LockHeld,
       OffInv, reader
  <1>3. /\ last'.id = burst[i + 1].id /\ last'.ts = pending_base_ts + i
        /\ i + 1 \in 1 .. pending_frames
    BY <1>1, <1>2 DEF PushFrame
  <1>4. burst[i + 1] \in Frames
    BY <1>1, <1>3
  <1>5. last'.id \in Nat /\ last'.ts \in Int
    BY <1>1, <1>3, <1>4 DEF Frames
  <1>6. last'.id > last.id
    BY <1>2, OrderPush
  <1> DEFINE e1 == last.id - last.ts
             e2 == last'.id - last'.ts
             dt == 4 * (last'.ts - last.ts) + drift
  <1>7. e1 \in Nat /\ e1 <= last_late
    BY <1>1 DEF LateInv, LastLate, DateInv, NotFromTheFuture
  <1>8. e2 \in Nat /\ e2 <= late
    BY <1>1, <1>3, <1>5 DEF LateInv, PendingLate, DateInv, PendingDates
  <1>9. /\ drift \in -3 .. 3 /\ Lost \in Nat /\ dt \in Int
        /\ dt = 4 * (Lost + 1 + e1 - e2) + drift
    <2>1. drift \in -3 .. 3
      BY DEF Drifts
    <2>2. Lost \in Nat
      BY <1>1, <1>5, <1>6 DEF Lost
    <2>3. Lost + 1 + e1 - e2 = last'.ts - last.ts
      BY <1>1, <1>5 DEF Lost
    <2>4. dt = 4 * (Lost + 1 + e1 - e2) + drift
      BY <2>3
    <2>5. dt \in Int
      BY <1>1, <1>5, <2>1
    <2> QED BY <2>1, <2>2, <2>4, <2>5
  <1>10. est \in {EstimateGap(dt), EstimateGapCpp(dt)}
    BY DEF Estimates
  <1>11. /\ est \in Int
         /\ est <= Lost + e1 + (IF drift >= 2 THEN 1 ELSE 0)
         /\ est >= Lost - e2 - (IF drift <= -2 THEN 1 ELSE 0)
    <2> HIDE DEF e1, e2, dt
    <2>1. Lost \in Nat /\ e1 \in Nat /\ e2 \in Nat /\ drift \in -3 .. 3 /\ dt \in Int
      BY <1>7, <1>8, <1>9
    <2>2. dt = 4 * (Lost + 1 + e1 - e2) + drift
      BY <1>9
    <2>3. Within(EstimateGap(dt), Lost, e1, e2, drift) /\ Within(EstimateGapCpp(dt), Lost, e1, e2, drift)
      BY <2>1, <2>2, EstimateBounds, Zenon
    <2>4. Within(est, Lost, e1, e2, drift)
      BY <2>3, <1>10
    <2> QED BY <2>4 DEF Within
  <1>12. ASSUME i > 0 PROVE est = Lost
    <2>1. i \in 1 .. pending_frames /\ drift = 0
      BY <1>1, <1>3, <1>12 DEF Drifts
    <2>2. last.id = burst[i].id /\ last.ts = pending_base_ts + (i - 1)
      BY <1>1, <1>12, <2>1 DEF LateInv, Midway, PendingFrom, Pushes
    <2>3. burst[i].id = burst[1].id + (i - 1) /\ burst[i + 1].id = burst[1].id + ((i + 1) - 1)
      BY <1>3, <2>1 DEF LateInv, PendingLate
    <2>4. burst[1] \in Frames
      BY <1>1, <1>3
    <2>5. burst[1].id \in Nat
      BY <2>4 DEF Frames
    <2>6. last'.id = last.id + 1 /\ last'.ts = last.ts + 1
      BY <1>1, <1>3, <2>1, <2>2, <2>3, <2>5
    <2>7. dt = 4 /\ Lost = 0
      BY <1>1, <2>1, <2>6 DEF Lost
    <2> QED BY <1>10, <2>7 DEF EstimateGap, EstimateGapCpp
  <1> HIDE DEF e1, e2, dt
  <1>13. est <= Lost + last_late + (IF drift >= 2 THEN 1 ELSE 0)
    BY <1>1, <1>7, <1>9, <1>11
  <1>14. est >= Lost - late - (IF drift <= -2 THEN 1 ELSE 0)
    BY <1>1, <1>8, <1>9, <1>11
  <1> QED BY <1>12, <1>13, <1>14

\* While no transfer fails, what a tool counts as lost between two scans is what was
\* lost, but for the samples that came between a trigger and the dating of its batch
\* and for the rounding, and is exact within a batch (fifo_drain, estimate_gap and
\* complete_sample).
THEOREM LossesBounded == ASSUME MaxFaults = 0 PROVE HSpec => LossesEstimated
  <1>1. HInit => DateInv /\ OrderInv /\ LateInv
    <2>1. Init => DateInv
      BY DEF Init, DateInv, FifoDates, TimeInv, BatchDates, PendingDates, NotFromTheFuture
    <2> QED BY <2>1, OrderInit DEF HInit, Init, LateInv, BatchLate, PendingLate, LastLate, Midway
  <1>2. [HNext]_hvars => [Next]_vars
    BY DEF HNext, hvars
  <1>3. IInv /\ DateInv /\ OrderInv /\ LateInv /\ [HNext]_hvars => DateInv' /\ OrderInv' /\ LateInv'
    BY <1>2, DatesStep, OrderStep, LateStep
  <1>4. IInv /\ DateInv /\ OrderInv /\ LateInv /\ [HNext]_hvars => [EstimateStep]_hvars
    BY LossesStep
  <1> QED BY <1>1, <1>3, <1>4, HistoryIInv, PTL DEF HSpec, LossesEstimated

-----------------------------------------------------------------------------
(* fifo_flush.                                                             *)

\* The place in the FIFO up to which frames from before the flush can be, after so
\* many turns of the drain.
Bound(turns) == FifoFrames - DrainMax * turns

\* The turns that have read a batch.
Turns == IF pc \in {"recover", "count", "read"} THEN loops - 1 ELSE loops

Draining == {"push_old", "check", "recover", "count", "read", "count_after", "push", "loop"}

\* Frames from place b + 1 on were sampled after the flush began.
NewFrom(b) == \A k \in 1 .. Len(fifo) : k > b => fifo[k] > flush_from

\* What the drain knows of the FIFO: each turn takes DrainMax of the old frames out
\* of it, or all of them.
FlushDrain ==
    /\ pc \in Draining => NewFrom(Bound(Turns))
    /\ pc = "read" => drain_frames >= DrainMax \/ NewFrom(drain_frames)
    /\ pc \in {"push", "loop"} /\ frames_after = 0 => NewFrom(0)
    /\ pc = "recover" /\ step >= 4 => NewFrom(0)
    /\ pc \in {"return", "unlock"} /\ ret = "ok" => NewFrom(0)

FlushInv ==
    /\ Len(fifo) <= FifoFrames
    /\ flush_from <= clock
    /\ lock = "flush" => FlushDrain

\* The bound falls by a batch each turn, and is nothing after FlushMaxLoops of them.
LEMMA BoundStep ==
    /\ \A l \in Int : Bound(l) \in Int /\ Bound(l + 1) = Bound(l) - DrainMax
    /\ Bound(0) = FifoFrames
    /\ \A l \in Nat : l >= FlushMaxLoops => Bound(l) <= 0
  <1>1. FifoFrames \in Nat /\ DrainMax \in Nat /\ DrainMax > 0
    BY ConstantsAssumption
  <1>2. ASSUME NEW l \in Int PROVE Bound(l) \in Int /\ Bound(l + 1) = Bound(l) - DrainMax
    BY <1>1 DEF Bound
  <1>3. Bound(0) = FifoFrames
    BY <1>1 DEF Bound
  <1>4. ASSUME NEW l \in Nat, l >= FlushMaxLoops PROVE Bound(l) <= 0
    <2> DEFINE q == (FifoFrames + DrainMax - 1) \div DrainMax
    <2>1. q \in Int /\ DrainMax * q > FifoFrames - 1
      BY <1>1
    <2>2. l >= q
      BY <1>4, <2>1 DEF FlushMaxLoops
    <2> HIDE DEF q
    <2>3. DrainMax * l >= DrainMax * q
      BY <1>1, <2>1, <2>2
    <2>4. DrainMax * q \in Int /\ DrainMax * l \in Int
      BY <1>1, <2>1
    <2> QED BY <1>1, <2>1, <2>3, <2>4 DEF Bound
  <1> QED BY <1>2, <1>3, <1>4

\* What enters a sequence of which all but the first b are new, is new.
LEMMA EnterNew ==
    ASSUME NEW s \in Seq(Nat), NEW n \in Nat, NEW f \in Nat, NEW b \in Int, n > f,
           \A k \in 1 .. Len(s) : k > b => s[k] > f
    PROVE  /\ \A k \in 1 .. Len(Append(s, n)) : k > b => Append(s, n)[k] > f
           /\ Len(s) > 0 => \A k \in 1 .. Len(Append(Tail(s), n)) :
                                k > b => Append(Tail(s), n)[k] > f
  <1>1. Len(s) \in Nat
    OBVIOUS
  <1>2. \A k \in 1 .. Len(Append(s, n)) : k > b => Append(s, n)[k] > f
    <2>1. ASSUME NEW k \in 1 .. Len(Append(s, n)), k > b PROVE Append(s, n)[k] > f
      <3>1. CASE k \in 1 .. Len(s)
        BY <2>1, <3>1
      <3>2. CASE k = Len(s) + 1
        BY <2>1, <3>2
      <3> QED BY <1>1, <2>1, <3>1, <3>2
    <2> QED BY <2>1
  <1>3. ASSUME Len(s) > 0, NEW k \in 1 .. Len(Append(Tail(s), n)), k > b
        PROVE  Append(Tail(s), n)[k] > f
    <2>1. Tail(s) \in Seq(Nat) /\ Len(Tail(s)) = Len(s) - 1
      BY <1>3
    <2>2. CASE k \in 1 .. Len(s) - 1
      <3>1. Append(Tail(s), n)[k] = s[k + 1]
        BY <1>1, <1>3, <2>1, <2>2
      <3> QED BY <1>1, <1>3, <2>2, <3>1
    <2>3. CASE k = Len(s)
      BY <1>1, <1>3, <2>1, <2>3
    <2>4. Len(Append(Tail(s), n)) = Len(s)
      BY <1>1, <1>3, <2>1
    <2>5. k \in 1 .. Len(s)
      BY <1>3, <2>4
    <2> QED BY <1>1, <2>2, <2>3, <2>5
  <1> QED BY <1>2, <1>3

\* A sample is new, and the frames before it keep their places or move up by one.
LEMMA SampleMoves ==
    IInv /\ FlushInv /\ Sample =>
        /\ Len(fifo') <= FifoFrames
        /\ \A b \in Int : NewFrom(b) => NewFrom(b)'
  <1> SUFFICES ASSUME IInv, FlushInv, Sample
               PROVE  /\ Len(fifo') <= FifoFrames
                      /\ \A b \in Int : NewFrom(b) => NewFrom(b)'
    OBVIOUS
  <1>1. /\ fifo \in Seq(Nat) /\ clock \in Nat /\ flush_from \in Nat /\ flush_from <= clock
        /\ flush_from' = flush_from /\ Len(fifo) <= FifoFrames
        /\ FifoFrames \in Nat /\ FifoFrames > 0
    BY ConstantsAssumption DEF IInv, TypeOK, TypeChip, TypeCallers, FlushInv, Sample, flushing
  <1>2. Len(fifo') <= FifoFrames
    <2>1. CASE Len(fifo) < FifoFrames /\ fifo' = Append(fifo, clock + 1)
      BY <1>1, <2>1
    <2>2. CASE Len(fifo) = FifoFrames /\ fifo' = Append(Tail(fifo), clock + 1)
      BY <1>1, <2>2
    <2>3. CASE fifo' = fifo
      BY <1>1, <2>3
    <2> QED BY <2>1, <2>2, <2>3 DEF Sample
  <1>3. ASSUME NEW b \in Int, NewFrom(b) PROVE NewFrom(b)'
    <2>1. \A k \in 1 .. Len(fifo) : k > b => fifo[k] > flush_from
      BY <1>3 DEF NewFrom
    <2>2. CASE fifo' = Append(fifo, clock + 1)
      <3>1. \A k \in 1 .. Len(Append(fifo, clock + 1)) :
              k > b => Append(fifo, clock + 1)[k] > flush_from
        BY <1>1, <2>1, EnterNew
      <3> QED BY <1>1, <2>2, <3>1 DEF NewFrom
    <2>3. CASE Len(fifo) = FifoFrames /\ fifo' = Append(Tail(fifo), clock + 1)
      <3>1. \A k \in 1 .. Len(Append(Tail(fifo), clock + 1)) :
              k > b => Append(Tail(fifo), clock + 1)[k] > flush_from
        BY <1>1, <2>1, <2>3, EnterNew
      <3> QED BY <1>1, <2>3, <3>1 DEF NewFrom
    <2>4. CASE fifo' = fifo
      BY <1>1, <2>1, <2>4 DEF NewFrom
    <2> QED BY <2>2, <2>3, <2>4 DEF Sample
  <1> QED BY <1>2, <1>3

\* The drain leaves the FIFO alone: what is new stays new.
LEMMA NewKept ==
    ASSUME UNCHANGED <<fifo, flush_from>> PROVE \A b \in Int : NewFrom(b)' <=> NewFrom(b)
  BY DEF NewFrom

\* A batch that is read takes the oldest frames out.
LEMMA FlushRead == IInv /\ FlushInv /\ ReadFrames => FlushInv'
  <1> SUFFICES ASSUME IInv, FlushInv, ReadFrames PROVE FlushInv'
    OBVIOUS
  <1>1. /\ fifo \in Seq(Nat) /\ clock \in Nat /\ flush_from \in Nat /\ loops \in Nat /\ pc = "read"
        /\ drain_frames \in 1 .. Len(fifo) /\ Len(fifo) <= FifoFrames /\ flush_from <= clock
        /\ FifoFrames \in Nat /\ DrainMax \in Nat
    BY ConstantsAssumption
    DEF IInv, TypeOK, TypeChip, TypeCallers, TypeDrain, BatchInv, FlushInv, ReadFrames
  <1>2. UNCHANGED <<clock, lock, flush_from, loops, drain_frames, frames_after, step>>
    BY DEF ReadFrames, Fault, OutsideDrain, flushing, locals, chip
  <1>3. CASE Fault
    <2>1. fifo' = fifo /\ pc' = "return" /\ ret' = "error"
      BY <1>3 DEF Fault, Return, chip
    <2> QED BY <1>1, <1>2, <2>1 DEF FlushInv, FlushDrain, Draining
  <1>4. CASE ~Fault
    <2>1. pc' = "count_after" /\ fifo' = SubSeq(fifo, drain_frames + 1, Len(fifo))
      BY <1>4 DEF ReadFrames
    <2>2. /\ Len(fifo) \in Nat /\ Len(fifo') = Len(fifo) - drain_frames
          /\ \A k \in 1 .. Len(fifo') : fifo'[k] = fifo[k + drain_frames]
      BY <1>1, <2>1
    <2>3. ASSUME lock = "flush" PROVE NewFrom(Bound(loops))'
      <3>1. NewFrom(Bound(loops - 1)) /\ (drain_frames >= DrainMax \/ NewFrom(drain_frames))
        BY <1>1, <2>3 DEF FlushInv, FlushDrain, Turns, Draining
      <3>2. Bound(loops) = Bound(loops - 1) - DrainMax /\ Bound(loops - 1) \in Int
            /\ Bound(loops)' = Bound(loops)
        <4>1. loops - 1 \in Int /\ (loops - 1) + 1 = loops
          BY <1>1
        <4> QED BY <1>2, <4>1, BoundStep DEF Bound
      <3>3. \A k \in 1 .. Len(fifo') : k > Bound(loops) => fifo[k + drain_frames] > flush_from
        <4>1. CASE drain_frames >= DrainMax
          <5>1. SUFFICES ASSUME NEW k \in 1 .. Len(fifo) - drain_frames, k > Bound(loops)
                         PROVE  fifo[k + drain_frames] > flush_from
            BY <2>2
          <5>2. k + drain_frames \in 1 .. Len(fifo)
            BY <1>1, <2>2, <5>1
          <5>3. k + drain_frames > Bound(loops - 1)
            BY <1>1, <2>2, <3>2, <4>1, <5>1
          <5> QED BY <3>1, <5>2, <5>3 DEF NewFrom
        <4>2. CASE NewFrom(drain_frames)
          BY <1>1, <2>2, <4>2 DEF NewFrom
        <4> QED BY <3>1, <4>1, <4>2
      <3> QED BY <1>2, <2>2, <3>2, <3>3 DEF NewFrom
    <2> QED BY <1>1, <1>2, <2>1, <2>2, <2>3 DEF FlushInv, FlushDrain, Turns, Draining
  <1> QED BY <1>3, <1>4

\* A recovery that gets past the reset leaves no old frames.
LEMMA FlushRecover == IInv /\ FlushInv /\ Recover => FlushInv'
  <1> SUFFICES ASSUME IInv, FlushInv, Recover PROVE FlushInv'
    OBVIOUS
  <1>1. /\ fifo \in Seq(Nat) /\ clock \in Nat /\ loops \in Nat /\ pc = "recover"
        /\ step \in 1 .. RecoverSteps /\ FifoFrames \in Nat
    BY ConstantsAssumption DEF IInv, TypeOK, TypeChip, TypeDrain, Recover, RecoverWith
  <1>2. UNCHANGED <<clock, lock, flush_from, loops, drain_frames, frames_after>>
    BY DEF Recover, RecoverWith, Fault, OutsideDrain, flushing, locals, chip
  <1>3. CASE Fault
    <2>1. fifo' = fifo /\ pc' = "return" /\ ret' = "error"
      BY <1>3 DEF Fault, Return, chip
    <2> QED BY <1>1, <1>2, <2>1 DEF FlushInv, FlushDrain, Draining
  <1>4. CASE ~Fault /\ step \in {3, 6}
    <2>1. fifo' = <<>>
      BY <1>4 DEF Recover, RecoverWith
    <2>2. \A b : NewFrom(b)'
      BY <2>1 DEF NewFrom
    <2>3. pc' = "recover"
      BY <1>1, <1>4 DEF Recover, RecoverWith, RecoverSteps
    <2>4. Len(fifo') <= FifoFrames
      BY <1>1, <2>1
    <2>5. FlushDrain'
      BY <2>2, <2>3 DEF FlushDrain
    <2> QED BY <1>2, <2>4, <2>5 DEF FlushInv
  <1>5. CASE ~Fault /\ step \notin {3, 6}
    <2>1. fifo' = fifo /\ \A b \in Int : NewFrom(b)' <=> NewFrom(b)
      BY <1>2, <1>5, NewKept DEF Recover, RecoverWith
    <2>2. \/ pc' = "recover" /\ step' = step + 1
          \/ pc' = "return" /\ step = RecoverSteps
      BY <1>1, <1>5 DEF Recover, RecoverWith, Return
    <2>3. (Turns' = Turns /\ Bound(Turns)' = Bound(Turns)) \/ pc' = "return"
      BY <1>1, <1>2, <2>2 DEF Turns, Bound
    <2>4. Bound(Turns) \in Int
      BY <1>1, BoundStep DEF Turns
    <2>5. step' >= 4 /\ pc' = "recover" => step >= 4
      BY <1>1, <1>5, <2>2 DEF RecoverSteps
    <2> QED BY <1>1, <1>2, <2>1, <2>2, <2>3, <2>4, <2>5
            DEF FlushInv, FlushDrain, Draining, RecoverSteps
  <1> QED BY <1>3, <1>4, <1>5

\* A sample does not make anything old.
LEMMA FlushSample == IInv /\ FlushInv /\ Sample => FlushInv'
  <1> SUFFICES ASSUME IInv, FlushInv, Sample PROVE FlushInv'
    OBVIOUS
  <1>1. /\ UNCHANGED <<pc, ret, lock, loops, drain_frames, frames_after, step, flush_from>>
        /\ clock' = clock + 1 /\ clock \in Nat /\ flush_from \in Nat /\ loops \in Nat
        /\ drain_frames \in Nat
    BY DEF Sample, locals, flushing, IInv, TypeOK, TypeChip, TypeCallers, TypeDrain, TypeBatch
  <1>2. Bound(Turns) \in Int /\ Bound(Turns)' = Bound(Turns)
    <2>1. Turns \in Int
      BY <1>1 DEF Turns
    <2> QED BY <1>1, <2>1, BoundStep DEF Turns, Bound
  <1>3. Len(fifo') <= FifoFrames /\ \A b \in Int : NewFrom(b) => NewFrom(b)'
    BY SampleMoves
  <1>4. NewFrom(Bound(Turns)) => NewFrom(Bound(Turns))'
    BY <1>2, <1>3 DEF NewFrom
  <1>5. NewFrom(drain_frames) => NewFrom(drain_frames)'
    BY <1>1, <1>3 DEF NewFrom
  <1> QED BY <1>1, <1>3, <1>4, <1>5 DEF FlushInv, FlushDrain, Draining

\* Steps of the drain that do not touch the FIFO.
LEMMA FlushKeeps ==
    /\ IInv /\ FlushInv
    /\ PushFrame \/ PushFull \/ PushDone \/ CheckOverflow \/ Count \/ CountAfter \/ LoopEnd
    => FlushInv'
  <1> SUFFICES ASSUME IInv, FlushInv,
                      PushFrame \/ PushFull \/ PushDone \/ CheckOverflow \/ Count \/ CountAfter
                        \/ LoopEnd
               PROVE  FlushInv'
    OBVIOUS
  <1>1. /\ UNCHANGED <<fifo, clock, lock, flush_from>>
        /\ \A b \in Int : NewFrom(b)' <=> NewFrom(b)
    <2>1. UNCHANGED <<fifo, clock, lock, flush_from>>
      BY DEF PushFrame, PushFull, Keep, PushDone, CheckOverflow, CheckFor, Count, CountAfter,
         CountAfterWith, LoopEnd, Fault, OutsideDrain, flushing, chip
    <2> QED BY <2>1, NewKept
  <1>2. /\ loops \in Nat /\ drain_frames \in Nat /\ Len(fifo) \in Nat /\ DrainMax \in Nat
        /\ Len(fifo) <= FifoFrames /\ flush_from <= clock
    BY ConstantsAssumption DEF IInv, TypeOK, TypeDrain, TypeBatch, TypeChip, FlushInv
  <1>3. /\ Bound(loops) \in Int /\ Bound(loops - 1) \in Int /\ (loops + 1) - 1 = loops
        /\ loops >= FlushMaxLoops => Bound(loops) <= 0
    <2>1. loops \in Int /\ loops - 1 \in Int /\ (loops + 1) - 1 = loops
      BY <1>2
    <2> QED BY <1>2, <2>1, BoundStep
  <1>4. SUFFICES ASSUME lock = "flush" PROVE FlushDrain'
    BY <1>1, <1>2 DEF FlushInv
  <1>5. FlushDrain /\ Forced
    BY <1>4 DEF FlushInv, Forced
  <1> USE DEF FlushDrain, Draining, Turns, Return, Fault, locals
  <1>6. CASE PushFrame
    BY <1>1, <1>2, <1>3, <1>5, <1>6 DEF PushFrame, Bound, NewFrom, chip
  <1>7. CASE PushFull
    BY <1>1, <1>7 DEF PushFull, Keep
  <1>8. CASE PushDone
    <2>1. loops' = loops /\ frames_after' = frames_after /\ Pushing
          /\ pc' = IF pc = "push_old" THEN "check" ELSE "loop"
      BY <1>8 DEF PushDone
    <2>2. NewFrom(Bound(loops)) /\ (pc = "push" /\ frames_after = 0 => NewFrom(0))
      BY <1>5, <2>1 DEF Pushing
    <2>3. NewFrom(Bound(loops))' /\ (NewFrom(0) => NewFrom(0)')
      BY <1>1, <2>1, <2>2 DEF Bound, NewFrom
    <2> QED BY <2>1, <2>2, <2>3 DEF Pushing
  <1>9. CASE CheckOverflow
    <2>1. CASE pc' \in {"recover", "count"}
      <3>1. loops' = loops + 1 /\ pc = "check" /\ (pc' = "recover" => step' = 1)
        BY <1>9, <2>1 DEF CheckOverflow, CheckFor
      <3>2. NewFrom(Bound(loops))
        BY <1>5, <3>1
      <3>3. Turns' = loops
        BY <1>3, <2>1, <3>1
      <3>4. NewFrom(Bound(Turns))'
        BY <1>1, <3>2, <3>3 DEF NewFrom, Bound
      <3> QED BY <2>1, <3>1, <3>4
    <2>2. CASE pc' = "return" /\ ret' = "error"
      BY <2>2
    <2> QED BY <1>9, <2>1, <2>2 DEF CheckOverflow, CheckFor
  <1>10. CASE Count
    <2>1. CASE pc' = "return" /\ ret' = "error"
      BY <2>1
    <2>2. CASE Len(fifo) = 0 /\ pc' = "return"
      BY <1>1, <2>2 DEF NewFrom
    <2>3. CASE pc' = "read"
      <3>1. pc = "count" /\ loops' = loops /\ drain_frames' = Min2(Len(fifo), DrainMax)
        BY <1>10, <2>3 DEF Count
      <3>2. drain_frames' >= DrainMax \/ NewFrom(drain_frames)'
        <4>1. drain_frames' = DrainMax \/ drain_frames' = Len(fifo)
          BY <3>1 DEF Min2
        <4>2. CASE drain_frames' = Len(fifo)
          BY <1>1, <1>2, <4>2 DEF NewFrom
        <4> QED BY <1>2, <4>1, <4>2
      <3>3. NewFrom(Bound(Turns))'
        BY <1>1, <1>5, <2>3, <3>1 DEF NewFrom, Bound
      <3> QED BY <2>3, <3>2, <3>3
    <2> QED BY <1>5, <1>10, <2>1, <2>2, <2>3 DEF Count
  <1>11. CASE CountAfter
    <2>1. CASE pc' = "return" /\ ret' = "error"
      BY <2>1
    <2>2. CASE pc' = "push"
      <3>1. pc = "count_after" /\ loops' = loops /\ frames_after' = Len(fifo)
        BY <1>11, <2>2 DEF CountAfter, CountAfterWith
      <3>2. frames_after' = 0 => NewFrom(0)'
        BY <1>1, <3>1 DEF NewFrom
      <3>3. NewFrom(Bound(Turns))'
        BY <1>1, <1>5, <2>2, <3>1 DEF NewFrom, Bound
      <3> QED BY <2>2, <3>2, <3>3
    <2> QED BY <1>11, <2>1, <2>2 DEF CountAfter, CountAfterWith
  <1>12. CASE LoopEnd
    <2>1. pc = "loop" /\ loops' = loops
      BY <1>12 DEF LoopEnd
    <2>2. NewFrom(Bound(loops))
      BY <1>5, <2>1
    <2>3. CASE pc' = "return"
      <3>1. frames_after = 0 \/ loops >= FlushMaxLoops
        BY <1>5, <1>12, <2>3 DEF LoopEnd
      <3>2. NewFrom(0)
        <4>1. CASE frames_after = 0
          BY <1>5, <2>1, <4>1
        <4>2. CASE loops >= FlushMaxLoops
          BY <1>2, <1>3, <2>2, <4>2 DEF NewFrom
        <4> QED BY <3>1, <4>1, <4>2
      <3> QED BY <1>1, <2>3, <3>2 DEF NewFrom
    <2>4. CASE pc' = "check"
      BY <1>1, <2>1, <2>2, <2>4 DEF NewFrom, Bound
    <2> QED BY <1>12, <2>3, <2>4 DEF LoopEnd
  <1> QED BY <1>6, <1>7, <1>8, <1>9, <1>10, <1>11, <1>12

\* The handler, the other steps of the flush, the trigger and the reader.
LEMMA FlushCallers ==
    IInv /\ FlushInv /\ (Handler \/ Flush \/ Poll \/ UserRead) => FlushInv'
  <1> SUFFICES ASSUME IInv, FlushInv, Handler \/ Flush \/ Poll \/ UserRead PROVE FlushInv'
    OBVIOUS
  <1>1. /\ Len(fifo) \in Nat /\ Len(fifo) <= FifoFrames /\ flush_from <= clock /\ clock \in Nat
        /\ LockHeld
    BY DEF IInv, TypeOK, TypeChip, FlushInv
  <1> USE DEF Fault, Return, chip, locals, flushing, OutsideDrain
  <1>2. CASE Handler
    <2>1. UNCHANGED <<fifo, clock, flush_from>>
      BY <1>2 DEF Handler, HandlerLock, HandlerEnter, DirectRead, DirectPush, HandlerUnlock,
         NotifyDone
    <2>2. CASE HandlerLock \/ DirectRead \/ HandlerUnlock
      <3>1. lock' # "flush"
        BY <1>1, <2>2 DEF HandlerLock, HandlerEnter, DirectRead, HandlerUnlock, LockHeld
      <3> QED BY <1>1, <2>1, <3>1 DEF FlushInv
    <2>3. CASE DirectPush \/ NotifyDone
      <3>1. UNCHANGED <<pc, ret, lock, loops, drain_frames, frames_after, step>>
        BY <2>3 DEF DirectPush, NotifyDone
      <3> QED BY <2>1, <3>1 DEF FlushInv, FlushDrain, NewFrom, Bound, Turns
    <2> QED BY <1>2, <2>2, <2>3 DEF Handler
  <1>3. CASE FlushLock
    BY <1>1, <1>3 DEF FlushLock, FlushInv, FlushDrain, Draining
  <1>4. CASE FlushCount
    <2>1. UNCHANGED <<fifo, clock, flush_from, lock>> /\ flush_from <= clock
      BY <1>1, <1>4 DEF FlushCount
    <2>2. CASE pc' = "return" /\ ret' = "error"
      BY <1>1, <2>1, <2>2 DEF FlushInv, FlushDrain, Draining
    <2>3. CASE pc' = "unlock" /\ Len(fifo) = 0
      BY <1>1, <2>1, <2>3 DEF FlushInv, FlushDrain, Draining, NewFrom
    <2>4. CASE EnterDrain(clock)
      <3>1. pc' \in {"push_old", "check"} /\ loops' = 0
        BY <2>4 DEF EnterDrain
      <3>2. Bound(Turns)' = FifoFrames
        <4>1. Turns' = 0
          BY <3>1 DEF Turns
        <4> QED BY <4>1, BoundStep DEF Bound
      <3>3. NewFrom(Bound(Turns))'
        BY <1>1, <2>1, <3>2, ConstantsAssumption DEF NewFrom
      <3> QED BY <1>1, <2>1, <3>1, <3>3 DEF FlushInv, FlushDrain
    <2> QED BY <1>4, <2>2, <2>3, <2>4 DEF FlushCount
  <1>5. CASE FlushReturn
    <2>1. /\ UNCHANGED <<fifo, clock, flush_from, lock, ret>> /\ pc' \in {"flush_count", "unlock"}
          /\ pc = "return" /\ lock = "flush"
      BY <1>5 DEF FlushReturn
    <2>2. ret = "ok" => NewFrom(0)
      BY <2>1 DEF FlushInv, FlushDrain
    <2>3. NewFrom(0) => NewFrom(0)'
      BY <2>1 DEF NewFrom
    <2> QED BY <1>1, <2>1, <2>2, <2>3 DEF FlushInv, FlushDrain, Draining
  <1>6. CASE FlushUnlock
    BY <1>1, <1>6 DEF FlushUnlock, FlushInv
  <1>7. CASE Poll \/ UserRead
    BY <1>7 DEF Poll, UserRead, FlushInv, FlushDrain, NewFrom, Bound, Turns
  <1> QED BY <1>2, <1>3, <1>4, <1>5, <1>6, <1>7 DEF Flush

\* Each step.
LEMMA FlushStep == IInv /\ FlushInv /\ [Next]_vars => FlushInv'
  <1> SUFFICES ASSUME IInv, FlushInv, [Next]_vars PROVE FlushInv'
    OBVIOUS
  <1>1. CASE UNCHANGED vars
    BY <1>1 DEF vars, chip, locals, flushing, FlushInv, FlushDrain, NewFrom, Bound, Turns
  <1> QED BY <1>1, FlushSample, FlushRead, FlushRecover, FlushKeeps, FlushCallers DEF Next, Drain

\* A write to fifo_flush that succeeds leaves nothing in the FIFO that was there when
\* it began, for every FIFO and batch and whatever is sampled meanwhile: a drain's
\* FlushMaxLoops turns, and the rounds of the flush, are enough.
THEOREM FlushAlwaysDelivers == Spec => []FlushDelivers
  <1>1. Init => FlushInv
    BY ConstantsAssumption DEF Init, FlushInv
  <1>2. IInv /\ FlushInv => FlushDelivers
    BY DEF IInv, LockHeld, FlushInv, FlushDrain, NewFrom, FlushDelivers, TypeOK, TypeChip
  <1> QED BY <1>1, <1>2, FlushStep, AlwaysIInv, PTL DEF Spec
=============================================================================
