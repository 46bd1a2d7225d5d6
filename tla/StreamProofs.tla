----------------------------- MODULE StreamProofs -----------------------------
(***************************************************************************)
(* Theorems about the stream that FifoDrain delivers, for every size and   *)
(* any number of samples and flushes: scans reach the kfifo in sampling    *)
(* order whatever transfers fail; where none fails none is lost, and an    *)
(* overflow goes unreported in two places of the drain only.               *)
(***************************************************************************)
EXTENDS MCFifoDrain, FifoDrainProofs, DrainHistory

\* The places in the burst buffer of the frames popped and not pushed yet.
HeldFrom == IF pc = "count_after" THEN 0 ELSE PendingFrom

HeldTo == IF pc = "count_after" THEN drain_frames ELSE pending_frames

IsHeld(k) == k \in DOMAIN burst /\ HeldFrom < k /\ k <= HeldTo

\* The FIFO is still read through: it is on, or a recovery is under way.
Live == fifo_enabled = 1 \/ pc = "recover"

\* Frames are numbered in the order of sampling, and none is newer than the clock.
FifoOrder ==
    /\ \A k \in DOMAIN fifo : fifo[k] <= clock
    /\ \A j, k \in DOMAIN fifo : j < k => fifo[j] < fifo[k]

\* The frames held are in order too, and older than what is left in the FIFO.
HeldOrder ==
    \A k \in DOMAIN burst : IsHeld(k) =>
        /\ burst[k].id <= clock
        /\ \A m \in DOMAIN fifo : burst[k].id < fifo[m]
        /\ \A j \in DOMAIN burst : IsHeld(j) /\ j < k => burst[j].id < burst[k].id

\* All of them are newer than the scan pushed last; the direct path only comes in
\* when the FIFO is given up.
LastOrder ==
    /\ last.id <= clock
    /\ handler = "direct" => last.id <= frame /\ frame <= clock
    /\ Live => \A k \in DOMAIN fifo : last.id < fifo[k]
    /\ \A k \in DOMAIN burst : IsHeld(k) => last.id < burst[k].id

OrderInv == FifoOrder /\ HeldOrder /\ LastOrder

-----------------------------------------------------------------------------
\* Where nothing is pending and no batch waits for its date, nothing is held.
LEMMA NothingHeld ==
    ASSUME IInv, pending_frames = 0, pc # "count_after"
    PROVE  \A k \in DOMAIN burst : ~IsHeld(k)
  BY DEF IInv, TypeOK, TypeBatch, IsHeld, HeldFrom, HeldTo, PendingFrom

\* Before the first sample there is nothing to be out of order.
LEMMA OrderInit == Init => OrderInv
  BY DEF Init, OrderInv, FifoOrder, HeldOrder, LastOrder, IsHeld

\* A sample is newer than everything there is.
LEMMA OrderSample == IInv /\ OrderInv /\ Sample => OrderInv'
  <1> SUFFICES ASSUME IInv, OrderInv, Sample PROVE OrderInv'
    OBVIOUS
  <1>1. fifo \in Seq(Nat) /\ clock \in Nat /\ burst \in Seq(Frames) /\ last.id \in Nat
        /\ frame \in Nat
    BY DEF IInv, TypeOK, TypeChip, TypeBatch, TypeReader, TypeCallers
  <1>2. clock' = clock + 1 /\ UNCHANGED <<burst, last, frame, handler>>
        /\ Live' = Live /\ \A k : IsHeld(k)' = IsHeld(k)
    BY DEF Sample, Live, IsHeld, HeldFrom, HeldTo, PendingFrom, Pushing, pending, locals, reader
  <1>3. fifo' \in Seq(Nat)
    <2>1. CASE fifo' = Append(fifo, clock + 1) BY <1>1, <2>1, EnterTyped
    <2>2. CASE Len(fifo) = FifoFrames /\ fifo' = Append(Tail(fifo), clock + 1)
      BY <1>1, <2>2, EnterTyped, ConstantsAssumption
    <2>3. CASE fifo' = fifo BY <1>1, <2>3
    <2> QED BY <2>1, <2>2, <2>3 DEF Sample
  <1>4. PICK d \in {0, 1} : \A k \in 1 .. Len(fifo') :
          \/ k = Len(fifo') /\ fifo'[k] = clock + 1
          \/ k + d \in 1 .. Len(fifo) /\ fifo'[k] = fifo[k + d]
    <2>1. CASE fifo' = Append(fifo, clock + 1)
      BY <1>1, <2>1
    <2>2. CASE Len(fifo) = FifoFrames /\ fifo' = Append(Tail(fifo), clock + 1)
      BY <1>1, <2>2, ConstantsAssumption
    <2>3. CASE fifo' = fifo
      BY <1>1, <2>3
    <2> QED BY <2>1, <2>2, <2>3 DEF Sample
  <1>4a. DOMAIN fifo = 1 .. Len(fifo) /\ DOMAIN fifo' = 1 .. Len(fifo') /\ Len(fifo') \in Nat
         /\ \A k \in DOMAIN fifo : fifo[k] \in Nat
    BY <1>1, <1>3
  <1>5. clock \in Nat /\ clock' = clock + 1 /\ last.id \in Nat /\ last' = last
        /\ \A k \in DOMAIN fifo' :
             \/ k = Len(fifo') /\ fifo'[k] = clock'
             \/ k + d \in DOMAIN fifo /\ fifo'[k] = fifo[k + d]
    BY <1>1, <1>2, <1>4, <1>4a
  <1>6. FifoOrder'
    <2>1. \A k \in DOMAIN fifo' : fifo'[k] <= clock'
      BY <1>4a, <1>5 DEF OrderInv, FifoOrder
    <2>2. ASSUME NEW j \in DOMAIN fifo', NEW k \in DOMAIN fifo', j < k
          PROVE  fifo'[j] < fifo'[k]
      <3>1. j + d \in DOMAIN fifo /\ fifo'[j] = fifo[j + d] /\ fifo[j + d] <= clock
        BY <1>4a, <1>5, <2>2 DEF OrderInv, FifoOrder
      <3>2. CASE fifo'[k] = clock'
        BY <1>4a, <1>5, <3>1, <3>2
      <3>3. CASE k + d \in DOMAIN fifo /\ fifo'[k] = fifo[k + d]
        BY <1>4a, <2>2, <3>1, <3>3 DEF OrderInv, FifoOrder
      <3> QED BY <1>5, <3>2, <3>3
    <2> QED BY <2>1, <2>2 DEF FifoOrder
  <1>7. HeldOrder'
    <2>1. \A k \in DOMAIN burst : burst[k].id \in Nat
      <3>1. \A k \in DOMAIN burst : burst[k] \in Frames
        BY <1>1
      <3> QED BY <3>1 DEF Frames
    <2> QED BY <1>2, <1>5, <1>4a, <2>1 DEF OrderInv, HeldOrder
  <1>8. LastOrder'
    BY <1>1, <1>2, <1>5, <1>4a DEF OrderInv, LastOrder
  <1> QED BY <1>6, <1>7, <1>8 DEF OrderInv

\* A scan that is pushed was the oldest one held.
LEMMA OrderPush == IInv /\ OrderInv /\ PushFrame => OrderInv' /\ last'.id > last.id
  <1> SUFFICES ASSUME IInv, OrderInv, PushFrame PROVE OrderInv' /\ last'.id > last.id
    OBVIOUS
  <1>1. /\ fifo \in Seq(Nat) /\ clock \in Nat /\ burst \in Seq(Frames) /\ last.id \in Nat
        /\ i \in Nat /\ pending_frames \in Nat /\ pending_frames <= Len(burst)
        /\ handler # "direct"
    BY DEF IInv, TypeOK, TypeChip, TypeBatch, TypeReader, BatchInv, OffInv, PushFrame, Pushing
  <1>2. /\ UNCHANGED <<fifo, clock, burst, handler, fifo_enabled, pc, pending_frames, drain_frames>>
        /\ i' = i + 1 /\ i < pending_frames /\ Pushing /\ pc # "count_after"
        /\ last'.id = burst[i + 1].id
    BY DEF PushFrame, Pushing, chip, pending, locals, OutsideDrain
  <1>3. IsHeld(i + 1) /\ i + 1 \in DOMAIN burst
    BY <1>1, <1>2 DEF IsHeld, HeldFrom, HeldTo, PendingFrom
  <1>4. \A k \in DOMAIN burst : IsHeld(k)' => IsHeld(k) /\ i + 1 < k
    BY <1>1, <1>2 DEF IsHeld, HeldFrom, HeldTo, PendingFrom, Pushing
  <1>5. FifoOrder'
    BY <1>2 DEF OrderInv, FifoOrder
  <1>6. HeldOrder'
    BY <1>2, <1>4 DEF OrderInv, HeldOrder
  <1>7. LastOrder'
    BY <1>1, <1>2, <1>3, <1>4 DEF OrderInv, LastOrder, HeldOrder, Live
  <1>8. last'.id > last.id
    BY <1>1, <1>2, <1>3 DEF OrderInv, LastOrder, Frames
  <1> QED BY <1>5, <1>6, <1>7, <1>8 DEF OrderInv

\* A batch that is read takes the oldest frames out of the FIFO.
LEMMA OrderRead == IInv /\ OrderInv /\ ReadFrames => OrderInv'
  <1> SUFFICES ASSUME IInv, OrderInv, ReadFrames PROVE OrderInv'
    OBVIOUS
  <1>1. /\ fifo \in Seq(Nat) /\ clock \in Nat /\ burst \in Seq(Frames) /\ last.id \in Nat
        /\ drain_frames \in 1 .. Len(fifo) /\ pending_frames = 0 /\ handler # "direct"
        /\ fifo_enabled = 1
    BY DEF IInv, TypeOK, TypeChip, TypeBatch, TypeReader, TypeDrain, BatchInv, OffInv, ReadFrames
  <1>2. UNCHANGED <<clock, last, handler, pending_frames, drain_frames, fifo_enabled>>
    BY DEF ReadFrames, Fault, OutsideDrain, reader, chip, pending, locals
  <1>3. CASE pc' = "count_after"
    <2>1. /\ burst' = [k \in 1 .. drain_frames |-> [id |-> fifo[k], kind |-> align]]
          /\ fifo' = SubSeq(fifo, drain_frames + 1, Len(fifo))
      BY <1>3 DEF ReadFrames, Fault, Return
    <2>2. \A k \in DOMAIN burst' : k \in DOMAIN fifo /\ burst'[k].id = fifo[k]
                                   /\ k <= drain_frames
      BY <1>1, <2>1
    <2>3. \A k \in DOMAIN fifo' : k + drain_frames \in DOMAIN fifo /\ k > 0
                                  /\ fifo'[k] = fifo[k + drain_frames] /\ k \in Nat
      BY <1>1, <2>1
    <2>4. FifoOrder'
      BY <1>1, <1>2, <2>3 DEF OrderInv, FifoOrder
    <2>5. HeldOrder'
      BY <1>1, <1>2, <2>2, <2>3 DEF OrderInv, HeldOrder, FifoOrder
    <2>6. LastOrder'
      BY <1>1, <1>2, <2>2, <2>3 DEF OrderInv, LastOrder, Live
    <2> QED BY <2>4, <2>5, <2>6 DEF OrderInv
  <1>4. CASE pc' # "count_after"
    <2>1. UNCHANGED <<fifo, burst, frame, pending_pos>> /\ pc' = "return"
      BY <1>4 DEF ReadFrames, Fault, Return, OutsideDrain, chip, pending
    <2>2. \A k \in DOMAIN burst' : ~IsHeld(k)'
      BY <1>1, <1>2, <2>1
      DEF IsHeld, HeldFrom, HeldTo, PendingFrom, Pushing, IInv, TypeOK, TypeBatch
    <2> QED BY <1>1, <1>2, <2>1, <2>2 DEF OrderInv, FifoOrder, HeldOrder, LastOrder, Live
  <1> QED BY <1>3, <1>4

\* A step that takes nothing out of the FIFO but by a reset, and holds nothing new.
LEMMA OrderQuiet ==
    ASSUME OrderInv, UNCHANGED <<clock, burst, last>>,
           fifo' = <<>> \/ (fifo' = fifo /\ (Live' => Live)),
           \A k \in DOMAIN burst : IsHeld(k)' => IsHeld(k),
           handler' = "direct" => last.id <= frame' /\ frame' <= clock
    PROVE  OrderInv'
  BY DEF OrderInv, FifoOrder, HeldOrder, LastOrder

\* The rest of the drain: it holds what was held, or clears what is pending.
LEMMA OrderDrain ==
    /\ IInv /\ OrderInv
    /\ PushFull \/ PushDone \/ CheckOverflow \/ Recover \/ Count \/ CountAfter \/ LoopEnd
    => OrderInv'
  <1> SUFFICES ASSUME IInv, OrderInv,
                      PushFull \/ PushDone \/ CheckOverflow \/ Recover \/ Count \/ CountAfter
                        \/ LoopEnd
               PROVE  OrderInv'
    OBVIOUS
  <1>1. /\ i \in Nat /\ pending_frames \in Nat /\ pending_pos \in Nat /\ drain_frames \in Nat
        /\ BatchInv /\ OffInv
        /\ handler = "direct" => last.id <= frame /\ frame <= clock
    BY DEF IInv, TypeOK, TypeBatch, OrderInv, LastOrder
  <1> USE DEF OutsideDrain, Fault, Return, chip, pending, locals, reader
  <1> USE DEF IsHeld, HeldFrom, HeldTo, PendingFrom, Pushing, Live, BatchInv, OffInv
  <1>3. CASE PushFull
    BY <1>1, <1>3, OrderQuiet DEF PushFull, Keep
  <1>4. CASE PushDone
    BY <1>1, <1>4, OrderQuiet DEF PushDone, ClearPending
  <1>5. CASE CheckOverflow
    <2>1. fifo_enabled = 1 /\ Live
      BY <1>1, <1>5 DEF CheckOverflow, CheckFor, IInv, TypeOK, TypeDrain
    <2> QED BY <1>1, <1>5, <2>1, OrderQuiet DEF CheckOverflow, CheckFor
  <1>6. CASE Recover
    BY <1>1, <1>6, OrderQuiet DEF Recover, RecoverWith, ClearPending
  <1>7. CASE Count
    BY <1>1, <1>7, OrderQuiet DEF Count
  <1>8. CASE CountAfter
    BY <1>1, <1>8, OrderQuiet DEF CountAfter, CountAfterWith
  <1>9. CASE LoopEnd
    BY <1>1, <1>9, OrderQuiet DEF LoopEnd
  <1> QED BY <1>3, <1>4, <1>5, <1>6, <1>7, <1>8, <1>9

\* The handler reads the chip directly only when the FIFO is given up: what it
\* pushes is the newest sample at that time.
LEMMA OrderHandler == IInv /\ OrderInv /\ Handler => OrderInv' /\ InOrderStep
  <1> SUFFICES ASSUME IInv, OrderInv, Handler PROVE OrderInv' /\ InOrderStep
    OBVIOUS
  <1>1. /\ i \in Nat /\ pending_frames \in Nat /\ pending_pos \in Nat /\ drain_frames \in Nat
        /\ clock \in Nat /\ frame \in Nat /\ last.id \in Nat /\ BatchInv /\ OffInv /\ LockHeld
        /\ last.id <= clock
        /\ handler = "direct" => last.id <= frame /\ frame <= clock
    BY DEF IInv, TypeOK, TypeBatch, TypeChip, TypeCallers, TypeReader, OrderInv, LastOrder
  <1> USE DEF OutsideDrain, Fault, Return, chip, pending, locals, reader
  <1> USE DEF IsHeld, HeldFrom, HeldTo, PendingFrom, Pushing, Live, BatchInv, OffInv, LockHeld
  <1>2. CASE HandlerLock
    BY <1>1, <1>2, OrderQuiet DEF HandlerLock, HandlerEnter, EnterDrain, InOrderStep
  <1>3. CASE DirectRead
    BY <1>1, <1>3, OrderQuiet DEF DirectRead, InOrderStep
  <1>4. CASE DirectPush
    <2>1. pending_frames = 0 /\ pc = "out" /\ fifo_enabled = 0
      BY <1>1, <1>4 DEF DirectPush
    <2>2. UNCHANGED <<clock, fifo, burst, frame, pc, fifo_enabled, pending, drain_frames>>
          /\ handler' = "done"
      BY <1>4 DEF DirectPush
    <2>3. last' = last \/ last'.id = frame
      BY <1>4 DEF DirectPush
    <2>4. ~Live' /\ \A k \in DOMAIN burst' : ~IsHeld(k)'
      BY <1>1, <2>1, <2>2
    <2>5. OrderInv'
      BY <1>1, <1>4, <2>2, <2>3, <2>4 DEF OrderInv, FifoOrder, HeldOrder, LastOrder, DirectPush
    <2>6. InOrderStep
      BY <1>1, <1>4, <2>3 DEF DirectPush, InOrderStep
    <2> QED BY <2>5, <2>6
  <1>5. CASE HandlerUnlock
    BY <1>1, <1>5, OrderQuiet DEF HandlerUnlock, InOrderStep
  <1>6. CASE NotifyDone
    BY <1>1, <1>6, OrderQuiet DEF NotifyDone, InOrderStep
  <1> QED BY <1>2, <1>3, <1>4, <1>5, <1>6 DEF Handler

\* A flush, a poll and a read of the kfifo move no frames themselves.
LEMMA OrderFlush == IInv /\ OrderInv /\ (Flush \/ Poll \/ UserRead) => OrderInv' /\ last' = last
  <1> SUFFICES ASSUME IInv, OrderInv, Flush \/ Poll \/ UserRead PROVE OrderInv' /\ last' = last
    OBVIOUS
  <1>1. /\ i \in Nat /\ pending_frames \in Nat /\ pending_pos \in Nat /\ drain_frames \in Nat
        /\ BatchInv /\ OffInv /\ LockHeld
        /\ handler = "direct" => last.id <= frame /\ frame <= clock
    BY DEF IInv, TypeOK, TypeBatch, OrderInv, LastOrder
  <1> USE DEF OutsideDrain, Fault, Return, chip, pending, locals, reader, flushing
  <1> USE DEF IsHeld, HeldFrom, HeldTo, PendingFrom, Pushing, Live, BatchInv, OffInv, LockHeld
  <1>2. CASE FlushLock
    BY <1>1, <1>2, OrderQuiet DEF FlushLock
  <1>3. CASE FlushCount
    BY <1>1, <1>3, OrderQuiet DEF FlushCount, EnterDrain
  <1>4. CASE FlushReturn
    BY <1>1, <1>4, OrderQuiet DEF FlushReturn
  <1>5. CASE FlushUnlock
    BY <1>1, <1>5, OrderQuiet DEF FlushUnlock
  <1>6. CASE Poll
    BY <1>1, <1>6, OrderQuiet DEF Poll
  <1>7. CASE UserRead
    BY <1>1, <1>7, OrderQuiet DEF UserRead
  <1> QED BY <1>2, <1>3, <1>4, <1>5, <1>6, <1>7 DEF Flush

\* Each step keeps the order, and pushes in it.
LEMMA OrderStep == IInv /\ OrderInv /\ [Next]_vars => OrderInv' /\ [InOrderStep]_vars
  <1> SUFFICES ASSUME IInv, OrderInv, [Next]_vars PROVE OrderInv' /\ [InOrderStep]_vars
    OBVIOUS
  <1>1. CASE Sample
    BY <1>1, OrderSample DEF Sample, InOrderStep, reader
  <1>2. CASE PushFrame
    BY <1>2, OrderPush DEF InOrderStep
  <1>3. CASE ReadFrames
    BY <1>3, OrderRead DEF ReadFrames, Fault, InOrderStep, reader
  <1>4. CASE PushFull \/ PushDone \/ CheckOverflow \/ Recover \/ Count \/ CountAfter \/ LoopEnd
    <2>1. last' = last
      BY <1>4 DEF PushFull, Keep, PushDone, CheckOverflow, CheckFor, Recover, RecoverWith, Count,
         CountAfter, CountAfterWith, LoopEnd, Fault, reader
    <2> QED BY <1>4, <2>1, OrderDrain DEF InOrderStep
  <1>5. CASE Handler
    BY <1>5, OrderHandler
  <1>6. CASE Flush \/ Poll \/ UserRead
    BY <1>6, OrderFlush DEF InOrderStep
  <1>7. CASE UNCHANGED vars
    <2>1. OrderInv'
      BY <1>7 DEF vars, chip, pending, locals, reader, OrderInv, FifoOrder, HeldOrder, LastOrder,
         Live, IsHeld, HeldFrom, HeldTo, PendingFrom, Pushing
    <2> QED BY <1>7, <2>1
  <1> QED BY <1>1, <1>2, <1>3, <1>4, <1>5, <1>6, <1>7 DEF Next, Drain

\* Scans reach the kfifo in the order in which they were sampled and none twice,
\* for every size of FIFO, batch and kfifo and whatever transfers fail; after a
\* recovery that failed the direct path may repeat the newest (trigger_handler,
\* fifo_drain, fifo_push_pending, fifo_flush_store).
THEOREM ScansInOrder == Spec => InOrder
  <1>1. Spec => []OrderInv
    BY OrderInit, OrderStep, AlwaysIInv, PTL DEF Spec
  <1> QED BY <1>1, AlwaysIInv, OrderStep, PTL DEF Spec, InOrder

-----------------------------------------------------------------------------
(* Where no transfer fails.                                                *)

\* Where no transfer fails, none of the frames popped is lost: a batch that has
\* been read is dated and becomes pending.
LEMMA PoppedKeptStep == MaxFaults = 0 /\ IInv /\ [Next]_vars => [PoppedStep]_vars
  <1> SUFFICES ASSUME MaxFaults = 0, IInv, Next PROVE PoppedStep
    OBVIOUS
  <1>1. /\ burst \in Seq(Frames) /\ pending_frames \in Nat /\ pending_pos \in Nat /\ i \in Nat
        /\ drain_frames \in Nat /\ faults \in Nat /\ BatchInv /\ OffInv
    BY DEF IInv, TypeOK, TypeBatch, TypeReader
  <1>2. ~Fault
    BY <1>1 DEF Fault
  <1>3. PendingStep
    BY PendingKeptStep DEF PendingStep, Pending, PendingFrom, Pushing, vars, pending, reader
  <1>4. CASE CountAfter
    <2>1. Held = SubSeq(burst, 1, drain_frames)
      BY <1>4 DEF CountAfter, CountAfterWith, Held
    <2>2. /\ pc' = "push" /\ i' = 0 /\ pending_frames' = drain_frames
          /\ burst' = burst /\ last' = last
      BY <1>2, <1>4 DEF CountAfter, CountAfterWith, reader
    <2>3. Held' = SubSeq(burst, 1, drain_frames)
      BY <1>1, <2>2 DEF Held, Pending, PendingFrom, Pushing
    <2> QED BY <2>1, <2>2, <2>3 DEF PoppedStep
  <1>5. CASE ReadFrames
    <2>1. Held = <<>>
      BY <1>1, <1>5, EmptySubSeq DEF ReadFrames, Held, Pending, PendingFrom, Pushing, BatchInv
    <2> QED BY <2>1 DEF PoppedStep
  <1>6. CASE pc = "count_after" /\ ~CountAfter
    <2>1. UNCHANGED <<pc, burst, drain_frames, last>>
      BY <1>1, <1>6
      DEF Next, Drain, Handler, Flush, Sample, Poll, UserRead, PushFrame, PushFull, Keep, PushDone,
          Pushing, CheckOverflow, CheckFor, Recover, RecoverWith, Count, ReadFrames, LoopEnd,
          HandlerLock, HandlerEnter, DirectRead, DirectPush, HandlerUnlock, NotifyDone, FlushLock,
          FlushCount, FlushReturn, FlushUnlock, OffInv, LockHeld, locals, reader, IInv
    <2> QED BY <1>6, <2>1 DEF PoppedStep, Held
  <1>7. CASE pc # "count_after" /\ ~ReadFrames
    <2>1. pc' # "count_after"
      <3> USE DEF Fault, Return
      <3>1. CASE Drain
        BY <1>7, <3>1 DEF Drain, PushFrame, PushFull, Keep, PushDone, CheckOverflow, CheckFor,
           Recover, RecoverWith, Count, CountAfter, CountAfterWith, LoopEnd
      <3>2. CASE Handler
        BY <1>7, <3>2 DEF Handler, HandlerLock, HandlerEnter, EnterDrain, DirectRead, DirectPush,
           HandlerUnlock, NotifyDone
      <3>3. CASE Flush
        BY <1>7, <3>3 DEF Flush, FlushLock, FlushCount, EnterDrain, FlushReturn, FlushUnlock
      <3>4. CASE Sample \/ Poll \/ UserRead
        BY <1>7, <3>4 DEF Sample, Poll, UserRead
      <3> QED BY <3>1, <3>2, <3>3, <3>4 DEF Next
    <2> QED BY <1>3, <1>7, <2>1 DEF PoppedStep, PendingStep, Held
  <1> QED BY <1>4, <1>5, <1>6, <1>7

\* Where no transfer fails, no frame popped from the chip is overwritten, skipped
\* or pushed twice before it reached the kfifo, a batch without its date included
\* (fifo_drain reads into the burst buffer with nothing pending only).
THEOREM PoppedFramesKept == ASSUME MaxFaults = 0 PROVE Spec => PoppedKept
  <1>1. IInv /\ [Next]_vars => [PoppedStep]_vars
    BY PoppedKeptStep
  <1> QED BY <1>1, AlwaysIInv, PTL DEF Spec, PoppedKept

-----------------------------------------------------------------------------
(* The refinement of LossyStream.                                          *)

\* While no transfer fails the FIFO only stands still during a recovery, which
\* leaves nobody to the direct path; and an overflow is only reported of frames
\* that are torn, since each transfer of a recovery clears INT_STATUS.
StreamInv ==
    /\ pc # "recover" => fifo_en = 1 /\ user_fifo_en = 1 /\ fifo_enabled = 1
    /\ pc = "recover" /\ step = RecoverSteps => user_fifo_en = 1
    /\ oflow = 1 => align = "torn"

\* What entering and leaving a sequence at either end does to two in a row.
LEMMA Enter ==
    ASSUME NEW s \in Seq(Nat), NEW q \in Seq(Nat), NEW n \in Nat
    PROVE  s \o Append(q, n) = Append(s \o q, n)
  OBVIOUS

LEMMA Leave ==
    ASSUME NEW s \in Seq(Nat), NEW q \in Seq(Nat), s # <<>>
    PROVE  /\ Head(s \o q) = Head(s) /\ Tail(s \o q) = Tail(s) \o q
           /\ s \o q # <<>>
  OBVIOUS

LEMMA DropOldest ==
    ASSUME NEW s \in Seq(Nat), NEW q \in Seq(Nat), q # <<>>
    PROVE  /\ Len(s) + 1 \in DOMAIN (s \o q)
           /\ SubSeq(s \o q, 1, (Len(s) + 1) - 1) \o SubSeq(s \o q, (Len(s) + 1) + 1, Len(s \o q))
                = s \o Tail(q)
  <1>1. SubSeq(s \o q, 1, (Len(s) + 1) - 1) = s
    OBVIOUS
  <1>2. SubSeq(s \o q, (Len(s) + 1) + 1, Len(s \o q)) = Tail(q)
    OBVIOUS
  <1>3. Len(s) + 1 \in DOMAIN (s \o q)
    OBVIOUS
  <1> QED BY <1>1, <1>2, <1>3

LEMMA Cut ==
    ASSUME NEW q \in Seq(Nat), NEW n \in 1 .. Len(q)
    PROVE  [k \in 1 .. n |-> q[k]] \o SubSeq(q, n + 1, Len(q)) = q
  OBVIOUS

\* Frames held are frames, and their numbers numbers.
LEMMA HeldTyped == IInv => Held \in Seq(Frames) /\ HeldIds \in Seq(Nat) /\ Len(HeldIds) = Len(Held)
  <1> SUFFICES ASSUME IInv
               PROVE  Held \in Seq(Frames) /\ HeldIds \in Seq(Nat) /\ Len(HeldIds) = Len(Held)
    OBVIOUS
  <1>1. /\ burst \in Seq(Frames) /\ pending_frames \in Nat /\ pending_pos \in Nat /\ i \in Nat
        /\ drain_frames \in Nat /\ pending_frames <= Len(burst)
        /\ pc = "count_after" => drain_frames = Len(burst)
    BY DEF IInv, TypeOK, TypeBatch, BatchInv
  <1>2. Held \in Seq(Frames)
    BY <1>1 DEF Held, Pending, PendingFrom
  <1>3. \A k \in 1 .. Len(Held) : Held[k].id \in Nat
    <2>1. \A k \in 1 .. Len(Held) : Held[k] \in Frames
      BY <1>2
    <2> QED BY <2>1 DEF Frames
  <1> QED BY <1>2, <1>3 DEF HeldIds

\* While no transfer fails and each of a recovery clears INT_STATUS, the FIFO only
\* stands still during a recovery.
LEMMA StreamInvStep ==
    ASSUME MaxFaults = 0, ClearedBy = "any_read"
    PROVE  IInv /\ StreamInv /\ [Next]_vars => StreamInv'
  <1> SUFFICES ASSUME IInv, StreamInv, [Next]_vars PROVE StreamInv'
    OBVIOUS
  <1>1. ~Fault /\ LockHeld /\ OffInv /\ step \in 1 .. RecoverSteps
    BY DEF Fault, IInv, TypeOK, TypeReader, TypeDrain
  <1> USE DEF StreamInv, RecoverSteps, OutsideDrain, ReadClears, Return, chip, locals
  <1>2. CASE Sample
    BY <1>2 DEF Sample, Running
  <1>3. CASE CheckOverflow
    BY <1>1, <1>3 DEF CheckOverflow, CheckFor
  <1>4. CASE Recover
    BY <1>1, <1>4 DEF Recover, RecoverWith
  <1>5. CASE Count \/ ReadFrames \/ CountAfter
    BY <1>1, <1>5 DEF Count, ReadFrames, CountAfter, CountAfterWith
  <1>6. CASE PushFrame \/ PushFull \/ PushDone \/ LoopEnd
    BY <1>1, <1>6 DEF PushFrame, PushFull, Keep, PushDone, LoopEnd, Pushing
  <1>7. CASE Handler
    BY <1>1, <1>7 DEF Handler, HandlerLock, HandlerEnter, EnterDrain, DirectRead, DirectPush,
       HandlerUnlock, NotifyDone, LockHeld, OffInv
  <1>8. CASE Flush
    BY <1>1, <1>8 DEF Flush, FlushLock, FlushCount, EnterDrain, FlushReturn, FlushUnlock, LockHeld
  <1>9. CASE Poll \/ UserRead
    BY <1>9 DEF Poll, UserRead
  <1>10. CASE UNCHANGED vars
    BY <1>10 DEF vars
  <1> QED BY <1>2, <1>3, <1>4, <1>5, <1>6, <1>7, <1>8, <1>9, <1>10 DEF Next, Drain

\* A sample enters the stream, at the cost of one that is queued when the FIFO is
\* full; during a recovery it may pass by.
LEMMA StreamSample == IInv /\ StreamInv /\ Sample => Stream!Next
  <1> SUFFICES ASSUME IInv, StreamInv, Sample PROVE Stream!Next
    OBVIOUS
  <1>1. /\ fifo \in Seq(Nat) /\ clock \in Nat /\ HeldIds \in Seq(Nat)
    BY HeldTyped DEF IInv, TypeOK, TypeChip
  <1>2. clock' = clock + 1 /\ HeldIds' = HeldIds /\ last' = last /\ pc' = pc
    BY DEF Sample, HeldIds, Held, Pending, PendingFrom, Pushing, pending, locals, reader
  <1>3. CASE Running /\ Len(fifo) < FifoFrames
    <2>1. fifo' = Append(fifo, clock + 1) /\ align' = align
      BY <1>3, <1>1, ConstantsAssumption DEF Sample
    <2>2. (HeldIds \o fifo)' = Append(HeldIds \o fifo, clock + 1)
      BY <1>1, <1>2, <2>1, Enter
    <2> QED BY <1>2, <2>1, <2>2 DEF Stream!Next, Stream!Sample
  <1>4. CASE Running /\ Len(fifo) = FifoFrames
    <2>1. fifo' = Append(Tail(fifo), clock + 1) /\ align' = "torn"
      BY <1>4, <1>1, ConstantsAssumption DEF Sample
    <2>2. fifo # <<>> /\ Tail(fifo) \in Seq(Nat) /\ Len(HeldIds) + 1 \in DOMAIN (HeldIds \o fifo)
      BY <1>1, <1>4, ConstantsAssumption, DropOldest
    <2>3. HeldIds \o Tail(fifo) = Stream!RemoveAt(HeldIds \o fifo, Len(HeldIds) + 1)
      BY <1>1, <2>2, DropOldest DEF Stream!RemoveAt
    <2>4. (HeldIds \o fifo)' = Append(HeldIds \o Tail(fifo), clock + 1)
      BY <1>1, <1>2, <2>1, <2>2, Enter
    <2>5. (HeldIds \o fifo)'
            = Append(Stream!RemoveAt(HeldIds \o fifo, Len(HeldIds) + 1), clock + 1)
      BY <2>3, <2>4
    <2>6. Stream!Overflow
      BY <1>2, <2>1, <2>2, <2>5 DEF Stream!Overflow
    <2> QED BY <2>6 DEF Stream!Next
  <1>5. CASE ~Running
    <2>1. pc = "recover"
      BY <1>5 DEF StreamInv, Running
    <2>2. fifo' = fifo /\ align' = align
      BY <1>5 DEF Sample
    <2> QED BY <1>2, <2>1, <2>2 DEF Stream!Next, Stream!Miss
  <1> QED BY <1>3, <1>4, <1>5 DEF Sample

\* A push delivers the oldest sample of the stream.
LEMMA StreamPush == IInv /\ PushFrame => Stream!Next
  <1> SUFFICES ASSUME IInv, PushFrame PROVE Stream!Next
    OBVIOUS
  <1>1. /\ burst \in Seq(Frames) /\ i \in Nat /\ pending_frames \in Nat
        /\ pending_frames <= Len(burst) /\ fifo \in Seq(Nat)
        /\ Held \in Seq(Frames) /\ HeldIds \in Seq(Nat) /\ Len(HeldIds) = Len(Held)
    BY HeldTyped DEF IInv, TypeOK, TypeBatch, TypeChip, BatchInv
  <1>2. /\ UNCHANGED <<fifo, clock, align, pc, burst, pending_frames>> /\ i' = i + 1
        /\ i < pending_frames /\ Pushing /\ pc # "count_after"
        /\ last'.id = burst[i + 1].id
    BY DEF PushFrame, Pushing, chip, pending
  <1>3. Held = SubSeq(burst, i + 1, pending_frames) /\ Held' = SubSeq(burst, i + 2, pending_frames)
    BY <1>1, <1>2 DEF Held, Pending, PendingFrom, Pushing
  <1>4. Held # <<>> /\ Held' = Tail(Held) /\ last'.id = Head(Held).id
    <2>1. Held' = Tail(Held) /\ Head(Held) = burst[i + 1]
      BY <1>1, <1>2, <1>3, TailOfSubSeq
    <2>2. Len(Held) = pending_frames - i
      BY <1>1, <1>2, <1>3
    <2> QED BY <1>1, <1>2, <2>1, <2>2
  <1>5. HeldIds # <<>> /\ Head(HeldIds) = last'.id
    BY <1>1, <1>4 DEF HeldIds
  <1>6. HeldIds' = Tail(HeldIds)
    BY <1>1, <1>4 DEF HeldIds
  <1>7. /\ (HeldIds \o fifo) # <<>> /\ last'.id = Head(HeldIds \o fifo)
        /\ (HeldIds \o fifo)' = Tail(HeldIds \o fifo)
    BY <1>1, <1>2, <1>5, <1>6, Leave
  <1> QED BY <1>2, <1>7 DEF Stream!Next, Stream!Deliver

\* A batch that is read is only moved, from the FIFO to the frames held.
LEMMA StreamRead ==
    ASSUME MaxFaults = 0
    PROVE  IInv /\ ReadFrames => UNCHANGED Stream!vars
  <1> SUFFICES ASSUME IInv, ReadFrames PROVE UNCHANGED Stream!vars
    OBVIOUS
  <1>1. /\ burst \in Seq(Frames) /\ fifo \in Seq(Nat) /\ pending_frames = 0 /\ pending_pos \in Nat
        /\ drain_frames \in 1 .. Len(fifo) /\ ~Fault
    BY DEF IInv, TypeOK, TypeBatch, TypeChip, TypeReader, BatchInv, ReadFrames, Fault
  <1>2. /\ UNCHANGED <<clock, last, align, drain_frames>> /\ pc' = "count_after" /\ pc = "read"
        /\ burst' = [k \in 1 .. drain_frames |-> [id |-> fifo[k], kind |-> align]]
        /\ fifo' = SubSeq(fifo, drain_frames + 1, Len(fifo))
    BY <1>1 DEF ReadFrames, reader, locals
  <1>3. Held = <<>>
    BY <1>1, <1>2, EmptySubSeq DEF Held, Pending, PendingFrom, Pushing
  <1>4. HeldIds \o fifo = fifo
    BY <1>1, <1>3 DEF HeldIds
  <1>5. Len(Held') = drain_frames /\ \A k \in 1 .. drain_frames : Held'[k].id = fifo[k]
    BY <1>1, <1>2 DEF Held
  <1>6. HeldIds' = [k \in 1 .. drain_frames |-> fifo[k]]
    BY <1>5 DEF HeldIds
  <1>7. (HeldIds \o fifo)' = fifo
    BY <1>1, <1>2, <1>6, Cut
  <1> QED BY <1>2, <1>4, <1>7 DEF Stream!vars

\* A recovery throws the queue away, and in the end the stream is repaired.
LEMMA StreamRecover ==
    ASSUME MaxFaults = 0
    PROVE  IInv /\ Recover => [Stream!Next]_(Stream!vars)
  <1> SUFFICES ASSUME IInv, Recover PROVE Stream!Next \/ UNCHANGED Stream!vars
    OBVIOUS
  <1>1. /\ fifo \in Seq(Nat) /\ burst \in Seq(Frames) /\ pending_frames = 0 /\ pending_pos \in Nat
        /\ ~Fault /\ pc = "recover"
    BY DEF IInv, TypeOK, TypeBatch, TypeChip, TypeReader, BatchInv, Recover, RecoverWith, Fault
  <1>2. Held = <<>>
    BY <1>1, EmptySubSeq DEF Held, Pending, PendingFrom, Pushing
  <1>3. UNCHANGED <<clock, last, burst>> /\ pending_frames' = 0 /\ pending_pos' \in Nat
        /\ pc' \in {"recover", "return"}
    BY <1>1 DEF Recover, RecoverWith, Return, ClearPending, pending, reader
  <1>4. Held' = <<>>
    BY <1>1, <1>3, EmptySubSeq DEF Held, Pending, PendingFrom, Pushing
  <1>5. HeldIds \o fifo = fifo /\ (HeldIds \o fifo)' = fifo'
    <2>1. HeldIds = <<>> /\ HeldIds' = <<>>
      BY <1>2, <1>4 DEF HeldIds
    <2>2. fifo' \in Seq(Nat)
      BY <1>1, EmptyTyped DEF Recover, RecoverWith
    <2> QED BY <1>1, <2>1, <2>2
  <1>6. CASE step \in {3, 6}
    <2>1. fifo' = <<>> /\ pc' = "recover"
      BY <1>1, <1>6 DEF Recover, RecoverWith, RecoverSteps
    <2> QED BY <1>1, <1>3, <1>5, <2>1 DEF Stream!Next, Stream!Discard
  <1>7. CASE step \notin {3, 6}
    <2>1. fifo' = fifo /\ align' = align
      BY <1>1, <1>7 DEF Recover, RecoverWith
    <2>2. CASE align' = "torn" \/ pc' = "recover"
      BY <1>1, <1>3, <1>5, <2>1, <2>2 DEF Stream!vars
    <2>3. CASE ~(align' = "torn" \/ pc' = "recover")
      BY <1>1, <1>3, <1>5, <2>1, <2>3 DEF Stream!Next, Stream!Repair
    <2> QED BY <2>2, <2>3
  <1> QED BY <1>6, <1>7

\* A step that moves no frame and neither damages nor repairs leaves the stream.
LEMMA StreamQuiet ==
    ASSUME UNCHANGED <<clock, fifo, last, align>>, Held' = Held,
           (pc' = "recover" => pc = "recover" \/ align = "torn"), pc # "recover"
    PROVE  UNCHANGED Stream!vars
  BY DEF Stream!vars, HeldIds

\* The rest of the drain.
LEMMA StreamDrain ==
    ASSUME MaxFaults = 0
    PROVE  /\ IInv /\ StreamInv
           /\ PushFull \/ PushDone \/ CheckOverflow \/ Count \/ CountAfter \/ LoopEnd
           => UNCHANGED Stream!vars
  <1> SUFFICES ASSUME IInv, StreamInv,
                      PushFull \/ PushDone \/ CheckOverflow \/ Count \/ CountAfter \/ LoopEnd
               PROVE  UNCHANGED Stream!vars
    OBVIOUS
  <1>1. /\ burst \in Seq(Frames) /\ i \in Nat /\ pending_frames \in Nat /\ pending_pos \in Nat
        /\ drain_frames \in Nat /\ BatchInv /\ ~Fault
    BY DEF IInv, TypeOK, TypeBatch, TypeReader, Fault
  <1> USE DEF OutsideDrain, Return, chip, pending, locals, reader, Held, Pending, PendingFrom,
              Pushing
  <1>2. CASE PushFull
    BY <1>1, <1>2, StreamQuiet DEF PushFull, Keep
  <1>3. CASE PushDone
    BY <1>1, <1>3, StreamQuiet, EmptySubSeq DEF PushDone, ClearPending
  <1>4. CASE CheckOverflow
    BY <1>1, <1>4, StreamQuiet DEF CheckOverflow, CheckFor, StreamInv
  <1>5. CASE Count
    BY <1>1, <1>5, StreamQuiet DEF Count
  <1>6. CASE CountAfter
    BY <1>1, <1>6, StreamQuiet DEF CountAfter, CountAfterWith
  <1>7. CASE LoopEnd
    BY <1>1, <1>7, StreamQuiet DEF LoopEnd
  <1> QED BY <1>2, <1>3, <1>4, <1>5, <1>6, <1>7

\* The handler and the flush push nothing themselves: nobody takes the direct path.
LEMMA StreamCallers ==
    ASSUME MaxFaults = 0
    PROVE  IInv /\ StreamInv /\ (Handler \/ Flush \/ Poll \/ UserRead) => UNCHANGED Stream!vars
  <1> SUFFICES ASSUME IInv, StreamInv, Handler \/ Flush \/ Poll \/ UserRead
               PROVE  UNCHANGED Stream!vars
    OBVIOUS
  <1>1. /\ burst \in Seq(Frames) /\ i \in Nat /\ pending_frames \in Nat /\ pending_pos \in Nat
        /\ drain_frames \in Nat /\ BatchInv /\ LockHeld /\ ~Fault
        /\ handler # "direct" /\ pc # "direct"
    BY DEF IInv, TypeOK, TypeBatch, TypeReader, Fault, OffInv, StreamInv
  <1> USE DEF OutsideDrain, Return, chip, pending, locals, flushing, reader, Held, Pending,
              PendingFrom, Pushing
  <1>2. CASE HandlerLock
    <2>1. pc = "out" /\ fifo_enabled = 1
      BY <1>1, <1>2 DEF HandlerLock, LockHeld, StreamInv
    <2> QED BY <1>1, <1>2, <2>1, StreamQuiet DEF HandlerLock, HandlerEnter, EnterDrain
  <1>3. CASE DirectRead \/ DirectPush
    BY <1>1, <1>3 DEF DirectRead, DirectPush
  <1>4. CASE HandlerUnlock
    BY <1>1, <1>4, StreamQuiet DEF HandlerUnlock
  <1>5. CASE FlushLock
    BY <1>1, <1>5, StreamQuiet DEF FlushLock, LockHeld
  <1>6. CASE FlushCount
    BY <1>1, <1>6, StreamQuiet DEF FlushCount, EnterDrain
  <1>7. CASE FlushReturn
    BY <1>1, <1>7, StreamQuiet DEF FlushReturn
  <1>8. CASE FlushUnlock
    BY <1>1, <1>8, StreamQuiet DEF FlushUnlock
  <1>9. CASE NotifyDone \/ Poll \/ UserRead
    BY <1>1, <1>9 DEF NotifyDone, Poll, UserRead, Stream!vars, HeldIds
  <1> QED BY <1>2, <1>3, <1>4, <1>5, <1>6, <1>7, <1>8, <1>9 DEF Handler, Flush

\* Before the first sample the stream is empty.
LEMMA StreamInit == Init => StreamInv /\ Stream!Init
  <1> SUFFICES ASSUME Init PROVE StreamInv /\ Stream!Init
    OBVIOUS
  <1>1. StreamInv
    BY DEF Init, StreamInv
  <1>2. Held = <<>>
    BY DEF Init, Held, Pending, PendingFrom, Pushing
  <1>3. HeldIds \o fifo = <<>>
    BY <1>2 DEF Init, HeldIds
  <1> QED BY <1>1, <1>3 DEF Init, Stream!Init

\* Each step is one of the stream or leaves it alone.
LEMMA StreamStep ==
    ASSUME MaxFaults = 0
    PROVE  IInv /\ StreamInv /\ [Next]_vars => [Stream!Next]_(Stream!vars)
  <1> SUFFICES ASSUME IInv, StreamInv, [Next]_vars PROVE [Stream!Next]_(Stream!vars)
    OBVIOUS
  <1>1. CASE Sample BY <1>1, StreamSample
  <1>2. CASE PushFrame BY <1>2, StreamPush
  <1>3. CASE ReadFrames BY <1>3, StreamRead
  <1>4. CASE Recover BY <1>4, StreamRecover
  <1>5. CASE PushFull \/ PushDone \/ CheckOverflow \/ Count \/ CountAfter \/ LoopEnd
    BY <1>5, StreamDrain
  <1>6. CASE Handler \/ Flush \/ Poll \/ UserRead
    BY <1>6, StreamCallers
  <1>7. CASE UNCHANGED vars
    BY <1>7 DEF vars, chip, pending, locals, reader, Stream!vars, HeldIds, Held, Pending,
       PendingFrom, Pushing
  <1> QED BY <1>1, <1>2, <1>3, <1>4, <1>5, <1>6, <1>7 DEF Next, Drain

\* While no transfer fails and any read clears INT_STATUS, as the driver configures
\* the chip, the FIFO path implements LossyStream: whatever the handler, the flush,
\* a full kfifo and overflows do, samples are missing only where the FIFO overflowed.
THEOREM StreamImplemented ==
    ASSUME MaxFaults = 0, ClearedBy = "any_read" PROVE Spec => ImplementsStream
  <1>1. IInv /\ StreamInv /\ [Next]_vars => StreamInv'
    BY StreamInvStep
  <1>2. IInv /\ StreamInv /\ [Next]_vars => [Stream!Next]_(Stream!vars)
    BY StreamStep
  <1> QED BY <1>1, <1>2, StreamInit, AlwaysIInv, PTL DEF Spec, ImplementsStream, Stream!Spec

-----------------------------------------------------------------------------
(* What a check of INT_STATUS is worth.                                    *)

\* Each read clears INT_STATUS: what it reports is an overflow of these frames.
NeededInv == (oflow = 1 => align = "torn") /\ RecoveryIsNeeded

\* Torn frames are reported, missed or being thrown away, and between a check and the
\* second count they are missed; none are torn once the FIFO has been reset, and it is
\* on unless it is being reset.
MissedInv ==
    /\ missed \in {0, 1}
    /\ align = "torn" => oflow = 1 \/ missed = 1 \/ pc = "recover"
    /\ Unchecked /\ align = "torn" => missed = 1
    /\ pc # "recover" => fifo_enabled = 1
    /\ pc = "recover" /\ step >= 2 => fifo_en = 0
    /\ pc = "recover" /\ step >= 4 => align = "whole"

\* Where any read clears INT_STATUS.
LEMMA NeededStep ==
    ASSUME ClearedBy = "any_read" PROVE IInv /\ NeededInv /\ [Next]_vars => NeededInv'
  <1> SUFFICES ASSUME IInv, NeededInv, [Next]_vars PROVE NeededInv'
    OBVIOUS
  <1>1. LockHeld /\ step \in 1 .. RecoverSteps
    BY DEF IInv, TypeOK, TypeDrain
  <1> USE DEF NeededInv, RecoveryIsNeeded, RecoverSteps, OutsideDrain, Fault, ReadClears, Return,
              chip, locals
  <1>2. CASE Sample BY <1>2 DEF Sample
  <1>3. CASE CheckOverflow BY <1>3 DEF CheckOverflow, CheckFor
  <1>4. CASE Recover BY <1>1, <1>4 DEF Recover, RecoverWith
  <1>5. CASE Count \/ ReadFrames \/ CountAfter
    BY <1>5 DEF Count, ReadFrames, CountAfter, CountAfterWith
  <1>6. CASE PushFrame \/ PushFull \/ PushDone \/ LoopEnd
    BY <1>6 DEF PushFrame, PushFull, Keep, PushDone, LoopEnd
  <1>7. CASE Handler
    BY <1>1, <1>7 DEF Handler, HandlerLock, HandlerEnter, EnterDrain, DirectRead, DirectPush,
       HandlerUnlock, NotifyDone
  <1>8. CASE Flush
    BY <1>1, <1>8 DEF Flush, FlushLock, FlushCount, EnterDrain, FlushReturn, FlushUnlock
  <1>9. CASE Poll \/ UserRead BY <1>9 DEF Poll, UserRead
  <1>10. CASE UNCHANGED vars BY <1>10 DEF vars
  <1> QED BY <1>2, <1>3, <1>4, <1>5, <1>6, <1>7, <1>8, <1>9, <1>10 DEF Next, Drain

\* Each step, whatever clears INT_STATUS, while no transfer fails.
LEMMA MissedInvStep ==
    ASSUME MaxFaults = 0 PROVE IInv /\ MissedInv /\ [HNext]_hvars => MissedInv'
  <1> SUFFICES ASSUME IInv, MissedInv, [HNext]_hvars PROVE MissedInv'
    OBVIOUS
  <1>1. /\ LockHeld /\ OffInv /\ step \in 1 .. RecoverSteps /\ ~Fault
        /\ align \in {"whole", "torn"} /\ oflow \in {0, 1} /\ clock \in Nat
    BY DEF IInv, TypeOK, TypeDrain, TypeReader, TypeChip, Kinds, Fault
  <1>2. CASE UNCHANGED hvars
    BY <1>2 DEF hvars, vars, chip, locals, history, MissedInv, Unchecked
  <1>3. CASE HNext
    <2>1. missed' = IF Overflows THEN IF Unchecked THEN 1 ELSE 0
                    ELSE IF CountedFirst THEN 1 ELSE missed
      BY <1>3 DEF HNext
    <2>2. missed' \in {0, 1}
      BY <2>1 DEF MissedInv, Unchecked, CountedFirst
    <2>3. CASE Sample
      <3>1. UNCHANGED <<pc, step, fifo_en, fifo_enabled>> /\ clock' = clock + 1
        BY <2>3 DEF Sample, locals
      <3>2. CASE Overflows
        <4>1. missed' = (IF Unchecked THEN 1 ELSE 0) /\ align' = "torn" /\ oflow' = 1 /\ fifo_en = 1
          BY <2>1, <2>3, <3>2 DEF Sample, Overflows, Running
        <4> QED BY <1>1, <2>2, <3>1, <4>1 DEF MissedInv, Unchecked, RecoverSteps
      <3>3. CASE ~Overflows
        <4>1. align' = align /\ oflow' = oflow /\ missed' = (IF CountedFirst THEN 1 ELSE missed)
          BY <2>1, <2>3, <3>1, <3>3 DEF Sample, Overflows
        <4>2. ~CountedFirst
          BY <3>1 DEF CountedFirst
        <4> QED BY <3>1, <4>1, <4>2 DEF MissedInv, Unchecked
      <3> QED BY <3>2, <3>3
    <2>4. ASSUME ~Sample
          PROVE  missed' = IF CountedFirst THEN 1 ELSE missed
      <3>1. clock' = clock
        BY <1>3, <2>4 DEF HNext, Next, Drain, Handler, Flush, Poll, UserRead, PushFrame, PushFull,
           Keep, PushDone, CheckOverflow, CheckFor, Recover, RecoverWith, Count, ReadFrames,
           CountAfter, CountAfterWith, LoopEnd, HandlerLock, HandlerEnter, DirectRead, DirectPush,
           HandlerUnlock, NotifyDone, FlushLock, FlushCount, FlushReturn, FlushUnlock, Fault, chip
      <3>2. ~Overflows
        BY <1>1, <3>1 DEF Overflows
      <3> QED BY <2>1, <3>2
    <2>5. CASE FlushCount
      <3>1. /\ pc = "flush_count" /\ pc' \in {"unlock", "push_old", "check"}
            /\ UNCHANGED <<align, fifo_enabled>> /\ ~Sample
        BY <1>1, <2>5 DEF FlushCount, EnterDrain, Sample
      <3>2. missed' = IF oflow = 1 THEN 1 ELSE missed
        BY <2>4, <3>1 DEF CountedFirst
      <3> QED BY <1>1, <2>2, <3>1, <3>2 DEF MissedInv, Unchecked
    <2>6. ASSUME Next, ~Sample, ~FlushCount PROVE missed' = missed
      <3>1. ~CountedFirst
        BY <1>1, <2>6 DEF CountedFirst, Next, Drain, Handler, Flush, Poll, UserRead, PushFrame,
           PushFull, Keep, PushDone, Pushing, CheckOverflow, CheckFor, Recover, RecoverWith, Count,
           ReadFrames, CountAfter, CountAfterWith, LoopEnd, HandlerLock, HandlerEnter, DirectRead,
           DirectPush, HandlerUnlock, NotifyDone, FlushLock, FlushReturn, FlushUnlock, LockHeld
      <3> QED BY <2>4, <2>6, <3>1 DEF MissedInv
    <2>7. ASSUME Next, ~Sample, ~FlushCount PROVE MissedInv'
      <3> USE <1>1, <2>6, <2>7 DEF MissedInv, Unchecked, RecoverSteps, OutsideDrain, ReadClears,
              Return, chip, locals
      <3>1. CASE CheckOverflow BY <3>1 DEF CheckOverflow, CheckFor
      <3>2. CASE Recover BY <3>2 DEF Recover, RecoverWith
      <3>3. CASE Count \/ ReadFrames \/ CountAfter
        BY <3>3 DEF Count, ReadFrames, CountAfter, CountAfterWith
      <3>4. CASE PushFrame \/ PushFull \/ PushDone \/ LoopEnd
        BY <3>4 DEF PushFrame, PushFull, Keep, PushDone, LoopEnd, Pushing
      <3>5. CASE HandlerLock \/ DirectRead \/ DirectPush \/ HandlerUnlock \/ NotifyDone
        BY <3>5 DEF HandlerLock, HandlerEnter, EnterDrain, DirectRead, DirectPush, HandlerUnlock,
           NotifyDone, LockHeld, OffInv
      <3>6. CASE FlushLock \/ FlushReturn \/ FlushUnlock
        BY <3>6 DEF FlushLock, FlushReturn, FlushUnlock, LockHeld
      <3>7. CASE Poll \/ UserRead BY <3>7 DEF Poll, UserRead
      <3> QED BY <3>1, <3>2, <3>3, <3>4, <3>5, <3>6, <3>7 DEF Next, Drain, Handler, Flush
    <2> QED BY <1>3, <2>3, <2>5, <2>7 DEF HNext
  <1> QED BY <1>2, <1>3

\* As the driver configures the chip, whole frames are never thrown away as
\* overflowed, whatever transfers fail (fifo_check_overflow, fifo_recover).
THEOREM RecoveriesNeeded == ASSUME ClearedBy = "any_read" PROVE Spec => []RecoveryIsNeeded
  <1>1. Init => NeededInv
    BY DEF Init, NeededInv, RecoveryIsNeeded
  <1>2. IInv /\ NeededInv /\ [Next]_vars => NeededInv'
    BY NeededStep
  <1>3. NeededInv => RecoveryIsNeeded
    BY DEF NeededInv
  <1> QED BY <1>1, <1>2, <1>3, AlwaysIInv, PTL DEF Spec

\* The history variables constrain nothing: every state keeps what FifoDrain keeps.
LEMMA HistoryIInv == HSpec => []IInv
  <1>1. HInit => IInv
    BY InitIInv DEF HInit
  <1>2. IInv /\ [HNext]_hvars => IInv'
    BY NextIInv DEF HNext, hvars
  <1> QED BY <1>1, <1>2, PTL DEF HSpec

\* Whatever clears INT_STATUS, while no transfer fails: the only overflows that go
\* unreported are those that fall between a turn's check and its second get_count,
\* and those that a flush counts over (fifo_drain, fifo_flush_store).
THEOREM OverflowsMissedThere == ASSUME MaxFaults = 0 PROVE HSpec => OverflowsMissed
  <1>1. HInit => MissedInv
    BY DEF HInit, Init, MissedInv, Unchecked
  <1>2. IInv /\ MissedInv /\ [HNext]_hvars => MissedInv'
    BY MissedInvStep
  <1>3. IInv /\ MissedInv /\ [HNext]_hvars => [MissedStep]_hvars
    <2> SUFFICES ASSUME IInv, MissedInv, HNext, pc = "check", pc' = "count"
                 PROVE  align = "whole" \/ missed = 1
      BY DEF MissedStep
    <2>1. CheckOverflow
      BY DEF HNext, Next, Drain, Handler, Flush, Sample, Poll, UserRead, PushFrame, PushFull,
         PushDone, Keep, Pushing, Recover, RecoverWith, Count, ReadFrames, CountAfter,
         CountAfterWith, LoopEnd, HandlerLock, HandlerEnter, DirectRead, DirectPush,
         HandlerUnlock, NotifyDone, FlushLock, FlushCount, FlushReturn, FlushUnlock, IInv, LockHeld
    <2>2. oflow # 1
      BY <2>1 DEF CheckOverflow, CheckFor, Fault, Return
    <2> QED BY <2>2 DEF MissedInv, IInv, TypeOK, TypeChip, Kinds
  <1> QED BY <1>1, <1>2, <1>3, HistoryIInv, PTL DEF HSpec, OverflowsMissed
=============================================================================
