--------------------------- MODULE FifoDrainProofs ---------------------------
(***************************************************************************)
(* What FifoDrain guarantees for every FIFO size, batch size, watermark,   *)
(* kfifo length and any number of samples, flushes and failing transfers.  *)
(***************************************************************************)
EXTENDS FifoDrain, TLAPS

\* Who is inside, by the place the holder of the lock is at.
LockHeld ==
    /\ pc = "out" <=> lock = "free"
    /\ lock = "handler" <=> handler = "running"
    /\ pc \in {"flush_count", "unlock"} => lock = "flush"
    /\ pc = "direct" => lock = "handler"

\* The burst buffer between two steps: pending frames are inside it, none are
\* pending while the loop reads the chip, and a counted batch is in the FIFO.
BatchInv ==
    /\ pending_pos <= pending_frames
    /\ pending_frames <= Len(burst)
    /\ Pushing => i <= pending_frames
    /\ pc \in {"check", "recover", "count", "read", "count_after", "loop"} => pending_frames = 0
    /\ pc = "read" => drain_frames \in 1 .. Len(fifo)
    /\ pc = "count_after" => drain_frames = Len(burst)

\* What a recovery that failed half way leaves: with fifo_enabled off nothing is
\* pending, nobody is in the drain's loop, and the handler reads directly.
OffInv ==
    /\ fifo_enabled = 0 =>
         /\ pending_frames = 0
         /\ pc \in {"out", "direct", "return", "recover", "unlock"}
         /\ pc = "return" => ret = "error"
    /\ pc = "direct" => fifo_enabled = 0
    /\ handler = "direct" => fifo_enabled = 0 /\ pc = "out"

IInv == TypeOK /\ LockHeld /\ BatchInv /\ OffInv

-----------------------------------------------------------------------------
(* What the FIFO and the burst buffer hold after one operation on them.    *)

\* A FIFO that was reset is a FIFO.
LEMMA EmptyTyped == <<>> \in Seq(Nat)
  OBVIOUS

\* A sample entering the FIFO, with or without pushing the oldest one out.
LEMMA EnterTyped ==
    ASSUME NEW s \in Seq(Nat), NEW n \in Nat
    PROVE  /\ Append(s, n) \in Seq(Nat) /\ Len(Append(s, n)) = Len(s) + 1
           /\ Len(s) > 0 => Append(Tail(s), n) \in Seq(Nat) /\ Len(Append(Tail(s), n)) = Len(s)
  OBVIOUS

\* Popping a batch: a FIFO is left, and the batch is one of frames.
LEMMA PopTyped ==
    ASSUME NEW s \in Seq(Nat), NEW n \in 1 .. Len(s), NEW a \in Kinds
    PROVE  LET b == [k \in 1 .. n |-> [id |-> s[k], kind |-> a]]
           IN  /\ SubSeq(s, n + 1, Len(s)) \in Seq(Nat)
               /\ b \in Seq(Frames) /\ Len(b) = n
  BY DEF Frames

\* What push_pending pushes is a scan.
LEMMA FrameTyped ==
    ASSUME NEW b \in Seq(Frames), NEW j \in Nat, j < Len(b), NEW t \in Int
    PROVE  [id |-> b[j + 1].id, kind |-> b[j + 1].kind, ts |-> t]
             \in [id : Nat, ts : Int, kind : Kinds]
  <1>1. b[j + 1] \in Frames
    OBVIOUS
  <1> QED BY <1>1 DEF Frames

-----------------------------------------------------------------------------
(* Each step keeps the types, one part of TypeOK at a time.                *)

\* The chip's registers and FIFO keep their types.
LEMMA ChipStep == TypeChip /\ drain_frames \in Nat /\ [Next]_vars => TypeChip'
  <1> SUFFICES ASSUME TypeChip, drain_frames \in Nat, [Next]_vars PROVE TypeChip'
    OBVIOUS
  <1> USE DEF TypeChip, Kinds, OutsideDrain, Fault, Return, chip, ReadClears
  <1>1. CASE Sample
    <2>1. fifo' \in Seq(Nat)
      <3>1. CASE fifo' = Append(fifo, clock + 1) BY <3>1, EnterTyped
      <3>2. CASE Len(fifo) = FifoFrames /\ fifo' = Append(Tail(fifo), clock + 1)
        BY <3>2, EnterTyped, ConstantsAssumption
      <3>3. CASE fifo' = fifo BY <3>3
      <3> QED BY <1>1, <3>1, <3>2, <3>3 DEF Sample
    <2> QED BY <1>1, <2>1 DEF Sample
  <1>2. CASE CheckOverflow BY <1>2 DEF CheckOverflow, CheckFor
  <1>3. CASE Recover BY <1>3, EmptyTyped DEF Recover, RecoverWith
  <1>4. CASE Count BY <1>4 DEF Count
  <1>5. CASE ReadFrames
    <2>1. SubSeq(fifo, drain_frames + 1, Len(fifo)) \in Seq(Nat)
      OBVIOUS
    <2> QED BY <1>5, <2>1 DEF ReadFrames
  <1>6. CASE CountAfter \/ FlushCount \/ DirectRead
    BY <1>6 DEF CountAfter, CountAfterWith, FlushCount, DirectRead
  <1>7. CASE Poll \/ UserRead \/ PushFrame \/ PushFull \/ PushDone \/ LoopEnd \/ HandlerLock
             \/ DirectPush \/ HandlerUnlock \/ NotifyDone
             \/ FlushLock \/ FlushReturn \/ FlushUnlock
    BY <1>7 DEF Poll, UserRead, PushFrame, PushFull, Keep, PushDone, LoopEnd, HandlerLock,
       HandlerEnter, DirectPush, HandlerUnlock, NotifyDone, FlushLock, FlushReturn, FlushUnlock
  <1>8. CASE UNCHANGED vars BY <1>8 DEF vars
  <1> QED BY <1>1, <1>2, <1>3, <1>4, <1>5, <1>6, <1>7, <1>8 DEF Next, Drain, Handler, Flush

\* fifo_burst_buf and the pending_ fields keep their types.
LEMMA BatchTypeStep ==
    TypeBatch /\ TypeChip /\ BatchInv /\ ts \in Nat /\ [Next]_vars => TypeBatch'
  <1> SUFFICES ASSUME TypeBatch, TypeChip, BatchInv, ts \in Nat, [Next]_vars
               PROVE TypeBatch'
    OBVIOUS
  <1> USE DEF TypeBatch, OutsideDrain, Fault, Return, pending, locals, ClearPending
  <1>1. CASE PushFrame \/ PushFull \/ PushDone BY <1>1 DEF PushFrame, PushFull, Keep, PushDone
  <1>2. CASE CheckOverflow \/ Recover BY <1>2 DEF CheckOverflow, CheckFor, Recover, RecoverWith
  <1>3. CASE Count
    <2>1. Min2(Len(fifo), DrainMax) \in Nat
      BY ConstantsAssumption DEF Min2, TypeChip
    <2> QED BY <1>3, <2>1 DEF Count
  <1>4. CASE ReadFrames
    <2>1. pc = "read" =>
            [k \in 1 .. drain_frames |-> [id |-> fifo[k], kind |-> align]] \in Seq(Frames)
      BY PopTyped DEF BatchInv, TypeChip
    <2> QED BY <1>4, <2>1 DEF ReadFrames
  <1>5. CASE CountAfter BY <1>5 DEF CountAfter, CountAfterWith, TypeChip
  <1>6. CASE LoopEnd BY <1>6 DEF LoopEnd
  <1>7. CASE Handler
    BY <1>7 DEF Handler, HandlerLock, HandlerEnter, DirectRead, DirectPush, HandlerUnlock,
       NotifyDone, EnterDrain
  <1>8. CASE Flush
    BY <1>8 DEF Flush, FlushLock, FlushCount, FlushReturn, FlushUnlock, EnterDrain
  <1>9. CASE Sample \/ Poll \/ UserRead BY <1>9 DEF Sample, Poll, UserRead
  <1>10. CASE UNCHANGED vars BY <1>10 DEF vars
  <1> QED BY <1>1, <1>2, <1>3, <1>4, <1>5, <1>6, <1>7, <1>8, <1>9, <1>10 DEF Next, Drain

\* drain's own locals keep their types.
LEMMA DrainStep ==
    TypeDrain /\ fifo \in Seq(Nat) /\ clock \in Nat /\ pf_ts \in Nat /\ [Next]_vars => TypeDrain'
  <1> SUFFICES ASSUME TypeDrain, fifo \in Seq(Nat), clock \in Nat, pf_ts \in Nat, [Next]_vars
               PROVE TypeDrain'
    OBVIOUS
  <1> USE DEF TypeDrain, PCs, RecoverSteps, OutsideDrain, Fault, Return, locals
  <1>1. CASE PushFrame \/ PushFull \/ PushDone BY <1>1 DEF PushFrame, PushFull, Keep, PushDone
  <1>2. CASE CheckOverflow BY <1>2 DEF CheckOverflow, CheckFor
  <1>3. CASE Recover BY <1>3 DEF Recover, RecoverWith
  <1>4. CASE Count \/ ReadFrames \/ CountAfter BY <1>4 DEF Count, ReadFrames, CountAfter,
     CountAfterWith
  <1>5. CASE LoopEnd BY <1>5 DEF LoopEnd
  <1>6. CASE Handler
    BY <1>6 DEF Handler, HandlerLock, HandlerEnter, DirectRead, DirectPush, HandlerUnlock,
       NotifyDone, EnterDrain
  <1>7. CASE Flush
    BY <1>7 DEF Flush, FlushLock, FlushCount, FlushReturn, FlushUnlock, EnterDrain
  <1>8. CASE Sample \/ Poll \/ UserRead BY <1>8 DEF Sample, Poll, UserRead
  <1>9. CASE UNCHANGED vars BY <1>9 DEF vars
  <1> QED BY <1>1, <1>2, <1>3, <1>4, <1>5, <1>6, <1>7, <1>8, <1>9 DEF Next, Drain

\* The handler's and the flush's locals keep their types.
LEMMA CallersStep ==
    TypeCallers /\ fifo \in Seq(Nat) /\ clock \in Nat /\ [Next]_vars => TypeCallers'
  <1> SUFFICES ASSUME TypeCallers, fifo \in Seq(Nat), clock \in Nat, [Next]_vars
               PROVE TypeCallers'
    OBVIOUS
  <1> USE DEF TypeCallers, OutsideDrain, Fault, flushing
  <1>1. CASE Drain
    BY <1>1 DEF Drain, PushFrame, PushFull, Keep, PushDone, CheckOverflow, CheckFor, Recover,
       RecoverWith, Count, ReadFrames, CountAfter, CountAfterWith, LoopEnd
  <1>2. CASE Handler
    BY <1>2 DEF Handler, HandlerLock, HandlerEnter, DirectRead, DirectPush, HandlerUnlock,
       NotifyDone
  <1>3. CASE Flush BY <1>3 DEF Flush, FlushLock, FlushCount, FlushReturn, FlushUnlock
  <1>4. CASE Sample \/ Poll \/ UserRead BY <1>4 DEF Sample, Poll, UserRead
  <1>5. CASE UNCHANGED vars BY <1>5 DEF vars
  <1> QED BY <1>1, <1>2, <1>3, <1>4, <1>5 DEF Next

\* The kfifo keeps its type and its limit.
LEMMA ReaderStep ==
    TypeReader /\ TypeBatch /\ BatchInv /\ frame \in Nat /\ pf_ts \in Nat /\ [Next]_vars
      => TypeReader'
  <1> SUFFICES ASSUME TypeReader, TypeBatch, BatchInv, frame \in Nat, pf_ts \in Nat, [Next]_vars
               PROVE TypeReader'
    OBVIOUS
  <1> USE ConstantsAssumption DEF TypeReader, OutsideDrain, Fault, Return, reader
  <1>1. CASE PushFrame
    <2>1. i < Len(burst) /\ pending_base_ts + i \in Int
      BY <1>1 DEF PushFrame, TypeBatch, BatchInv
    <2>2. last' \in [id : Nat, ts : Int, kind : Kinds]
      BY <1>1, <2>1, FrameTyped DEF PushFrame, TypeBatch
    <2>3. kfifo' \in 0 .. KfifoLen /\ flushes' \in Nat /\ faults' \in Nat
      BY <1>1 DEF PushFrame
    <2> QED BY <2>2, <2>3
  <1>2. CASE DirectPush BY <1>2 DEF DirectPush, Kinds
  <1>3. CASE UserRead BY <1>3 DEF UserRead
  <1>4. CASE Flush BY <1>4 DEF Flush, FlushLock, FlushCount, FlushReturn, FlushUnlock
  <1>5. CASE PushFull \/ PushDone \/ CheckOverflow \/ Recover \/ Count \/ ReadFrames \/ CountAfter
             \/ LoopEnd
    BY <1>5 DEF PushFull, Keep, PushDone, CheckOverflow, CheckFor, Recover, RecoverWith, Count,
       ReadFrames, CountAfter, CountAfterWith, LoopEnd
  <1>6. CASE Sample \/ Poll \/ HandlerLock \/ DirectRead \/ HandlerUnlock \/ NotifyDone
    BY <1>6 DEF Sample, Poll, HandlerLock, HandlerEnter, DirectRead, HandlerUnlock, NotifyDone
  <1>7. CASE UNCHANGED vars BY <1>7 DEF vars
  <1> QED BY <1>1, <1>2, <1>3, <1>4, <1>5, <1>6, <1>7 DEF Next, Drain, Handler

-----------------------------------------------------------------------------
(* The lock and the bookkeeping of the burst buffer.                       *)

\* Each step keeps the lock with the thread that is inside.
LEMMA LockStep == LockHeld /\ [Next]_vars => LockHeld'
  <1> SUFFICES ASSUME LockHeld, [Next]_vars PROVE LockHeld'
    OBVIOUS
  <1> USE DEF LockHeld, OutsideDrain, Fault, Return
  <1>1. CASE Sample BY <1>1 DEF Sample
  <1>2. CASE Poll BY <1>2 DEF Poll
  <1>3. CASE UserRead BY <1>3 DEF UserRead
  <1>4. CASE Drain
    <2>1. CASE PushFrame BY <2>1 DEF PushFrame, Pushing
    <2>2. CASE PushFull BY <2>2 DEF PushFull, Keep, Pushing
    <2>3. CASE PushDone BY <2>3 DEF PushDone, Pushing
    <2>4. CASE CheckOverflow BY <2>4 DEF CheckOverflow, CheckFor
    <2>5. CASE Recover BY <2>5 DEF Recover, RecoverWith
    <2>6. CASE Count BY <2>6 DEF Count
    <2>7. CASE ReadFrames BY <2>7 DEF ReadFrames
    <2>8. CASE CountAfter BY <2>8 DEF CountAfter, CountAfterWith
    <2>9. CASE LoopEnd BY <2>9 DEF LoopEnd
    <2> QED BY <1>4, <2>1, <2>2, <2>3, <2>4, <2>5, <2>6, <2>7, <2>8, <2>9 DEF Drain
  <1>5. CASE Handler
    <2>1. CASE HandlerLock BY <2>1 DEF HandlerLock, HandlerEnter, EnterDrain
    <2>2. CASE DirectRead BY <2>2 DEF DirectRead
    <2>3. CASE DirectPush BY <2>3 DEF DirectPush
    <2>4. CASE HandlerUnlock BY <2>4 DEF HandlerUnlock
    <2>5. CASE NotifyDone BY <2>5 DEF NotifyDone
    <2> QED BY <1>5, <2>1, <2>2, <2>3, <2>4, <2>5 DEF Handler
  <1>6. CASE Flush
    <2>1. CASE FlushLock BY <2>1 DEF FlushLock
    <2>2. CASE FlushCount BY <2>2 DEF FlushCount, EnterDrain
    <2>3. CASE FlushReturn BY <2>3 DEF FlushReturn
    <2>4. CASE FlushUnlock BY <2>4 DEF FlushUnlock
    <2> QED BY <1>6, <2>1, <2>2, <2>3, <2>4 DEF Flush
  <1>7. CASE UNCHANGED vars BY <1>7 DEF vars
  <1> QED BY <1>1, <1>2, <1>3, <1>4, <1>5, <1>6, <1>7 DEF Next

\* Each step keeps the pending frames inside the burst buffer.
LEMMA BatchStep ==
    BatchInv /\ TypeBatch /\ fifo \in Seq(Nat) /\ clock \in Nat /\ LockHeld /\ [Next]_vars
      => BatchInv'
  <1> SUFFICES ASSUME BatchInv, TypeBatch, fifo \in Seq(Nat), clock \in Nat, LockHeld,
  [Next]_vars
               PROVE BatchInv'
    OBVIOUS
  <1> USE DEF BatchInv, TypeBatch, Pushing, OutsideDrain, Fault, Return, pending, locals,
          ClearPending
  <1>1. CASE PushFrame \/ PushFull \/ PushDone BY <1>1 DEF PushFrame, PushFull, Keep, PushDone
  <1>2. CASE CheckOverflow BY <1>2 DEF CheckOverflow, CheckFor
  <1>3. CASE Recover BY <1>3 DEF Recover, RecoverWith
  <1>4. CASE Count
    <2>1. Len(fifo) > 0 => Min2(Len(fifo), DrainMax) \in 1 .. Len(fifo)
      BY ConstantsAssumption DEF Min2
    <2> QED BY <1>4, <2>1 DEF Count
  <1>5. CASE ReadFrames
    <2>1. pc = "read" =>
            Len([k \in 1 .. drain_frames |-> [id |-> fifo[k], kind |-> align]]) = drain_frames
      OBVIOUS
    <2> QED BY <1>5, <2>1 DEF ReadFrames
  <1>6. CASE CountAfter BY <1>6 DEF CountAfter, CountAfterWith
  <1>7. CASE LoopEnd BY <1>7 DEF LoopEnd
  <1>8. CASE HandlerLock BY <1>8 DEF HandlerLock, HandlerEnter, EnterDrain
  <1>9. CASE DirectRead \/ DirectPush \/ HandlerUnlock \/ NotifyDone
    BY <1>9 DEF DirectRead, DirectPush, HandlerUnlock, NotifyDone, chip
  <1>10. CASE FlushCount BY <1>10 DEF FlushCount, EnterDrain
  <1>11. CASE FlushLock \/ FlushReturn \/ FlushUnlock
    BY <1>11 DEF FlushLock, FlushReturn, FlushUnlock
  <1>12. CASE Sample
    <2>1. fifo' \in Seq(Nat) /\ Len(fifo') >= Len(fifo)
      <3>1. CASE fifo' = Append(fifo, clock + 1) BY <3>1, EnterTyped
      <3>2. CASE Len(fifo) = FifoFrames /\ fifo' = Append(Tail(fifo), clock + 1)
        BY <3>2, EnterTyped, ConstantsAssumption
      <3>3. CASE fifo' = fifo BY <3>3
      <3> QED BY <1>12, <3>1, <3>2, <3>3 DEF Sample
    <2> QED BY <1>12, <2>1 DEF Sample
  <1>13. CASE Poll \/ UserRead BY <1>13 DEF Poll, UserRead, chip
  <1>14. CASE UNCHANGED vars BY <1>14 DEF vars, chip
  <1> QED BY <1>1, <1>2, <1>3, <1>4, <1>5, <1>6, <1>7, <1>8, <1>9, <1>10, <1>11, <1>12, <1>13,
             <1>14 DEF Next, Drain, Handler, Flush

\* Each step keeps what is known of a FIFO that is off.
LEMMA OffStep ==
    OffInv /\ BatchInv /\ LockHeld /\ fifo_enabled \in {0, 1} /\ [Next]_vars => OffInv'
  <1> SUFFICES ASSUME OffInv, BatchInv, LockHeld, fifo_enabled \in {0, 1}, [Next]_vars
               PROVE OffInv'
    OBVIOUS
  <1> USE DEF OffInv, OutsideDrain, Fault, Return, pending, ClearPending
  <1>1. CASE PushFrame \/ PushFull \/ PushDone
    BY <1>1 DEF PushFrame, PushFull, Keep, PushDone, Pushing
  <1>2. CASE CheckOverflow BY <1>2 DEF CheckOverflow, CheckFor
  <1>3. CASE Recover BY <1>3 DEF Recover, RecoverWith, RecoverSteps, BatchInv
  <1>4. CASE Count \/ ReadFrames \/ CountAfter BY <1>4 DEF Count, ReadFrames, CountAfter,
     CountAfterWith
  <1>5. CASE LoopEnd BY <1>5 DEF LoopEnd
  <1>6. CASE HandlerLock BY <1>6 DEF HandlerLock, HandlerEnter, EnterDrain
  <1>7. CASE DirectRead BY <1>7 DEF DirectRead
  <1>8. CASE DirectPush \/ HandlerUnlock \/ NotifyDone
    BY <1>8 DEF DirectPush, HandlerUnlock, NotifyDone
  <1>9. CASE FlushCount BY <1>9 DEF FlushCount, EnterDrain
  <1>10. CASE FlushLock \/ FlushReturn \/ FlushUnlock
    BY <1>10 DEF FlushLock, FlushReturn, FlushUnlock
  <1>11. CASE Sample \/ Poll \/ UserRead BY <1>11 DEF Sample, Poll, UserRead
  <1>12. CASE UNCHANGED vars BY <1>12 DEF vars
  <1> QED BY <1>1, <1>2, <1>3, <1>4, <1>5, <1>6, <1>7, <1>8, <1>9, <1>10, <1>11, <1>12
          DEF Next, Drain, Handler, Flush

\* The inductive invariant holds at the start ...
LEMMA InitIInv == Init => IInv
  <1> SUFFICES ASSUME Init PROVE IInv
    OBVIOUS
  <1> USE ConstantsAssumption DEF Init
  <1>1. TypeChip /\ TypeDrain /\ TypeCallers
    BY DEF TypeChip, TypeDrain, TypeCallers, Kinds, PCs, RecoverSteps
  <1>2. TypeBatch /\ TypeReader
    BY DEF TypeBatch, TypeReader, Frames, Kinds
  <1>3. LockHeld BY DEF LockHeld
  <1>4. BatchInv BY DEF BatchInv, Pushing
  <1>5. OffInv BY DEF OffInv
  <1> QED BY <1>1, <1>2, <1>3, <1>4, <1>5 DEF IInv, TypeOK

\* ... is kept by every step ...
LEMMA NextIInv == IInv /\ [Next]_vars => IInv'
  <1> SUFFICES ASSUME IInv, [Next]_vars PROVE IInv'
    OBVIOUS
  <1>1. fifo \in Seq(Nat) /\ clock \in Nat
    BY DEF IInv, TypeOK, TypeChip
  <1>2. drain_frames \in Nat /\ ts \in Nat /\ pf_ts \in Nat /\ frame \in Nat
    BY DEF IInv, TypeOK, TypeBatch, TypeDrain, TypeCallers
  <1>3. TypeChip' BY <1>2, ChipStep DEF IInv, TypeOK
  <1>4. TypeBatch' BY <1>2, BatchTypeStep DEF IInv, TypeOK
  <1>5. TypeDrain' BY <1>1, <1>2, DrainStep DEF IInv, TypeOK
  <1>6. TypeCallers' BY <1>1, CallersStep DEF IInv, TypeOK
  <1>7. TypeReader' BY <1>2, ReaderStep DEF IInv, TypeOK
  <1>8. LockHeld' BY LockStep DEF IInv
  <1>9. BatchInv' BY <1>1, BatchStep DEF IInv, TypeOK
  <1>10. OffInv' BY OffStep DEF IInv, TypeOK, TypeDrain
  <1> QED BY <1>3, <1>4, <1>5, <1>6, <1>7, <1>8, <1>9, <1>10 DEF IInv, TypeOK

\* ... and so holds in every reachable state.
LEMMA AlwaysIInv == Spec => []IInv
  BY InitIInv, NextIInv, PTL DEF Spec

-----------------------------------------------------------------------------
(* Theorems.                                                               *)

\* For every FIFO, batch, watermark and kfifo size and every failing transfer,
\* each variable keeps its type and the kfifo is never overfilled (the indices
\* that fifo_push_pending and fifo_read_frames use are inside their buffers).
THEOREM TypeCorrect == Spec => []TypeOK
  BY AlwaysIInv, PTL DEF IInv

\* Advancing the loop index takes the first frame off what is left of the batch.
LEMMA TailOfSubSeq ==
    ASSUME NEW s \in Seq(Frames), NEW a \in Nat, NEW n \in Nat, a < n, n <= Len(s)
    PROVE  /\ Tail(SubSeq(s, a + 1, n)) = SubSeq(s, a + 2, n)
           /\ Head(SubSeq(s, a + 1, n)) = s[a + 1]
  OBVIOUS

\* At the end of the batch nothing is left of it.
LEMMA EmptySubSeq ==
    ASSUME NEW s \in Seq(Frames), NEW a \in Nat, NEW n \in Nat, a >= n
    PROVE  SubSeq(s, a + 1, n) = <<>>
  OBVIOUS

\* Under the inductive invariant each step pushes the first pending frame or none.
LEMMA PendingKeptStep == IInv /\ [Next]_vars => [PendingStep]_vars
  <1> SUFFICES ASSUME IInv, Next PROVE PendingStep
    BY DEF PendingStep, Pending, PendingFrom, Pushing, vars, pending, reader
  <1>0. /\ burst \in Seq(Frames) /\ i \in Nat /\ pending_frames \in Nat /\ pending_pos \in Nat
        /\ BatchInv /\ LockHeld /\ OffInv
    BY DEF IInv, TypeOK, TypeBatch
  <1> USE DEF PendingStep, Pending, PendingFrom, Pushing, OutsideDrain, Fault, Return, pending,
          reader
  <1>1. CASE PushFrame
    <2>1. Pending' = SubSeq(burst, i + 2, pending_frames)
      BY <1>0, <1>1 DEF PushFrame
    <2>2. last'.id = burst[i + 1].id /\ last'.kind = burst[i + 1].kind
      BY <1>1 DEF PushFrame
    <2>3. i < pending_frames /\ pending_frames <= Len(burst) /\ Pushing
      BY <1>0, <1>1 DEF PushFrame, BatchInv
    <2> QED BY <1>0, <2>1, <2>2, <2>3, TailOfSubSeq
  <1>2. CASE PushFull BY <1>0, <1>2 DEF PushFull, Keep
  <1>3. CASE PushDone BY <1>0, <1>3, EmptySubSeq DEF PushDone
  <1>4. CASE CheckOverflow \/ Recover \/ Count \/ ReadFrames \/ CountAfter \/ LoopEnd
    <2>1. ~Pushing /\ pending_frames = 0
      BY <1>0, <1>4 DEF CheckOverflow, CheckFor, Recover, RecoverWith, Count, ReadFrames,
         CountAfter, CountAfterWith, LoopEnd, BatchInv
    <2> QED BY <1>0, <2>1, EmptySubSeq
  <1>5. CASE HandlerLock BY <1>0, <1>5 DEF HandlerLock, HandlerEnter, EnterDrain, LockHeld
  <1>6. CASE DirectPush
    <2>1. ~Pushing /\ pending_frames = 0
      BY <1>0, <1>6 DEF DirectPush, OffInv
    <2> QED BY <1>0, <2>1, EmptySubSeq
  <1>7. CASE DirectRead \/ HandlerUnlock \/ NotifyDone
    BY <1>0, <1>7 DEF DirectRead, HandlerUnlock, NotifyDone, locals
  <1>8. CASE FlushCount BY <1>0, <1>8 DEF FlushCount, EnterDrain
  <1>9. CASE FlushLock \/ FlushReturn \/ FlushUnlock
    BY <1>0, <1>9 DEF FlushLock, FlushReturn, FlushUnlock, LockHeld
  <1>10. CASE Sample \/ Poll \/ UserRead BY <1>0, <1>10 DEF Sample, Poll, UserRead
  <1> QED BY <1>1, <1>2, <1>3, <1>4, <1>5, <1>6, <1>7, <1>8, <1>9, <1>10
          DEF Next, Drain, Handler, Flush

\* Frames that did not fit into the kfifo are never overwritten, skipped or
\* pushed twice, whatever transfers fail later (fifo_push_pending and the two
\* tests of fifo_pending_frames at the start of fifo_drain).
THEOREM PendingFramesKept == Spec => PendingKept
  BY AlwaysIInv, PendingKeptStep, PTL DEF Spec, PendingKept

==============================================================================
