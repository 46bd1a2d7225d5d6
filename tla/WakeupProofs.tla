----------------------------- MODULE WakeupProofs -----------------------------
(***************************************************************************)
(* Theorems about TriggerWakeup, for FIFOs, batches, watermarks and        *)
(* kfifos of any size: a FIFO at the watermark is only left alone after a  *)
(* lost pulse or a drain that gave up.                                     *)
(***************************************************************************)
EXTENDS TriggerWakeup, TLAPS

PCs == {"idle", "pending", "check", "recover", "count", "read", "after", "push", "done"}

TypeFlags ==
    running \in BOOLEAN /\ oflow_en \in BOOLEAN /\ overflow \in BOOLEAN /\ missed \in BOOLEAN

TypeInv ==
    /\ phase \in {"off", "started", "attached", "detached"}
    /\ count \in 0 .. FifoFrames /\ kfifo \in 0 .. KfifoLen
    /\ pc \in PCs
    /\ loops \in 0 .. MaxLoops /\ batch \in 0 .. DrainMax /\ after \in 0 .. FifoFrames
    /\ pending \in 0 .. DrainMax
    /\ faults \in 0 .. MaxFaults

\* What the drain relies on from one step to the next.
DrainInv ==
    /\ pc \in {"check", "count", "read", "after", "push"} => pending = 0
    /\ pc = "check" => loops < MaxLoops
    /\ pc = "read" => batch <= count

\* The handler runs in a session only, and the FIFO only fills in one.
SessionInv ==
    /\ phase # "attached" => pc = "idle"
    /\ phase = "off" => ~running

\* Where the handler is about to leave the FIFO alone, or has done so.
Leaving ==
    \/ pc = "push" /\ after < Watermark
    \/ pc = "done"
    \/ pc = "idle" /\ phase \in {"started", "attached"}

\* The count has been below the watermark since it was last read, or a pulse is
\* known to be missed.
MissedInv == Leaving /\ count >= Watermark => missed

IInv == TypeFlags /\ TypeInv /\ DrainInv /\ SessionInv /\ MissedInv

-----------------------------------------------------------------------------
\* What is assumed of the constants, one by one.
LEMMA Sizes ==
    /\ FifoFrames \in Nat /\ 0 < FifoFrames /\ DrainMax \in Nat /\ 0 < DrainMax
    /\ MaxLoops \in Nat /\ 0 < MaxLoops /\ KfifoLen \in Nat /\ 0 < KfifoLen
    /\ Watermark \in Nat /\ 0 < Watermark /\ MaxFaults \in Nat
  BY WakeupAssumption

\* Before the first session nothing is in the FIFO.
LEMMA WakeupInit == Init => IInv
  <1> SUFFICES ASSUME Init PROVE IInv
    OBVIOUS
  <1> USE Sizes DEF Init
  <1>1. TypeFlags
    BY DEF TypeFlags
  <1>2. TypeInv
    BY DEF TypeInv, PCs
  <1>3. DrainInv /\ SessionInv
    BY DEF DrainInv, SessionInv
  <1>4. MissedInv
    BY DEF MissedInv, Leaving
  <1> QED BY <1>1, <1>2, <1>3, <1>4 DEF IInv

\* Pushing fits the kfifo and retains what does not.
LEMMA PushFits ==
    ASSUME NEW n \in 0 .. DrainMax, kfifo \in 0 .. KfifoLen, Push(n)
    PROVE  kfifo' \in 0 .. KfifoLen /\ pending' \in 0 .. DrainMax
  BY Sizes DEF Push, Least

\* The chip's flags and the bookkeeping of missed pulses stay Boolean.
LEMMA FlagsKept == IInv /\ [Next]_vars => TypeFlags'
  <1> SUFFICES ASSUME IInv, [Next]_vars PROVE TypeFlags'
    OBVIOUS
  <1> USE DEF IInv, TypeFlags, chip
  <1>1. CASE Sample
    BY <1>1 DEF Sample, Pulse, NoPulse
  <1>2. CASE UserRead
    BY <1>2 DEF UserRead
  <1>3. CASE Preenable
    BY <1>3 DEF Preenable
  <1>4. CASE Attach
    BY <1>4 DEF Attach
  <1>5. CASE Detach
    BY <1>5 DEF Detach
  <1>6. CASE Postdisable
    BY <1>6 DEF Postdisable
  <1>7. CASE PushPending
    BY <1>7 DEF PushPending, GiveUp
  <1>8. CASE CheckOverflow
    BY <1>8 DEF CheckOverflow, StatusRead
  <1>9. CASE Recover
    BY <1>9 DEF Recover
  <1>10. CASE Count
    BY <1>10 DEF Count, StatusRead
  <1>11. CASE Read
    BY <1>11 DEF Read, StatusRead
  <1>12. CASE CountAfter
    BY <1>12 DEF CountAfter, StatusRead
  <1>13. CASE PushBatch
    BY <1>13 DEF PushBatch, GiveUp
  <1>14. CASE TransferFails
    BY <1>14 DEF TransferFails, GiveUp
  <1>15. CASE NotifyDone
    BY <1>15 DEF NotifyDone
  <1>16. CASE UNCHANGED vars
    BY <1>16 DEF vars
  <1> QED BY <1>1, <1>2, <1>3, <1>4, <1>5, <1>6, <1>7, <1>8, <1>9, <1>10, <1>11, <1>12, <1>13, <1>14, <1>15, <1>16 DEF Next, HandlerStep

\* The counts of frames and turns stay within FIFO, batch, kfifo and loop.
LEMMA TypeKept == IInv /\ [Next]_vars => TypeInv'
  <1> SUFFICES ASSUME IInv, [Next]_vars PROVE TypeInv'
    OBVIOUS
  <1> USE Sizes DEF IInv, TypeInv, DrainInv, PCs, chip, locals
  <1>1. CASE Sample
    BY <1>1 DEF Sample, Pulse, NoPulse
  <1>2. CASE UserRead
    BY <1>2 DEF UserRead
  <1>3. CASE Preenable
    BY <1>3 DEF Preenable
  <1>4. CASE Attach
    BY <1>4 DEF Attach
  <1>5. CASE Detach
    BY <1>5 DEF Detach
  <1>6. CASE Postdisable
    BY <1>6 DEF Postdisable
  <1>7. CASE PushPending
    <2>1. kfifo' \in 0 .. KfifoLen /\ pending' \in 0 .. DrainMax
      BY <1>7, PushFits DEF PushPending, TypeInv
    <2> QED BY <1>7, <2>1 DEF PushPending, GiveUp
  <1>8. CASE CheckOverflow
    BY <1>8 DEF CheckOverflow, StatusRead
  <1>9. CASE Recover
    BY <1>9 DEF Recover
  <1>10. CASE Count
    BY <1>10 DEF Count, StatusRead, Least
  <1>11. CASE Read
    BY <1>11 DEF Read, StatusRead
  <1>12. CASE CountAfter
    BY <1>12 DEF CountAfter, StatusRead
  <1>13. CASE PushBatch
    <2>1. kfifo' \in 0 .. KfifoLen /\ pending' \in 0 .. DrainMax
      BY <1>13, PushFits DEF PushBatch, TypeInv
    <2> QED BY <1>13, <2>1 DEF PushBatch, GiveUp
  <1>14. CASE TransferFails
    BY <1>14 DEF TransferFails, GiveUp
  <1>15. CASE NotifyDone
    BY <1>15 DEF NotifyDone
  <1>16. CASE UNCHANGED vars
    BY <1>16 DEF vars
  <1> QED BY <1>1, <1>2, <1>3, <1>4, <1>5, <1>6, <1>7, <1>8, <1>9, <1>10, <1>11, <1>12, <1>13, <1>14, <1>15, <1>16 DEF Next, HandlerStep

\* No step of the drain is taken with frames pending or with more turns than
\* allowed, and a counted batch is still in the FIFO when it is read.
LEMMA DrainKept == IInv /\ [Next]_vars => DrainInv'
  <1> SUFFICES ASSUME IInv, [Next]_vars PROVE DrainInv'
    OBVIOUS
  <1> USE Sizes DEF IInv, TypeInv, DrainInv, SessionInv, PCs, chip, locals
  <1>1. CASE Sample
    BY <1>1 DEF Sample, Pulse, NoPulse
  <1>2. CASE UserRead
    BY <1>2 DEF UserRead
  <1>3. CASE Preenable
    BY <1>3 DEF Preenable
  <1>4. CASE Attach
    BY <1>4 DEF Attach
  <1>5. CASE Detach
    BY <1>5 DEF Detach
  <1>6. CASE Postdisable
    BY <1>6 DEF Postdisable
  <1>7. CASE PushPending
    <2>1. kfifo' \in 0 .. KfifoLen /\ pending' \in 0 .. DrainMax
      BY <1>7, PushFits DEF PushPending, TypeInv
    <2> QED BY <1>7, <2>1 DEF PushPending, GiveUp
  <1>8. CASE CheckOverflow
    BY <1>8 DEF CheckOverflow, StatusRead
  <1>9. CASE Recover
    BY <1>9 DEF Recover
  <1>10. CASE Count
    BY <1>10 DEF Count, StatusRead, Least
  <1>11. CASE Read
    BY <1>11 DEF Read, StatusRead
  <1>12. CASE CountAfter
    BY <1>12 DEF CountAfter, StatusRead
  <1>13. CASE PushBatch
    <2>1. kfifo' \in 0 .. KfifoLen /\ pending' \in 0 .. DrainMax
      BY <1>13, PushFits DEF PushBatch, TypeInv
    <2> QED BY <1>13, <2>1 DEF PushBatch, GiveUp
  <1>14. CASE TransferFails
    BY <1>14 DEF TransferFails, GiveUp
  <1>15. CASE NotifyDone
    BY <1>15 DEF NotifyDone
  <1>16. CASE UNCHANGED vars
    BY <1>16 DEF vars
  <1> QED BY <1>1, <1>2, <1>3, <1>4, <1>5, <1>6, <1>7, <1>8, <1>9, <1>10, <1>11, <1>12, <1>13, <1>14, <1>15, <1>16 DEF Next, HandlerStep

\* The handler only runs between attach and detach, the chip not after postdisable.
LEMMA SessionKept == IInv /\ [Next]_vars => SessionInv'
  <1> SUFFICES ASSUME IInv, [Next]_vars PROVE SessionInv'
    OBVIOUS
  <1> USE Sizes DEF IInv, TypeInv, SessionInv, PCs, chip, locals
  <1>1. CASE Sample
    BY <1>1 DEF Sample, Pulse, NoPulse
  <1>2. CASE UserRead
    BY <1>2 DEF UserRead
  <1>3. CASE Preenable
    BY <1>3 DEF Preenable
  <1>4. CASE Attach
    BY <1>4 DEF Attach
  <1>5. CASE Detach
    BY <1>5 DEF Detach
  <1>6. CASE Postdisable
    BY <1>6 DEF Postdisable
  <1>7. CASE PushPending
    <2>1. kfifo' \in 0 .. KfifoLen /\ pending' \in 0 .. DrainMax
      BY <1>7, PushFits DEF PushPending, TypeInv
    <2> QED BY <1>7, <2>1 DEF PushPending, GiveUp
  <1>8. CASE CheckOverflow
    BY <1>8 DEF CheckOverflow, StatusRead
  <1>9. CASE Recover
    BY <1>9 DEF Recover
  <1>10. CASE Count
    BY <1>10 DEF Count, StatusRead, Least
  <1>11. CASE Read
    BY <1>11 DEF Read, StatusRead
  <1>12. CASE CountAfter
    BY <1>12 DEF CountAfter, StatusRead
  <1>13. CASE PushBatch
    <2>1. kfifo' \in 0 .. KfifoLen /\ pending' \in 0 .. DrainMax
      BY <1>13, PushFits DEF PushBatch, TypeInv
    <2> QED BY <1>13, <2>1 DEF PushBatch, GiveUp
  <1>14. CASE TransferFails
    BY <1>14 DEF TransferFails, GiveUp
  <1>15. CASE NotifyDone
    BY <1>15 DEF NotifyDone
  <1>16. CASE UNCHANGED vars
    BY <1>16 DEF vars
  <1> QED BY <1>1, <1>2, <1>3, <1>4, <1>5, <1>6, <1>7, <1>8, <1>9, <1>10, <1>11, <1>12, <1>13, <1>14, <1>15, <1>16 DEF Next, HandlerStep

\* The handler never leaves a FIFO at the watermark without a missed pulse or a
\* drain that gave up.
LEMMA MissedKept == IInv /\ [Next]_vars => MissedInv'
  <1> SUFFICES ASSUME IInv, [Next]_vars PROVE MissedInv'
    OBVIOUS
  <1> USE Sizes DEF IInv, TypeInv, DrainInv, SessionInv, MissedInv, Leaving, PCs, chip, locals
  <1>1. CASE Sample
    BY <1>1 DEF Sample, Pulse, NoPulse
  <1>2. CASE UserRead
    BY <1>2 DEF UserRead
  <1>3. CASE Preenable
    BY <1>3 DEF Preenable
  <1>4. CASE Attach
    BY <1>4 DEF Attach
  <1>5. CASE Detach
    BY <1>5 DEF Detach
  <1>6. CASE Postdisable
    BY <1>6 DEF Postdisable
  <1>7. CASE PushPending
    <2>1. kfifo' \in 0 .. KfifoLen /\ pending' \in 0 .. DrainMax
      BY <1>7, PushFits DEF PushPending, TypeInv
    <2> QED BY <1>7, <2>1 DEF PushPending, GiveUp
  <1>8. CASE CheckOverflow
    BY <1>8 DEF CheckOverflow, StatusRead
  <1>9. CASE Recover
    BY <1>9 DEF Recover
  <1>10. CASE Count
    BY <1>10 DEF Count, StatusRead, Least
  <1>11. CASE Read
    BY <1>11 DEF Read, StatusRead
  <1>12. CASE CountAfter
    BY <1>12 DEF CountAfter, StatusRead
  <1>13. CASE PushBatch
    <2>1. kfifo' \in 0 .. KfifoLen /\ pending' \in 0 .. DrainMax
      BY <1>13, PushFits DEF PushBatch, TypeInv
    <2> QED BY <1>13, <2>1 DEF PushBatch, GiveUp
  <1>14. CASE TransferFails
    BY <1>14 DEF TransferFails, GiveUp
  <1>15. CASE NotifyDone
    BY <1>15 DEF NotifyDone
  <1>16. CASE UNCHANGED vars
    BY <1>16 DEF vars
  <1> QED BY <1>1, <1>2, <1>3, <1>4, <1>5, <1>6, <1>7, <1>8, <1>9, <1>10, <1>11, <1>12, <1>13, <1>14, <1>15, <1>16 DEF Next, HandlerStep

\* The invariant of every behaviour.
LEMMA WakeupInvariant == Spec => []IInv
  <1>1. IInv /\ [Next]_vars => IInv'
    BY FlagsKept, TypeKept, DrainKept, SessionKept, MissedKept DEF IInv
  <1> QED BY <1>1, WakeupInit, PTL DEF Spec

\* The drain's counts stay within the FIFO, the batch and the kfifo, its loop ends
\* after MaxLoops turns, and no batch is put over frames that are pending.
THEOREM WakeupTypeCorrect == Spec => []TypeOK
  <1>1. IInv => TypeOK
    BY DEF IInv, TypeFlags, TypeInv, DrainInv, PCs, TypeOK
  <1> QED BY <1>1, WakeupInvariant, PTL

\* A FIFO at the watermark is attended to, unless a pulse was lost or a drain gave
\* up: for every watermark, whatever the handler's loop and the kfifo hold.
THEOREM AttendedAlways == Spec => []Attended
  <1>1. IInv => Attended
    BY DEF IInv, MissedInv, Leaving, Attended
  <1> QED BY <1>1, WakeupInvariant, PTL
=============================================================================
