---------------------------- MODULE LifecycleProofs ----------------------------
(***************************************************************************)
(* Theorems about BufferLifecycle, for any set of watermarks and any       *)
(* number of failing register operations.  In this order: types, and what  *)
(* becomes of the flags and the handler without a session; the registers   *)
(* without a session; chip and flags while a session is on; and that the   *)
(* FIFO is stopped wherever it is reset.                                   *)
(***************************************************************************)
EXTENDS BufferLifecycle, Integers, TLAPS

Sessions ==
    {"off", "preenable", "attach", "on", "detach", "free_irq", "detached", "postdisable"}

Removals ==
    {"bound", "irq_off", "stopping", "stopped", "draining", "unregistering", "gone"}

Chips ==
    [int_drdy : {0, 1}, int_oflow : {0, 1}, th1 : 0 .. 3, th2 : 0 .. 255,
     fifo_en : {0, 1}, user_fifo_en : {0, 1}]

LifeTypes ==
    /\ trig \in Triggers /\ pool \in [Triggers -> Int]
    /\ session \in Sessions /\ removal \in Removals
    /\ handler \in {"idle", "woken", "drain", "recover", "direct"}
    /\ lock \in {"free", "user", "handler", "stop"}
    /\ fifo_watermark \in Watermarks /\ faults \in 0 .. MaxFaults /\ err \in {0, 1}

BitTypes ==
    /\ buffer_enabled \in {0, 1} /\ fifo_enabled \in {0, 1}
    /\ drdy_trigger_enabled \in {0, 1} /\ fifo_wm_trigger_enabled \in {0, 1}

\* Who holds data->lock, and that a program is run under it only.
LockInv ==
    /\ lock = "user" <=> session \in {"preenable", "postdisable"}
    /\ lock = "handler" <=> handler \in {"drain", "recover"}
    /\ lock = "stop" <=> removal = "stopping"
    /\ lock = "free" \/ handler = "drain" => prog = <<>>

\* What the programs of postdisable and stop_device are made of: nothing that
\* starts the FIFO.
StopOps == {"ints_off", "th1_off", "th2_off", "fifo_en_off", "user_off", "reset", "mark_off"}

Sections(S) == {s \in Seq(S) : Len(s) > 0}

Stopping == lock = "stop" \/ session = "postdisable"

StopInv == Stopping => prog \in Seq(Sections(StopOps))

\* From postdisable on the flags are off, and without a session so is the FIFO.
OffInv ==
    /\ session \in {"off", "postdisable"} =>
           buffer_enabled = 0 /\ drdy_trigger_enabled = 0 /\ fifo_wm_trigger_enabled = 0
    /\ session = "off" => fifo_enabled = 0
    /\ session = "off" => handler \notin {"drain", "recover"}

\* The poll function of a session is attached from postenable to predisable; what is
\* attached besides was left behind by a failure.  As long as nothing has failed
\* the handler's thread does not outlive free_irq.
Attached(t) == IF session \in {"on", "detach"} /\ t = trig THEN 1 ELSE 0

PoolInv ==
    /\ \A t \in Triggers : Attached(t) <= pool[t] /\ pool[t] <= Attached(t) + faults
    /\ faults = 0 /\ session \notin {"on", "detach", "free_irq"} => handler = "idle"

LifeInv ==
    /\ LifeTypes /\ BitTypes /\ chip \in Chips
    /\ LockInv /\ StopInv /\ OffInv /\ PoolInv

-----------------------------------------------------------------------------
\* Before the first session.
LEMMA LifeInit == Init => LifeInv
  BY LifecycleAssumption
  DEF Init, LifeInv, LifeTypes, BitTypes, Chips, LockInv, StopInv, Stopping, OffInv, PoolInv,
      Attached, Sessions, Removals, Triggers

\* Types.
LEMMA LifeTypesStep == LifeInv /\ [Next]_vars => LifeTypes'
  <1> SUFFICES ASSUME LifeInv, [Next]_vars PROVE LifeTypes'
    OBVIOUS
  <1> USE LifecycleAssumption DEF LifeInv, LifeTypes, Sessions, Removals, core, flags
  <1>1. CASE UserStep
    BY <1>1 DEF UserStep, ChooseTrigger, WatermarkStore, PreenableStart, Disable, RemoveStart
  <1>2. CASE PreenableEnd \/ PostdisableStart \/ PostdisableEnd \/ FreeIrq
    BY <1>2 DEF PreenableEnd, PostdisableStart, PostdisableEnd, FreeIrq
  <1>3. CASE Postenable
    BY <1>3 DEF Postenable, SetTriggerState, SetTriggerStateFails
  <1>4. CASE Predisable
    BY <1>4 DEF Predisable, SetTriggerState, SetTriggerStateFails
  <1>5. CASE StopStart \/ StopEnd \/ UnregisterStep
    BY <1>5 DEF StopStart, StopEnd, UnregisterStep, Unregister
  <1>6. CASE RunOp
    BY <1>6 DEF RunOp
  <1>7. CASE IrqHandler \/ TriggerPoll("ext")
    BY <1>7 DEF IrqHandler, TriggerPoll
  <1>8. CASE HandlerLock \/ HandlerRecover \/ HandlerEnd
    BY <1>8 DEF HandlerLock, HandlerRecover, HandlerEnd
  <1>9. CASE UNCHANGED vars
    BY <1>9 DEF vars
  <1> QED BY <1>1, <1>2, <1>3, <1>4, <1>5, <1>6, <1>7, <1>8, <1>9 DEF Next, CoreStep, Gone

\* The lock.
LEMMA LifeLockStep == LifeInv /\ [Next]_vars => LockInv'
  <1> SUFFICES ASSUME LifeInv, [Next]_vars PROVE LockInv'
    OBVIOUS
  <1> USE DEF LifeInv, LifeTypes, LockInv, Sessions, core
  <1>1. CASE UserStep
    BY <1>1 DEF UserStep, ChooseTrigger, WatermarkStore, PreenableStart, Disable, RemoveStart,
       SysfsThere
  <1>2. CASE PreenableEnd \/ PostdisableStart \/ PostdisableEnd \/ FreeIrq
    BY <1>2 DEF PreenableEnd, PostdisableStart, PostdisableEnd, FreeIrq
  <1>3. CASE Postenable
    BY <1>3 DEF Postenable, SetTriggerState, SetTriggerStateFails
  <1>4. CASE Predisable
    BY <1>4 DEF Predisable, SetTriggerState, SetTriggerStateFails
  <1>5. CASE StopStart \/ StopEnd
    BY <1>5 DEF StopStart, StopEnd
  <1>6. CASE UnregisterStep
    BY <1>6 DEF UnregisterStep, Unregister
  <1>7. CASE RunOp
    BY <1>7 DEF RunOp
  <1>8. CASE IrqHandler \/ TriggerPoll("ext")
    BY <1>8 DEF IrqHandler, TriggerPoll
  <1>9. CASE HandlerLock \/ HandlerRecover \/ HandlerEnd
    BY <1>9 DEF HandlerLock, HandlerRecover, HandlerEnd
  <1>10. CASE UNCHANGED vars
    BY <1>10 DEF vars
  <1> QED BY <1>1, <1>2, <1>3, <1>4, <1>5, <1>6, <1>7, <1>8, <1>9, <1>10 DEF Next, CoreStep, Gone

\* The driver's flags.
LEMMA LifeBitsStep == LifeInv /\ [Next]_vars => BitTypes'
  <1> SUFFICES ASSUME LifeInv, [Next]_vars PROVE BitTypes'
    OBVIOUS
  <1> USE DEF LifeInv, BitTypes, core, flags
  <1>1. CASE UserStep
    BY <1>1 DEF UserStep, ChooseTrigger, WatermarkStore, PreenableStart, Disable, RemoveStart
  <1>2. CASE PreenableEnd \/ PostdisableStart \/ PostdisableEnd \/ FreeIrq
    BY <1>2 DEF PreenableEnd, PostdisableStart, PostdisableEnd, FreeIrq
  <1>3. CASE Postenable
    BY <1>3 DEF Postenable, SetTriggerState, SetTriggerStateFails
  <1>4. CASE Predisable
    BY <1>4 DEF Predisable, SetTriggerState, SetTriggerStateFails
  <1>5. CASE StopStart \/ StopEnd \/ UnregisterStep
    BY <1>5 DEF StopStart, StopEnd, UnregisterStep, Unregister
  <1>6. CASE RunOp
    BY <1>6 DEF RunOp
  <1>7. CASE IrqHandler \/ TriggerPoll("ext")
    BY <1>7 DEF IrqHandler, TriggerPoll
  <1>8. CASE HandlerLock \/ HandlerRecover \/ HandlerEnd
    BY <1>8 DEF HandlerLock, HandlerRecover, HandlerEnd
  <1>9. CASE UNCHANGED vars
    BY <1>9 DEF vars
  <1> QED BY <1>1, <1>2, <1>3, <1>4, <1>5, <1>6, <1>7, <1>8, <1>9 DEF Next, CoreStep, Gone

\* A threshold fits its two registers.
LEMMA ApplyChips == ASSUME LifeInv, NEW op PROVE Apply(chip, op) \in Chips
  <1>1. fifo_watermark \in 1 .. 73
    BY LifecycleAssumption DEF LifeInv, LifeTypes
  <1>2. /\ (fifo_watermark * FRAME_SIZE) \div 256 \in 0 .. 3
        /\ (fifo_watermark * FRAME_SIZE) % 256 \in 0 .. 255
    BY <1>1 DEF FRAME_SIZE
  <1>3. chip \in Chips
    BY DEF LifeInv
  <1> DEFINE t1 == (fifo_watermark * FRAME_SIZE) \div 256
             t2 == (fifo_watermark * FRAME_SIZE) % 256
  <1>4. t1 \in 0 .. 3 /\ t2 \in 0 .. 255
    BY <1>2
  <1> HIDE DEF t1, t2
  <1>5. \A b \in {0, 1} : /\ [chip EXCEPT !.int_drdy = b] \in Chips
                          /\ [chip EXCEPT !.int_oflow = b] \in Chips
                          /\ [chip EXCEPT !.fifo_en = b] \in Chips
                          /\ [chip EXCEPT !.user_fifo_en = b] \in Chips
                          /\ [chip EXCEPT !.int_drdy = b, !.int_oflow = b] \in Chips
    BY <1>3 DEF Chips
  <1>6. \A t \in 0 .. 3 : [chip EXCEPT !.th1 = t] \in Chips
    BY <1>3 DEF Chips
  <1>7. \A t \in 0 .. 255 : [chip EXCEPT !.th2 = t] \in Chips
    BY <1>3 DEF Chips
  <1>8. /\ [chip EXCEPT !.th1 = t1] \in Chips /\ [chip EXCEPT !.th2 = t2] \in Chips
        /\ [chip EXCEPT !.th1 = 0] \in Chips /\ [chip EXCEPT !.th2 = 0] \in Chips
    <2>1. 0 \in 0 .. 3 /\ 0 \in 0 .. 255
      OBVIOUS
    <2> QED BY <1>4, <1>6, <1>7, <2>1, Zenon
  <1> QED BY <1>3, <1>5, <1>8 DEF Apply, t1, t2

\* The registers.
LEMMA LifeChipStep == LifeInv /\ [Next]_vars => chip' \in Chips
  <1> SUFFICES ASSUME LifeInv, [Next]_vars PROVE chip' \in Chips
    OBVIOUS
  <1>1. CASE RunOp
    BY <1>1, ApplyChips DEF RunOp, LifeInv
  <1>2. CASE Postenable \/ Predisable
    BY <1>2 DEF Postenable, Predisable, SetTriggerState, SetTriggerStateFails, LifeInv, Chips
  <1>3. RunOp \/ Postenable \/ Predisable \/ chip' = chip
    BY DEF Next, UserStep, ChooseTrigger, WatermarkStore, PreenableStart, Disable, RemoveStart,
       CoreStep, PreenableEnd, FreeIrq, PostdisableStart, PostdisableEnd, StopStart, StopEnd,
       UnregisterStep, IrqHandler, TriggerPoll, HandlerLock, HandlerRecover, HandlerEnd, Gone, vars
  <1> QED BY <1>1, <1>2, <1>3 DEF LifeInv

\* No operation of StopProgram starts the FIFO.
LEMMA StopStarts == StopProgram \in Seq(Sections(StopOps))
  <1>1. <<"ints_off">> \in Sections(StopOps) /\ <<"reset">> \in Sections(StopOps)
    BY DEF Sections, StopOps
  <1>2. DisableWatermarkHw \in Sections(StopOps)
    BY DEF Sections, StopOps, DisableWatermarkHw
  <1>3. FifoDisable \in Sections(StopOps)
    BY DEF Sections, StopOps, FifoDisable
  <1>4. <<<<"ints_off">>, DisableWatermarkHw>> \in Seq(Sections(StopOps))
    BY <1>1, <1>2
  <1>5. <<FifoDisable, <<"reset">>>> \in Seq(Sections(StopOps))
    BY <1>1, <1>3
  <1>6. \A p, q \in Seq(Sections(StopOps)) : p \o q \in Seq(Sections(StopOps))
    OBVIOUS
  <1>7. <<>> \in Seq(Sections(StopOps))
    OBVIOUS
  <1> QED BY <1>4, <1>5, <1>6, <1>7 DEF StopProgram

\* A program that is executed loses operations and gains none.
LEMMA Shrinks ==
    ASSUME NEW S, NEW p \in Seq(Sections(S)), p # <<>>, NEW q,
           \/ q = Tail(p)
           \/ q = IF Len(Head(p)) = 1 THEN Tail(p) ELSE <<Tail(Head(p))>> \o Tail(p)
    PROVE  q \in Seq(Sections(S)) /\ Head(Head(p)) \in S
  <1> DEFINE h == Head(p)
  <1>1. h \in Sections(S) /\ Tail(p) \in Seq(Sections(S))
    OBVIOUS
  <1> HIDE DEF h
  <1>2. h \in Seq(S) /\ Len(h) \in Nat \ {0}
    BY <1>1 DEF Sections
  <1>3. Head(h) \in S
    BY <1>2
  <1>4. Len(h) # 1 => Tail(h) \in Sections(S)
    <2>1. Tail(h) \in Seq(S) /\ Len(Tail(h)) = Len(h) - 1
      BY <1>2
    <2> QED BY <1>2, <2>1 DEF Sections
  <1>5. \A r \in Seq(Sections(S)), g \in Sections(S) : <<g>> \o r \in Seq(Sections(S))
    OBVIOUS
  <1> QED BY <1>1, <1>3, <1>4, <1>5 DEF h

\* It stays such a program.
LEMMA LifeStopStep == LifeInv /\ [Next]_vars => StopInv'
  <1> SUFFICES ASSUME LifeInv, [Next]_vars, Stopping' PROVE StopInv'
    BY DEF StopInv
  <1>1. CASE StopStart \/ PostdisableStart
    BY <1>1, StopStarts DEF StopStart, PostdisableStart, StopInv
  <1>2. CASE RunOp
    <2>1. Stopping /\ prog # <<>>
      BY <1>2 DEF RunOp, core, Stopping
    <2>2. prog' = Tail(prog)
            \/ prog' = IF Len(Head(prog)) = 1 THEN Tail(prog)
                                              ELSE <<Tail(Head(prog))>> \o Tail(prog)
      BY <1>2 DEF RunOp
    <2> QED BY <2>1, <2>2, Shrinks DEF LifeInv, StopInv
  <1>3. CASE (Stopping' => Stopping) /\ prog' = prog
    BY <1>3 DEF LifeInv, StopInv
  <1>4. CASE UserStep
    <2>1. (Stopping' => Stopping) /\ prog' = prog
      BY <1>4 DEF UserStep, ChooseTrigger, WatermarkStore, PreenableStart, Disable, RemoveStart,
         Stopping, core
    <2> QED BY <1>3, <2>1
  <1>5. CASE Postenable \/ Predisable \/ FreeIrq \/ PreenableEnd
          \/ PostdisableEnd \/ StopEnd \/ UnregisterStep
    <2>1. (Stopping' => Stopping) /\ prog' = prog
      BY <1>5 DEF Postenable, Predisable, FreeIrq, PreenableEnd,
         PostdisableEnd, StopEnd, UnregisterStep, Unregister, SetTriggerState, SetTriggerStateFails,
         Stopping
    <2> QED BY <1>3, <2>1
  <1>6. CASE IrqHandler \/ TriggerPoll("ext") \/ HandlerLock \/ HandlerEnd
    <2>1. (Stopping' => Stopping) /\ prog' = prog
      BY <1>6 DEF IrqHandler, TriggerPoll, HandlerLock, HandlerEnd, core, Stopping
    <2> QED BY <1>3, <2>1
  <1>7. ~HandlerRecover
    BY DEF HandlerRecover, LifeInv, LockInv, Stopping, core
  <1>8. CASE UNCHANGED vars
    BY <1>3, <1>8 DEF vars, core, Stopping
  <1> QED BY <1>1, <1>2, <1>4, <1>5, <1>6, <1>7, <1>8 DEF Next, CoreStep, Gone

\* The flags once the session is over.
LEMMA LifeOffStep == LifeInv /\ [Next]_vars => OffInv'
  <1> SUFFICES ASSUME LifeInv, [Next]_vars PROVE OffInv'
    OBVIOUS
  <1> USE DEF LifeInv, LifeTypes, LockInv, OffInv, Sessions, core, flags
  <1>1. CASE UserStep
    BY <1>1 DEF UserStep, ChooseTrigger, WatermarkStore, PreenableStart, Disable, RemoveStart
  <1>2. CASE PreenableEnd \/ PostdisableStart \/ PostdisableEnd \/ FreeIrq
    BY <1>2 DEF PreenableEnd, PostdisableStart, PostdisableEnd, FreeIrq
  <1>3. CASE Postenable
    BY <1>3 DEF Postenable, SetTriggerState, SetTriggerStateFails
  <1>4. CASE Predisable
    BY <1>4 DEF Predisable, SetTriggerState, SetTriggerStateFails
  <1>5. CASE StopStart \/ StopEnd
    BY <1>5 DEF StopStart, StopEnd
  <1>6. CASE UnregisterStep
    BY <1>6 DEF UnregisterStep, Unregister
  <1>7. CASE RunOp
    <2>1. UNCHANGED <<session, handler, flags>> /\ prog # <<>>
      BY <1>7 DEF RunOp
    <2>2. ASSUME session = "off" PROVE lock = "stop"
      BY <2>1, <2>2
    <2>3. ASSUME session = "off" PROVE NextOp # "mark_on"
      <3>1. prog' = Tail(prog)
              \/ prog' = IF Len(Head(prog)) = 1 THEN Tail(prog)
                                                ELSE <<Tail(Head(prog))>> \o Tail(prog)
        BY <1>7 DEF RunOp
      <3>2. prog \in Seq(Sections(StopOps))
        BY <2>2, <2>3 DEF StopInv, Stopping
      <3>3. Head(Head(prog)) \in StopOps
        BY <2>1, <3>1, <3>2, Shrinks
      <3> QED BY <2>1, <3>3 DEF StopOps, NextOp
    <2>4. NextOp = "mark_on" \/ fifo_enabled' \in {0, fifo_enabled}
      BY <1>7 DEF RunOp
    <2> QED BY <2>1, <2>3, <2>4
  <1>8. CASE IrqHandler \/ TriggerPoll("ext")
    BY <1>8 DEF IrqHandler, TriggerPoll
  <1>9. CASE HandlerLock \/ HandlerRecover \/ HandlerEnd
    BY <1>9 DEF HandlerLock, HandlerRecover, HandlerEnd
  <1>10. CASE UNCHANGED vars
    BY <1>10 DEF vars
  <1> QED BY <1>1, <1>2, <1>3, <1>4, <1>5, <1>6, <1>7, <1>8, <1>9, <1>10 DEF Next, CoreStep, Gone

\* Poll functions and the handler's thread.
LEMMA LifePoolStep == LifeInv /\ [Next]_vars => PoolInv'
  <1> SUFFICES ASSUME LifeInv, [Next]_vars PROVE PoolInv'
    OBVIOUS
  <1> USE DEF LifeInv, LifeTypes, PoolInv, Attached, Sessions, core, Triggers
  <1>1. CASE UserStep
    BY <1>1 DEF UserStep, ChooseTrigger, WatermarkStore, PreenableStart, Disable, RemoveStart
  <1>2. CASE PreenableEnd \/ PostdisableStart \/ PostdisableEnd \/ FreeIrq
    BY <1>2 DEF PreenableEnd, PostdisableStart, PostdisableEnd, FreeIrq
  <1>3. CASE Postenable
    BY <1>3 DEF Postenable, SetTriggerState, SetTriggerStateFails
  <1>4. CASE Predisable
    BY <1>4 DEF Predisable, SetTriggerState, SetTriggerStateFails
  <1>5. CASE StopStart \/ StopEnd
    BY <1>5 DEF StopStart, StopEnd
  <1>6. CASE UnregisterStep
    BY <1>6 DEF UnregisterStep, Unregister
  <1>7. CASE RunOp
    BY <1>7 DEF RunOp
  <1>8. CASE IrqHandler \/ TriggerPoll("ext")
    BY <1>8 DEF IrqHandler, TriggerPoll
  <1>9. CASE HandlerLock \/ HandlerRecover \/ HandlerEnd
    BY <1>9 DEF HandlerLock, HandlerRecover, HandlerEnd
  <1>10. CASE UNCHANGED vars
    BY <1>10 DEF vars
  <1> QED BY <1>1, <1>2, <1>3, <1>4, <1>5, <1>6, <1>7, <1>8, <1>9, <1>10 DEF Next, CoreStep, Gone

-----------------------------------------------------------------------------
\* LifeInv holds in every state.
LEMMA LifeAlways == Spec => []LifeInv
  <1>1. LifeInv /\ [Next]_vars => LifeInv'
    BY LifeTypesStep, LifeBitsStep, LifeChipStep, LifeLockStep, LifeStopStep, LifeOffStep,
       LifePoolStep DEF LifeInv
  <1> QED BY LifeInit, <1>1, PTL DEF Spec

\* Every variable keeps its type; no more poll functions are attached than turning a
\* trigger off has failed, besides the session's own.
THEOREM LifecycleTypeCorrect == Spec => []TypeOK
  <1>1. LifeInv => TypeOK
    BY LifecycleAssumption
    DEF LifeInv, LifeTypes, BitTypes, Chips, LockInv, PoolInv, Attached, Sessions, Removals, TypeOK
  <1> QED BY LifeAlways, <1>1, PTL

\* With no session no interrupt is routed to a trigger, whatever register
\* operations failed and also while stop_device runs (ICM20602.c's preenable error
\* path, postdisable and stop_device).
THEOREM StrayIrqsIgnored == Spec => []StrayIrqIgnored
  <1>1. LifeInv => StrayIrqIgnored
    BY DEF LifeInv, OffInv, StrayIrqIgnored
  <1> QED BY LifeAlways, <1>1, PTL

\* Once a session is over its handler's thread is not running, as long as turning
\* the trigger off has not failed: the poll function is detached first and
\* free_irq waits for the thread.
THEOREM HandlersStopped == Spec => []HandlerStopped
  <1>1. LifeInv => HandlerStopped
    BY DEF LifeInv, PoolInv, HandlerStopped
  <1> QED BY LifeAlways, <1>1, PTL

-----------------------------------------------------------------------------
(* The chip is quiet without a session.                                    *)

\* An operation that is still to be executed.
Holds(p, op) == \E n \in 1 .. Len(p) : \E m \in 1 .. Len(p[n]) : p[n][m] = op

FifoStops ==
    /\ chip.fifo_en = 0 \/ Holds(prog, "fifo_en_off")
    /\ chip.user_fifo_en = 0 \/ Holds(prog, "user_off")

AllStops ==
    /\ FifoStops
    /\ chip.int_drdy = 0 \/ Holds(prog, "ints_off")
    /\ chip.int_oflow = 0 \/ Holds(prog, "ints_off")
    /\ chip.th1 = 0 \/ Holds(prog, "th1_off")
    /\ chip.th2 = 0 \/ Holds(prog, "th2_off")

Still == chip.fifo_en = 0 /\ chip.user_fifo_en = 0

\* Preenable of the data-ready trigger stops the FIFO too.
DirectOps == StopOps \cup {"oflow_off", "drdy_on"}

DirectInv ==
    session = "preenable" /\ trig = "drdy" /\ err = 0 =>
        prog \in Seq(Sections(DirectOps)) /\ FifoStops

\* A recovery that does not fail ends with the FIFO marked as on.
RecoverOps == {"fifo_en_off", "user_off", "reset", "mark_off", "user_on", "fifo_en_on", "mark_on"}

EndsOn(s) == s \in Seq(RecoverOps) /\ Len(s) > 0 /\ s[Len(s)] = "mark_on"

RecoverInv ==
    handler = "recover" /\ err = 0 =>
        \/ prog = <<>> /\ fifo_enabled = 1
        \/ \E s \in Seq(RecoverOps) : EndsOn(s) /\ prog = <<s>>

\* Where nobody runs a program a FIFO that is marked as off is off.
StillInv == (lock = "free" \/ handler = "drain") /\ err = 0 /\ fifo_enabled = 0 => Still

QuietRegs ==
    /\ chip.int_drdy = 0 /\ chip.int_oflow = 0 /\ chip.th1 = 0 /\ chip.th2 = 0 /\ Still

QuietInv ==
    /\ Stopping /\ err = 0 => AllStops
    /\ DirectInv /\ RecoverInv /\ StillInv
    /\ session = "off" /\ err = 0 => QuietRegs

\* An empty program holds nothing.
LEMMA HoldsNothing == ASSUME NEW op PROVE ~Holds(<<>>, op)
  BY DEF Holds

\* What is not executed stays in the program.
LEMMA HoldsOn ==
    ASSUME NEW S, NEW p \in Seq(Sections(S)), p # <<>>, NEW q,
           q = IF Len(Head(p)) = 1 THEN Tail(p) ELSE <<Tail(Head(p))>> \o Tail(p),
           NEW op, Holds(p, op), Head(Head(p)) # op
    PROVE  Holds(q, op)
  <1> DEFINE h == Head(p)
             r == Tail(p)
  <1>1. PICK n \in 1 .. Len(p) : \E m \in 1 .. Len(p[n]) : p[n][m] = op
    BY DEF Holds
  <1>2. PICK m \in 1 .. Len(p[n]) : p[n][m] = op
    BY <1>1
  <1>3. h \in Sections(S) /\ h = p[1] /\ r \in Seq(Sections(S)) /\ Len(r) = Len(p) - 1
    OBVIOUS
  <1>4. \A k \in 1 .. Len(p) : k # 1 => k - 1 \in 1 .. Len(r) /\ r[k - 1] = p[k]
    OBVIOUS
  <1>5. q = IF Len(h) = 1 THEN r ELSE <<Tail(h)>> \o r
    OBVIOUS
  <1>6. Head(h) # op
    OBVIOUS
  <1> HIDE DEF h, r
  <1>7. h \in Seq(S) /\ Len(h) \in Nat \ {0}
    BY <1>3 DEF Sections
  <1>8. CASE n # 1
    <2>1. n - 1 \in 1 .. Len(r) /\ r[n - 1] = p[n]
      BY <1>4, <1>8
    <2>2. Holds(r, op)
      BY <1>2, <2>1 DEF Holds
    <2>3. \A g : LET t == <<g>> \o r IN Len(t) = Len(r) + 1 /\ \A k \in 1 .. Len(r) : t[k + 1] = r[k]
      BY <1>3
    <2>4. Len(r) \in Nat /\ n \in Nat
      BY <1>3
    <2>5. CASE Len(h) = 1
      BY <1>5, <2>2, <2>5
    <2>6. CASE Len(h) # 1
      <3>1. Len(q) = Len(r) + 1 /\ q[n - 1 + 1] = p[n]
        BY <1>5, <2>1, <2>3, <2>6
      <3>2. n - 1 + 1 \in 1 .. Len(q)
        BY <2>1, <2>4, <3>1
      <3> QED BY <1>2, <3>1, <3>2 DEF Holds
    <2> QED BY <2>5, <2>6
  <1>9. CASE n = 1
    <2>1. m \in 1 .. Len(h) /\ h[m] = op
      BY <1>2, <1>3, <1>9
    <2>2. m # 1 /\ Len(h) # 1
      BY <1>6, <1>7, <2>1
    <2>3. m - 1 \in 1 .. Len(Tail(h)) /\ Tail(h)[m - 1] = op
      BY <1>7, <2>1, <2>2
    <2>4. \A g : LET t == <<g>> \o r IN 1 \in 1 .. Len(t) /\ t[1] = g
      BY <1>3
    <2>5. 1 \in 1 .. Len(q) /\ q[1] = Tail(h)
      BY <1>5, <2>2, <2>4
    <2> QED BY <2>3, <2>5 DEF Holds
  <1> QED BY <1>8, <1>9

\* What stopping operations do to the registers.
LEMMA DirectEffect ==
    ASSUME NEW c \in Chips, NEW op \in DirectOps, NEW d, d = Apply(c, op)
    PROVE  /\ (d.fifo_en = c.fifo_en /\ op # "fifo_en_off") \/ d.fifo_en = 0
           /\ (d.user_fifo_en = c.user_fifo_en /\ op # "user_off") \/ d.user_fifo_en = 0
  BY DEF DirectOps, StopOps, Apply, Chips

LEMMA StopEffect ==
    ASSUME NEW c \in Chips, NEW op \in StopOps, NEW d, d = Apply(c, op)
    PROVE  /\ (d.int_drdy = c.int_drdy /\ op # "ints_off") \/ d.int_drdy = 0
           /\ (d.int_oflow = c.int_oflow /\ op # "ints_off") \/ d.int_oflow = 0
           /\ (d.th1 = c.th1 /\ op # "th1_off") \/ d.th1 = 0
           /\ (d.th2 = c.th2 /\ op # "th2_off") \/ d.th2 = 0
           /\ (d.fifo_en = c.fifo_en /\ op # "fifo_en_off") \/ d.fifo_en = 0
           /\ (d.user_fifo_en = c.user_fifo_en /\ op # "user_off") \/ d.user_fifo_en = 0
  BY DEF StopOps, Apply, Chips

\* Concatenation, element by element.
LEMMA Joined ==
    ASSUME NEW S, NEW x \in Seq(S), NEW y \in Seq(S)
    PROVE  /\ x \o y \in Seq(S) /\ Len(x \o y) = Len(x) + Len(y)
           /\ \A k \in 1 .. Len(x) + Len(y) :
                  (x \o y)[k] = IF k <= Len(x) THEN x[k] ELSE y[k - Len(x)]
  OBVIOUS

\* From position n + 1 on s is t.
From(s, n, t) == \A k \in 1 .. Len(t) : s[n + k] = t[k]

LEMMA JoinedAt ==
    ASSUME NEW S, NEW x \in Seq(S), NEW y \in Seq(S)
    PROVE  /\ x \o y \in Seq(S) /\ Len(x \o y) = Len(x) + Len(y)
           /\ From(x \o y, 0, x) /\ From(x \o y, Len(x), y)
  <1>1. Len(x) \in Nat /\ Len(y) \in Nat
    OBVIOUS
  <1>2. From(x \o y, 0, x)
    BY <1>1, Joined DEF From
  <1>3. ASSUME NEW k \in 1 .. Len(y) PROVE (x \o y)[Len(x) + k] = y[k]
    <2>1. /\ Len(x) + k \in 1 .. Len(x) + Len(y) /\ ~(Len(x) + k <= Len(x))
          /\ Len(x) + k - Len(x) = k
      BY <1>1
    <2> QED BY <2>1, Joined
  <1> QED BY <1>2, <1>3, Joined DEF From

\* The programs hold what they are there for.
LEMMA StopHolds ==
    /\ Holds(StopProgram, "ints_off") /\ Holds(StopProgram, "th1_off")
    /\ Holds(StopProgram, "th2_off")
    /\ fifo_enabled = 1 =>
           Holds(StopProgram, "fifo_en_off") /\ Holds(StopProgram, "user_off")
  <1> DEFINE a == <<"ints_off">>
             b == DisableWatermarkHw
             r == IF fifo_enabled = 1 THEN <<FifoDisable, <<"reset">>>> ELSE <<>>
  <1>1. /\ Len(a) = 1 /\ a[1] = "ints_off"
        /\ Len(b) = 2 /\ b[1] = "th1_off" /\ b[2] = "th2_off"
        /\ Len(FifoDisable) = 4 /\ FifoDisable[1] = "fifo_en_off" /\ FifoDisable[2] = "user_off"
    BY DEF DisableWatermarkHw, FifoDisable
  <1>2. StopProgram = <<a, b>> \o r
    BY DEF StopProgram
  <1>3. \E n \in Nat : Len(r) = n /\ r \in Seq(Sections(StopOps))
    <2>1. FifoDisable \in Sections(StopOps) /\ <<"reset">> \in Sections(StopOps)
      <3>1. FifoDisable \in Sections(StopOps)
        BY DEF Sections, StopOps, FifoDisable
      <3>2. <<"reset">> \in Sections(StopOps)
        BY DEF Sections, StopOps
      <3> QED BY <3>1, <3>2
    <2>2. r = <<FifoDisable, <<"reset">>>> \/ r = <<>>
      OBVIOUS
    <2>3. \A x, y \in Sections(StopOps) : <<x, y>> \in Seq(Sections(StopOps))
      OBVIOUS
    <2>4. r \in Seq(Sections(StopOps))
      BY <2>1, <2>2, <2>3
    <2> QED BY <2>4
  <1>4. fifo_enabled = 1 => Len(r) = 2 /\ r[1] = FifoDisable
    OBVIOUS
  <1> HIDE DEF a, b, r
  <1>5. \A x, y : /\ Len(<<x, y>> \o r) = Len(r) + 2
                  /\ (<<x, y>> \o r)[1] = x /\ (<<x, y>> \o r)[2] = y
                  /\ Len(r) > 0 => (<<x, y>> \o r)[3] = r[1]
    BY <1>3
  <1>6. /\ Len(StopProgram) \in Nat /\ 1 \in 1 .. Len(StopProgram) /\ 2 \in 1 .. Len(StopProgram)
        /\ StopProgram[1] = a /\ StopProgram[2] = b
        /\ fifo_enabled = 1 => 3 \in 1 .. Len(StopProgram) /\ StopProgram[3] = FifoDisable
    BY <1>2, <1>3, <1>4, <1>5
  <1>7. Holds(StopProgram, "ints_off")
    BY <1>1, <1>6 DEF Holds
  <1>8. Holds(StopProgram, "th1_off") /\ Holds(StopProgram, "th2_off")
    <2>1. 1 \in 1 .. Len(b) /\ 2 \in 1 .. Len(b)
      BY <1>1
    <2> QED BY <1>1, <1>6, <2>1 DEF Holds
  <1>9. ASSUME fifo_enabled = 1
        PROVE  Holds(StopProgram, "fifo_en_off") /\ Holds(StopProgram, "user_off")
    <2>1. 1 \in 1 .. Len(FifoDisable) /\ 2 \in 1 .. Len(FifoDisable)
      BY <1>1
    <2> QED BY <1>1, <1>6, <1>9, <2>1 DEF Holds
  <1> QED BY <1>7, <1>8, <1>9

LEMMA DirectHolds ==
    /\ <<Preenable["drdy"]>> \in Seq(Sections(DirectOps))
    /\ Holds(<<Preenable["drdy"]>>, "fifo_en_off") /\ Holds(<<Preenable["drdy"]>>, "user_off")
  <1> DEFINE z == <<"oflow_off", "drdy_on">>
             a == DisableWatermarkHw
             b == FifoDisable
             u == a \o b
             s == u \o z
  <1>1. Preenable["drdy"] = s
    BY DEF Preenable, Triggers
  <1>2. a \in Seq(DirectOps) /\ b \in Seq(DirectOps) /\ z \in Seq(DirectOps)
    BY DEF DirectOps, StopOps, DisableWatermarkHw, FifoDisable
  <1>3. Len(a) = 2 /\ Len(b) = 4 /\ Len(z) = 2 /\ b[1] = "fifo_en_off" /\ b[2] = "user_off"
    BY DEF DisableWatermarkHw, FifoDisable
  <1> HIDE DEF a, b, z
  <1>4. u \in Seq(DirectOps) /\ Len(u) = 6 /\ From(u, 2, b)
    <2>1. a \in Seq(DirectOps) /\ b \in Seq(DirectOps)
      BY <1>2, <1>3
    <2>2. /\ a \o b \in Seq(DirectOps) /\ Len(a \o b) = Len(a) + Len(b)
          /\ From(a \o b, 0, a) /\ From(a \o b, Len(a), b)
      BY <2>1, JoinedAt
    <2> QED BY <1>2, <1>3, <2>2
  <1> HIDE DEF u
  <1>5. s \in Seq(DirectOps) /\ Len(s) = 8 /\ From(s, 0, u)
    <2>1. u \in Seq(DirectOps) /\ z \in Seq(DirectOps)
      BY <1>2, <1>3, <1>4
    <2>2. /\ u \o z \in Seq(DirectOps) /\ Len(u \o z) = Len(u) + Len(z)
          /\ From(u \o z, 0, u) /\ From(u \o z, Len(u), z)
      BY <2>1, JoinedAt
    <2> QED BY <1>2, <1>3, <1>4, <2>2
  <1> HIDE DEF s
  <1>6. u[3] = b[1] /\ u[4] = b[2] /\ s[3] = u[3] /\ s[4] = u[4]
    BY <1>3, <1>4, <1>5 DEF From
  <1>7. s \in Sections(DirectOps)
    BY <1>5 DEF Sections
  <1>8. <<s>> \in Seq(Sections(DirectOps)) /\ Len(<<s>>) = 1 /\ <<s>>[1] = s
    BY <1>7
  <1>9. 3 \in 1 .. Len(s) /\ 4 \in 1 .. Len(s) /\ 1 \in 1 .. Len(<<s>>)
    BY <1>5, <1>8
  <1> QED BY <1>1, <1>3, <1>6, <1>8, <1>9 DEF Holds

LEMMA RecoverEnds == EndsOn(FifoDisable \o FifoEnable)
  <1> DEFINE a == FifoDisable
             b == FifoEnable
  <1>1. a \in Seq(RecoverOps) /\ Len(a) = 4 /\ b \in Seq(RecoverOps) /\ Len(b) = 6
        /\ b[6] = "mark_on"
    BY DEF RecoverOps, FifoDisable, FifoEnable
  <1> HIDE DEF a, b
  <1>2. a \o b \in Seq(RecoverOps) /\ Len(a \o b) = 10 /\ (a \o b)[10] = "mark_on"
    <2>1. 10 \in 1 .. Len(a) + Len(b) /\ 10 - Len(a) = 6
      BY <1>1
    <2>2. /\ a \o b \in Seq(RecoverOps) /\ Len(a \o b) = Len(a) + Len(b)
          /\ (a \o b)[10] = IF 10 <= Len(a) THEN a[10] ELSE b[10 - Len(a)]
      BY <1>1, <2>1, Joined
    <2> QED BY <1>1, <2>1, <2>2
  <1> QED BY <1>2 DEF EndsOn, a, b

\* What is left of a recovery ends as it did.
LEMMA EndsLater ==
    ASSUME NEW s, EndsOn(s), NEW q,
           q = IF Len(Head(<<s>>)) = 1 THEN Tail(<<s>>) ELSE <<Tail(Head(<<s>>))>> \o Tail(<<s>>)
    PROVE  \/ q = <<>> /\ Head(Head(<<s>>)) = "mark_on"
           \/ \E t \in Seq(RecoverOps) : EndsOn(t) /\ q = <<t>>
  <1>1. s \in Seq(RecoverOps) /\ Len(s) \in Nat \ {0} /\ s[Len(s)] = "mark_on"
    BY DEF EndsOn
  <1>2. Head(<<s>>) = s /\ Tail(<<s>>) = <<>>
    OBVIOUS
  <1>3. CASE Len(s) = 1
    BY <1>1, <1>2, <1>3
  <1>4. CASE Len(s) # 1
    <2> DEFINE t == Tail(s)
    <2>1. t \in Seq(RecoverOps) /\ Len(t) = Len(s) - 1 /\ t[Len(s) - 1] = s[Len(s)]
      BY <1>1, <1>4
    <2> HIDE DEF t
    <2>2. EndsOn(t)
      BY <1>1, <1>4, <2>1 DEF EndsOn
    <2>3. <<t>> \o <<>> = <<t>>
      OBVIOUS
    <2> QED BY <1>2, <1>4, <2>1, <2>2, <2>3 DEF t
  <1> QED BY <1>3, <1>4

\* Before the first session.
LEMMA QuietInit == Init => QuietInv
  BY DEF Init, QuietInv, Stopping, DirectInv, RecoverInv, StillInv, Still, QuietRegs

\* Executing an operation.
LEMMA QuietRun == LifeInv /\ QuietInv /\ RunOp => QuietInv'
  <1> SUFFICES ASSUME LifeInv, QuietInv, RunOp, err' = 0 PROVE QuietInv'
    BY DEF QuietInv, DirectInv, RecoverInv, StillInv
  <1>1. /\ UNCHANGED <<trig, session, handler, lock, removal>> /\ prog # <<>>
        /\ chip' = Apply(chip, NextOp) /\ err = 0
        /\ prog' = IF Len(Head(prog)) = 1 THEN Tail(prog) ELSE <<Tail(Head(prog))>> \o Tail(prog)
        /\ fifo_enabled' = CASE NextOp = "mark_off" -> 0
                             [] NextOp = "mark_on"  -> 1
                             [] OTHER               -> fifo_enabled
        /\ NextOp = Head(Head(prog))
    <2>1. /\ UNCHANGED <<trig, session, handler, lock, removal>> /\ prog # <<>>
          /\ NextOp = Head(Head(prog))
      BY DEF RunOp, core, NextOp
    <2>2. err' # 1
      OBVIOUS
    <2> QED BY <2>1, <2>2 DEF RunOp
  <1>2. chip \in Chips
    BY DEF LifeInv
  <1>3. CASE Stopping
    <2>1. prog \in Seq(Sections(StopOps)) /\ AllStops
      BY <1>1, <1>3 DEF LifeInv, StopInv, QuietInv
    <2>2. NextOp \in StopOps
      BY <1>1, <2>1, Shrinks
    <2>3. \A op : Holds(prog, op) /\ NextOp # op => Holds(prog', op)
      BY <1>1, <2>1, HoldsOn
    <2>4. AllStops'
      BY <1>1, <1>2, <2>1, <2>2, <2>3, StopEffect DEF AllStops, FifoStops
    <2>5. session = "off" => QuietRegs'
      BY <1>1, <1>2, <2>2, StopEffect DEF QuietInv, QuietRegs, Still
    <2>6. lock # "free" /\ handler \notin {"drain", "recover"} /\ session # "preenable"
      BY <1>3 DEF Stopping, LifeInv, LockInv
    <2> QED BY <1>1, <2>4, <2>5, <2>6 DEF QuietInv, DirectInv, RecoverInv, StillInv
  <1>4. CASE ~Stopping /\ session = "preenable"
    <2>1. lock = "user" /\ handler \notin {"drain", "recover"} /\ ~Stopping'
      BY <1>1, <1>4 DEF LifeInv, LockInv, Stopping
    <2>2. ASSUME trig = "drdy" PROVE prog' \in Seq(Sections(DirectOps)) /\ FifoStops'
      <3>1. prog \in Seq(Sections(DirectOps)) /\ FifoStops
        BY <1>1, <1>4, <2>2 DEF QuietInv, DirectInv
      <3>2. NextOp \in DirectOps /\ prog' \in Seq(Sections(DirectOps))
        BY <1>1, <3>1, Shrinks
      <3>3. \A op : Holds(prog, op) /\ NextOp # op => Holds(prog', op)
        BY <1>1, <3>1, HoldsOn
      <3> QED BY <1>1, <1>2, <3>1, <3>2, <3>3, DirectEffect DEF FifoStops
    <2> QED BY <1>1, <1>4, <2>1, <2>2 DEF QuietInv, DirectInv, RecoverInv, StillInv
  <1>5. CASE ~Stopping /\ session # "preenable"
    <2>1. handler = "recover" /\ lock = "handler" /\ session # "off" /\ ~Stopping'
      BY <1>1, <1>5 DEF LifeInv, LifeTypes, LockInv, OffInv, Stopping
    <2>2. PICK s \in Seq(RecoverOps) : EndsOn(s) /\ prog = <<s>>
      BY <1>1, <2>1 DEF QuietInv, RecoverInv
    <2>3. (prog' = <<>> /\ NextOp = "mark_on") \/ \E t \in Seq(RecoverOps) : EndsOn(t) /\ prog' = <<t>>
      BY <1>1, <2>2, EndsLater
    <2>4. RecoverInv'
      BY <1>1, <2>3 DEF RecoverInv
    <2> QED BY <1>1, <1>5, <2>1, <2>4 DEF QuietInv, DirectInv, StillInv
  <1> QED BY <1>3, <1>4, <1>5

\* The callbacks and stop_device begin and end.
LEMMA QuietCore == LifeInv /\ QuietInv /\ (PreenableStart \/ CoreStep) => QuietInv'
  <1> SUFFICES ASSUME LifeInv, QuietInv, PreenableStart \/ CoreStep PROVE QuietInv'
    OBVIOUS
  <1> USE DEF QuietInv, DirectInv, RecoverInv, StillInv, Stopping
  <1>1. LockInv /\ OffInv /\ chip \in Chips /\ fifo_enabled \in {0, 1}
    BY DEF LifeInv, BitTypes
  <1>2. CASE PreenableStart
    BY <1>1, <1>2, DirectHolds DEF PreenableStart, LockInv, FifoStops
  <1>3. CASE PreenableEnd
    <2>1. FifoStops /\ prog = <<>> => Still
      BY HoldsNothing DEF FifoStops, Still
    <2> QED BY <1>1, <1>3, <2>1 DEF PreenableEnd, LockInv, Still
  <1>4. CASE Postenable
    <2>1. /\ UNCHANGED <<lock, prog, err, fifo_enabled, handler>> /\ session = "attach"
          /\ session' \in {"on", "detached"}
      BY <1>4 DEF Postenable, SetTriggerState, SetTriggerStateFails
    <2>2. chip'.fifo_en = chip.fifo_en /\ chip'.user_fifo_en = chip.user_fifo_en
      BY <1>1, <1>4 DEF Postenable, SetTriggerState, SetTriggerStateFails, Chips
    <2>3. lock' # "stop" \/ chip' = chip
      BY <1>4, <2>1 DEF Postenable, SetTriggerState, SetTriggerStateFails
    <2> QED BY <1>1, <2>1, <2>2, <2>3 DEF LockInv, Still, AllStops, FifoStops
  <1>5. CASE Predisable
    <2>1. /\ UNCHANGED <<lock, prog, err, fifo_enabled, handler>> /\ session = "detach"
          /\ session' \in {"free_irq", "detached"}
      BY <1>5 DEF Predisable, SetTriggerState, SetTriggerStateFails
    <2>2. chip'.fifo_en = chip.fifo_en /\ chip'.user_fifo_en = chip.user_fifo_en
      BY <1>1, <1>5 DEF Predisable, SetTriggerState, SetTriggerStateFails, Chips
    <2>3. lock' # "stop" \/ chip' = chip
      BY <1>5, <2>1 DEF Predisable, SetTriggerState, SetTriggerStateFails
    <2> QED BY <1>1, <2>1, <2>2, <2>3 DEF LockInv, Still, AllStops, FifoStops
  <1>6. CASE FreeIrq \/ UnregisterStep
    BY <1>1, <1>6 DEF FreeIrq, UnregisterStep, Unregister, LockInv, Still, AllStops, FifoStops, QuietRegs
  <1>7. CASE PostdisableStart \/ StopStart
    <2>1. lock = "free" /\ prog' = StopProgram /\ UNCHANGED <<chip, err, fifo_enabled, handler>>
      BY <1>7 DEF PostdisableStart, StopStart
    <2>2. handler \notin {"drain", "recover"} /\ lock' # "free"
      BY <1>1, <1>7, <2>1 DEF LockInv, PostdisableStart, StopStart
    <2>3. err = 0 => AllStops'
      BY <1>1, <2>1, StopHolds DEF AllStops, FifoStops, Still
    <2>4. session' # "preenable" /\ (session' = "off" => session = "off")
      BY <1>1, <1>7, <2>1 DEF PostdisableStart, StopStart, LockInv
    <2> QED BY <2>1, <2>2, <2>3, <2>4 DEF QuietRegs, Still
  <1>8. CASE PostdisableEnd \/ StopEnd
    <2>1. Stopping /\ prog = <<>> /\ UNCHANGED <<chip, err, handler>>
      BY <1>8 DEF PostdisableEnd, StopEnd
    <2>2. err = 0 => QuietRegs
      BY <2>1, HoldsNothing DEF AllStops, FifoStops, QuietRegs, Still
    <2>3. handler # "recover" /\ session' # "preenable" /\ ~Stopping'
      BY <1>1, <1>8 DEF PostdisableEnd, StopEnd, LockInv
    <2> QED BY <2>1, <2>2, <2>3 DEF QuietRegs, Still
  <1> QED BY <1>2, <1>3, <1>4, <1>5, <1>6, <1>7, <1>8 DEF CoreStep

\* Everything else leaves chip and programs alone, but for the start of a recovery.
LEMMA QuietRest ==
    LifeInv /\ QuietInv /\ [Next]_vars /\ ~RunOp /\ ~PreenableStart /\ ~CoreStep => QuietInv'
  <1> SUFFICES ASSUME LifeInv, QuietInv, [Next]_vars, ~RunOp, ~PreenableStart, ~CoreStep
               PROVE QuietInv'
    OBVIOUS
  <1> USE DEF QuietInv, DirectInv, RecoverInv, StillInv, Stopping
  <1>1. LockInv /\ OffInv
    BY DEF LifeInv
  <1>2. CASE HandlerRecover
    BY <1>1, <1>2, RecoverEnds DEF HandlerRecover, LockInv, OffInv, core, EndsOn
  <1>3. CASE HandlerLock \/ HandlerEnd
    BY <1>1, <1>3
    DEF HandlerLock, HandlerEnd, LockInv, core, AllStops, FifoStops, QuietRegs, Still
  <1>4. CASE UNCHANGED <<chip, prog, err, fifo_enabled, lock>> /\ (session' = session)
             /\ (trig' = trig \/ session = "off") /\ ((removal = "stopping") = (removal' = "stopping"))
             /\ (handler' = handler \/ handler' = "woken")
    BY <1>1, <1>4 DEF LockInv, AllStops, FifoStops, QuietRegs, Still
  <1>5. CASE Disable
    BY <1>1, <1>5 DEF Disable, LockInv, AllStops, FifoStops, QuietRegs, Still
  <1>6. CASE IrqHandler \/ TriggerPoll("ext") \/ UNCHANGED vars
    BY <1>4, <1>6 DEF IrqHandler, TriggerPoll, vars, core
  <1>7. CASE UserStep
    BY <1>4, <1>5, <1>7 DEF UserStep, ChooseTrigger, WatermarkStore, RemoveStart, core
  <1> QED BY <1>2, <1>3, <1>6, <1>7 DEF Next, Gone

\* A session whose transfers all succeeded leaves the chip quiet, whatever failed in
\* sessions before and although remove may stop the device at any time.
THEOREM ChipQuiet == Spec => []QuietWhenOff
  <1>1. LifeInv /\ QuietInv /\ [Next]_vars => QuietInv'
    BY QuietRun, QuietCore, QuietRest
  <1>2. QuietInv => QuietWhenOff
    BY DEF QuietInv, QuietRegs, Still, QuietWhenOff, Quiet, Threshold
  <1> QED BY LifeAlways, QuietInit, <1>1, <1>2, PTL DEF Spec

-----------------------------------------------------------------------------
(* How the programs of preenable and of a recovery set up the chip.        *)

Ops == StopOps \cup {"drdy_off", "drdy_on", "oflow_off", "oflow_on", "wm_mode", "th1", "th2",
                     "user_on", "fifo_en_on", "mark_on"}

Hi == (fifo_watermark * FRAME_SIZE) \div 256

Lo == (fifo_watermark * FRAME_SIZE) % 256

Recovery == FifoDisable \o FifoEnable

\* All but the first k operations of a section are still to be executed.
Rest(f, k, p) ==
    \/ k = Len(f) /\ p = <<>>
    \/ /\ k < Len(f)
       /\ \E s : /\ p = <<s>> /\ s \in Seq(Ops) /\ Len(s) = Len(f) - k
                 /\ \A m \in 1 .. Len(s) : s[m] = f[k + m]

\* What the first k operations of each program have done.
DirectAt(k, c) ==
    /\ k >= 1 => c.th1 = 0
    /\ k >= 2 => c.th2 = 0
    /\ k >= 3 => c.fifo_en = 0
    /\ k >= 4 => c.user_fifo_en = 0
    /\ k >= 7 => c.int_oflow = 0
    /\ k >= 8 => c.int_drdy = 1

WatermarkAt(k, c) ==
    /\ k >= 1 => c.int_drdy = 0
    /\ k >= 4 => c.th1 = Hi
    /\ k >= 5 => c.th2 = Lo
    /\ k >= 6 => c.fifo_en = IF k >= 10 THEN 1 ELSE 0
    /\ k >= 7 => c.user_fifo_en = IF k >= 9 THEN 1 ELSE 0
    /\ k >= 12 => c.int_oflow = 1
    /\ faults = 0 /\ k < 7 => c.user_fifo_en = 0 /\ (k < 6 => c.fifo_en = 0)

ExternalAt(k, c) ==
    /\ k >= 1 => c.int_drdy = 0
    /\ k >= 2 => c.th1 = 0
    /\ k >= 3 => c.th2 = 0
    /\ k >= 5 => c.fifo_en = IF k >= 9 THEN 1 ELSE 0
    /\ k >= 6 => c.user_fifo_en = IF k >= 8 THEN 1 ELSE 0
    /\ faults = 0 /\ k < 6 => c.user_fifo_en = 0 /\ (k < 5 => c.fifo_en = 0)
    /\ faults = 0 => c.int_oflow = 0

RecoverAt(k, c) ==
    /\ k >= 1 => c.fifo_en = IF k >= 9 THEN 1 ELSE 0
    /\ k >= 2 => c.user_fifo_en = IF k >= 8 THEN 1 ELSE 0

\* The four programs, operation by operation.
LEMMA DirectProgram ==
    LET f == Preenable["drdy"]
    IN  /\ f \in Seq(Ops) /\ Len(f) = 8
        /\ f[1] = "th1_off" /\ f[2] = "th2_off" /\ f[3] = "fifo_en_off" /\ f[4] = "user_off"
        /\ f[5] = "reset" /\ f[6] = "mark_off" /\ f[7] = "oflow_off" /\ f[8] = "drdy_on"
  <1> DEFINE a == DisableWatermarkHw
             b == FifoDisable
             z == <<"oflow_off", "drdy_on">>
             u == a \o b
  <1>1. a \in Seq(Ops) /\ b \in Seq(Ops) /\ z \in Seq(Ops)
    BY DEF DisableWatermarkHw, FifoDisable, Ops, StopOps
  <1>2. /\ Len(a) = 2 /\ a[1] = "th1_off" /\ a[2] = "th2_off"
        /\ Len(b) = 4 /\ b[1] = "fifo_en_off" /\ b[2] = "user_off" /\ b[3] = "reset"
        /\ b[4] = "mark_off"
        /\ Len(z) = 2 /\ z[1] = "oflow_off" /\ z[2] = "drdy_on"
    BY DEF DisableWatermarkHw, FifoDisable
  <1>3. Preenable["drdy"] = u \o z
    BY DEF Preenable, Triggers
  <1> HIDE DEF a, b, z
  <1>4. u \in Seq(Ops) /\ Len(u) = 6 /\ \A k \in 1 .. 6 : u[k] = IF k <= 2 THEN a[k] ELSE b[k - 2]
    <2>1. /\ a \o b \in Seq(Ops) /\ Len(a \o b) = Len(a) + Len(b)
          /\ \A k \in 1 .. Len(a) + Len(b) :
                 (a \o b)[k] = IF k <= Len(a) THEN a[k] ELSE b[k - Len(a)]
      BY <1>1, <1>2, Joined
    <2>2. Len(a) = 2 /\ Len(b) = 4
      BY <1>1, <1>2
    <2> QED BY <2>1, <2>2
  <1> HIDE DEF u
  <1>5. /\ u \o z \in Seq(Ops) /\ Len(u \o z) = 8
        /\ \A k \in 1 .. 8 : (u \o z)[k] = IF k <= 6 THEN u[k] ELSE z[k - 6]
    <2>1. /\ u \o z \in Seq(Ops) /\ Len(u \o z) = Len(u) + Len(z)
          /\ \A k \in 1 .. Len(u) + Len(z) :
                 (u \o z)[k] = IF k <= Len(u) THEN u[k] ELSE z[k - Len(u)]
      BY <1>1, <1>2, <1>4, Joined
    <2>2. Len(u) = 6 /\ Len(z) = 2
      BY <1>1, <1>2, <1>4
    <2> QED BY <2>1, <2>2
  <1> QED BY <1>2, <1>3, <1>4, <1>5

LEMMA WatermarkProgram ==
    LET f == Preenable["wm"]
    IN  /\ f \in Seq(Ops) /\ Len(f) = 12
        /\ f[1] = "drdy_off" /\ f[2] = "reset" /\ f[3] = "wm_mode" /\ f[4] = "th1"
        /\ f[5] = "th2" /\ f[6] = "fifo_en_off" /\ f[7] = "user_off" /\ f[8] = "reset"
        /\ f[9] = "user_on" /\ f[10] = "fifo_en_on" /\ f[11] = "mark_on" /\ f[12] = "oflow_on"
  <1> DEFINE a == <<"drdy_off", "reset">>
             b == SetWatermarkHw
             c == FifoEnable
             z == <<"oflow_on">>
             u == a \o b
             v == u \o c
             w == v \o z
  <1>1. a \in Seq(Ops) /\ b \in Seq(Ops) /\ c \in Seq(Ops) /\ z \in Seq(Ops)
    BY DEF SetWatermarkHw, FifoEnable, Ops, StopOps
  <1>2. Len(a) = 2 /\ a[1] = "drdy_off" /\ a[2] = "reset" /\ Len(z) = 1 /\ z[1] = "oflow_on"
    OBVIOUS
  <1>3. Len(b) = 3 /\ b[1] = "wm_mode" /\ b[2] = "th1" /\ b[3] = "th2"
    BY DEF SetWatermarkHw
  <1>4. /\ Len(c) = 6 /\ c[1] = "fifo_en_off" /\ c[2] = "user_off" /\ c[3] = "reset"
        /\ c[4] = "user_on" /\ c[5] = "fifo_en_on" /\ c[6] = "mark_on"
    BY DEF FifoEnable
  <1>5. Preenable["wm"] = w
    BY DEF Preenable, Triggers
  <1> HIDE DEF a, b, c, z
  <1>6. u \in Seq(Ops) /\ Len(u) = 5 /\ From(u, 0, a) /\ From(u, 2, b)
    <2>1. a \in Seq(Ops) /\ b \in Seq(Ops)
      BY <1>1, <1>2, <1>3
    <2>2. /\ a \o b \in Seq(Ops) /\ Len(a \o b) = Len(a) + Len(b)
          /\ From(a \o b, 0, a) /\ From(a \o b, Len(a), b)
      BY <2>1, JoinedAt
    <2> QED BY <1>1, <1>2, <1>3, <2>2
  <1> HIDE DEF u
  <1>7. v \in Seq(Ops) /\ Len(v) = 11 /\ From(v, 0, u) /\ From(v, 5, c)
    <2>1. u \in Seq(Ops) /\ c \in Seq(Ops)
      BY <1>1, <1>4, <1>6
    <2>2. /\ u \o c \in Seq(Ops) /\ Len(u \o c) = Len(u) + Len(c)
          /\ From(u \o c, 0, u) /\ From(u \o c, Len(u), c)
      BY <2>1, JoinedAt
    <2> QED BY <1>1, <1>4, <1>6, <2>2
  <1> HIDE DEF v
  <1>8. w \in Seq(Ops) /\ Len(w) = 12 /\ From(w, 0, v) /\ From(w, 11, z)
    <2>1. v \in Seq(Ops) /\ z \in Seq(Ops)
      BY <1>1, <1>2, <1>7
    <2>2. /\ v \o z \in Seq(Ops) /\ Len(v \o z) = Len(v) + Len(z)
          /\ From(v \o z, 0, v) /\ From(v \o z, Len(v), z)
      BY <2>1, JoinedAt
    <2> QED BY <1>1, <1>2, <1>7, <2>2
  <1> HIDE DEF w
  <1>9. u[1] = a[1] /\ u[2] = a[2] /\ u[3] = b[1] /\ u[4] = b[2] /\ u[5] = b[3]
    BY <1>2, <1>3, <1>6 DEF From
  <1>10. \A k \in 1 .. 5 : v[k] = u[k]
    BY <1>6, <1>7 DEF From
  <1>11. /\ v[6] = c[1] /\ v[7] = c[2] /\ v[8] = c[3] /\ v[9] = c[4] /\ v[10] = c[5]
         /\ v[11] = c[6]
    BY <1>4, <1>7 DEF From
  <1>12. (\A k \in 1 .. 11 : w[k] = v[k]) /\ w[12] = z[1]
    BY <1>2, <1>7, <1>8 DEF From
  <1>13. /\ w[1] = a[1] /\ w[2] = a[2] /\ w[3] = b[1] /\ w[4] = b[2] /\ w[5] = b[3]
         /\ w[6] = c[1] /\ w[7] = c[2] /\ w[8] = c[3] /\ w[9] = c[4] /\ w[10] = c[5]
         /\ w[11] = c[6] /\ w[12] = z[1]
    BY <1>9, <1>10, <1>11, <1>12
  <1> QED BY <1>2, <1>3, <1>4, <1>5, <1>8, <1>13

LEMMA ExternalProgram ==
    LET f == Preenable["ext"]
    IN  /\ f \in Seq(Ops) /\ Len(f) = 10
        /\ f[1] = "drdy_off" /\ f[2] = "th1_off" /\ f[3] = "th2_off" /\ f[4] = "reset"
        /\ f[5] = "fifo_en_off" /\ f[6] = "user_off" /\ f[7] = "reset"
        /\ f[8] = "user_on" /\ f[9] = "fifo_en_on" /\ f[10] = "mark_on"
  <1> DEFINE a == <<"drdy_off">>
             b == DisableWatermarkHw
             z == <<"reset">>
             c == FifoEnable
             u == a \o b
             v == u \o z
             w == v \o c
  <1>1. a \in Seq(Ops) /\ b \in Seq(Ops) /\ c \in Seq(Ops) /\ z \in Seq(Ops)
    BY DEF DisableWatermarkHw, FifoEnable, Ops, StopOps
  <1>2. Len(a) = 1 /\ a[1] = "drdy_off" /\ Len(z) = 1 /\ z[1] = "reset"
    OBVIOUS
  <1>3. Len(b) = 2 /\ b[1] = "th1_off" /\ b[2] = "th2_off"
    BY DEF DisableWatermarkHw
  <1>4. /\ Len(c) = 6 /\ c[1] = "fifo_en_off" /\ c[2] = "user_off" /\ c[3] = "reset"
        /\ c[4] = "user_on" /\ c[5] = "fifo_en_on" /\ c[6] = "mark_on"
    BY DEF FifoEnable
  <1>5. Preenable["ext"] = w
    BY DEF Preenable, Triggers
  <1> HIDE DEF a, b, c, z
  <1>6. u \in Seq(Ops) /\ Len(u) = 3 /\ From(u, 0, a) /\ From(u, 1, b)
    <2>1. a \in Seq(Ops) /\ b \in Seq(Ops)
      BY <1>1, <1>2, <1>3
    <2>2. /\ a \o b \in Seq(Ops) /\ Len(a \o b) = Len(a) + Len(b)
          /\ From(a \o b, 0, a) /\ From(a \o b, Len(a), b)
      BY <2>1, JoinedAt
    <2> QED BY <1>1, <1>2, <1>3, <2>2
  <1> HIDE DEF u
  <1>7. v \in Seq(Ops) /\ Len(v) = 4 /\ From(v, 0, u) /\ From(v, 3, z)
    <2>1. u \in Seq(Ops) /\ z \in Seq(Ops)
      BY <1>1, <1>2, <1>6
    <2>2. /\ u \o z \in Seq(Ops) /\ Len(u \o z) = Len(u) + Len(z)
          /\ From(u \o z, 0, u) /\ From(u \o z, Len(u), z)
      BY <2>1, JoinedAt
    <2> QED BY <1>1, <1>2, <1>6, <2>2
  <1> HIDE DEF v
  <1>8. w \in Seq(Ops) /\ Len(w) = 10 /\ From(w, 0, v) /\ From(w, 4, c)
    <2>1. v \in Seq(Ops) /\ c \in Seq(Ops)
      BY <1>1, <1>4, <1>7
    <2>2. /\ v \o c \in Seq(Ops) /\ Len(v \o c) = Len(v) + Len(c)
          /\ From(v \o c, 0, v) /\ From(v \o c, Len(v), c)
      BY <2>1, JoinedAt
    <2> QED BY <1>1, <1>4, <1>7, <2>2
  <1> HIDE DEF w
  <1>9. u[1] = a[1] /\ u[2] = b[1] /\ u[3] = b[2]
    BY <1>2, <1>3, <1>6 DEF From
  <1>10. v[1] = u[1] /\ v[2] = u[2] /\ v[3] = u[3] /\ v[4] = z[1]
    BY <1>2, <1>6, <1>7 DEF From
  <1>11. \A k \in 1 .. 4 : w[k] = v[k]
    BY <1>7, <1>8 DEF From
  <1>12. /\ w[5] = c[1] /\ w[6] = c[2] /\ w[7] = c[3] /\ w[8] = c[4] /\ w[9] = c[5]
         /\ w[10] = c[6]
    BY <1>4, <1>8 DEF From
  <1>13. w[1] = a[1] /\ w[2] = b[1] /\ w[3] = b[2] /\ w[4] = z[1]
    BY <1>9, <1>10, <1>11
  <1> QED BY <1>2, <1>3, <1>4, <1>5, <1>8, <1>12, <1>13

LEMMA RecoverProgram ==
    /\ Recovery \in Seq(Ops) /\ Len(Recovery) = 10
    /\ Recovery[1] = "fifo_en_off" /\ Recovery[2] = "user_off" /\ Recovery[3] = "reset"
    /\ Recovery[4] = "mark_off" /\ Recovery[5] = "fifo_en_off" /\ Recovery[6] = "user_off"
    /\ Recovery[7] = "reset" /\ Recovery[8] = "user_on" /\ Recovery[9] = "fifo_en_on"
    /\ Recovery[10] = "mark_on"
  <1> DEFINE b == FifoDisable
             c == FifoEnable
             u == b \o c
  <1>1. b \in Seq(Ops) /\ c \in Seq(Ops)
    BY DEF FifoDisable, FifoEnable, Ops, StopOps
  <1>2. /\ Len(b) = 4 /\ b[1] = "fifo_en_off" /\ b[2] = "user_off" /\ b[3] = "reset"
        /\ b[4] = "mark_off"
        /\ Len(c) = 6 /\ c[1] = "fifo_en_off" /\ c[2] = "user_off" /\ c[3] = "reset"
        /\ c[4] = "user_on" /\ c[5] = "fifo_en_on" /\ c[6] = "mark_on"
    BY DEF FifoDisable, FifoEnable
  <1>3. Recovery = u
    BY DEF Recovery
  <1> HIDE DEF b, c
  <1>4. /\ u \in Seq(Ops) /\ Len(u) = 10
        /\ \A k \in 1 .. 10 : u[k] = IF k <= 4 THEN b[k] ELSE c[k - 4]
    <2>1. /\ b \o c \in Seq(Ops) /\ Len(b \o c) = Len(b) + Len(c)
          /\ \A k \in 1 .. Len(b) + Len(c) :
                 (b \o c)[k] = IF k <= Len(b) THEN b[k] ELSE c[k - Len(b)]
      BY <1>1, <1>2, Joined
    <2>2. Len(b) = 4 /\ Len(c) = 6
      BY <1>1, <1>2
    <2> QED BY <2>1, <2>2
  <1> HIDE DEF u
  <1> QED BY <1>2, <1>3, <1>4

\* A program at its beginning.
LEMMA RestStart == ASSUME NEW f \in Seq(Ops), Len(f) > 0 PROVE Rest(f, 0, <<f>>)
  BY DEF Rest

\* Executing one operation of it.
LEMMA RestStep ==
    ASSUME NEW f \in Seq(Ops), NEW k \in Nat, NEW p, Rest(f, k, p), p # <<>>, NEW q,
           q = IF Len(Head(p)) = 1 THEN Tail(p) ELSE <<Tail(Head(p))>> \o Tail(p)
    PROVE  k < Len(f) /\ Head(Head(p)) = f[k + 1] /\ Rest(f, k + 1, q)
  <1>1. k < Len(f) /\ Len(f) \in Nat
    BY DEF Rest
  <1>2. PICK s : /\ p = <<s>> /\ s \in Seq(Ops) /\ Len(s) = Len(f) - k
                 /\ \A m \in 1 .. Len(s) : s[m] = f[k + m]
    BY DEF Rest
  <1>3. Head(p) = s /\ Tail(p) = <<>>
    BY <1>2
  <1>4. Head(s) = s[1] /\ s[1] = f[k + 1]
    BY <1>1, <1>2
  <1>5. CASE Len(s) = 1
    <2>1. q = <<>>
      BY <1>3, <1>5
    <2>2. k + 1 = Len(f)
      <3>1. Len(f) - k = 1
        BY <1>2, <1>5
      <3> QED BY <1>1, <3>1
    <2> QED BY <1>1, <1>3, <1>4, <2>1, <2>2 DEF Rest
  <1>6. CASE Len(s) # 1
    <2> DEFINE t == Tail(s)
    <2>1. t \in Seq(Ops) /\ Len(t) = Len(s) - 1 /\ \A m \in 1 .. Len(t) : t[m] = s[m + 1]
      BY <1>1, <1>2, <1>6
    <2>2. <<t>> \o <<>> = <<t>>
      OBVIOUS
    <2>3. q = <<t>>
      BY <1>3, <1>6, <2>2
    <2> HIDE DEF t
    <2>4. Len(t) = Len(f) - (k + 1) /\ k + 1 < Len(f)
      BY <1>1, <1>2, <1>6, <2>1
    <2>5. \A m \in 1 .. Len(t) : t[m] = f[k + 1 + m]
      BY <1>1, <1>2, <2>1, <2>4
    <2> QED BY <1>1, <1>3, <1>4, <2>1, <2>3, <2>4, <2>5 DEF Rest
  <1> QED BY <1>5, <1>6

LEMMA RestHead ==
    ASSUME NEW f \in Seq(Ops), NEW k \in Nat, NEW p, Rest(f, k, p), p # <<>>
    PROVE  k < Len(f) /\ Head(Head(p)) = f[k + 1]
  <1> DEFINE q == IF Len(Head(p)) = 1 THEN Tail(p) ELSE <<Tail(Head(p))>> \o Tail(p)
  <1> HIDE DEF q
  <1>1. q = IF Len(Head(p)) = 1 THEN Tail(p) ELSE <<Tail(Head(p))>> \o Tail(p)
    BY DEF q
  <1> QED BY <1>1, RestStep

\* What an operation does, register by register.
LEMMA Effect ==
    ASSUME NEW c \in Chips, NEW op, NEW d, d = Apply(c, op)
    PROVE  /\ d.int_drdy = IF op \in {"drdy_off", "ints_off"} THEN 0
                           ELSE IF op = "drdy_on" THEN 1 ELSE c.int_drdy
           /\ d.int_oflow = IF op \in {"oflow_off", "ints_off"} THEN 0
                            ELSE IF op = "oflow_on" THEN 1 ELSE c.int_oflow
           /\ d.th1 = IF op = "th1" THEN Hi ELSE IF op = "th1_off" THEN 0 ELSE c.th1
           /\ d.th2 = IF op = "th2" THEN Lo ELSE IF op = "th2_off" THEN 0 ELSE c.th2
           /\ d.fifo_en = IF op = "fifo_en_off" THEN 0
                          ELSE IF op = "fifo_en_on" THEN 1 ELSE c.fifo_en
           /\ d.user_fifo_en = IF op = "user_off" THEN 0
                               ELSE IF op = "user_on" THEN 1 ELSE c.user_fifo_en
  <1> DEFINE h == (fifo_watermark * FRAME_SIZE) \div 256
             l == (fifo_watermark * FRAME_SIZE) % 256
  <1>1. Hi = h /\ Lo = l
    BY DEF Hi, Lo
  <1>2. d = CASE op = "drdy_off"    -> [c EXCEPT !.int_drdy = 0]
              [] op = "drdy_on"     -> [c EXCEPT !.int_drdy = 1]
              [] op = "oflow_off"   -> [c EXCEPT !.int_oflow = 0]
              [] op = "oflow_on"    -> [c EXCEPT !.int_oflow = 1]
              [] op = "ints_off"    -> [c EXCEPT !.int_drdy = 0, !.int_oflow = 0]
              [] op = "th1"         -> [c EXCEPT !.th1 = h]
              [] op = "th2"         -> [c EXCEPT !.th2 = l]
              [] op = "th1_off"     -> [c EXCEPT !.th1 = 0]
              [] op = "th2_off"     -> [c EXCEPT !.th2 = 0]
              [] op = "fifo_en_off" -> [c EXCEPT !.fifo_en = 0]
              [] op = "fifo_en_on"  -> [c EXCEPT !.fifo_en = 1]
              [] op = "user_off"    -> [c EXCEPT !.user_fifo_en = 0]
              [] op = "user_on"     -> [c EXCEPT !.user_fifo_en = 1]
              [] OTHER              -> c
    BY DEF Apply
  <1> HIDE DEF h, l
  <1> QED BY <1>1, <1>2 DEF Chips

\* Each operation of a program takes it one step on.
LEMMA DirectNext ==
    ASSUME LifeInv, NEW k \in 0 .. 7, DirectAt(k, chip),
           NEW d, d = Apply(chip, Preenable["drdy"][k + 1])
    PROVE  DirectAt(k + 1, d)
  <1> DEFINE f == Preenable["drdy"]
             op == f[k + 1]
  <1>1. chip \in Chips
    BY DEF LifeInv
  <1>2. k \in {0, 1, 2, 3, 4, 5, 6, 7}
    OBVIOUS
  <1>3. /\ f[1] = "th1_off" /\ f[2] = "th2_off" /\ f[3] = "fifo_en_off" /\ f[4] = "user_off"
        /\ f[5] = "reset" /\ f[6] = "mark_off" /\ f[7] = "oflow_off" /\ f[8] = "drdy_on"
    BY DirectProgram
  <1> HIDE DEF f
  <1>4. \/ k = 0 /\ op = "th1_off"
        \/ k = 1 /\ op = "th2_off"
        \/ k = 2 /\ op = "fifo_en_off"
        \/ k = 3 /\ op = "user_off"
        \/ k = 4 /\ op = "reset"
        \/ k = 5 /\ op = "mark_off"
        \/ k = 6 /\ op = "oflow_off"
        \/ k = 7 /\ op = "drdy_on"
    BY <1>2, <1>3
  <1>5. d = Apply(chip, op)
    BY DEF f
  <1> HIDE DEF op
  <1> QED BY <1>1, <1>4, <1>5, Effect DEF DirectAt

LEMMA WatermarkNext ==
    ASSUME LifeInv, NEW k \in 0 .. 11, WatermarkAt(k, chip),
           NEW d, d = Apply(chip, Preenable["wm"][k + 1])
    PROVE  WatermarkAt(k + 1, d)
  <1> DEFINE f == Preenable["wm"]
             op == f[k + 1]
  <1>1. chip \in Chips
    BY DEF LifeInv
  <1>2. k \in {0, 1, 2, 3, 4, 5, 6, 7, 8, 9, 10, 11}
    OBVIOUS
  <1>3. /\ f[1] = "drdy_off" /\ f[2] = "reset" /\ f[3] = "wm_mode" /\ f[4] = "th1"
        /\ f[5] = "th2" /\ f[6] = "fifo_en_off" /\ f[7] = "user_off" /\ f[8] = "reset"
        /\ f[9] = "user_on" /\ f[10] = "fifo_en_on" /\ f[11] = "mark_on" /\ f[12] = "oflow_on"
    BY WatermarkProgram
  <1> HIDE DEF f
  <1>4. \/ k = 0 /\ op = "drdy_off"
        \/ k = 1 /\ op = "reset"
        \/ k = 2 /\ op = "wm_mode"
        \/ k = 3 /\ op = "th1"
        \/ k = 4 /\ op = "th2"
        \/ k = 5 /\ op = "fifo_en_off"
        \/ k = 6 /\ op = "user_off"
        \/ k = 7 /\ op = "reset"
        \/ k = 8 /\ op = "user_on"
        \/ k = 9 /\ op = "fifo_en_on"
        \/ k = 10 /\ op = "mark_on"
        \/ k = 11 /\ op = "oflow_on"
    BY <1>2, <1>3
  <1>5. d = Apply(chip, op)
    BY DEF f
  <1> HIDE DEF op
  <1> QED BY <1>1, <1>4, <1>5, Effect DEF WatermarkAt

LEMMA ExternalNext ==
    ASSUME LifeInv, NEW k \in 0 .. 9, ExternalAt(k, chip),
           NEW d, d = Apply(chip, Preenable["ext"][k + 1])
    PROVE  ExternalAt(k + 1, d)
  <1> DEFINE f == Preenable["ext"]
             op == f[k + 1]
  <1>1. chip \in Chips
    BY DEF LifeInv
  <1>2. k \in {0, 1, 2, 3, 4, 5, 6, 7, 8, 9}
    OBVIOUS
  <1>3. /\ f[1] = "drdy_off" /\ f[2] = "th1_off" /\ f[3] = "th2_off" /\ f[4] = "reset"
        /\ f[5] = "fifo_en_off" /\ f[6] = "user_off" /\ f[7] = "reset" /\ f[8] = "user_on"
        /\ f[9] = "fifo_en_on" /\ f[10] = "mark_on"
    BY ExternalProgram
  <1> HIDE DEF f
  <1>4. \/ k = 0 /\ op = "drdy_off"
        \/ k = 1 /\ op = "th1_off"
        \/ k = 2 /\ op = "th2_off"
        \/ k = 3 /\ op = "reset"
        \/ k = 4 /\ op = "fifo_en_off"
        \/ k = 5 /\ op = "user_off"
        \/ k = 6 /\ op = "reset"
        \/ k = 7 /\ op = "user_on"
        \/ k = 8 /\ op = "fifo_en_on"
        \/ k = 9 /\ op = "mark_on"
    BY <1>2, <1>3
  <1>5. d = Apply(chip, op)
    BY DEF f
  <1> HIDE DEF op
  <1> QED BY <1>1, <1>4, <1>5, Effect DEF ExternalAt

LEMMA RecoverNext ==
    ASSUME LifeInv, NEW k \in 0 .. 9, RecoverAt(k, chip),
           NEW d, d = Apply(chip, Recovery[k + 1])
    PROVE  /\ RecoverAt(k + 1, d)
           /\ d.int_drdy = chip.int_drdy /\ d.int_oflow = chip.int_oflow
           /\ d.th1 = chip.th1 /\ d.th2 = chip.th2
  <1>1. chip \in Chips
    BY DEF LifeInv
  <1>2. k \in {0, 1, 2, 3, 4, 5, 6, 7, 8, 9}
    OBVIOUS
  <1> QED BY <1>1, <1>2, Effect, RecoverProgram DEF RecoverAt

-----------------------------------------------------------------------------
(* What a session relies on.                                               *)

PreAt(k) ==
    /\ trig = "drdy" => DirectAt(k, chip)
    /\ trig = "wm" => WatermarkAt(k, chip)
    /\ trig = "ext" => ExternalAt(k, chip)

\* Preenable has executed some of its operations.
PreInv ==
    session = "preenable" /\ err = 0 =>
        \E k \in 0 .. Len(Preenable[trig]) : Rest(Preenable[trig], k, prog) /\ PreAt(k)

\* And so has a recovery.
RecInv ==
    handler = "recover" /\ err = 0 =>
        \E k \in 0 .. 10 : /\ Rest(Recovery, k, prog) /\ RecoverAt(k, chip)
                           /\ k = 10 => fifo_enabled = 1

\* From the end of preenable until somebody stops the device chip and flags are set
\* up for the trigger, but for what a recovery is doing.
Routed ==
    /\ chip.int_drdy = (IF trig = "drdy" THEN 1 ELSE 0)
    /\ drdy_trigger_enabled = chip.int_drdy
    /\ trig # "ext" \/ faults = 0 => chip.int_oflow = (IF trig = "wm" THEN 1 ELSE 0)
    /\ fifo_wm_trigger_enabled = (IF trig = "wm" THEN 1 ELSE 0)
    /\ chip.th1 = (IF trig = "wm" THEN Hi ELSE 0)
    /\ chip.th2 = (IF trig = "wm" THEN Lo ELSE 0)
    /\ handler = "recover" => trig # "drdy"
    /\ handler # "recover" => /\ fifo_enabled = (IF trig = "drdy" THEN 0 ELSE 1)
                              /\ chip.fifo_en = fifo_enabled
                              /\ chip.user_fifo_en = fifo_enabled

RoutedInv == session \in {"attach", "on"} /\ removal = "bound" /\ err = 0 => Routed

\* The drain finds the FIFO on, fifo_watermark is locked by buffer_enabled, and an
\* error is a failed operation's.
FlagInv ==
    /\ handler = "drain" => fifo_enabled = 1
    /\ session \in {"preenable", "attach", "on"} /\ removal \in {"bound", "irq_off"} =>
           buffer_enabled = 1
    /\ err = 1 => faults > 0

RouteInv == PreInv /\ RecInv /\ RoutedInv /\ FlagInv

\* Before the first session.
LEMMA RouteInit == Init => RouteInv
  BY DEF Init, RouteInv, PreInv, RecInv, RoutedInv, FlagInv

\* A program that has been executed to its end.
LEMMA RestEnd == ASSUME NEW f, NEW k, Rest(f, k, <<>>) PROVE k = Len(f)
  BY DEF Rest

\* The chip after preenable.
LEMMA PreenableDone ==
    ASSUME LifeInv, RouteInv, session = "preenable", err = 0, prog = <<>>
    PROVE  /\ chip.int_drdy = (IF trig = "drdy" THEN 1 ELSE 0)
           /\ trig # "ext" \/ faults = 0 => chip.int_oflow = (IF trig = "wm" THEN 1 ELSE 0)
           /\ chip.th1 = (IF trig = "wm" THEN Hi ELSE 0)
           /\ chip.th2 = (IF trig = "wm" THEN Lo ELSE 0)
           /\ chip.fifo_en = (IF trig = "drdy" THEN 0 ELSE 1)
           /\ chip.user_fifo_en = (IF trig = "drdy" THEN 0 ELSE 1)
  <1>1. PICK k \in 0 .. Len(Preenable[trig]) : Rest(Preenable[trig], k, prog) /\ PreAt(k)
    BY DEF RouteInv, PreInv
  <1>2. k = Len(Preenable[trig])
    BY <1>1, RestEnd
  <1>3. trig \in {"drdy", "wm", "ext"}
    BY DEF LifeInv, LifeTypes, Triggers
  <1>4. CASE trig = "drdy"
    <2>1. DirectAt(8, chip)
      BY <1>1, <1>2, <1>4, DirectProgram DEF PreAt
    <2> QED BY <1>4, <2>1 DEF DirectAt
  <1>5. CASE trig = "wm"
    <2>1. WatermarkAt(12, chip)
      BY <1>1, <1>2, <1>5, WatermarkProgram DEF PreAt
    <2> QED BY <1>5, <2>1 DEF WatermarkAt
  <1>6. CASE trig = "ext"
    <2>1. ExternalAt(10, chip)
      BY <1>1, <1>2, <1>6, ExternalProgram DEF PreAt
    <2> QED BY <1>6, <2>1 DEF ExternalAt
  <1> QED BY <1>3, <1>4, <1>5, <1>6

\* Executing an operation.
LEMMA RouteRun == LifeInv /\ RouteInv /\ RunOp => RouteInv'
  <1> SUFFICES ASSUME LifeInv, RouteInv, RunOp PROVE RouteInv'
    OBVIOUS
  <1>1. /\ UNCHANGED <<trig, session, handler, lock, removal, flags, fifo_watermark>>
        /\ prog # <<>> /\ NextOp = Head(Head(prog))
    BY DEF RunOp, core, NextOp
  <1>2. FlagInv'
    <2>1. handler # "drain"
      BY <1>1 DEF LifeInv, LockInv
    <2>2. err' = 1 => faults' > 0
      BY DEF RunOp, RouteInv, FlagInv, LifeInv, LifeTypes
    <2> QED BY <1>1, <2>1, <2>2 DEF FlagInv, RouteInv, flags
  <1>3. CASE err' = 1
    BY <1>2, <1>3 DEF RouteInv, PreInv, RecInv, RoutedInv
  <1>4. CASE err' # 1
    <2>1. /\ chip' = Apply(chip, NextOp) /\ err' = err /\ faults' = faults
          /\ prog' = IF Len(Head(prog)) = 1 THEN Tail(prog) ELSE <<Tail(Head(prog))>> \o Tail(prog)
          /\ fifo_enabled' = CASE NextOp = "mark_off" -> 0
                               [] NextOp = "mark_on"  -> 1
                               [] OTHER               -> fifo_enabled
      BY <1>4 DEF RunOp
    <2>2. Hi' = Hi /\ Lo' = Lo
      BY <1>1 DEF Hi, Lo
    <2>3. PreInv'
      <3> SUFFICES ASSUME session = "preenable", err = 0 PROVE PreInv'
        BY <1>1, <2>1 DEF PreInv
      <3>1. PICK k \in 0 .. Len(Preenable[trig]) : Rest(Preenable[trig], k, prog) /\ PreAt(k)
        BY DEF RouteInv, PreInv
      <3>2. trig \in {"drdy", "wm", "ext"}
        BY DEF LifeInv, LifeTypes, Triggers
      <3>3. Preenable[trig] \in Seq(Ops)
        BY <3>2, DirectProgram, WatermarkProgram, ExternalProgram
      <3>4. /\ k < Len(Preenable[trig]) /\ NextOp = Preenable[trig][k + 1]
            /\ Rest(Preenable[trig], k + 1, prog')
        <4> DEFINE f == Preenable[trig]
        <4>1. f \in Seq(Ops) /\ Rest(f, k, prog)
          BY <3>1, <3>3
        <4>2. k \in Nat
          BY <3>1, <3>3
        <4> HIDE DEF f
        <4>3. k < Len(f) /\ Head(Head(prog)) = f[k + 1] /\ Rest(f, k + 1, prog')
          BY <1>1, <2>1, <4>1, <4>2, RestStep
        <4> QED BY <1>1, <4>3 DEF f
      <3>5. PreAt(k + 1)'
        <4>1. CASE trig = "drdy"
          <5>1. k \in 0 .. 7 /\ DirectAt(k, chip)
            BY <3>1, <3>4, <4>1, DirectProgram DEF PreAt
          <5>2. DirectAt(k + 1, chip')
            BY <2>1, <3>4, <4>1, <5>1, DirectNext
          <5> QED BY <1>1, <4>1, <5>2 DEF PreAt, DirectAt
        <4>2. CASE trig = "wm"
          <5>1. k \in 0 .. 11 /\ WatermarkAt(k, chip)
            BY <3>1, <3>4, <4>2, WatermarkProgram DEF PreAt
          <5>2. WatermarkAt(k + 1, chip')
            BY <2>1, <3>4, <4>2, <5>1, WatermarkNext
          <5> QED BY <1>1, <2>1, <2>2, <4>2, <5>2 DEF PreAt, WatermarkAt
        <4>3. CASE trig = "ext"
          <5>1. k \in 0 .. 9 /\ ExternalAt(k, chip)
            BY <3>1, <3>4, <4>3, ExternalProgram DEF PreAt
          <5>2. ExternalAt(k + 1, chip')
            BY <2>1, <3>4, <4>3, <5>1, ExternalNext
          <5> QED BY <1>1, <2>1, <4>3, <5>2 DEF PreAt, ExternalAt
        <4> QED BY <3>2, <4>1, <4>2, <4>3
      <3>6. k + 1 \in 0 .. Len(Preenable[trig])
        BY <3>1, <3>3, <3>4
      <3> QED BY <1>1, <3>4, <3>5, <3>6 DEF PreInv
    <2>4. ASSUME handler = "recover", err = 0
          PROVE  RecInv' /\ UNCHANGED <<chip.int_drdy, chip.int_oflow, chip.th1, chip.th2>>
      <3>1. PICK k \in 0 .. 10 : Rest(Recovery, k, prog) /\ RecoverAt(k, chip)
        BY <2>4 DEF RouteInv, RecInv
      <3>2. k < 10 /\ NextOp = Recovery[k + 1] /\ Rest(Recovery, k + 1, prog')
        <4>1. k \in Nat /\ Recovery \in Seq(Ops) /\ Len(Recovery) = 10
          BY <3>1, RecoverProgram
        <4>2. /\ k < Len(Recovery) /\ Head(Head(prog)) = Recovery[k + 1]
              /\ Rest(Recovery, k + 1, prog')
          BY <1>1, <2>1, <3>1, <4>1, RestStep
        <4> QED BY <1>1, <4>1, <4>2
      <3>3. RecoverAt(k + 1, chip') /\ UNCHANGED <<chip.int_drdy, chip.int_oflow, chip.th1, chip.th2>>
        BY <2>1, <3>2, <3>1, RecoverNext
      <3>4. k + 1 = 10 => fifo_enabled' = 1
        BY <2>1, <3>2, RecoverProgram
      <3>5. k + 1 \in 0 .. 10
        BY <3>2
      <3> QED BY <3>2, <3>3, <3>4, <3>5 DEF RecInv, RecoverAt
    <2>5. RecInv'
      BY <1>1, <2>1, <2>4 DEF RecInv
    <2>6. RoutedInv'
      <3> SUFFICES ASSUME session \in {"attach", "on"}, removal = "bound", err = 0
                   PROVE  RoutedInv'
        BY <1>1, <2>1 DEF RoutedInv
      <3>1. handler = "recover"
        BY <1>1 DEF LifeInv, LifeTypes, LockInv
      <3> QED BY <1>1, <2>1, <2>2, <2>4, <3>1 DEF RoutedInv, Routed, RouteInv, flags
    <2> QED BY <1>2, <2>3, <2>5, <2>6 DEF RouteInv
  <1> QED BY <1>3, <1>4

\* The callbacks and stop_device begin and end.
LEMMA RouteCore == LifeInv /\ QuietInv /\ RouteInv /\ (PreenableStart \/ CoreStep) => RouteInv'
  <1> SUFFICES ASSUME LifeInv, QuietInv, RouteInv, PreenableStart \/ CoreStep PROVE RouteInv'
    OBVIOUS
  <1>1. /\ LockInv /\ OffInv /\ PoolInv /\ chip \in Chips /\ trig \in Triggers
        /\ faults \in Nat /\ pool \in [Triggers -> Int]
        /\ PreInv /\ RecInv /\ RoutedInv /\ FlagInv
    BY LifecycleAssumption DEF LifeInv, LifeTypes, RouteInv
  <1>2. CASE PreenableStart
    <2>1. session = "off" /\ lock = "free" /\ handler \notin {"drain", "recover"}
      BY <1>1, <1>2 DEF PreenableStart, LockInv
    <2>2. RecInv' /\ RoutedInv' /\ FlagInv'
      BY <1>1, <1>2, <2>1 DEF PreenableStart, RecInv, RoutedInv, FlagInv
    <2>3. \A t \in Triggers : Preenable[t] \in Seq(Ops) /\ Len(Preenable[t]) > 0
      <3>1. Preenable["drdy"] \in Seq(Ops) /\ Len(Preenable["drdy"]) > 0
        BY DirectProgram
      <3>2. Preenable["wm"] \in Seq(Ops) /\ Len(Preenable["wm"]) > 0
        BY WatermarkProgram
      <3>3. Preenable["ext"] \in Seq(Ops) /\ Len(Preenable["ext"]) > 0
        BY ExternalProgram
      <3> QED BY <3>1, <3>2, <3>3 DEF Triggers
    <2>4. Rest(Preenable[trig], 0, prog')
      BY <1>1, <1>2, <2>3, RestStart DEF PreenableStart
    <2>5. faults = 0 => Still /\ chip.int_oflow = 0
      BY <1>1, <2>1 DEF QuietInv, QuietRegs, FlagInv, LifeInv, LifeTypes
    <2>6. PreAt(0)'
      BY <1>2, <2>5 DEF PreenableStart, PreAt, DirectAt, WatermarkAt, ExternalAt, Still
    <2>7. 0 \in 0 .. Len(Preenable[trig])
      BY <1>1, <2>3
    <2>8. trig' = trig
      BY <1>2 DEF PreenableStart
    <2> QED BY <2>2, <2>4, <2>6, <2>7, <2>8 DEF RouteInv, PreInv
  <1>3. CASE PreenableEnd
    <2>1. session = "preenable" /\ prog = <<>> /\ handler \notin {"drain", "recover"}
      BY <1>1, <1>3 DEF PreenableEnd, LockInv
    <2>2. Hi' = Hi /\ Lo' = Lo
      BY <1>3 DEF PreenableEnd, Hi, Lo
    <2>3. RoutedInv'
      BY <1>3, <2>1, <2>2, PreenableDone DEF PreenableEnd, RoutedInv, Routed
    <2> QED BY <1>1, <1>3, <2>1, <2>3 DEF PreenableEnd, RouteInv, PreInv, RecInv, FlagInv
  <1>4. CASE Postenable
    <2>1. /\ session = "attach" /\ session' \in {"on", "detached"}
          /\ UNCHANGED <<trig, removal, handler, lock, prog, err, fifo_enabled, fifo_watermark>>
          /\ buffer_enabled' = buffer_enabled
      BY <1>4 DEF Postenable, SetTriggerState, SetTriggerStateFails, flags
    <2>2. /\ UNCHANGED <<chip.int_oflow, chip.th1, chip.th2, chip.fifo_en, chip.user_fifo_en>>
          /\ session' = "on" => UNCHANGED faults
          /\ faults' \in Nat /\ faults' >= faults
      BY <1>1, <1>4 DEF Postenable, SetTriggerState, SetTriggerStateFails, Chips
    <2>3. ASSUME session' = "on", removal = "bound", err = 0
          PROVE  /\ chip'.int_drdy = (IF trig = "drdy" THEN 1 ELSE 0)
                 /\ drdy_trigger_enabled' = chip'.int_drdy
                 /\ fifo_wm_trigger_enabled' = (IF trig = "wm" THEN 1 ELSE 0)
      BY <1>1, <1>4, <2>1, <2>3
      DEF Postenable, SetTriggerState, SetTriggerStateFails, Chips, RoutedInv, Routed, flags
    <2>4. Hi' = Hi /\ Lo' = Lo
      BY <2>1 DEF Hi, Lo
    <2>5. RoutedInv'
      BY <1>1, <2>1, <2>2, <2>3, <2>4 DEF RoutedInv, Routed
    <2>6. RecInv'
      BY <1>1, <2>1, <2>2 DEF RecInv, RecoverAt
    <2>7. FlagInv'
      BY <1>1, <2>1, <2>2 DEF FlagInv
    <2> QED BY <2>1, <2>5, <2>6, <2>7 DEF RouteInv, PreInv
  <1>5. CASE Predisable
    <2>1. /\ session = "detach" /\ session' \in {"free_irq", "detached"}
          /\ UNCHANGED <<trig, removal, handler, lock, prog, err, fifo_enabled, fifo_watermark>>
      BY <1>5 DEF Predisable, SetTriggerState, SetTriggerStateFails, flags
    <2>2. /\ UNCHANGED <<chip.fifo_en, chip.user_fifo_en>>
          /\ faults' \in Nat /\ faults' >= faults
      BY <1>1, <1>5 DEF Predisable, SetTriggerState, SetTriggerStateFails, Chips
    <2> QED BY <1>1, <2>1, <2>2 DEF RouteInv, PreInv, RecInv, RecoverAt, RoutedInv, FlagInv
  <1>6. CASE FreeIrq \/ UnregisterStep
    <2>1. /\ UNCHANGED <<chip, handler, lock, prog, err, flags, fifo_enabled, fifo_watermark,
                         faults, trig>>
          /\ session' \in {session, "detached", "detach"}
          /\ removal' = removal \/ removal' \in {"draining", "unregistering", "gone"}
      BY <1>6 DEF FreeIrq, UnregisterStep, Unregister
    <2>2. Hi' = Hi /\ Lo' = Lo
      BY <2>1 DEF Hi, Lo
    <2>3. PreInv'
      BY <1>1, <2>1, <2>2 DEF PreInv, PreAt, DirectAt, WatermarkAt, ExternalAt
    <2> QED BY <1>1, <2>1, <2>2, <2>3
            DEF RouteInv, RecInv, RecoverAt, RoutedInv, Routed, FlagInv, flags
  <1>7. CASE PostdisableStart \/ StopStart
    <2>1. /\ lock = "free" /\ UNCHANGED <<chip, err, fifo_enabled, handler, trig, faults>>
          /\ \/ session' = "postdisable"
             \/ session' = session /\ removal' = "stopping"
      BY <1>7 DEF PostdisableStart, StopStart
    <2>2. handler \notin {"drain", "recover"} /\ session # "preenable"
      BY <1>1, <2>1 DEF LockInv
    <2> QED BY <1>1, <2>1, <2>2 DEF RouteInv, PreInv, RecInv, RoutedInv, FlagInv
  <1>8. CASE PostdisableEnd \/ StopEnd
    <2>1. /\ UNCHANGED <<err, handler, faults>>
          /\ lock \in {"user", "stop"}
          /\ \/ session' = "off"
             \/ session' = session /\ removal' = "stopped" /\ lock = "stop"
      BY <1>1, <1>8 DEF PostdisableEnd, StopEnd, LockInv
    <2>2. handler \notin {"drain", "recover"} /\ session' # "preenable"
      BY <1>1, <2>1 DEF LockInv
    <2> QED BY <1>1, <2>1, <2>2 DEF RouteInv, PreInv, RecInv, RoutedInv, FlagInv
  <1> QED BY <1>2, <1>3, <1>4, <1>5, <1>6, <1>7, <1>8 DEF CoreStep

\* Everything else.
LEMMA RouteRest ==
    LifeInv /\ RouteInv /\ [Next]_vars /\ ~RunOp /\ ~PreenableStart /\ ~CoreStep => RouteInv'
  <1> SUFFICES ASSUME LifeInv, RouteInv, [Next]_vars, ~RunOp, ~PreenableStart, ~CoreStep
               PROVE RouteInv'
    OBVIOUS
  <1>1. LockInv /\ PreInv /\ RecInv /\ RoutedInv /\ FlagInv
    BY DEF LifeInv, RouteInv
  <1>2. CASE HandlerRecover
    <2>1. /\ UNCHANGED <<chip, core, lock, err, flags, fifo_enabled, fifo_watermark, faults>>
          /\ handler = "drain" /\ handler' = "recover" /\ prog' = <<Recovery>>
      BY <1>2 DEF HandlerRecover, Recovery
    <2>2. Hi' = Hi /\ Lo' = Lo
      BY <2>1 DEF Hi, Lo
    <2>3. Rest(Recovery, 0, prog')
      <3>1. Recovery \in Seq(Ops) /\ Len(Recovery) > 0
        BY RecoverProgram
      <3> QED BY <2>1, <3>1, RestStart
    <2>4. RecInv'
      BY <2>3 DEF RecInv, RecoverAt
    <2>5. session # "preenable"
      BY <1>1, <2>1 DEF LockInv
    <2> QED BY <1>1, <2>1, <2>2, <2>4, <2>5
            DEF RouteInv, PreInv, RoutedInv, Routed, FlagInv, core, flags
  <1>3. CASE HandlerLock
    <2>1. Hi' = Hi /\ Lo' = Lo
      BY <1>3 DEF HandlerLock, Hi, Lo
    <2>2. lock = "free" /\ session # "preenable"
      BY <1>1, <1>3 DEF HandlerLock, LockInv
    <2> QED BY <1>1, <1>3, <2>1, <2>2
            DEF HandlerLock, RouteInv, PreInv, RecInv, RoutedInv, Routed, FlagInv, core, flags
  <1>4. CASE HandlerEnd
    <2>1. /\ UNCHANGED <<chip, core, prog, err, flags, fifo_enabled, fifo_watermark, faults>>
          /\ handler' = "idle" /\ (handler = "recover" => prog = <<>>)
      BY <1>4 DEF HandlerEnd
    <2>2. Hi' = Hi /\ Lo' = Lo
      BY <2>1 DEF Hi, Lo
    <2>3. PreInv'
      BY <1>1, <2>1, <2>2 DEF PreInv, PreAt, DirectAt, WatermarkAt, ExternalAt, core
    <2>4. ASSUME handler = "recover", err = 0
          PROVE  chip.fifo_en = 1 /\ chip.user_fifo_en = 1 /\ fifo_enabled = 1
      <3>1. PICK k \in 0 .. 10 : /\ Rest(Recovery, k, <<>>) /\ RecoverAt(k, chip)
                                 /\ k = 10 => fifo_enabled = 1
        BY <1>1, <2>1, <2>4 DEF RecInv
      <3>2. k = 10
        BY <3>1, RestEnd, RecoverProgram
      <3> QED BY <3>1, <3>2 DEF RecoverAt
    <2>5. RoutedInv'
      BY <1>1, <2>1, <2>2, <2>4 DEF RoutedInv, Routed, core, flags
    <2> QED BY <1>1, <2>1, <2>3, <2>5 DEF RouteInv, RecInv, FlagInv, core, flags
  <1>5. CASE \E w \in Watermarks : WatermarkStore(w)
    <2>1. /\ UNCHANGED <<chip, core, handler, lock, prog, err, flags, fifo_enabled, faults>>
          /\ lock = "free" /\ buffer_enabled = 0
      BY <1>5 DEF WatermarkStore
    <2>2. session # "preenable" /\ handler \notin {"drain", "recover"}
      BY <1>1, <2>1 DEF LockInv
    <2>3. ~(session \in {"attach", "on"} /\ removal = "bound")
      BY <1>1, <2>1 DEF FlagInv
    <2> QED BY <1>1, <2>1, <2>2, <2>3 DEF RouteInv, PreInv, RecInv, RoutedInv, FlagInv, core, flags
  <1>6. CASE /\ UNCHANGED <<chip, prog, err, flags, fifo_enabled, fifo_watermark, faults>>
             /\ session' = session \/ session' = "detach"
             /\ trig' = trig \/ session' = "off"
             /\ removal' = removal \/ (removal' = "irq_off" /\ removal = "bound")
             /\ handler' = handler \/ (handler' = "woken" /\ handler = "idle")
    <2>1. Hi' = Hi /\ Lo' = Lo
      BY <1>6 DEF Hi, Lo
    <2>2. PreInv'
      BY <1>1, <1>6, <2>1 DEF PreInv, PreAt, DirectAt, WatermarkAt, ExternalAt
    <2> QED BY <1>1, <1>6, <2>1, <2>2
            DEF RouteInv, RecInv, RecoverAt, RoutedInv, Routed, FlagInv, flags
  <1>7. CASE IrqHandler \/ TriggerPoll("ext") \/ UNCHANGED vars
    BY <1>6, <1>7 DEF IrqHandler, TriggerPoll, vars, core
  <1>8. CASE UserStep
    BY <1>5, <1>6, <1>8 DEF UserStep, ChooseTrigger, RemoveStart, Disable, core
  <1> QED BY <1>2, <1>3, <1>4, <1>7, <1>8 DEF Next, Gone

LEMMA RouteAlways == Spec => [](LifeInv /\ QuietInv /\ RouteInv)
  <1>1. LifeInv /\ QuietInv /\ [Next]_vars => QuietInv'
    BY QuietRun, QuietCore, QuietRest
  <1>2. LifeInv /\ QuietInv /\ RouteInv /\ [Next]_vars => RouteInv'
    BY RouteRun, RouteCore, RouteRest
  <1> QED BY LifeAlways, QuietInit, RouteInit, <1>1, <1>2, PTL DEF Spec

\* A threshold that was split into two registers is the one that was asked for.
LEMMA ThresholdSplit ==
    ASSUME LifeInv PROVE Hi * 256 + Lo = fifo_watermark * FRAME_SIZE /\ Hi * 256 + Lo > 0
  <1>1. fifo_watermark \in 1 .. 73
    BY LifecycleAssumption DEF LifeInv, LifeTypes
  <1> QED BY <1>1 DEF Hi, Lo, FRAME_SIZE

\* A session that started without an error has chip and flags set up for its own
\* trigger, the overflow interrupt included, whatever failed in earlier sessions and
\* however recoveries interleave; only an external session may inherit an overflow
\* interrupt, and only after a failed transfer.
THEOREM TriggersRouted == Spec => []TriggerRouting
  <1>1. LifeInv /\ RouteInv => TriggerRouting
    <2> SUFFICES ASSUME LifeInv, RouteInv, session = "on", removal = "bound", err = 0,
                        handler # "recover"
                 PROVE TriggerRouting
      BY DEF TriggerRouting
    <2>1. Routed
      BY DEF RouteInv, RoutedInv
    <2>2. trig = "wm" <=> Threshold # 0
      BY <2>1, ThresholdSplit DEF Routed, Threshold
    <2> QED BY <2>1, <2>2 DEF TriggerRouting, Routed, Running
  <1> QED BY RouteAlways, <1>1, PTL

\* While a watermark session is on, the threshold in the chip is the one that
\* fifo_watermark shows: fifo_watermark_store refuses while buffer_enabled is set.
THEOREM WatermarkKept == Spec => []WatermarkProgrammed
  <1>1. LifeInv /\ RouteInv => WatermarkProgrammed
    BY ThresholdSplit DEF RouteInv, RoutedInv, Routed, WatermarkProgrammed, Threshold
  <1> QED BY RouteAlways, <1>1, PTL

-----------------------------------------------------------------------------
(* The FIFO is reset while it is stopped.                                  *)

\* Nothing that stops the FIFO comes after a reset.
Ordered(p, n1, m1, n2, m2) ==
    p[n1][m1] \in {"fifo_en_off", "user_off"} /\ p[n2][m2] = "reset" =>
        n1 < n2 \/ (n1 = n2 /\ m1 < m2)

Tidy(p) ==
    \A n1, n2 \in 1 .. Len(p) : \A m1 \in 1 .. Len(p[n1]), m2 \in 1 .. Len(p[n2]) :
        Ordered(p, n1, m1, n2, m2)

TidyInv == Stopping /\ faults = 0 => Tidy(prog)

\* As stop_device and postdisable write it.
LEMMA StopTidy == Tidy(StopProgram)
  <1> DEFINE a == <<"ints_off">>
             b == DisableWatermarkHw
             c == FifoDisable
             d == <<"reset">>
             p == StopProgram
  <1>1. /\ Len(a) = 1 /\ a[1] = "ints_off"
        /\ Len(b) = 2 /\ b[1] = "th1_off" /\ b[2] = "th2_off"
        /\ Len(c) = 4 /\ c[1] = "fifo_en_off" /\ c[2] = "user_off" /\ c[3] = "reset"
        /\ c[4] = "mark_off" /\ Len(d) = 1 /\ d[1] = "reset"
    BY DEF DisableWatermarkHw, FifoDisable
  <1>2. p = <<a, b>> \o IF fifo_enabled = 1 THEN <<c, d>> ELSE <<>>
    BY DEF StopProgram
  <1> HIDE DEF a, b, c, d, p
  <1>3. /\ \A n \in 1 .. Len(p) : n \in {1, 2, 3, 4}
        /\ 1 \in 1 .. Len(p) => p[1] = a
        /\ 2 \in 1 .. Len(p) => p[2] = b
        /\ 3 \in 1 .. Len(p) => p[3] = c
        /\ 4 \in 1 .. Len(p) => p[4] = d
    <2>1. CASE fifo_enabled = 1
      <3> DEFINE x == <<a, b>>
                 y == <<c, d>>
                 U == {a, b, c, d}
      <3>1. x \in Seq(U) /\ Len(x) = 2 /\ x[1] = a /\ x[2] = b
        OBVIOUS
      <3>2. y \in Seq(U) /\ Len(y) = 2 /\ y[1] = c /\ y[2] = d
        OBVIOUS
      <3>3. p = x \o y
        BY <1>2, <2>1
      <3> HIDE DEF x, y, U
      <3>4. Len(p) = 4 /\ \A k \in 1 .. 4 : p[k] = IF k <= 2 THEN x[k] ELSE y[k - 2]
        BY <3>1, <3>2, <3>3, Joined
      <3> QED BY <3>1, <3>2, <3>4
    <2>2. CASE fifo_enabled # 1
      <3>1. p = <<a, b>>
        BY <1>2, <2>2
      <3> QED BY <3>1
    <2> QED BY <2>1, <2>2
  <1>4. \A n \in 1 .. Len(p) : \A m \in 1 .. Len(p[n]) :
            /\ p[n][m] \in {"fifo_en_off", "user_off"} => n = 3 /\ m \in {1, 2}
            /\ p[n][m] = "reset" => n \in {3, 4} /\ (n = 3 => m = 3)
    <2> SUFFICES ASSUME NEW n \in 1 .. Len(p), NEW m \in 1 .. Len(p[n])
                 PROVE  /\ p[n][m] \in {"fifo_en_off", "user_off"} => n = 3 /\ m \in {1, 2}
                        /\ p[n][m] = "reset" => n \in {3, 4} /\ (n = 3 => m = 3)
      OBVIOUS
    <2>1. CASE n = 1
      BY <1>1, <1>3, <2>1
    <2>2. CASE n = 2
      BY <1>1, <1>3, <2>2
    <2>3. CASE n = 3
      BY <1>1, <1>3, <2>3
    <2>4. CASE n = 4
      BY <1>1, <1>3, <2>4
    <2> QED BY <1>3, <2>1, <2>2, <2>3, <2>4
  <1> QED BY <1>4 DEF Tidy, Ordered, p

\* What is left of a program keeps its order.
LEMMA TidyOn ==
    ASSUME NEW S, NEW p \in Seq(Sections(S)), p # <<>>, Tidy(p), NEW q,
           q = IF Len(Head(p)) = 1 THEN Tail(p) ELSE <<Tail(Head(p))>> \o Tail(p)
    PROVE  Tidy(q)
  <1> DEFINE h == p[1]
             r == Tail(p)
  <1>1. h \in Sections(S) /\ Len(p) \in Nat \ {0}
    OBVIOUS
  <1>2. h \in Seq(S) /\ Len(h) \in Nat \ {0}
    BY <1>1 DEF Sections
  <1>3. CASE Len(h) = 1
    <2>1. q = r
      BY <1>3
    <2>2. Len(q) = Len(p) - 1 /\ \A n \in 1 .. Len(q) : n + 1 \in 1 .. Len(p) /\ q[n] = p[n + 1]
      BY <2>1
    <2> SUFFICES ASSUME NEW n1 \in 1 .. Len(q), NEW n2 \in 1 .. Len(q),
                        NEW m1 \in 1 .. Len(q[n1]), NEW m2 \in 1 .. Len(q[n2])
                 PROVE  Ordered(q, n1, m1, n2, m2)
      BY Zenon DEF Tidy
    <2>3. Ordered(p, n1 + 1, m1, n2 + 1, m2)
      BY <2>2 DEF Tidy
    <2> QED BY <1>1, <2>2, <2>3 DEF Ordered
  <1>4. CASE Len(h) # 1
    <2> DEFINE t == Tail(h)
               Shift(n, m) == IF n = 1 THEN m + 1 ELSE m
    <2>1. t \in Seq(S) /\ Len(t) = Len(h) - 1 /\ \A m \in 1 .. Len(t) : t[m] = h[m + 1]
      BY <1>2, <1>4
    <2>2. q = <<t>> \o r /\ r \in Seq(Sections(S)) /\ Len(r) = Len(p) - 1
          /\ \A n \in 1 .. Len(r) : r[n] = p[n + 1]
      BY <1>4
    <2> HIDE DEF t, r, h
    <2>3. /\ Len(q) = Len(p) /\ q[1] = t
          /\ \A n \in 1 .. Len(q) : n # 1 => q[n] = p[n]
      BY <1>1, <2>2
    <2>4. \A n \in 1 .. Len(q) : \A m \in 1 .. Len(q[n]) :
              m \in Nat /\ Shift(n, m) \in 1 .. Len(p[n]) /\ q[n][m] = p[n][Shift(n, m)]
      BY <1>1, <1>2, <2>1, <2>3 DEF h
    <2> SUFFICES ASSUME NEW n1 \in 1 .. Len(q), NEW n2 \in 1 .. Len(q),
                        NEW m1 \in 1 .. Len(q[n1]), NEW m2 \in 1 .. Len(q[n2])
                 PROVE  Ordered(q, n1, m1, n2, m2)
      BY Zenon DEF Tidy
    <2>5. /\ m1 \in Nat /\ Shift(n1, m1) \in 1 .. Len(p[n1]) /\ q[n1][m1] = p[n1][Shift(n1, m1)]
          /\ m2 \in Nat /\ Shift(n2, m2) \in 1 .. Len(p[n2]) /\ q[n2][m2] = p[n2][Shift(n2, m2)]
          /\ n1 \in 1 .. Len(p) /\ n2 \in 1 .. Len(p)
      BY <2>3, <2>4
    <2>6. Ordered(p, n1, Shift(n1, m1), n2, Shift(n2, m2))
      BY <2>5 DEF Tidy
    <2>7. n1 = n2 /\ Shift(n1, m1) < Shift(n2, m2) => m1 < m2
      BY <2>5
    <2> HIDE DEF Shift
    <2> QED BY <2>5, <2>6, <2>7 DEF Ordered
  <1> QED BY <1>3, <1>4

\* Where it is executed, as long as nothing fails.
LEMMA TidyStep == LifeInv /\ TidyInv /\ [Next]_vars => TidyInv'
  <1> SUFFICES ASSUME LifeInv, TidyInv, [Next]_vars, Stopping', faults' = 0 PROVE Tidy(prog')
    BY DEF TidyInv
  <1>1. CASE StopStart \/ PostdisableStart
    BY <1>1, StopTidy DEF StopStart, PostdisableStart
  <1>2. CASE RunOp
    <2>1. Stopping /\ prog # <<>>
      BY <1>2 DEF RunOp, core, Stopping
    <2>2. faults \in Nat
      BY LifecycleAssumption DEF LifeInv, LifeTypes
    <2>3. faults' # faults + 1
      BY <2>2
    <2>4. faults = 0 /\ prog' = IF Len(Head(prog)) = 1 THEN Tail(prog)
                                ELSE <<Tail(Head(prog))>> \o Tail(prog)
      BY <1>2, <2>3 DEF RunOp
    <2> QED BY <2>1, <2>4, TidyOn DEF LifeInv, StopInv, TidyInv
  <1>3. CASE (Stopping' => Stopping) /\ prog' = prog /\ faults' = faults
    BY <1>3 DEF TidyInv
  <1>4. CASE UserStep
    <2>1. (Stopping' => Stopping) /\ prog' = prog /\ faults' = faults
      BY <1>4 DEF UserStep, ChooseTrigger, WatermarkStore, PreenableStart, Disable, RemoveStart,
         Stopping, core
    <2> QED BY <1>3, <2>1
  <1>5. CASE Postenable \/ Predisable
    <2>1. (Stopping' => Stopping) /\ prog' = prog
      BY <1>5 DEF Postenable, Predisable, SetTriggerState, SetTriggerStateFails, Stopping
    <2>2. faults \in Nat
      BY LifecycleAssumption DEF LifeInv, LifeTypes
    <2>3. faults' = faults
      BY <1>5, <2>2 DEF Postenable, Predisable, SetTriggerStateFails
    <2> QED BY <1>3, <2>1, <2>3
  <1>6. CASE FreeIrq \/ PreenableEnd \/ PostdisableEnd \/ StopEnd \/ UnregisterStep
    <2>1. (Stopping' => Stopping) /\ prog' = prog /\ faults' = faults
      BY <1>6 DEF FreeIrq, PreenableEnd, PostdisableEnd, StopEnd, UnregisterStep, Unregister,
         Stopping
    <2> QED BY <1>3, <2>1
  <1>7. CASE IrqHandler \/ TriggerPoll("ext") \/ HandlerLock \/ HandlerEnd
    <2>1. (Stopping' => Stopping) /\ prog' = prog /\ faults' = faults
      BY <1>7 DEF IrqHandler, TriggerPoll, HandlerLock, HandlerEnd, core, Stopping
    <2> QED BY <1>3, <2>1
  <1>8. ~HandlerRecover
    BY DEF HandlerRecover, LifeInv, LockInv, Stopping, core
  <1>9. CASE UNCHANGED vars
    BY <1>3, <1>9 DEF vars, core, Stopping
  <1> QED BY <1>1, <1>2, <1>4, <1>5, <1>6, <1>7, <1>8, <1>9 DEF Next, CoreStep, Gone

\* As long as no transfer has failed the FIFO is only reset while both its enables
\* are off, on every path through preenable, postdisable, remove and a recovery.
THEOREM ResetsClean == Spec => []CleanResets
  <1>1. LifeInv /\ QuietInv /\ RouteInv /\ TidyInv => CleanResets
    <2> SUFFICES ASSUME LifeInv, QuietInv, RouteInv, TidyInv, faults = 0, NextOp = "reset"
                 PROVE  Still
      BY DEF CleanResets, ResetWhileStopped, Still
    <2>1. prog # <<>> /\ Head(Head(prog)) = "reset" /\ err = 0
      BY DEF NextOp, RouteInv, FlagInv, LifeInv, LifeTypes
    <2>2. CASE Stopping
      <3>1. AllStops /\ Tidy(prog) /\ prog \in Seq(Sections(StopOps))
        BY <2>1, <2>2 DEF QuietInv, TidyInv, LifeInv, StopInv
      <3>2. /\ 1 \in 1 .. Len(prog) /\ prog[1] \in Sections(StopOps) /\ Len(prog) \in Nat
            /\ \A n \in 1 .. Len(prog) : prog[n] \in Sections(StopOps)
            /\ Head(prog) = prog[1]
        BY <2>1, <3>1
      <3>3. /\ 1 \in 1 .. Len(prog[1]) /\ prog[1][1] = "reset"
            /\ \A n \in 1 .. Len(prog) : Len(prog[n]) \in Nat
        BY <2>1, <3>2 DEF Sections
      <3>4. \A n \in 1 .. Len(prog) : \A m \in 1 .. Len(prog[n]) :
                prog[n][m] \notin {"fifo_en_off", "user_off"}
        BY <3>1, <3>2, <3>3 DEF Tidy, Ordered
      <3> QED BY <3>1, <3>4 DEF AllStops, FifoStops, Holds, Still
    <2>3. CASE session = "preenable"
      <3> DEFINE f == Preenable[trig]
      <3>1. trig \in {"drdy", "wm", "ext"}
        BY DEF LifeInv, LifeTypes, Triggers
      <3>2. f \in Seq(Ops) /\ Len(f) \in Nat
        <4>1. /\ Preenable["drdy"] \in Seq(Ops) /\ Preenable["wm"] \in Seq(Ops)
              /\ Preenable["ext"] \in Seq(Ops)
          BY DirectProgram, WatermarkProgram, ExternalProgram
        <4>2. f \in Seq(Ops)
          BY <3>1, <4>1
        <4> QED BY <4>2
      <3>3. PICK k \in 0 .. Len(f) : Rest(f, k, prog) /\ PreAt(k)
        BY <2>1, <2>3 DEF RouteInv, PreInv
      <3> HIDE DEF f
      <3>4. k \in Nat /\ k < Len(f) /\ f[k + 1] = "reset"
        <4>1. k \in Nat
          BY <3>2, <3>3
        <4> QED BY <2>1, <3>2, <3>3, <4>1, RestHead
      <3>5. CASE trig = "drdy"
        <4>1. k \in 0 .. 7 /\ DirectAt(k, chip) /\ k + 1 = 5
          <5>1. k \in {0, 1, 2, 3, 4, 5, 6, 7}
            BY <3>4, <3>5, DirectProgram DEF f
          <5> QED BY <3>3, <3>4, <3>5, <5>1, DirectProgram DEF f, PreAt
        <4> QED BY <4>1 DEF DirectAt, Still
      <3>6. CASE trig = "wm"
        <4>1. WatermarkAt(k, chip) /\ k \in {1, 7}
          <5>1. k \in {0, 1, 2, 3, 4, 5, 6, 7, 8, 9, 10, 11}
            BY <3>4, <3>6, WatermarkProgram DEF f
          <5>2. f = Preenable["wm"] /\ WatermarkAt(k, chip)
            BY <3>3, <3>6 DEF f, PreAt
          <5>3. k + 1 \in {2, 8}
            <6>1. /\ f[1] # "reset" /\ f[3] # "reset" /\ f[4] # "reset" /\ f[5] # "reset"
                  /\ f[6] # "reset" /\ f[7] # "reset" /\ f[9] # "reset" /\ f[10] # "reset"
                  /\ f[11] # "reset" /\ f[12] # "reset"
              BY <5>2, WatermarkProgram
            <6>2. k + 1 \in 1 .. 12
              BY <5>1
            <6> QED BY <3>4, <6>1, <6>2
          <5> QED BY <3>4, <5>2, <5>3
        <4> QED BY <4>1 DEF WatermarkAt, Still
      <3>7. CASE trig = "ext"
        <4>1. ExternalAt(k, chip) /\ k \in {3, 6}
          <5>1. k \in {0, 1, 2, 3, 4, 5, 6, 7, 8, 9}
            BY <3>4, <3>7, ExternalProgram DEF f
          <5>2. f = Preenable["ext"] /\ ExternalAt(k, chip)
            BY <3>3, <3>7 DEF f, PreAt
          <5>3. k + 1 \in {4, 7}
            <6>1. /\ f[1] # "reset" /\ f[2] # "reset" /\ f[3] # "reset" /\ f[5] # "reset"
                  /\ f[6] # "reset" /\ f[8] # "reset" /\ f[9] # "reset" /\ f[10] # "reset"
              BY <5>2, ExternalProgram
            <6>2. k + 1 \in 1 .. 10
              BY <5>1
            <6> QED BY <3>4, <6>1, <6>2
          <5> QED BY <3>4, <5>2, <5>3
        <4> QED BY <4>1 DEF ExternalAt, Still
      <3> QED BY <3>1, <3>5, <3>6, <3>7
    <2>4. CASE handler = "recover"
      <3>1. PICK k \in 0 .. 10 : Rest(Recovery, k, prog) /\ RecoverAt(k, chip)
        BY <2>1, <2>4 DEF RouteInv, RecInv
      <3>2. k < 10 /\ Recovery[k + 1] = "reset"
        <4>1. k \in Nat
          BY <3>1
        <4> QED BY <2>1, <3>1, <4>1, RestHead, RecoverProgram
      <3>3. k \in {0, 1, 2, 3, 4, 5, 6, 7, 8, 9}
        BY <3>2
      <3>4. k \in {2, 6}
        BY <3>2, <3>3, RecoverProgram
      <3> QED BY <3>1, <3>4 DEF RecoverAt, Still
    <2> QED BY <2>1, <2>2, <2>3, <2>4 DEF LifeInv, LifeTypes, LockInv, Stopping
  <1>2. Init => TidyInv
    BY DEF Init, TidyInv, Stopping
  <1> QED BY RouteAlways, TidyStep, <1>1, <1>2, PTL DEF Spec
=============================================================================
