--------------------------- MODULE BufferLifecycle ---------------------------
(***************************************************************************)
(* How ICM20602.c starts and stops a buffer session and leaves the chip:   *)
(* preenable, postenable, predisable and postdisable as the IIO core calls *)
(* them under its mlock, the triggers' set_trigger_state, the hard         *)
(* interrupt handler that reads two flags without a lock, the trigger      *)
(* handler, fifo_watermark, and remove.                                    *)
(*                                                                         *)
(* A callback that writes several registers is a program: a sequence of    *)
(* sections, each a sequence of operations.  RunOp executes one operation; *)
(* one that fails ends its section (the early returns inside a helper),    *)
(* and the caller goes on with the next section or, in preenable, which is *)
(* a single section, gives up.  Bits and C's bools are 0 or 1.             *)
(***************************************************************************)
EXTENDS Naturals, Sequences

CONSTANTS
    Watermarks,   \* values user space writes to fifo_watermark, clamped (frames)
    MaxFaults     \* bound: register operations that fail

ASSUME LifecycleAssumption ==
    Watermarks \subseteq 1 .. 73 /\ 16 \in Watermarks /\ MaxFaults \in Nat

VARIABLES
    chip,                    \* the registers the callbacks write
    trig,                    \* indio_dev->trig
    pool,                    \* poll functions attached to each trigger
    handler,                 \* the trigger's threaded handler
    lock,                    \* holder of data->lock
    prog,                    \* what is left of the holder's program
    err,                     \* a register operation failed since preenable began
    session,                 \* where the IIO core is, under mlock
    removal,                 \* where driver removal is
    buffer_enabled, fifo_enabled, fifo_watermark,
    drdy_trigger_enabled, fifo_wm_trigger_enabled,
    faults

flags == <<buffer_enabled, drdy_trigger_enabled, fifo_wm_trigger_enabled>>
core == <<trig, pool, session, removal>>
vars == <<chip, core, handler, lock, prog, err, flags, fifo_enabled, fifo_watermark, faults>>

\* The chip's data-ready trigger, its FIFO watermark trigger, any other one.
Triggers == {"drdy", "wm", "ext"}

FRAME_SIZE == 14

\* init_device has reset the chip; the default watermark is 16 frames.
Init ==
    /\ chip = [int_drdy |-> 0, int_oflow |-> 0, th1 |-> 0, th2 |-> 0,
               fifo_en |-> 0, user_fifo_en |-> 0]
    /\ trig \in Triggers /\ pool = [t \in Triggers |-> 0]
    /\ handler = "idle" /\ lock = "free" /\ prog = <<>> /\ err = 0
    /\ session = "off" /\ removal = "bound"
    /\ buffer_enabled = 0 /\ fifo_enabled = 0 /\ fifo_watermark = 16
    /\ drdy_trigger_enabled = 0 /\ fifo_wm_trigger_enabled = 0
    /\ faults = 0

-----------------------------------------------------------------------------
(* Programs.  mark_off and mark_on are fifo_disable's and fifo_enable's    *)
(* last assignment, the other operations are SPI transfers.                *)

FifoDisable == <<"fifo_en_off", "user_off", "reset", "mark_off">>

FifoEnable ==
    <<"fifo_en_off", "user_off", "reset", "user_on", "fifo_en_on", "mark_on">>

SetWatermarkHw == <<"wm_mode", "th1", "th2">>

DisableWatermarkHw == <<"th1_off", "th2_off">>

\* Mutant: the data-ready path takes the overflow interrupt to be off already.
Preenable_KeepsOverflow ==
    [t \in Triggers |->
        CASE t = "drdy" -> DisableWatermarkHw \o FifoDisable \o <<"drdy_on">>
          [] t = "wm"   -> <<"drdy_off", "reset">> \o SetWatermarkHw \o FifoEnable
                             \o <<"oflow_on">>
          [] t = "ext"  -> <<"drdy_off">> \o DisableWatermarkHw \o <<"reset">> \o FifoEnable]

\* The three cases of preenable.
Preenable ==
    [t \in Triggers |->
        CASE t = "drdy" -> DisableWatermarkHw \o FifoDisable \o <<"oflow_off", "drdy_on">>
          [] t = "wm"   -> <<"drdy_off", "reset">> \o SetWatermarkHw \o FifoEnable
                             \o <<"oflow_on">>
          [] t = "ext"  -> <<"drdy_off">> \o DisableWatermarkHw \o <<"reset">> \o FifoEnable]

\* Mutant: the watermark threshold is left programmed.
StopProgram_ThresholdStays ==
    <<<<"ints_off">>>>
      \o (IF fifo_enabled = 1 THEN <<FifoDisable, <<"reset">>>> ELSE <<>>)

\* postdisable and stop_device: every section runs, whatever failed before.
StopProgram ==
    <<<<"ints_off">>, DisableWatermarkHw>>
      \o (IF fifo_enabled = 1 THEN <<FifoDisable, <<"reset">>>> ELSE <<>>)

\* What an operation does to the registers.
Apply(c, op) ==
    CASE op = "drdy_off"    -> [c EXCEPT !.int_drdy = 0]
      [] op = "drdy_on"     -> [c EXCEPT !.int_drdy = 1]
      [] op = "oflow_off"   -> [c EXCEPT !.int_oflow = 0]
      [] op = "oflow_on"    -> [c EXCEPT !.int_oflow = 1]
      [] op = "ints_off"    -> [c EXCEPT !.int_drdy = 0, !.int_oflow = 0]
      [] op = "th1"         -> [c EXCEPT !.th1 = (fifo_watermark * FRAME_SIZE) \div 256]
      [] op = "th2"         -> [c EXCEPT !.th2 = (fifo_watermark * FRAME_SIZE) % 256]
      [] op = "th1_off"     -> [c EXCEPT !.th1 = 0]
      [] op = "th2_off"     -> [c EXCEPT !.th2 = 0]
      [] op = "fifo_en_off" -> [c EXCEPT !.fifo_en = 0]
      [] op = "fifo_en_on"  -> [c EXCEPT !.fifo_en = 1]
      [] op = "user_off"    -> [c EXCEPT !.user_fifo_en = 0]
      [] op = "user_on"     -> [c EXCEPT !.user_fifo_en = 1]
      [] OTHER              -> c

NextOp == IF prog = <<>> THEN "none" ELSE Head(Head(prog))

\* The holder of the lock executes its next operation, or the transfer fails.
RunOp ==
    /\ prog # <<>>
    /\ \/ /\ chip' = Apply(chip, NextOp)
          /\ fifo_enabled' = CASE NextOp = "mark_off" -> 0
                               [] NextOp = "mark_on"  -> 1
                               [] OTHER               -> fifo_enabled
          /\ prog' = IF Len(Head(prog)) = 1 THEN Tail(prog)
                                            ELSE <<Tail(Head(prog))>> \o Tail(prog)
          /\ UNCHANGED <<err, faults>>
       \/ /\ faults < MaxFaults /\ NextOp \notin {"mark_off", "mark_on"}
          /\ faults' = faults + 1
          /\ prog' = Tail(prog) /\ err' = 1
          /\ UNCHANGED <<chip, fifo_enabled>>
    /\ UNCHANGED <<core, handler, lock, flags, fifo_watermark>>

-----------------------------------------------------------------------------
(* User space and the IIO core.                                            *)

SysfsThere == removal \in {"bound", "irq_off", "stopping", "stopped"}

\* current_trigger is refused while the buffer is in use.
ChooseTrigger(t) ==
    /\ session = "off" /\ SysfsThere
    /\ trig' = t
    /\ UNCHANGED <<chip, pool, session, removal, handler, lock, prog, err, flags,
                   fifo_enabled, fifo_watermark, faults>>

\* Mutant: fifo_watermark may be written while the buffer is enabled.
WatermarkStore_Always(w) ==
    /\ SysfsThere /\ lock = "free"
    /\ fifo_watermark' = w
    /\ UNCHANGED <<chip, core, handler, lock, prog, err, flags, fifo_enabled, faults>>

\* fifo_watermark_store; with the buffer enabled it returns -EBUSY.
WatermarkStore(w) ==
    /\ SysfsThere /\ lock = "free" /\ buffer_enabled = 0
    /\ fifo_watermark' = w
    /\ UNCHANGED <<chip, core, handler, lock, prog, err, flags, fifo_enabled, faults>>

\* Writing 1 to buffer/enable: preenable takes the lock and starts its program.
PreenableStart ==
    /\ session = "off" /\ SysfsThere /\ lock = "free"
    /\ session' = "preenable" /\ lock' = "user"
    /\ prog' = <<Preenable[trig]>> /\ err' = 0
    /\ buffer_enabled' = 1 /\ fifo_enabled' = 0 /\ fifo_wm_trigger_enabled' = 0
    /\ UNCHANGED <<chip, trig, pool, removal, handler, drdy_trigger_enabled,
                   fifo_watermark, faults>>

\* Mutant: the error path only clears buffer_enabled.
PreenableEnd_KeepsFlags ==
    /\ session = "preenable" /\ prog = <<>>
    /\ lock' = "free"
    /\ \/ /\ err = 0
          /\ drdy_trigger_enabled' = IF trig = "drdy" THEN 1 ELSE 0
          /\ fifo_enabled' = IF trig = "drdy" THEN 0 ELSE 1
          /\ fifo_wm_trigger_enabled' = IF trig = "wm" THEN 1 ELSE 0
          /\ session' = "attach"
          /\ UNCHANGED buffer_enabled
       \/ /\ err = 1
          /\ buffer_enabled' = 0
          /\ session' = "off"
          /\ UNCHANGED <<fifo_enabled, drdy_trigger_enabled, fifo_wm_trigger_enabled>>
    /\ UNCHANGED <<chip, trig, pool, removal, handler, prog, err, fifo_watermark, faults>>

\* out_unlock: on an error the flags are cleared and the core gives up, without
\* calling postdisable.
PreenableEnd ==
    /\ session = "preenable" /\ prog = <<>>
    /\ lock' = "free"
    /\ \/ /\ err = 0
          /\ drdy_trigger_enabled' = IF trig = "drdy" THEN 1 ELSE 0
          /\ fifo_enabled' = IF trig = "drdy" THEN 0 ELSE 1
          /\ fifo_wm_trigger_enabled' = IF trig = "wm" THEN 1 ELSE 0
          /\ session' = "attach"
          /\ UNCHANGED buffer_enabled
       \/ /\ err = 1
          /\ buffer_enabled' = 0 /\ fifo_enabled' = 0
          /\ drdy_trigger_enabled' = 0 /\ fifo_wm_trigger_enabled' = 0
          /\ session' = "off"
    /\ UNCHANGED <<chip, trig, pool, removal, handler, prog, err, fifo_watermark, faults>>

\* The trigger's set_trigger_state(on), under the lock.
SetTriggerState(on) ==
    /\ lock = "free"
    /\ \/ /\ trig = "drdy"
          /\ chip' = [chip EXCEPT !.int_drdy = on]
          /\ drdy_trigger_enabled' = on
          /\ UNCHANGED <<buffer_enabled, fifo_wm_trigger_enabled>>
       \/ /\ trig = "wm"
          /\ fifo_wm_trigger_enabled' = on
          /\ UNCHANGED <<chip, buffer_enabled, drdy_trigger_enabled>>
       \/ trig = "ext" /\ UNCHANGED <<chip, flags>>

\* The transfer of the data-ready trigger's set_trigger_state fails.
SetTriggerStateFails ==
    /\ trig = "drdy" /\ lock = "free"
    /\ faults < MaxFaults /\ faults' = faults + 1
    /\ session' = "detached"
    /\ UNCHANGED <<chip, pool, flags>>

\* postenable: the core attaches the poll function and, when it is the
\* trigger's first, turns the trigger on; a failure runs postdisable.
Postenable ==
    /\ session = "attach"
    /\ \/ /\ IF pool[trig] = 0 THEN SetTriggerState(1) ELSE UNCHANGED <<chip, flags>>
          /\ pool' = [pool EXCEPT ![trig] = @ + 1]
          /\ session' = "on"
          /\ UNCHANGED faults
       \/ pool[trig] = 0 /\ SetTriggerStateFails
    /\ UNCHANGED <<trig, removal, handler, lock, prog, err, fifo_enabled, fifo_watermark>>

\* Writing 0 to buffer/enable.
Disable ==
    /\ session = "on" /\ SysfsThere
    /\ session' = "detach"
    /\ UNCHANGED <<chip, trig, pool, removal, handler, lock, prog, err, flags, fifo_enabled,
                   fifo_watermark, faults>>

\* Mutant: predisable keeps the lock while free_irq waits for the handler.
Predisable_UnderLock ==
    /\ session = "detach"
    /\ \/ /\ IF pool[trig] = 1 THEN SetTriggerState(0) ELSE UNCHANGED <<chip, flags>>
          /\ pool' = [pool EXCEPT ![trig] = @ - 1]
          /\ session' = "free_irq" /\ lock' = "user"
          /\ UNCHANGED faults
       \/ pool[trig] = 1 /\ SetTriggerStateFails /\ UNCHANGED lock
    /\ UNCHANGED <<trig, removal, handler, prog, err, fifo_enabled, fifo_watermark>>

\* predisable: the trigger is turned off unless others use it, then the poll
\* function is taken away.  When turning it off fails the poll function stays
\* and the core goes on to postdisable.
Predisable ==
    /\ session = "detach"
    /\ \/ /\ IF pool[trig] = 1 THEN SetTriggerState(0) ELSE UNCHANGED <<chip, flags>>
          /\ pool' = [pool EXCEPT ![trig] = @ - 1]
          /\ session' = "free_irq"
          /\ UNCHANGED faults
       \/ pool[trig] = 1 /\ SetTriggerStateFails
    /\ UNCHANGED <<trig, removal, handler, lock, prog, err, fifo_enabled, fifo_watermark>>

\* Mutant: nobody waits for the handler's thread.
FreeIrq_NoWait ==
    /\ session = "free_irq" /\ session' = "detached"
    /\ UNCHANGED <<chip, trig, pool, removal, handler, lock, prog, err, flags, fifo_enabled,
                   fifo_watermark, faults>>

\* free_irq waits for the handler's thread.
FreeIrq ==
    /\ session = "free_irq" /\ handler = "idle"
    /\ session' = "detached"
    /\ UNCHANGED <<chip, trig, pool, removal, handler, lock, prog, err, flags, fifo_enabled,
                   fifo_watermark, faults>>

PostdisableStart ==
    /\ session = "detached" /\ lock = "free"
    /\ session' = "postdisable" /\ lock' = "user"
    /\ buffer_enabled' = 0 /\ drdy_trigger_enabled' = 0 /\ fifo_wm_trigger_enabled' = 0
    /\ prog' = StopProgram
    /\ UNCHANGED <<chip, trig, pool, removal, handler, err, fifo_enabled, fifo_watermark, faults>>

PostdisableEnd ==
    /\ session = "postdisable" /\ prog = <<>>
    /\ fifo_enabled' = 0 /\ lock' = "free" /\ session' = "off"
    /\ UNCHANGED <<chip, trig, pool, removal, handler, prog, err, flags, fifo_watermark, faults>>

-----------------------------------------------------------------------------
(* Interrupts and the trigger handler.                                     *)

Running == chip.fifo_en = 1 /\ chip.user_fifo_en = 1

\* The chip pulses its line: data ready, watermark reached or FIFO overflow.
IrqSource ==
    \/ chip.int_drdy = 1
    \/ Running /\ (chip.th1 # 0 \/ chip.th2 # 0 \/ chip.int_oflow = 1)

\* iio_trigger_poll: it wakes the handler if one is attached and not busy.
TriggerPoll(t) ==
    /\ pool[t] > 0 /\ handler = "idle"
    /\ handler' = "woken"
    /\ UNCHANGED <<chip, core, lock, prog, err, flags, fifo_enabled, fifo_watermark, faults>>

\* irq_handler reads the flags without the lock; remove has disabled the line.
IrqHandler ==
    /\ removal = "bound" /\ IrqSource
    /\ \/ fifo_wm_trigger_enabled = 1 /\ TriggerPoll("wm")
       \/ fifo_wm_trigger_enabled = 0 /\ drdy_trigger_enabled = 1 /\ TriggerPoll("drdy")

\* trigger_handler takes the lock: it drains the FIFO, or reads one frame and
\* releases the lock before it pushes it.
HandlerLock ==
    /\ handler = "woken" /\ lock = "free"
    /\ \/ fifo_enabled = 1 /\ handler' = "drain" /\ lock' = "handler"
       \/ fifo_enabled = 0 /\ handler' = "direct" /\ UNCHANGED lock
    /\ UNCHANGED <<chip, core, prog, err, flags, fifo_enabled, fifo_watermark, faults>>

\* Mutant: the recovery runs after the lock was released.
HandlerRecover_Unlocked ==
    /\ handler = "drain"
    /\ handler' = "recover" /\ lock' = "free"
    /\ prog' = <<FifoDisable \o FifoEnable>>
    /\ UNCHANGED <<chip, core, err, flags, fifo_enabled, fifo_watermark, faults>>

\* The drain finds an overflow and recovers the FIFO.
HandlerRecover ==
    /\ handler = "drain"
    /\ handler' = "recover"
    /\ prog' = <<FifoDisable \o FifoEnable>>
    /\ UNCHANGED <<chip, core, lock, err, flags, fifo_enabled, fifo_watermark, faults>>

\* The drain ends, or the direct frame is pushed.
HandlerEnd ==
    /\ \/ handler = "drain" /\ lock' = "free"
       \/ handler = "recover" /\ prog = <<>> /\ lock' = "free"
       \/ handler = "direct" /\ UNCHANGED lock
    /\ handler' = "idle"
    /\ UNCHANGED <<chip, core, prog, err, flags, fifo_enabled, fifo_watermark, faults>>

-----------------------------------------------------------------------------
(* Removal.                                                                *)

\* remove: disable_irq ...
RemoveStart ==
    /\ removal = "bound" /\ removal' = "irq_off"
    /\ UNCHANGED <<chip, trig, pool, session, handler, lock, prog, err, flags, fifo_enabled,
                   fifo_watermark, faults>>

\* ... then stop_device under the lock ...
StopStart ==
    /\ removal = "irq_off" /\ lock = "free"
    /\ removal' = "stopping" /\ lock' = "stop"
    /\ buffer_enabled' = 0 /\ drdy_trigger_enabled' = 0 /\ fifo_wm_trigger_enabled' = 0
    /\ prog' = StopProgram
    /\ UNCHANGED <<chip, trig, pool, session, handler, err, fifo_enabled, fifo_watermark, faults>>

\* Mutant: stop_device returns without releasing the lock.
StopEnd_KeepsLock ==
    /\ removal = "stopping" /\ lock = "stop" /\ prog = <<>>
    /\ fifo_enabled' = 0 /\ removal' = "stopped"
    /\ UNCHANGED <<chip, trig, pool, session, handler, lock, prog, err, flags,
                   fifo_watermark, faults>>

StopEnd ==
    /\ removal = "stopping" /\ lock = "stop" /\ prog = <<>>
    /\ fifo_enabled' = 0 /\ lock' = "free" /\ removal' = "stopped"
    /\ UNCHANGED <<chip, trig, pool, session, handler, prog, err, flags, fifo_watermark, faults>>

\* ... and only then does devm unregister the device: sysfs goes away once the
\* operations under way are over, and a session that is on is disabled.
Unregister ==
    \/ /\ removal = "stopped" /\ removal' = "draining"
       /\ UNCHANGED session
    \/ /\ removal = "draining" /\ session \in {"off", "on"}
       /\ removal' = "unregistering"
       /\ session' = IF session = "on" THEN "detach" ELSE session
    \/ /\ removal = "unregistering" /\ session = "off" /\ handler = "idle"
       /\ removal' = "gone"
       /\ UNCHANGED session

UnregisterStep ==
    /\ Unregister
    /\ UNCHANGED <<chip, trig, pool, handler, lock, prog, err, flags, fifo_enabled,
                   fifo_watermark, faults>>

\* The driver is gone: nothing happens any more.
Gone == removal = "gone" /\ UNCHANGED vars

-----------------------------------------------------------------------------

UserStep ==
    \/ \E t \in Triggers : ChooseTrigger(t)
    \/ \E w \in Watermarks : WatermarkStore(w)
    \/ PreenableStart \/ Disable \/ RemoveStart

CoreStep ==
    \/ PreenableEnd \/ Postenable
    \/ Predisable \/ FreeIrq \/ PostdisableStart \/ PostdisableEnd
    \/ StopStart \/ StopEnd \/ UnregisterStep

Next ==
    \/ UserStep \/ CoreStep \/ RunOp
    \/ IrqHandler \/ TriggerPoll("ext")
    \/ HandlerLock \/ HandlerRecover \/ HandlerEnd
    \/ Gone

Spec == Init /\ [][Next]_vars

\* A callback and the handler's thread run on; whoever waits for the lock gets
\* it in the end (the kernel's mutex hands it over to its oldest waiter).  free_irq
\* waits for its own activation of the handler only, not for those of a poll
\* function that a failed detach left behind.
Fairness ==
    /\ WF_vars(RunOp) /\ WF_vars(HandlerEnd)
    /\ WF_vars(PreenableEnd) /\ WF_vars(PostdisableEnd)
    /\ WF_vars(StopEnd) /\ WF_vars(UnregisterStep)
    /\ SF_vars(Postenable) /\ SF_vars(Predisable) /\ SF_vars(PostdisableStart)
    /\ SF_vars(StopStart) /\ SF_vars(HandlerLock) /\ SF_vars(FreeIrq)

FairSpec == Spec /\ Fairness

-----------------------------------------------------------------------------
(* Properties.                                                             *)

Threshold == chip.th1 * 256 + chip.th2

Quiet ==
    /\ chip.int_drdy = 0 /\ chip.int_oflow = 0 /\ Threshold = 0
    /\ chip.fifo_en = 0 /\ chip.user_fifo_en = 0

\* Every variable keeps its type; a program is there only while somebody holds
\* data->lock to run it.
TypeOK ==
    /\ chip \in [int_drdy : {0, 1}, int_oflow : {0, 1}, th1 : 0 .. 3, th2 : 0 .. 255,
                 fifo_en : {0, 1}, user_fifo_en : {0, 1}]
    /\ trig \in Triggers /\ pool \in [Triggers -> 0 .. 1 + MaxFaults]
    /\ handler \in {"idle", "woken", "drain", "recover", "direct"}
    /\ lock \in {"free", "user", "handler", "stop"}
    /\ (prog # <<>> => lock # "free") /\ err \in {0, 1}
    /\ session \in {"off", "preenable", "attach", "on", "detach", "free_irq",
                    "detached", "postdisable"}
    /\ removal \in {"bound", "irq_off", "stopping", "stopped", "draining",
                    "unregistering", "gone"}
    /\ \A b \in {buffer_enabled, fifo_enabled, drdy_trigger_enabled,
                 fifo_wm_trigger_enabled} : b \in {0, 1}
    /\ fifo_watermark \in Watermarks /\ faults \in 0 .. MaxFaults

\* A session that started without an error has the chip and the driver's flags
\* set up for its own trigger, whatever an earlier session left behind: the
\* data-ready interrupt on for the data-ready trigger only, a threshold for the
\* watermark trigger only, the FIFO running exactly when the handler is told to
\* drain it, the overflow interrupt on with the watermark trigger and off with
\* the data-ready trigger.  An external session does not touch the overflow
\* interrupt (lines 1611 to 1635) and finds it off unless a transfer has failed.
TriggerRouting ==
    session = "on" /\ removal = "bound" /\ err = 0 /\ handler # "recover" =>
        /\ chip.int_drdy = (IF trig = "drdy" THEN 1 ELSE 0)
        /\ drdy_trigger_enabled = chip.int_drdy
        /\ trig # "ext" \/ faults = 0 => chip.int_oflow = (IF trig = "wm" THEN 1 ELSE 0)
        /\ fifo_wm_trigger_enabled = (IF trig = "wm" THEN 1 ELSE 0)
        /\ fifo_enabled = (IF trig = "drdy" THEN 0 ELSE 1)
        /\ (fifo_enabled = 1) = Running
        /\ trig = "wm" <=> Threshold # 0

\* While a watermark session is on, the threshold in the chip is the one
\* fifo_watermark shows: it cannot be changed under a running FIFO.
WatermarkProgrammed ==
    session = "on" /\ trig = "wm" /\ removal = "bound" /\ err = 0 =>
        Threshold = fifo_watermark * FRAME_SIZE

\* A session whose transfers all succeeded leaves the chip quiet: interrupts,
\* thresholds and FIFO off, also when remove stopped the device in between.
QuietWhenOff == session = "off" /\ err = 0 => Quiet

\* Once a session is over its handler is not running, unless turning the
\* trigger off failed: no frame is pushed to a buffer that is gone.
HandlerStopped == session = "off" /\ faults = 0 => handler = "idle"

\* With no session no interrupt is routed to a trigger, even after transfers
\* failed on the way up or down.
StrayIrqIgnored ==
    session = "off" => /\ buffer_enabled = 0 /\ fifo_enabled = 0
                       /\ drdy_trigger_enabled = 0 /\ fifo_wm_trigger_enabled = 0

\* The FIFO is only reset while both its enables are off (the advice above
\* icm20602_fifo_reset).
ResetWhileStopped == NextOp = "reset" => chip.fifo_en = 0 /\ chip.user_fifo_en = 0

\* That advice is followed as long as no transfer has failed, on every path
\* through preenable, postdisable, remove and a recovery, in any order.
CleanResets == faults = 0 => ResetWhileStopped

\* Turning the buffer off always completes: the callbacks, the handler they
\* wait for and remove never wait for each other for ever.
SessionEnds == session = "detach" ~> session = "off"

\* A removal always completes, though sysfs still allows a session to be started
\* between stop_device and the unregistration.
RemovalCompletes == removal = "irq_off" ~> removal = "gone"
=============================================================================
