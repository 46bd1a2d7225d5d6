----------------------------- MODULE DrainHistory -----------------------------
(***************************************************************************)
(* FifoDrain with a memory.  History variables record what a state of the  *)
(* driver no longer shows: how many samples were taken between the trigger *)
(* and the moment a batch was dated, and where the chip was read when its  *)
(* FIFO overflowed last.  They constrain nothing.  With them the module    *)
(* says what the tools may make of the dates (losses are estimated from    *)
(* the time between two scans), and which overflows go unreported as the   *)
(* driver configures the chip.                                             *)
(***************************************************************************)
EXTENDS FifoDrain

VARIABLES
    late,        \* samples taken from the trigger to the dating of the pending batch
    last_late,   \* the same for the batch of the scan pushed last
    missed       \* 1: the last overflow fell where a register read may hide it

history == <<late, last_late, missed>>
hvars == <<vars, history>>

HInit == Init /\ late = 0 /\ last_late = 0 /\ missed = 0

Dates == pc = "count_after" /\ pc' = "push"
Pushes == Pushing /\ kfifo' = kfifo + 1
Overflows == clock' = clock + 1 /\ Running /\ Len(fifo) = FifoFrames

\* Between a turn's check of INT_STATUS and its second get_count.
Unchecked == pc \in {"count", "read", "count_after"}

\* fifo_flush counts the FIFO before drain has checked INT_STATUS.
CountedFirst == pc = "flush_count" /\ pc' # pc /\ oflow = 1

HNext ==
    /\ Next
    /\ late' = IF Dates THEN clock - ts ELSE late
    /\ last_late' = IF Pushes THEN late ELSE last_late
    /\ missed' = IF Overflows THEN IF Unchecked THEN 1 ELSE 0
                 ELSE IF CountedFirst THEN 1 ELSE missed

HSpec == HInit /\ [][HNext]_hvars

-----------------------------------------------------------------------------
(* What the tools make of the dates.  FifoDrain counts in whole periods: a *)
(* trigger's time is rounded down.  All dates of a batch are off by the    *)
(* same part of a period, and those of two batches by parts that differ by *)
(* less than a period: here quarters of one.  The driver's period (line    *)
(* 884) and the one a tool expects are taken to be the chip's, as they are *)
(* at the frequencies that the driver lists.                               *)

\* Mutant: every period between the timestamps is counted.
EstimateGap_AllPeriods(dt) == IF 2 * dt <= 3 * 4 THEN 0 ELSE (dt + 2) \div 4

\* The number of scans that the C tool counts as lost between two timestamps that
\* are dt quarters of the expected period apart, with the default --gap-mul of 1.5.
EstimateGap(dt) ==
    LET periods == (dt + 2) \div 4
    IN  IF 2 * dt <= 3 * 4 THEN 0 ELSE IF periods <= 1 THEN 1 ELSE periods - 1

\* The same of the C++ tool: it counts only what is left above zero.
EstimateGapCpp(dt) ==
    LET est == (dt + 2) \div 4 - 1
    IN  IF 2 * dt > 3 * 4 /\ est > 0 THEN est ELSE 0

\* How far the parts of a period can differ between the last scan and this one.
Drifts == IF i = 0 THEN -3 .. 3 ELSE {0}

Estimates(drift) ==
    LET dt == 4 * (last'.ts - last.ts) + drift
    IN  {EstimateGap(dt), EstimateGapCpp(dt)}

\* Scans lost between the last one and this one.
Lost == last'.id - last.id - 1

\* When a scan is pushed after another, the losses that a tool counts between them
\* are right but for the samples taken between a trigger and the dating of its batch:
\* those of the earlier batch may be counted without being lost, those of the later
\* one may hide as many losses; rounding adds or hides one more where the triggers
\* are half a period apart, and within a batch the count is exact (fifo_drain's
\* dates at lines 970 to 978, estimate_gap and complete_sample).
EstimateStep ==
    Pushes /\ last.id > 0 =>
        \A drift \in Drifts : \A est \in Estimates(drift) :
            /\ i > 0 => est = Lost
            /\ est <= Lost + last_late + (IF drift >= 2 THEN 1 ELSE 0)
            /\ est >= Lost - late - (IF drift <= -2 THEN 1 ELSE 0)

LossesEstimated == [][EstimateStep]_hvars

-----------------------------------------------------------------------------
\* Whatever clears INT_STATUS, an overflow is hidden from the next check in two
\* places only: it came between a turn's check and its second get_count, or
\* fifo_flush counted the FIFO before anything was checked (fifo_check_overflow,
\* fifo_get_count, flush_store); all others are reported.
MissedStep == pc = "check" /\ pc' = "count" => align = "whole" \/ missed = 1

OverflowsMissed == [][MissedStep]_hvars
=============================================================================
