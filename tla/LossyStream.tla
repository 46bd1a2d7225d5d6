----------------------------- MODULE LossyStream -----------------------------
(***************************************************************************)
(* What the FIFO path promises to a reader of the IIO buffer: a stream of  *)
(* samples in order, none twice, from which samples are missing only where *)
(* the FIFO overflowed.  From the overflow until the FIFO is repaired the  *)
(* stream is damaged; only then may it lose samples.                       *)
(***************************************************************************)
EXTENDS Naturals, Sequences, SequencesExt

VARIABLES
    made,     \* samples taken so far
    queue,    \* numbers of the samples taken and not delivered yet, in order
    out,      \* number of the sample delivered last
    damaged   \* an overflow has not been repaired yet

vars == <<made, queue, out, damaged>>

Init == made = 0 /\ queue = <<>> /\ out = 0 /\ damaged = FALSE

Sample ==
    /\ made' = made + 1
    /\ queue' = Append(queue, made + 1)
    /\ UNCHANGED <<out, damaged>>

\* A sample that finds no room costs the stream one queued sample.
Overflow ==
    /\ made' = made + 1
    /\ \E k \in DOMAIN queue : queue' = Append(RemoveAt(queue, k), made + 1)
    /\ damaged' = TRUE
    /\ UNCHANGED out

\* The oldest sample that is still there is delivered: nothing is skipped.
Deliver ==
    /\ queue # <<>>
    /\ out' = Head(queue) /\ queue' = Tail(queue)
    /\ UNCHANGED <<made, damaged>>

\* While damaged, samples pass by and the queue is thrown away.
Miss == damaged /\ made' = made + 1 /\ UNCHANGED <<queue, out, damaged>>

Discard == damaged /\ queue' = <<>> /\ UNCHANGED <<made, out, damaged>>

Repair == damaged /\ damaged' = FALSE /\ UNCHANGED <<made, queue, out>>

Next == Sample \/ Overflow \/ Deliver \/ Miss \/ Discard \/ Repair

Spec == Init /\ [][Next]_vars
=============================================================================
