---------------------------- MODULE MCFifoDrain ----------------------------
(***************************************************************************)
(* FifoDrain for TLC, and the stream it implements.                        *)
(***************************************************************************)
EXTENDS FifoDrain

\* The queue of the stream is what is popped and not pushed, then the FIFO; it
\* is damaged from the overflow to the end of the recovery.
HeldIds == [k \in 1 .. Len(Held) |-> Held[k].id]

Stream == INSTANCE LossyStream WITH
    made <- clock,
    queue <- HeldIds \o fifo,
    out <- last.id,
    damaged <- align = "torn" \/ pc = "recover"

\* While no SPI transfer fails, a reader of the buffer sees the stream that
\* LossyStream promises: fifo_drain loses, skips or repeats a sample only where
\* the chip overflowed.
ImplementsStream == Stream!Spec
=============================================================================
