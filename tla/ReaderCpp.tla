------------------------------ MODULE ReaderCpp ------------------------------
(***************************************************************************)
(* IioReader of iio_icm20602_reader.cpp: the read loop of the C++ tool.    *)
(* It asks should_stop before every wait, every read and after every       *)
(* frame, and drains the device also when a wait times out.                *)
(***************************************************************************)
EXTENDS ReadLoop

\* total_frames() has reached the limit.
LimitReached == MaxFrames > 0 /\ frames >= MaxFrames

should_stop == g_stop \/ LimitReached \/ expired

\* The loop is entered with a wait; epoll has been told of the device.
CppStart ==
    /\ pc = "start" /\ pc' = "loop"
    /\ ready' = (wait_mode = "epoll" /\ Readable)
    /\ UNCHANGED <<program, kfifo, pushed, gone, read_buf, carry, output, g_stop, expired>>

CppLoopTest ==
    /\ pc = "loop" /\ pc' = IF should_stop THEN "out" ELSE "wait"
    /\ UNCHANGED <<device, read_buf, carry, output, g_stop, expired>>

\* Mutant: a wait that times out goes back to the loop.
CppTimeout_NoDrain ==
    /\ pc = "wait" /\ ~Reported /\ pc' = "loop"
    /\ UNCHANGED <<device, read_buf, carry, output, g_stop, expired>>

\* A wait that times out drains what is below the watermark.
CppTimeout ==
    /\ pc = "wait" /\ ~Reported /\ pc' = "read"
    /\ UNCHANGED <<device, read_buf, carry, output, g_stop, expired>>

\* A signal interrupts the wait.
CppInterrupted ==
    /\ pc = "wait" /\ g_stop /\ pc' = "loop"
    /\ UNCHANGED <<device, read_buf, carry, output, g_stop, expired>>

-----------------------------------------------------------------------------
(* drain_until_eagain and append_and_process.                              *)

CppRead ==
    /\ pc = "read" /\ ~should_stop
    /\ \E taken \in {SubSeq(kfifo, 1, n) : n \in ReadSizes} :
          TakeBytes(taken) /\ carry' = carry \o taken
    /\ pc' = "parse"
    /\ UNCHANGED <<program, pushed, gone, ready, read_buf, output, g_stop, expired>>

\* EAGAIN, or time to stop.
CppDrained ==
    /\ pc = "read" /\ (should_stop \/ NothingToRead) /\ pc' = "loop"
    /\ UNCHANGED <<device, read_buf, carry, output, g_stop, expired>>

\* Mutant: an error ends the drain as EAGAIN does.
CppReadFails_Ignored ==
    /\ pc = "read" /\ ~should_stop /\ gone /\ pc' = "loop"
    /\ UNCHANGED <<device, read_buf, carry, output, g_stop, expired>>

\* The device is gone: an exception ends the tool.
CppReadFails ==
    /\ pc = "read" /\ ~should_stop /\ gone /\ pc' = "out"
    /\ UNCHANGED <<device, read_buf, carry, output, g_stop, expired>>

\* A frame goes to the CSV and leaves staging_.
CppFrame ==
    /\ pc = "parse" /\ Len(carry) >= ScanBytes
    /\ written' = SubSeq(carry, 1, ScanBytes)
    /\ frames' = IF MaxFrames > 0 THEN frames + 1 ELSE 1 - frames
    /\ carry' = SubSeq(carry, ScanBytes + 1, Len(carry))
    /\ UNCHANGED <<device, read_buf, g_stop, expired>>
    /\ pc' = IF should_stop' THEN "read" ELSE "parse"

CppParsed ==
    /\ pc = "parse" /\ Len(carry) < ScanBytes /\ pc' = "read"
    /\ UNCHANGED <<device, read_buf, carry, output, g_stop, expired>>

-----------------------------------------------------------------------------
CppStep ==
    \/ CppStart \/ CppLoopTest
    \/ CppRead \/ CppDrained \/ CppReadFails \/ CppFrame \/ CppParsed
=============================================================================
