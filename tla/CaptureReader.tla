---------------------------- MODULE CaptureReader ----------------------------
(***************************************************************************)
(* The read loop of icm20602_iio_capture_fixed.c: it reads until EAGAIN    *)
(* and cuts the bytes it got into scans; process_frame, the duration and a *)
(* signal set g_stop.                                                      *)
(***************************************************************************)
EXTENDS ReadLoop

-----------------------------------------------------------------------------
(* drain_reads_until_eagain and process_bytes.                             *)

\* The loop is entered with a first drain; epoll has been told of the device.
Start ==
    /\ pc = "start" /\ pc' = "read"
    /\ ready' = (wait_mode = "epoll" /\ Readable)
    /\ UNCHANGED <<program, kfifo, pushed, gone, read_buf, carry, output, g_stop, expired>>

Read ==
    /\ pc = "read" /\ TakeBytes(read_buf')
    /\ pc' = IF carry # <<>> THEN "carry" ELSE "parse"
    /\ UNCHANGED <<program, pushed, gone, ready, carry, output, g_stop, expired>>

\* EAGAIN.
ReadEmpty ==
    /\ pc = "read" /\ NothingToRead /\ pc' = "loop"
    /\ UNCHANGED <<device, read_buf, carry, output, g_stop, expired>>

\* The device is gone: the loop returns the error.
ReadFails ==
    /\ pc = "read" /\ gone /\ pc' = "out"
    /\ UNCHANGED <<device, read_buf, carry, output, g_stop, expired>>

\* process_frame: a line of the CSV; the limit on frames stops the tool.
ProcessFrame(f) ==
    /\ written' = f
    /\ frames' = IF MaxFrames > 0 THEN frames + 1 ELSE 1 - frames
    /\ g_stop' = (g_stop \/ (MaxFrames > 0 /\ frames + 1 >= MaxFrames))

\* Bytes that fill up what an earlier read left over, and what they make of it.
Take ==
    LET need == ScanBytes - Len(carry)
    IN  IF Len(read_buf) < need THEN Len(read_buf) ELSE need

Filled == carry \o SubSeq(read_buf, 1, Take)

\* The carry is filled up; rest is left to parse and emptied is the carry after
\* a complete scan.
FillWith(rest, emptied) ==
    /\ pc = "carry" /\ pc' = "parse"
    /\ read_buf' = rest
    /\ \/ Len(Filled) = ScanBytes /\ ProcessFrame(Filled) /\ carry' = emptied
       \/ Len(Filled) < ScanBytes /\ carry' = Filled /\ UNCHANGED <<output, g_stop>>
    /\ UNCHANGED <<device, expired>>

\* Mutants: the bytes that completed the carry are parsed again; carry_len is
\* not reset.
FillCarry_KeepsOffset == FillWith(read_buf, <<>>)
FillCarry_KeepsCarry == FillWith(SubSeq(read_buf, Take + 1, Len(read_buf)), Filled)

FillCarry == FillWith(SubSeq(read_buf, Take + 1, Len(read_buf)), <<>>)

\* Mutant: the loop over the frames does not look at g_stop.
ParseFrame_Always ==
    /\ pc = "parse" /\ Len(read_buf) >= ScanBytes
    /\ ProcessFrame(SubSeq(read_buf, 1, ScanBytes))
    /\ read_buf' = SubSeq(read_buf, ScanBytes + 1, Len(read_buf))
    /\ UNCHANGED <<device, pc, carry, expired>>

ParseFrame ==
    /\ pc = "parse" /\ ~g_stop /\ Len(read_buf) >= ScanBytes
    /\ ProcessFrame(SubSeq(read_buf, 1, ScanBytes))
    /\ read_buf' = SubSeq(read_buf, ScanBytes + 1, Len(read_buf))
    /\ UNCHANGED <<device, pc, carry, expired>>

\* Mutant: the rest of a read that ends inside a scan is not carried over.
ParseEnd_NoCarry ==
    /\ pc = "parse" /\ (g_stop \/ Len(read_buf) < ScanBytes)
    /\ read_buf' = <<>> /\ pc' = "again"
    /\ UNCHANGED <<device, carry, output, g_stop, expired>>

\* The rest is carried over; a tool that stops forgets it.
ParseEnd ==
    /\ pc = "parse" /\ (g_stop \/ Len(read_buf) < ScanBytes)
    /\ carry' = IF ~g_stop /\ read_buf # <<>> THEN read_buf ELSE carry
    /\ read_buf' = <<>> /\ pc' = "again"
    /\ UNCHANGED <<device, output, g_stop, expired>>

\* Mutants: the drain reads only once; it does not look at g_stop.
ReadAgain_Once ==
    /\ pc = "again" /\ pc' = "loop" /\ g_stop' = (g_stop \/ expired)
    /\ UNCHANGED <<device, read_buf, carry, output, expired>>

ReadAgain_NoTest ==
    /\ pc = "again" /\ pc' = "read"
    /\ UNCHANGED <<device, read_buf, carry, output, g_stop, expired>>

\* The drain goes on unless it is time to stop.
ReadAgain ==
    /\ pc = "again"
    /\ IF g_stop \/ expired THEN pc' = "loop" /\ g_stop' = TRUE
                            ELSE pc' = "read" /\ UNCHANGED g_stop
    /\ UNCHANGED <<device, read_buf, carry, output, expired>>

-----------------------------------------------------------------------------
(* run_poll_loop and run_epoll_loop.                                       *)

LoopTest ==
    /\ pc = "loop"
    /\ pc' = IF g_stop \/ expired THEN "out" ELSE "wait"
    /\ UNCHANGED <<device, read_buf, carry, output, g_stop, expired>>

\* With nothing to report the wait times out, or a signal interrupts it.
WaitEnds ==
    /\ pc = "wait" /\ ~Reported /\ pc' = "loop"
    /\ UNCHANGED <<device, read_buf, carry, output, g_stop, expired>>

-----------------------------------------------------------------------------
CStep ==
    \/ Start \/ Read \/ ReadEmpty \/ ReadFails
    \/ FillCarry \/ ParseFrame \/ ParseEnd \/ ReadAgain \/ LoopTest
=============================================================================
