------------------------------- MODULE Readers -------------------------------
(***************************************************************************)
(* A capture by either tool: the C loop of CaptureReader or the C++ loop   *)
(* of ReaderCpp against the device of ReadLoop.                            *)
(***************************************************************************)
EXTENDS CaptureReader, ReaderCpp

ToolStep == (tool = "c" /\ CStep) \/ (tool = "cpp" /\ CppStep) \/ Exit

\* A wait is over, at the latest when its timeout is.
WaitOver ==
    \/ Wakeup
    \/ tool = "c" /\ WaitEnds
    \/ tool = "cpp" /\ (CppTimeout \/ CppInterrupted)

Next == KernelStep \/ ToolStep \/ WaitOver \/ Exited

Spec == Init /\ [][Next]_vars

\* The tool runs on, and a wait ends: both tools give every wait a timeout.
FairSpec == Spec /\ WF_vars(ToolStep) /\ WF_vars(WaitOver)

-----------------------------------------------------------------------------
(* Properties.                                                             *)

\* Every variable keeps its type; between reads less than a scan is carried over.
TypeOK ==
    /\ tool \in {"c", "cpp"} /\ wait_mode \in {"poll", "epoll"}
    /\ kfifo \in Seq(Bytes) /\ Len(kfifo) <= KfifoLen * ScanBytes
    /\ pushed \in 0 .. IdMod - 1 /\ ready \in BOOLEAN /\ gone \in BOOLEAN
    /\ pc \in {"start", "read", "carry", "parse", "again", "loop", "wait", "out", "exit"}
    /\ read_buf \in Seq(Bytes) /\ Len(read_buf) <= ReadBytes
    /\ carry \in Seq(Bytes)
    /\ tool = "c" \/ (pc = "read" /\ ~should_stop) => Len(carry) < ScanBytes
    /\ written \in [1 .. ScanBytes -> Bytes]
    /\ g_stop \in BOOLEAN /\ expired \in BOOLEAN /\ frames \in Nat

\* However reads cut the stream, each line of the CSV is one whole scan and the
\* one after the line before: none is torn, repeated or skipped.
LinesAreScans ==
    [][frames' # frames => written' = Scan(NextId(written[1][1]))]_output

\* No more lines are written than were asked for.
FrameLimit == MaxFrames > 0 => frames <= MaxFrames

\* While the tool goes on, what it took from the kfifo is in the CSV, the carry
\* or the read buffer: with what the kfifo holds they add up to what was pushed.
NothingForgotten ==
    ~g_stop =>
        LET under_way == carry \o read_buf \o kfifo
        IN  \A k \in DOMAIN under_way :
              under_way[k] = <<(written[1][1] + 1 + ((k - 1) \div ScanBytes)) % IdMod,
                               ((k - 1) % ScanBytes) + 1>>

\* A device that has become readable is read, also by edge-triggered epoll,
\* which does not announce again what a drain left behind.
ReadableIsRead == Readable ~> pc \in {"read", "exit"} \/ gone

OldestIs(n) == kfifo # <<>> /\ kfifo[1][1] = n

\* The C++ tool reads whatever is pushed, though it never reaches the buffer's
\* watermark.
LatencyBounded ==
    \A n \in 0 .. IdMod - 1 : tool = "cpp" /\ OldestIs(n) ~> ~OldestIs(n) \/ pc = "exit"

\* The C++ tool notices that the driver was removed, though poll and epoll have
\* nothing to report of such a device.
RemovalNoticed == tool = "cpp" /\ gone ~> pc = "exit"

\* A signal or the end of the duration ends the tool, even if the driver never
\* stops pushing.
StopEndsLoop == (g_stop \/ expired) ~> pc = "exit"
=============================================================================
