------------------------------- MODULE ReadLoop -------------------------------
(***************************************************************************)
(* What the read loops of the two capture tools share: the IIO character   *)
(* device, which they wait on with poll or with edge-triggered epoll and   *)
(* read without blocking, while the driver pushes scans or is removed, a   *)
(* signal may set g_stop and the duration may expire.  The loops are in    *)
(* CaptureReader (the C tool) and ReaderCpp (the C++ tool).                *)
(*                                                                         *)
(* A byte is named by its scan and its place in it.  Scans are numbered    *)
(* modulo IdMod, which exceeds what is under way at once, so that the      *)
(* driver may push for ever.                                               *)
(***************************************************************************)
EXTENDS Naturals, Sequences

CONSTANTS
    ScanBytes,      \* ICM20602_SCAN_BYTES, kScanSize: 24
    ReadBytes,      \* read_buffer_bytes; read_frames scans
    KfifoLen,       \* scans the kfifo holds (buffer/length)
    BufWatermark,   \* scans that make the device readable (buffer/watermark)
    MaxFrames,      \* max_frames, 0: unlimited
    SplitReads,     \* TRUE: a read may return any number of bytes; FALSE: whole scans
    IdMod           \* bound: number of scan names

ASSUME ReaderAssumption ==
    /\ ScanBytes \in Nat \ {0} /\ ReadBytes \in Nat /\ ReadBytes >= ScanBytes
    /\ KfifoLen \in Nat \ {0} /\ BufWatermark \in 1 .. KfifoLen
    /\ MaxFrames \in Nat /\ SplitReads \in BOOLEAN
    /\ IdMod \in Nat /\ IdMod * ScanBytes > (KfifoLen + 2) * ScanBytes + ReadBytes

VARIABLES
    tool,           \* "c" or "cpp"
    wait_mode,      \* "poll" or "epoll"
    kfifo,          \* bytes in the kfifo
    pushed,         \* name of the scan pushed last
    gone,           \* the driver has been removed
    ready,          \* the device is on epoll's ready list
    pc,             \* where the loop is
    read_buf,       \* bytes of the last read that are not processed yet
    carry,          \* parser->carry; staging_
    frames,         \* frames written; modulo 2 when there is no limit
    written,        \* the frame written to the CSV last
    g_stop,         \* set by a signal, and in the C tool by the limit and the duration
    expired         \* the duration is over

program == <<tool, wait_mode>>
device == <<program, kfifo, pushed, gone, ready>>
output == <<frames, written>>
vars == <<device, pc, read_buf, carry, output, g_stop, expired>>

Bytes == (0 .. IdMod - 1) \X (1 .. ScanBytes)

Scan(n) == [k \in 1 .. ScanBytes |-> <<n, k>>]

NextId(n) == (n + 1) % IdMod

Init ==
    /\ tool \in {"c", "cpp"} /\ wait_mode \in {"poll", "epoll"}
    /\ kfifo = <<>> /\ pushed = 0 /\ gone = FALSE /\ ready = FALSE
    /\ pc = "start" /\ read_buf = <<>> /\ carry = <<>>
    /\ frames = 0 /\ written = Scan(0)
    /\ g_stop = FALSE /\ expired = FALSE

-----------------------------------------------------------------------------
(* The kernel, the user and the clock.                                     *)

\* The poll method: enough scans for the buffer's watermark, and a device.
Readable == ~gone /\ Len(kfifo) >= BufWatermark * ScanBytes

\* Whoever polls the device is woken.
Wake == ready' = (wait_mode = "epoll" /\ pc # "start")

\* The driver pushes a scan that fits.
DriverPush ==
    /\ pc # "exit" /\ ~gone
    /\ Len(kfifo) + ScanBytes <= KfifoLen * ScanBytes
    /\ pushed' = NextId(pushed)
    /\ kfifo' = kfifo \o Scan(pushed')
    /\ Wake
    /\ UNCHANGED <<program, gone, pc, read_buf, carry, output, g_stop, expired>>

\* The driver is removed: reads fail with ENODEV and poll reports nothing.
DriverRemoved ==
    /\ pc # "exit" /\ ~gone /\ gone' = TRUE
    /\ Wake
    /\ UNCHANGED <<program, kfifo, pushed, pc, read_buf, carry, output, g_stop, expired>>

\* SIGINT or SIGTERM.
Signal ==
    /\ ~g_stop /\ g_stop' = TRUE
    /\ UNCHANGED <<device, pc, read_buf, carry, output, expired>>

DurationExpires ==
    /\ ~expired /\ expired' = TRUE
    /\ UNCHANGED <<device, pc, read_buf, carry, output, g_stop>>

\* How many bytes a read may return.
ReadSizes ==
    LET most == IF Len(kfifo) < ReadBytes THEN Len(kfifo) ELSE ReadBytes
    IN  IF SplitReads THEN 1 .. most ELSE {most - (most % ScanBytes)}

\* read takes bytes from the kfifo.
TakeBytes(taken) ==
    /\ ~gone /\ kfifo # <<>>
    /\ \E n \in ReadSizes :
          /\ taken = SubSeq(kfifo, 1, n)
          /\ kfifo' = SubSeq(kfifo, n + 1, Len(kfifo))

NothingToRead == ~gone /\ kfifo = <<>>

\* poll looks at the device; edge-triggered epoll only at its ready list, from
\* which it takes the device, whether it is readable or not.
Reported == Readable /\ (wait_mode = "poll" \/ ready)

Wakeup ==
    /\ pc = "wait" /\ Reported
    /\ ready' = FALSE /\ pc' = "read"
    /\ UNCHANGED <<program, kfifo, pushed, gone, read_buf, carry, output, g_stop, expired>>

FalseWakeup ==
    /\ pc = "wait" /\ ready /\ ~Readable /\ ready' = FALSE
    /\ UNCHANGED <<program, kfifo, pushed, gone, pc, read_buf, carry, output, g_stop, expired>>

\* main turns the buffer off and returns.
Exit ==
    /\ pc = "out" /\ pc' = "exit"
    /\ UNCHANGED <<device, read_buf, carry, output, g_stop, expired>>

Exited == pc = "exit" /\ UNCHANGED vars

KernelStep == DriverPush \/ DriverRemoved \/ Signal \/ DurationExpires \/ FalseWakeup
=============================================================================
