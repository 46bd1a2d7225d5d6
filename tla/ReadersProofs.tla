----------------------------- MODULE ReadersProofs -----------------------------
(***************************************************************************)
(* Theorems about Readers, for scans, reads, kfifos and limits of any      *)
(* size.  Neither tool writes more frames than it was asked for; each line *)
(* is the scan after the line before, however reads cut the scans; and the *)
(* bytes that a tool took and has not written are held, in order, before   *)
(* those of the kfifo.                                                     *)
(*                                                                         *)
(* The bytes under way are named by the explicit formula of ByteAfter, a   *)
(* quotient and a remainder by ScanBytes; so a step that takes a scan off  *)
(* their head, or adds one at their end, is arithmetic and needs no        *)
(* induction over the sequence.                                            *)
(***************************************************************************)
EXTENDS Readers, SequenceTheorems, TLAPS

Limited == MaxFrames > 0

\* The frames are counted up to the limit, or modulo 2 when there is none.
CountInv == frames \in Nat /\ frames <= IF Limited THEN MaxFrames ELSE 1

\* The C tool tests the limit after a frame and remembers it in g_stop only: where
\* it processes frames without looking at g_stop the limit is not reached.
CInv ==
    tool = "c" /\ LimitReached =>
        g_stop /\ pc \notin {"start", "wait", "read", "carry"}

\* The C++ tool tests the limit before each frame of a read.
CppInv == tool = "cpp" /\ LimitReached => pc # "parse"

\* A tool is one of the two.
ToolInv == tool \in {"c", "cpp"}

IInv == ToolInv /\ CountInv /\ CInv /\ CppInv

-----------------------------------------------------------------------------
\* Before the first read nothing is counted.
LEMMA ReadersInit == Init => IInv
  BY ReaderAssumption
  DEF Init, IInv, ToolInv, CountInv, CInv, CppInv, Limited, LimitReached

\* The kernel, the user, the clock and a wakeup.
LEMMA OutsideKeeps == IInv /\ (KernelStep \/ Wakeup \/ Exit \/ Exited) => IInv'
  <1> SUFFICES ASSUME IInv, KernelStep \/ Wakeup \/ Exit \/ Exited PROVE IInv'
    OBVIOUS
  <1> USE ReaderAssumption
      DEF IInv, ToolInv, CountInv, CInv, CppInv, Limited, LimitReached, device, program, output
  <1>1. CASE DriverPush
    BY <1>1 DEF DriverPush
  <1>2. CASE DriverRemoved
    BY <1>2 DEF DriverRemoved
  <1>3. CASE Signal
    BY <1>3 DEF Signal
  <1>4. CASE DurationExpires
    BY <1>4 DEF DurationExpires
  <1>5. CASE FalseWakeup
    BY <1>5 DEF FalseWakeup
  <1>6. CASE Wakeup
    BY <1>6 DEF Wakeup
  <1>7. CASE Exit
    BY <1>7 DEF Exit
  <1>8. CASE Exited
    BY <1>8 DEF Exited, vars
  <1> QED BY <1>1, <1>2, <1>3, <1>4, <1>5, <1>6, <1>7, <1>8 DEF KernelStep

\* The C tool counts a frame below the limit only, and sets g_stop with the last.
LEMMA FrameCounted ==
    ASSUME NEW f, IInv, tool = "c", ~LimitReached, ProcessFrame(f)
    PROVE  CountInv' /\ (LimitReached' => g_stop')
  <1> USE ReaderAssumption DEF Limited, LimitReached
  <1>1. CASE MaxFrames > 0
    <2>1. frames' = frames + 1 /\ frames \in Nat /\ frames + 1 <= MaxFrames
      BY <1>1 DEF ProcessFrame, IInv, CountInv
    <2>2. frames + 1 >= MaxFrames => g_stop'
      BY <1>1 DEF ProcessFrame
    <2> QED BY <1>1, <2>1, <2>2 DEF CountInv
  <1>2. CASE ~(MaxFrames > 0)
    BY <1>2 DEF ProcessFrame, IInv, CountInv
  <1> QED BY <1>1, <1>2

\* The C tool's loop.
LEMMA CKeeps == IInv /\ tool = "c" /\ (CStep \/ WaitEnds) => IInv'
  <1> SUFFICES ASSUME IInv, tool = "c", CStep \/ WaitEnds PROVE IInv'
    OBVIOUS
  <1> USE ReaderAssumption
      DEF IInv, ToolInv, CountInv, CInv, CppInv, Limited, LimitReached, device, program, output
  <1>1. CASE Start
    BY <1>1 DEF Start
  <1>2. CASE Read
    BY <1>2 DEF Read
  <1>3. CASE ReadEmpty \/ ReadFails
    BY <1>3 DEF ReadEmpty, ReadFails
  <1>4. CASE FillCarry
    <2>1. ~LimitReached /\ tool' = tool /\ pc' = "parse"
      BY <1>4 DEF FillCarry, FillWith
    <2>2. CASE ProcessFrame(Filled)
      BY <2>1, <2>2, FrameCounted
    <2>3. CASE UNCHANGED <<output, g_stop>>
      BY <2>1, <2>3
    <2> QED BY <1>4, <2>2, <2>3 DEF FillCarry, FillWith
  <1>5. CASE ParseFrame
    <2>1. ~LimitReached /\ tool' = tool /\ pc' = "parse"
      BY <1>5 DEF ParseFrame
    <2>2. ProcessFrame(SubSeq(read_buf, 1, ScanBytes))
      BY <1>5 DEF ParseFrame
    <2> QED BY <2>1, <2>2, FrameCounted
  <1>6. CASE ParseEnd
    BY <1>6 DEF ParseEnd
  <1>7. CASE ReadAgain
    BY <1>7 DEF ReadAgain
  <1>8. CASE LoopTest
    BY <1>8 DEF LoopTest
  <1>9. CASE WaitEnds
    BY <1>9 DEF WaitEnds
  <1> QED BY <1>1, <1>2, <1>3, <1>4, <1>5, <1>6, <1>7, <1>8, <1>9 DEF CStep

\* The C++ tool's loop.
LEMMA CppKeeps ==
    IInv /\ tool = "cpp" /\ (CppStep \/ CppTimeout \/ CppInterrupted) => IInv'
  <1> SUFFICES ASSUME IInv, tool = "cpp", CppStep \/ CppTimeout \/ CppInterrupted PROVE IInv'
    OBVIOUS
  <1> USE ReaderAssumption
      DEF IInv, ToolInv, CountInv, CInv, CppInv, Limited, LimitReached, device, program, output
  <1>1. CASE CppStart \/ CppLoopTest
    BY <1>1 DEF CppStart, CppLoopTest
  <1>2. CASE CppTimeout \/ CppInterrupted
    BY <1>2 DEF CppTimeout, CppInterrupted
  <1>3. CASE CppRead
    BY <1>3 DEF CppRead, should_stop
  <1>4. CASE CppDrained \/ CppReadFails
    BY <1>4 DEF CppDrained, CppReadFails
  <1>5. CASE CppFrame
    <2>1. ~LimitReached /\ tool' = tool
      BY <1>5 DEF CppFrame
    <2>2. LimitReached' => pc' = "read"
      BY <1>5 DEF CppFrame, should_stop
    <2>3. CountInv'
      BY <1>5, <2>1 DEF CppFrame
    <2> QED BY <2>1, <2>2, <2>3
  <1>6. CASE CppParsed
    BY <1>6 DEF CppParsed
  <1> QED BY <1>1, <1>2, <1>3, <1>4, <1>5, <1>6 DEF CppStep

\* Neither tool writes more lines than it was asked for, however reads split the
\* scans, for any sizes and any limit.
THEOREM FrameLimitKept == Spec => []FrameLimit
  <1>1. IInv /\ UNCHANGED vars => IInv'
    BY DEF IInv, ToolInv, CountInv, CInv, CppInv, Limited, LimitReached, vars, device, program,
           output
  <1>2. IInv /\ [Next]_vars => IInv'
    BY <1>1, OutsideKeeps, CKeeps, CppKeeps DEF Next, ToolStep, WaitOver
  <1>3. IInv => FrameLimit
    BY DEF IInv, CountInv, Limited, FrameLimit
  <1> QED BY <1>2, <1>3, ReadersInit, PTL DEF Spec

-----------------------------------------------------------------------------
(* Quotients, remainders and scan names.                                   *)

\* What \div and % are, for a divisor that is not a number.
LEMMA DivMod ==
    ASSUME NEW a \in Nat, NEW d \in Nat \ {0}
    PROVE  a \div d \in Nat /\ a % d \in 0 .. d - 1 /\ a = d * (a \div d) + (a % d)
  OBVIOUS

\* Nothing else is.
LEMMA DivModUnique ==
    ASSUME NEW d \in Nat \ {0}, NEW q \in Nat, NEW p \in Nat,
           NEW r \in 0 .. d - 1, NEW s \in 0 .. d - 1, d * q + r = d * p + s
    PROVE  q = p /\ r = s
  <1>1. CASE q < p
    <2>1. d * p >= d * (q + 1) /\ d * (q + 1) = d * q + d
      BY <1>1
    <2> QED BY <2>1
  <1>2. CASE p < q
    <2>1. d * q >= d * (p + 1) /\ d * (p + 1) = d * p + d
      BY <1>2
    <2> QED BY <2>1
  <1> QED BY <1>1, <1>2

LEMMA DivModOf ==
    ASSUME NEW d \in Nat \ {0}, NEW q \in Nat, NEW r \in 0 .. d - 1
    PROVE  (d * q + r) \div d = q /\ (d * q + r) % d = r
  <1> DEFINE a == d * q + r
  <1>1. a \in Nat
    OBVIOUS
  <1>2. a \div d \in Nat /\ a % d \in 0 .. d - 1 /\ a = d * (a \div d) + (a % d)
    BY <1>1, DivMod
  <1> QED BY <1>2, DivModUnique

\* A remainder can be taken before adding, too.
LEMMA ModPlus ==
    ASSUME NEW a \in Nat, NEW b \in Nat, NEW d \in Nat \ {0}
    PROVE  ((a % d) + b) % d = (a + b) % d
  <1> DEFINE q == a \div d
             r == a % d
             p == (r + b) \div d
             s == (r + b) % d
  <1>1. q \in Nat /\ r \in 0 .. d - 1 /\ a = d * q + r
    BY DivMod
  <1>2. r + b \in Nat
    BY <1>1
  <1>3. p \in Nat /\ s \in 0 .. d - 1 /\ r + b = d * p + s
    BY <1>2, DivMod
  <1> HIDE DEF q, r, p, s
  <1>4. a + b = d * (q + p) + s /\ q + p \in Nat
    BY <1>1, <1>3
  <1>5. (a + b) % d = s
    BY <1>3, <1>4, DivModOf
  <1> QED BY <1>5 DEF s, r

\* A remainder is not more than what it is taken of.
LEMMA ModAtMost ==
    ASSUME NEW a \in Nat, NEW d \in Nat \ {0} PROVE a % d \in 0 .. a
  <1> DEFINE q == a \div d
             r == a % d
  <1>1. q \in Nat /\ r \in 0 .. d - 1 /\ a = d * q + r
    BY DivMod
  <1> HIDE DEF q, r
  <1>2. d * q \in Nat
    BY <1>1
  <1> QED BY <1>1, <1>2 DEF r

\* There are names.
LEMMA NamesExist == IdMod \in Nat \ {0} /\ ScanBytes \in Nat \ {0} /\ ReadBytes \in Nat
  <1>1. CASE IdMod = 0
    <2>1. IdMod * ScanBytes = 0
      BY <1>1, ReaderAssumption
    <2>2. (KfifoLen + 2) * ScanBytes >= 0
      BY ReaderAssumption
    <2> QED BY <2>1, <2>2, ReaderAssumption
  <1> QED BY <1>1, ReaderAssumption

\* Where the bytes of two sequences are in the sequence they make up.
LEMMA Joined ==
    ASSUME NEW S, NEW a \in Seq(S), NEW b \in Seq(S)
    PROVE  /\ a \o b \in Seq(S) /\ DOMAIN (a \o b) = 1 .. Len(a) + Len(b)
           /\ Len(a) \in Nat /\ Len(b) \in Nat /\ Len(a \o b) = Len(a) + Len(b)
           /\ \A k \in 1 .. Len(a) : (a \o b)[k] = a[k]
           /\ \A k \in 1 .. Len(b) : (a \o b)[Len(a) + k] = b[k]
  OBVIOUS

-----------------------------------------------------------------------------
(* The stream.                                                             *)

Ids == 0 .. IdMod - 1

\* The k-th byte after the last one of scan n.
ByteAfter(n, k) ==
    <<(n + 1 + ((k - 1) \div ScanBytes)) % IdMod, ((k - 1) % ScanBytes) + 1>>

\* The bytes s are the ones that follow scan n.
Follows(s, n) == s \in Seq(Bytes) /\ \A k \in DOMAIN s : s[k] = ByteAfter(n, k)

\* The next scan's bytes are the first that follow; then come those of the scan after.
LEMMA NextScanFirst ==
    ASSUME NEW n \in Ids
    PROVE  /\ NextId(n) \in Ids
           /\ \A k \in 1 .. ScanBytes : ByteAfter(n, k) = <<NextId(n), k>>
           /\ \A k \in Nat \ {0} : ByteAfter(n, k + ScanBytes) = ByteAfter(NextId(n), k)
  <1> USE NamesExist DEF Ids
  <1>1. NextId(n) \in Ids
    <2>1. n + 1 \in Nat
      OBVIOUS
    <2> QED BY <2>1, DivMod DEF NextId
  <1>2. ASSUME NEW k \in 1 .. ScanBytes PROVE ByteAfter(n, k) = <<NextId(n), k>>
    <2>1. k - 1 = ScanBytes * 0 + (k - 1) /\ k - 1 \in 0 .. ScanBytes - 1
      OBVIOUS
    <2>2. (k - 1) \div ScanBytes = 0 /\ (k - 1) % ScanBytes = k - 1
      BY <2>1, DivModOf
    <2> QED BY <2>2 DEF ByteAfter, NextId
  <1>3. ASSUME NEW k \in Nat \ {0} PROVE ByteAfter(n, k + ScanBytes) = ByteAfter(NextId(n), k)
    <2> DEFINE q == (k - 1) \div ScanBytes
               r == (k - 1) % ScanBytes
    <2>1. k - 1 \in Nat
      OBVIOUS
    <2>2. q \in Nat /\ r \in 0 .. ScanBytes - 1 /\ k - 1 = ScanBytes * q + r
      BY <2>1, DivMod
    <2> HIDE DEF q, r
    <2>3. k + ScanBytes - 1 = ScanBytes * (q + 1) + r /\ q + 1 \in Nat
      BY <2>2
    <2>4. (k + ScanBytes - 1) \div ScanBytes = q + 1 /\ (k + ScanBytes - 1) % ScanBytes = r
      BY <2>2, <2>3, DivModOf
    <2>5. (NextId(n) + (1 + q)) % IdMod = (n + 1 + (1 + q)) % IdMod
      <3>1. n + 1 \in Nat /\ 1 + q \in Nat
        BY <2>2
      <3> QED BY <3>1, ModPlus DEF NextId
    <2>6. n + 1 + (q + 1) = n + 1 + (1 + q) /\ NextId(n) + 1 + q = NextId(n) + (1 + q)
      BY <1>1, <2>2
    <2> QED BY <2>4, <2>5, <2>6 DEF ByteAfter, q, r
  <1> QED BY <1>1, <1>2, <1>3

\* A scan that is cut off what follows scan n is the next one.
LEMMA ScanCutOff ==
    ASSUME NEW n \in Ids, NEW f \in Seq(Bytes), NEW t \in Seq(Bytes), Len(f) = ScanBytes,
           Follows(f \o t, n)
    PROVE  f = Scan(NextId(n)) /\ Follows(t, NextId(n))
  <1> USE NamesExist
  <1> DEFINE s == f \o t
  <1>1. /\ DOMAIN s = 1 .. ScanBytes + Len(t) /\ Len(t) \in Nat
        /\ \A k \in 1 .. ScanBytes : s[k] = f[k]
        /\ \A k \in 1 .. Len(t) : s[k + ScanBytes] = t[k]
    OBVIOUS
  <1>2. \A k \in DOMAIN s : s[k] = ByteAfter(n, k)
    BY DEF Follows
  <1> HIDE DEF s
  <1>3. f = Scan(NextId(n))
    <2>1. \A k \in 1 .. ScanBytes : f[k] = <<NextId(n), k>>
      <3> TAKE k \in 1 .. ScanBytes
      <3>1. k \in DOMAIN s
        BY <1>1
      <3> QED BY <1>1, <1>2, <3>1, NextScanFirst
    <2>2. f = [k \in 1 .. ScanBytes |-> f[k]]
      OBVIOUS
    <2> QED BY <2>1, <2>2 DEF Scan
  <1>4. \A k \in 1 .. Len(t) : t[k] = ByteAfter(NextId(n), k)
    <2> TAKE k \in 1 .. Len(t)
    <2>1. k \in Nat \ {0} /\ k + ScanBytes \in DOMAIN s
      BY <1>1
    <2>2. t[k] = ByteAfter(n, k + ScanBytes)
      BY <1>1, <1>2, <2>1
    <2> QED BY <2>1, <2>2, NextScanFirst
  <1> QED BY <1>3, <1>4 DEF Follows

\* Where m scans follow scan n, so does the scan that is pushed next.
LEMMA ScanAppended ==
    ASSUME NEW n \in Ids, NEW m \in Nat, NEW s, Follows(s, n), Len(s) = m * ScanBytes
    PROVE  Follows(s \o Scan(NextId((n + m) % IdMod)), n)
  <1> USE NamesExist
  <1> DEFINE id == NextId((n + m) % IdMod)
  <1>1. n + m \in Nat /\ n + m + 1 \in Nat
    BY DEF Ids
  <1>2. id = (n + m + 1) % IdMod
    BY <1>1, ModPlus DEF NextId
  <1>3. id \in Ids
    BY <1>1, <1>2, DivMod DEF Ids
  <1> HIDE DEF id
  <1>4. Scan(id) \in Seq(Bytes) /\ Len(Scan(id)) = ScanBytes
        /\ \A k \in 1 .. ScanBytes : Scan(id)[k] = <<id, k>>
    BY <1>3 DEF Scan, Bytes, Ids
  <1>5. s \in Seq(Bytes) /\ \A k \in DOMAIN s : s[k] = ByteAfter(n, k)
    BY DEF Follows
  <1>6. ASSUME NEW k \in 1 .. ScanBytes PROVE ByteAfter(n, Len(s) + k) = <<id, k>>
    <2>1. Len(s) + k - 1 = ScanBytes * m + (k - 1) /\ k - 1 \in 0 .. ScanBytes - 1
      OBVIOUS
    <2>2. (Len(s) + k - 1) \div ScanBytes = m /\ (Len(s) + k - 1) % ScanBytes = k - 1
      BY <2>1, DivModOf
    <2>3. n + 1 + m = n + m + 1 /\ (k - 1) + 1 = k
      BY DEF Ids
    <2> QED BY <1>2, <2>2, <2>3 DEF ByteAfter
  <1> DEFINE c == Scan(id)
             t == s \o c
  <1>7. /\ t \in Seq(Bytes) /\ DOMAIN t = 1 .. Len(s) + ScanBytes /\ Len(s) \in Nat
        /\ \A k \in 1 .. Len(s) : t[k] = s[k]
        /\ \A k \in 1 .. ScanBytes : t[Len(s) + k] = c[k]
    <2>1. c \in Seq(Bytes) /\ Len(c) = ScanBytes
      BY <1>4
    <2> HIDE DEF c
    <2>2. /\ t \in Seq(Bytes) /\ DOMAIN t = 1 .. Len(s) + Len(c) /\ Len(s) \in Nat
          /\ \A k \in 1 .. Len(s) : t[k] = s[k]
          /\ \A k \in 1 .. Len(c) : t[Len(s) + k] = c[k]
      <3>1. s \in Seq(Bytes) /\ c \in Seq(Bytes)
        BY <1>5, <2>1
      <3> QED BY ONLY <3>1, Joined DEF t
    <2> QED BY <2>1, <2>2
  <1> HIDE DEF t
  <1>8. ASSUME NEW k \in DOMAIN t PROVE t[k] = ByteAfter(n, k)
    <2>1. CASE k <= Len(s)
      BY <1>5, <1>7, <2>1
    <2>2. CASE k > Len(s)
      <3>1. k - Len(s) \in 1 .. ScanBytes /\ Len(s) + (k - Len(s)) = k
        BY <1>7, <2>2
      <3> QED BY <1>4, <1>6, <1>7, <3>1 DEF c
    <2> QED BY <1>7, <2>1, <2>2
  <1> QED BY <1>7, <1>8 DEF Follows, t, c, id

\* A sequence is made up of any two parts that it is cut into.
LEMMA Cut ==
    ASSUME NEW S, NEW s \in Seq(S), NEW n \in 0 .. Len(s)
    PROVE  /\ SubSeq(s, 1, n) \in Seq(S) /\ Len(SubSeq(s, 1, n)) = n
           /\ SubSeq(s, n + 1, Len(s)) \in Seq(S)
           /\ Len(SubSeq(s, n + 1, Len(s))) = Len(s) - n
           /\ SubSeq(s, 1, n) \o SubSeq(s, n + 1, Len(s)) = s
  <1>1. SubSeq(s, 1, n) \in Seq(S) /\ Len(SubSeq(s, 1, n)) = n
    OBVIOUS
  <1>2. SubSeq(s, n + 1, Len(s)) \in Seq(S) /\ Len(SubSeq(s, n + 1, Len(s))) = Len(s) - n
    OBVIOUS
  <1>3. SubSeq(s, 1, n) \o SubSeq(s, n + 1, Len(s)) = SubSeq(s, 1, Len(s))
    <2>1. 1 \in 1 .. Len(s) + 1 /\ n \in 1 - 1 .. Len(s) /\ Len(s) \in n .. Len(s)
      OBVIOUS
    <2> QED BY <2>1, ConcatAdjacentSubSeq
  <1>4. SubSeq(s, 1, Len(s)) = s
    BY SubSeqFull
  <1> QED BY <1>1, <1>2, <1>3, <1>4

-----------------------------------------------------------------------------
(* What a tool has been given is written or under way.                     *)

\* The scan written last.
LastId == written[1][1]

UnderWay == carry \o read_buf \o kfifo

\* The bytes s are whole scans, those after scan n up to scan p.
ScansBetween(s, n, p) ==
    Follows(s, n) /\ \E m \in Nat : Len(s) = m * ScanBytes /\ p = (n + m) % IdMod

\* Between two actions of a loop: types, and how much is held where.
TypeInv ==
    /\ tool \in {"c", "cpp"} /\ wait_mode \in {"poll", "epoll"}
    /\ kfifo \in Seq(Bytes) /\ Len(kfifo) <= KfifoLen * ScanBytes
    /\ pushed \in Ids /\ ready \in BOOLEAN /\ gone \in BOOLEAN
    /\ pc \in {"start", "read", "carry", "parse", "again", "loop", "wait", "out", "exit"}
    /\ read_buf \in Seq(Bytes) /\ Len(read_buf) <= ReadBytes
    /\ carry \in Seq(Bytes)
    /\ LastId \in Ids /\ written = Scan(LastId)
    /\ g_stop \in BOOLEAN /\ expired \in BOOLEAN 
    /\ frames \in Nat /\ (MaxFrames > 0 \/ frames <= 1)

\* The C tool has either a carry to parse or a read; it carries less than a scan.
CarryInv ==
    tool = "c" =>
        /\ Len(carry) < ScanBytes
        /\ pc \notin {"carry", "parse"} => read_buf = <<>>
        /\ pc = "parse" /\ carry # <<>> => read_buf = <<>>

\* The C++ tool reads into staging_, in which it leaves a scan only when it stops.
StagingInv ==
    tool = "cpp" =>
        /\ read_buf = <<>> /\ pc \notin {"carry", "again"}
        /\ ~should_stop /\ pc \in {"start", "loop", "wait", "read"} => Len(carry) < ScanBytes

\* A C tool that stops forgets the rest of its last read.
Forgets == tool = "c" /\ g_stop /\ pc \in {"again", "loop", "out", "exit"}

StreamInv == Forgets \/ ScansBetween(UnderWay, LastId, pushed)

SInv == TypeInv /\ CarryInv /\ StagingInv /\ StreamInv

\* A line that is written is the scan after the line before.
Line == frames' # frames => written' = Scan(NextId(LastId))

-----------------------------------------------------------------------------
\* A scan's first byte names it.
LEMMA ScanNamed == \A n : Scan(n)[1][1] = n
  <1> TAKE n
  <1>1. 1 \in 1 .. ScanBytes
    BY NamesExist
  <1>2. Scan(n)[1] = <<n, 1>>
    BY <1>1 DEF Scan
  <1> QED BY <1>2

\* The scan at the head of what is under way is the next line.
LEMMA LineTaken ==
    ASSUME NEW f \in Seq(Bytes), NEW t \in Seq(Bytes), Len(f) = ScanBytes,
           ScansBetween(f \o t, LastId, pushed), LastId \in Ids, written' = f
    PROVE  /\ written' = Scan(NextId(LastId)) /\ LastId' = NextId(LastId) /\ LastId' \in Ids
           /\ written' = Scan(LastId') /\ ScansBetween(t, LastId', pushed)
  <1>1. f = Scan(NextId(LastId)) /\ Follows(t, NextId(LastId))
    BY ScanCutOff DEF ScansBetween
  <1>2. LastId' = NextId(LastId)
    BY <1>1, ScanNamed DEF LastId
  <1>3. NextId(LastId) \in Ids
    BY NextScanFirst
  <1>4. PICK m \in Nat : Len(f \o t) = m * ScanBytes /\ pushed = (LastId + m) % IdMod
    BY DEF ScansBetween
  <1> DEFINE n == LastId
  <1>5. n \in Nat
    BY DEF Ids
  <1>6. Len(t) \in Nat /\ ScanBytes + Len(t) = m * ScanBytes
    <2>1. Len(f \o t) = Len(f) + Len(t) /\ Len(t) \in Nat
      OBVIOUS
    <2> QED BY <1>4, <2>1
  <1>7. m - 1 \in Nat
    <2>1. CASE m = 0
      BY <1>6, <2>1, NamesExist
    <2> QED BY <2>1
  <1>8. Len(t) = (m - 1) * ScanBytes
    BY <1>6, <1>7, NamesExist
  <1>9. pushed = (NextId(n) + (m - 1)) % IdMod
    <2>1. n + 1 \in Nat /\ n + 1 + (m - 1) = n + m
      BY <1>5
    <2>2. (((n + 1) % IdMod) + (m - 1)) % IdMod = (n + 1 + (m - 1)) % IdMod
      BY <1>7, <2>1, ModPlus, NamesExist
    <2> QED BY <1>4, <2>1, <2>2 DEF NextId
  <1> QED BY <1>1, <1>2, <1>3, <1>7, <1>8, <1>9 DEF ScansBetween

\* A tool starts with nothing.
LEMMA StreamInit == Init => SInv
  <1> SUFFICES ASSUME Init PROVE SInv
    OBVIOUS
  <1>1. LastId = 0 /\ 0 \in Ids
    BY ScanNamed, NamesExist DEF Init, LastId, Ids
  <1>2. UnderWay = <<>> /\ <<>> \in Seq(Bytes) /\ Len(<<>>) = 0
    BY DEF Init, UnderWay
  <1>3. ScansBetween(<<>>, 0, 0)
    <2>1. Follows(<<>>, 0)
      BY DEF Follows
    <2>2. 0 = IdMod * 0 + 0 /\ 0 \in 0 .. IdMod - 1 /\ 0 = 0 * ScanBytes
      BY NamesExist
    <2>3. 0 % IdMod = 0
      BY <2>2, DivModOf, NamesExist
    <2> QED BY <2>1, <2>2, <2>3 DEF ScansBetween
  <1>4. TypeInv
    <2>1. KfifoLen * ScanBytes \in Nat
      BY ReaderAssumption
    <2>2. kfifo = <<>> /\ Len(kfifo) <= KfifoLen * ScanBytes
      BY <1>2, <2>1 DEF Init
    <2>3. LastId \in Ids /\ written = Scan(LastId) /\ pushed \in Ids
      BY <1>1 DEF Init
    <2>4. tool \in {"c", "cpp"} /\ wait_mode \in {"poll", "epoll"} /\ pc = "start"
          /\ ready \in BOOLEAN /\ gone \in BOOLEAN /\ g_stop \in BOOLEAN /\ expired \in BOOLEAN
      BY DEF Init
    <2>6. frames \in Nat /\ frames <= 1
      BY DEF Init
    <2>5. /\ kfifo \in Seq(Bytes) /\ carry \in Seq(Bytes) /\ read_buf \in Seq(Bytes)
          /\ Len(read_buf) <= ReadBytes
      BY <1>2, NamesExist DEF Init
    <2> QED BY <2>2, <2>3, <2>4, <2>5, <2>6 DEF TypeInv
  <1> QED BY <1>1, <1>2, <1>3, <1>4, NamesExist
          DEF Init, SInv, CarryInv, StagingInv, StreamInv

\* Where nothing is read, written or pushed, the stream stays as it is.
LEMMA StreamStays ==
    ASSUME StreamInv, UNCHANGED <<carry, read_buf, kfifo, pushed, written>>, Forgets => Forgets'
    PROVE  StreamInv'
  BY DEF StreamInv, UnderWay, LastId

\* The kernel, the user, the clock and a wakeup.
LEMMA OutsideKeepsStream ==
    SInv /\ (KernelStep \/ Wakeup \/ Exit \/ Exited) => SInv' /\ Line
  <1> SUFFICES ASSUME SInv, KernelStep \/ Wakeup \/ Exit \/ Exited PROVE SInv' /\ Line
    OBVIOUS
  <1>1. TypeInv /\ CarryInv /\ StagingInv /\ StreamInv
    BY DEF SInv
  <1> USE DEF device, program, output
  <1>2. CASE DriverPush
    <2>1. /\ pushed' = NextId(pushed) /\ kfifo' = kfifo \o Scan(pushed')
          /\ Len(kfifo) + ScanBytes <= KfifoLen * ScanBytes
          /\ UNCHANGED <<tool, wait_mode, gone, pc, read_buf, carry, frames, written, g_stop,
                         expired>>
      BY <1>2 DEF DriverPush
    <2>2. pushed' \in Ids /\ ready' \in BOOLEAN
      BY <1>1, <1>2, <2>1, NextScanFirst DEF TypeInv, DriverPush, Wake
    <2>3. Scan(pushed') \in Seq(Bytes) /\ Len(Scan(pushed')) = ScanBytes
      BY <2>2, NamesExist DEF Scan, Bytes, Ids
    <2>4. kfifo' \in Seq(Bytes) /\ Len(kfifo') = Len(kfifo) + ScanBytes
      <3>1. kfifo \in Seq(Bytes)
        BY <1>1 DEF TypeInv
      <3> QED BY <2>1, <2>3, <3>1, Joined
    <2>5. TypeInv'
      BY <1>1, <2>1, <2>2, <2>4 DEF TypeInv, LastId
    <2>6. StreamInv'
      <3>1. CASE Forgets
        BY <2>1, <3>1 DEF Forgets, StreamInv
      <3>2. CASE ScansBetween(UnderWay, LastId, pushed)
        <4>1. LastId \in Ids /\ LastId' = LastId
          BY <1>1, <2>1 DEF TypeInv, LastId
        <4>2. PICK m \in Nat : Len(UnderWay) = m * ScanBytes /\ pushed = (LastId + m) % IdMod
          BY <3>2 DEF ScansBetween
        <4>3. Follows(UnderWay, LastId)
          BY <3>2 DEF ScansBetween
        <4>4. UnderWay' = UnderWay \o Scan(pushed')
          <5> DEFINE held == carry \o read_buf
                     scan == Scan(pushed')
          <5>1. held \in Seq(Bytes) /\ kfifo \in Seq(Bytes) /\ scan \in Seq(Bytes)
            BY <1>1, <2>3, Joined DEF TypeInv
          <5> HIDE DEF held, scan
          <5>2. (held \o kfifo) \o scan = held \o (kfifo \o scan)
            BY <5>1, ConcatAssociative
          <5> QED BY <2>1, <5>2 DEF UnderWay, held, scan
        <4>5. Follows(UnderWay', LastId)
          BY <2>1, <4>1, <4>2, <4>3, <4>4, ScanAppended
        <4>6. Len(UnderWay') = (m + 1) * ScanBytes
          <5>1. UnderWay \in Seq(Bytes)
            BY <4>3 DEF Follows
          <5>2. Len(UnderWay') = Len(UnderWay) + ScanBytes
            BY <2>3, <4>4, <5>1, Joined
          <5> QED BY <4>2, <5>2, NamesExist
        <4>7. pushed' = (LastId + (m + 1)) % IdMod
          <5>1. LastId + m \in Nat /\ LastId + m + 1 = LastId + (m + 1)
            BY <4>1 DEF Ids
          <5>2. pushed' = (LastId + m + 1) % IdMod
            BY <2>1, <4>2, <5>1, ModPlus, NamesExist DEF NextId
          <5> QED BY <5>1, <5>2
        <4>8. m + 1 \in Nat
          OBVIOUS
        <4> QED BY <4>1, <4>5, <4>6, <4>7, <4>8 DEF StreamInv, ScansBetween
      <3> QED BY <1>1, <3>1, <3>2 DEF StreamInv
    <2>7. CarryInv' /\ StagingInv'
      BY <1>1, <2>1 DEF CarryInv, StagingInv, should_stop, LimitReached
    <2> QED BY <2>1, <2>5, <2>6, <2>7 DEF SInv, Line
  <1>3. CASE DriverRemoved \/ Signal \/ DurationExpires \/ FalseWakeup \/ Wakeup \/ Exit \/ Exited
    <2>1. /\ UNCHANGED <<tool, wait_mode, kfifo, pushed, read_buf, carry, frames, written>>
          /\ ready' \in BOOLEAN /\ gone' \in BOOLEAN
          /\ (g_stop \/ expired) => (g_stop \/ expired)' /\ (g_stop => g_stop')
          /\ g_stop' \in BOOLEAN /\ expired' \in BOOLEAN
          /\ \/ pc' = pc
             \/ pc = "wait" /\ pc' = "read"
             \/ pc = "out" /\ pc' = "exit"
      <3> USE <1>1 DEF TypeInv
      <3>1. CASE DriverRemoved
        BY <3>1 DEF DriverRemoved, Wake
      <3>2. CASE Signal
        BY <3>2 DEF Signal
      <3>3. CASE DurationExpires
        BY <3>3 DEF DurationExpires
      <3>4. CASE FalseWakeup
        BY <3>4 DEF FalseWakeup
      <3>5. CASE Wakeup
        BY <3>5 DEF Wakeup
      <3>6. CASE Exit
        BY <3>6 DEF Exit
      <3>7. CASE Exited
        BY <3>7 DEF Exited, vars
      <3> QED BY <1>3, <3>1, <3>2, <3>3, <3>4, <3>5, <3>6, <3>7
    <2>2. TypeInv'
      BY <1>1, <2>1 DEF TypeInv, LastId
    <2>3. CarryInv' /\ StagingInv'
      BY <1>1, <2>1 DEF CarryInv, StagingInv, should_stop, LimitReached
    <2>4. StreamInv'
      BY <1>1, <2>1, StreamStays DEF Forgets
    <2> QED BY <2>1, <2>2, <2>3, <2>4 DEF SInv, Line
  <1> QED BY <1>2, <1>3 DEF KernelStep

\* What read returns, and what it leaves.
LEMMA BytesTaken ==
    ASSUME NEW taken, TypeInv, TakeBytes(taken)
    PROVE  /\ taken \in Seq(Bytes) /\ Len(taken) <= ReadBytes
           /\ kfifo' \in Seq(Bytes) /\ Len(kfifo') <= KfifoLen * ScanBytes
           /\ taken \o kfifo' = kfifo
  <1>1. PICK n \in ReadSizes : taken = SubSeq(kfifo, 1, n)
                               /\ kfifo' = SubSeq(kfifo, n + 1, Len(kfifo))
    BY DEF TakeBytes
  <1>2. kfifo \in Seq(Bytes) /\ Len(kfifo) \in Nat /\ Len(kfifo) <= KfifoLen * ScanBytes
    BY DEF TypeInv
  <1> DEFINE most == IF Len(kfifo) < ReadBytes THEN Len(kfifo) ELSE ReadBytes
  <1>3. most \in 0 .. Len(kfifo) /\ most <= ReadBytes
    BY <1>2, NamesExist
  <1>4. n \in 0 .. most
    <2>1. most % ScanBytes \in 0 .. most
      <3>1. most \in Nat
        BY <1>3
      <3> HIDE DEF most
      <3> QED BY <3>1, ModAtMost, NamesExist
    <2>2. n \in 1 .. most \/ n = most - (most % ScanBytes)
      BY DEF ReadSizes
    <2> HIDE DEF most
    <2> QED BY <1>3, <2>1, <2>2
  <1> HIDE DEF most
  <1>5. n \in 0 .. Len(kfifo) /\ n <= ReadBytes
    BY <1>2, <1>3, <1>4, NamesExist
  <1>6. Len(taken) = n /\ Len(kfifo') = Len(kfifo) - n
    BY <1>1, <1>2, <1>5, Cut
  <1>7. KfifoLen * ScanBytes \in Nat
    BY ReaderAssumption
  <1>8. taken \in Seq(Bytes) /\ kfifo' \in Seq(Bytes) /\ taken \o kfifo' = kfifo
    BY <1>1, <1>2, <1>5, Cut
  <1>9. Len(taken) <= ReadBytes
    BY <1>5, <1>6
  <1>10. Len(kfifo') <= KfifoLen * ScanBytes
    <2> DEFINE most_held == KfifoLen * ScanBytes
    <2>1. most_held \in Nat /\ Len(kfifo) <= most_held
      BY <1>2, <1>7
    <2> HIDE DEF most_held
    <2>2. Len(kfifo') <= most_held
      BY <1>2, <1>5, <1>6, <2>1
    <2> QED BY <2>2 DEF most_held
  <1> QED BY <1>8, <1>9, <1>10

\* A line is counted, or the count of lines changes sides.
LEMMA FrameCounts ==
    ASSUME NEW f, ProcessFrame(f), frames \in Nat, MaxFrames > 0 \/ frames <= 1
    PROVE  frames' \in Nat /\ (MaxFrames > 0 \/ frames' <= 1)
  BY DEF ProcessFrame

\* Bytes move within what is under way: three parts, however they are joined.
LEMMA Moved ==
    ASSUME NEW a \in Seq(Bytes), NEW b \in Seq(Bytes), NEW c \in Seq(Bytes)
    PROVE  /\ (a \o b) \o c = a \o (b \o c)
           /\ (a \o b) \o c \in Seq(Bytes) /\ b \o c \in Seq(Bytes)
           /\ (a \o <<>>) \o c = a \o c /\ (<<>> \o a) \o c = a \o c
  BY ConcatAssociative, ConcatEmptySeq, ConcatProperties

\* The steps of the C tool that only look where to go.
LEMMA CLooks ==
    SInv /\ tool = "c" /\ (Start \/ ReadEmpty \/ ReadFails \/ ReadAgain \/ LoopTest \/ WaitEnds)
      => SInv' /\ Line
  <1> SUFFICES ASSUME SInv, tool = "c",
                      Start \/ ReadEmpty \/ ReadFails \/ ReadAgain \/ LoopTest \/ WaitEnds
               PROVE  SInv' /\ Line
    OBVIOUS
  <1>1. TypeInv /\ CarryInv /\ StreamInv
    BY DEF SInv
  <1>2. /\ UNCHANGED <<tool, wait_mode, kfifo, pushed, gone, read_buf, carry, frames, written,
                       expired>>
        /\ ready' \in BOOLEAN /\ g_stop' \in BOOLEAN
        /\ pc \notin {"carry", "parse"} /\ pc' \in {"read", "loop", "out", "wait"}
        /\ Forgets => Forgets'
    <2> USE <1>1 DEF TypeInv, device, program, output, Forgets
    <2>1. CASE Start
      BY <2>1 DEF Start
    <2>2. CASE ReadEmpty \/ ReadFails
      BY <2>2 DEF ReadEmpty, ReadFails
    <2>3. CASE ReadAgain
      BY <2>3 DEF ReadAgain
    <2>4. CASE LoopTest \/ WaitEnds
      BY <2>4 DEF LoopTest, WaitEnds
    <2> QED BY <2>1, <2>2, <2>3, <2>4
  <1>3. TypeInv'
    BY <1>1, <1>2 DEF TypeInv, LastId
  <1>4. CarryInv' /\ StagingInv'
    BY <1>1, <1>2 DEF CarryInv, StagingInv
  <1>5. StreamInv'
    BY <1>1, <1>2, StreamStays
  <1> QED BY <1>2, <1>3, <1>4, <1>5 DEF SInv, Line

\* A read moves bytes from the kfifo to the read buffer.
LEMMA CReads == SInv /\ tool = "c" /\ Read => SInv' /\ Line
  <1> SUFFICES ASSUME SInv, tool = "c", Read PROVE SInv' /\ Line
    OBVIOUS
  <1>1. TypeInv /\ CarryInv /\ StreamInv
    BY DEF SInv
  <1>2. /\ UNCHANGED <<tool, wait_mode, pushed, gone, ready, carry, frames, written, g_stop, expired>>
        /\ TakeBytes(read_buf') /\ pc = "read"
        /\ pc' = IF carry # <<>> THEN "carry" ELSE "parse"
    BY DEF Read, program, output
  <1>3. /\ read_buf' \in Seq(Bytes) /\ Len(read_buf') <= ReadBytes
        /\ kfifo' \in Seq(Bytes) /\ Len(kfifo') <= KfifoLen * ScanBytes
        /\ read_buf' \o kfifo' = kfifo
    BY <1>1, <1>2, BytesTaken
  <1>4. TypeInv'
    <2>1. LastId' = LastId
      BY <1>2 DEF LastId
    <2> QED BY <1>1, <1>2, <1>3, <2>1 DEF TypeInv
  <1>5. CarryInv' /\ StagingInv'
    BY <1>1, <1>2 DEF CarryInv, StagingInv
  <1>6. StreamInv'
    <2>1. carry \in Seq(Bytes) /\ read_buf = <<>> /\ kfifo \in Seq(Bytes)
      BY <1>1, <1>2 DEF TypeInv, CarryInv
    <2>2. UnderWay = carry \o kfifo
      BY <2>1, Moved DEF UnderWay
    <2>3. UnderWay' = carry \o kfifo
      <3>1. (carry \o read_buf') \o kfifo' = carry \o (read_buf' \o kfifo')
        <4>1. carry \in Seq(Bytes) /\ read_buf' \in Seq(Bytes) /\ kfifo' \in Seq(Bytes)
          BY <1>3, <2>1
        <4> QED BY ONLY <4>1, Moved
      <3> QED BY <1>2, <1>3, <3>1 DEF UnderWay
    <2>4. ~Forgets
      BY <1>2 DEF Forgets
    <2> QED BY <1>1, <1>2, <2>2, <2>3, <2>4 DEF StreamInv, LastId
  <1> QED BY <1>2, <1>4, <1>5, <1>6 DEF SInv, Line

\* The start of a read fills up the carry.
LEMMA CFills == SInv /\ tool = "c" /\ FillCarry => SInv' /\ Line
  <1> SUFFICES ASSUME SInv, tool = "c", FillCarry PROVE SInv' /\ Line
    OBVIOUS
  <1>1. TypeInv /\ CarryInv /\ StreamInv
    BY DEF SInv
  <1> DEFINE head == SubSeq(read_buf, 1, Take)
             rest == SubSeq(read_buf, Take + 1, Len(read_buf))
             full == carry \o head
  <1>2. /\ UNCHANGED <<tool, wait_mode, kfifo, pushed, gone, ready, expired>>
        /\ pc = "carry" /\ pc' = "parse" /\ read_buf' = rest
        /\ \/ Len(full) = ScanBytes /\ ProcessFrame(full) /\ carry' = <<>>
           \/ Len(full) < ScanBytes /\ carry' = full /\ UNCHANGED <<frames, written, g_stop>>
    BY DEF FillCarry, FillWith, Filled, device, program, output
  <1>3. carry \in Seq(Bytes) /\ read_buf \in Seq(Bytes) /\ kfifo \in Seq(Bytes)
        /\ Len(carry) < ScanBytes /\ Len(carry) \in Nat /\ Len(read_buf) \in Nat
        /\ Len(read_buf) <= ReadBytes
    BY <1>1 DEF TypeInv, CarryInv
  <1>4. Take \in 0 .. Len(read_buf)
        /\ (Take = Len(read_buf) \/ Take = ScanBytes - Len(carry))
    BY <1>3, NamesExist DEF Take
  <1>5. /\ head \in Seq(Bytes) /\ rest \in Seq(Bytes) /\ head \o rest = read_buf
        /\ Len(head) = Take /\ Len(rest) = Len(read_buf) - Take
    BY <1>3, <1>4, Cut
  <1> HIDE DEF head, rest
  <1>6. full \in Seq(Bytes) /\ Len(full) = Len(carry) + Take /\ carry \o read_buf = full \o rest
    <2>1. (carry \o head) \o rest = carry \o (head \o rest)
      <3>1. carry \in Seq(Bytes) /\ head \in Seq(Bytes) /\ rest \in Seq(Bytes)
        BY <1>3, <1>5
      <3> QED BY ONLY <3>1, Moved
    <2> QED BY <1>3, <1>5, <2>1, Joined
  <1> HIDE DEF full
  <1>7. UnderWay = full \o (rest \o kfifo) /\ rest \o kfifo \in Seq(Bytes)
    <2>1. full \in Seq(Bytes) /\ rest \in Seq(Bytes) /\ kfifo \in Seq(Bytes)
      BY <1>3, <1>5, <1>6
    <2>2. (full \o rest) \o kfifo = full \o (rest \o kfifo) /\ rest \o kfifo \in Seq(Bytes)
      BY ONLY <2>1, Moved
    <2> QED BY <1>6, <2>2 DEF UnderWay
  <1>8. ScansBetween(UnderWay, LastId, pushed) /\ LastId \in Ids
    BY <1>1, <1>2 DEF StreamInv, Forgets, TypeInv
  <1>9. /\ Len(rest) <= ReadBytes
    BY <1>3, <1>4, <1>5, NamesExist
  <1>10. CASE Len(full) = ScanBytes /\ ProcessFrame(full) /\ carry' = <<>>
    <2>1. /\ written' = full /\ g_stop' \in BOOLEAN
          /\ frames' \in Nat /\ (MaxFrames > 0 \/ frames' <= 1)
      <3>1. written' = full /\ g_stop' \in BOOLEAN
        BY <1>1, <1>10 DEF ProcessFrame, TypeInv
      <3>2. frames' \in Nat /\ (MaxFrames > 0 \/ frames' <= 1)
        BY <1>1, <1>10, FrameCounts DEF TypeInv
      <3> QED BY <3>1, <3>2
    <2>2. /\ written' = Scan(NextId(LastId)) /\ LastId' \in Ids /\ written' = Scan(LastId')
          /\ ScansBetween(rest \o kfifo, LastId', pushed)
      BY <1>6, <1>7, <1>8, <1>10, <2>1, LineTaken
    <2>3. TypeInv'
      BY <1>1, <1>2, <1>5, <1>9, <1>10, <2>1, <2>2 DEF TypeInv
    <2>4. CarryInv' /\ StagingInv'
      BY <1>2, <1>10, NamesExist DEF CarryInv, StagingInv
    <2>5. StreamInv'
      <3>1. UnderWay' = rest \o kfifo
        BY <1>2, <1>3, <1>5, <1>10, Moved DEF UnderWay
      <3> QED BY <1>2, <2>2, <3>1 DEF StreamInv
    <2> QED BY <2>2, <2>3, <2>4, <2>5 DEF SInv, Line
  <1>11. CASE Len(full) < ScanBytes /\ carry' = full /\ UNCHANGED <<frames, written, g_stop>>
    <2>1. rest = <<>>
      <3>1. Len(rest) = 0
        BY <1>3, <1>4, <1>5, <1>6, <1>11, NamesExist
      <3> QED BY <1>5, <3>1
    <2>2. TypeInv'
      <3>1. LastId' = LastId
        BY <1>11 DEF LastId
      <3> QED BY <1>1, <1>2, <1>5, <1>6, <1>9, <1>11, <3>1 DEF TypeInv
    <2>3. CarryInv' /\ StagingInv'
      BY <1>2, <1>11, <2>1 DEF CarryInv, StagingInv
    <2>4. StreamInv'
      <3>1. UnderWay' = UnderWay
        BY <1>2, <1>6, <1>11 DEF UnderWay
      <3> QED BY <1>2, <1>8, <1>11, <3>1 DEF StreamInv, LastId
    <2> QED BY <1>11, <2>2, <2>3, <2>4 DEF SInv, Line
  <1> QED BY <1>2, <1>10, <1>11

\* A scan of the read buffer is written.
LEMMA CParses == SInv /\ tool = "c" /\ ParseFrame => SInv' /\ Line
  <1> SUFFICES ASSUME SInv, tool = "c", ParseFrame PROVE SInv' /\ Line
    OBVIOUS
  <1>1. TypeInv /\ CarryInv /\ StreamInv
    BY DEF SInv
  <1> DEFINE f == SubSeq(read_buf, 1, ScanBytes)
             rest == SubSeq(read_buf, ScanBytes + 1, Len(read_buf))
  <1>2. /\ UNCHANGED <<tool, wait_mode, kfifo, pushed, gone, ready, pc, carry, expired>>
        /\ pc = "parse" /\ Len(read_buf) >= ScanBytes /\ read_buf' = rest /\ ProcessFrame(f)
    BY DEF ParseFrame, device, program
  <1>3. /\ carry \in Seq(Bytes) /\ read_buf \in Seq(Bytes) /\ kfifo \in Seq(Bytes)
        /\ Len(read_buf) \in Nat /\ Len(read_buf) <= ReadBytes
    BY <1>1 DEF TypeInv
  <1>4. carry = <<>>
    <2>1. read_buf # <<>>
      BY <1>2, NamesExist
    <2> QED BY <1>1, <1>2, <2>1 DEF CarryInv
  <1>5. /\ f \in Seq(Bytes) /\ rest \in Seq(Bytes) /\ f \o rest = read_buf
        /\ Len(f) = ScanBytes /\ Len(rest) = Len(read_buf) - ScanBytes
    <2>1. ScanBytes \in 0 .. Len(read_buf)
      BY <1>2, <1>3, NamesExist
    <2> QED BY <1>3, <2>1, Cut
  <1> HIDE DEF f, rest
  <1>6. UnderWay = f \o (rest \o kfifo) /\ rest \o kfifo \in Seq(Bytes)
    <2>1. (f \o rest) \o kfifo = f \o (rest \o kfifo) /\ rest \o kfifo \in Seq(Bytes)
      <3>1. f \in Seq(Bytes) /\ rest \in Seq(Bytes) /\ kfifo \in Seq(Bytes)
        BY <1>3, <1>5
      <3> QED BY ONLY <3>1, Moved
    <2>2. UnderWay = read_buf \o kfifo
      BY <1>3, <1>4, Moved DEF UnderWay
    <2> QED BY <1>5, <2>1, <2>2
  <1>7. ScansBetween(UnderWay, LastId, pushed) /\ LastId \in Ids
    BY <1>1, <1>2 DEF StreamInv, Forgets, TypeInv
  <1>8. written' = f /\ g_stop' \in BOOLEAN
    BY <1>1, <1>2 DEF ProcessFrame, TypeInv
  <1>9. frames' \in Nat /\ (MaxFrames > 0 \/ frames' <= 1)
    BY <1>1, <1>2, FrameCounts DEF TypeInv
  <1>10. /\ written' = Scan(NextId(LastId)) /\ LastId' \in Ids /\ written' = Scan(LastId')
         /\ ScansBetween(rest \o kfifo, LastId', pushed)
    BY <1>5, <1>6, <1>7, <1>8, LineTaken
  <1>11. Len(rest) <= ReadBytes
    BY <1>3, <1>5, NamesExist
  <1>12. TypeInv'
    BY <1>1, <1>2, <1>5, <1>8, <1>9, <1>10, <1>11 DEF TypeInv
  <1>13. CarryInv' /\ StagingInv'
    BY <1>1, <1>2, <1>4 DEF CarryInv, StagingInv
  <1>14. StreamInv'
    <2>1. UnderWay' = rest \o kfifo
      BY <1>2, <1>3, <1>4, <1>5, Moved DEF UnderWay
    <2> QED BY <1>2, <1>10, <2>1 DEF StreamInv
  <1> QED BY <1>10, <1>12, <1>13, <1>14 DEF SInv, Line

\* What is left of a read is carried over, unless the tool stops.
LEMMA CCarries == SInv /\ tool = "c" /\ ParseEnd => SInv' /\ Line
  <1> SUFFICES ASSUME SInv, tool = "c", ParseEnd PROVE SInv' /\ Line
    OBVIOUS
  <1>1. TypeInv /\ CarryInv /\ StreamInv
    BY DEF SInv
  <1>2. /\ UNCHANGED <<tool, wait_mode, kfifo, pushed, gone, ready, frames, written, g_stop,
                       expired>>
        /\ pc = "parse" /\ pc' = "again" /\ read_buf' = <<>>
        /\ g_stop \/ Len(read_buf) < ScanBytes
        /\ carry' = IF ~g_stop /\ read_buf # <<>> THEN read_buf ELSE carry
    BY DEF ParseEnd, device, program, output
  <1>3. /\ carry \in Seq(Bytes) /\ read_buf \in Seq(Bytes) /\ kfifo \in Seq(Bytes)
        /\ Len(<<>>) = 0 /\ <<>> \in Seq(Bytes)
    BY <1>1 DEF TypeInv
  <1>4. TypeInv'
    <2>1. LastId' = LastId
      BY <1>2 DEF LastId
    <2>2. Len(read_buf') <= ReadBytes
      BY <1>2, <1>3, NamesExist
    <2> QED BY <1>1, <1>2, <1>3, <2>1, <2>2 DEF TypeInv
  <1>5. CarryInv' /\ StagingInv'
    BY <1>1, <1>2 DEF CarryInv, StagingInv
  <1>6. CASE g_stop
    BY <1>1, <1>2, <1>4, <1>5, <1>6 DEF SInv, StreamInv, Forgets, Line
  <1>7. CASE ~g_stop
    <2>1. carry' \o read_buf' = carry \o read_buf
      <3>1. CASE read_buf = <<>>
        BY <1>2, <3>1
      <3>2. CASE read_buf # <<>>
        <4>1. carry = <<>> /\ carry' = read_buf
          BY <1>1, <1>2, <1>7, <3>2 DEF CarryInv
        <4> QED BY <1>2, <1>3, <4>1, ConcatEmptySeq
      <3> QED BY <3>1, <3>2
    <2>2. UnderWay' = UnderWay
      BY <1>2, <2>1 DEF UnderWay
    <2>3. StreamInv'
      BY <1>1, <1>2, <1>7, <2>2 DEF StreamInv, Forgets, LastId
    <2> QED BY <1>2, <1>4, <1>5, <2>3 DEF SInv, Line
  <1> QED BY <1>6, <1>7

\* The C tool's loop.
LEMMA CKeepsStream == SInv /\ tool = "c" /\ (CStep \/ WaitEnds) => SInv' /\ Line
  BY CLooks, CReads, CFills, CParses, CCarries DEF CStep

-----------------------------------------------------------------------------
\* The steps of the C++ tool that only look where to go.
LEMMA CppLooks ==
    SInv /\ tool = "cpp" /\ (CppStart \/ CppLoopTest \/ CppTimeout \/ CppInterrupted
                             \/ CppDrained \/ CppReadFails \/ CppParsed)
      => SInv' /\ Line
  <1> SUFFICES ASSUME SInv, tool = "cpp",
                      CppStart \/ CppLoopTest \/ CppTimeout \/ CppInterrupted
                        \/ CppDrained \/ CppReadFails \/ CppParsed
               PROVE  SInv' /\ Line
    OBVIOUS
  <1>1. TypeInv /\ StagingInv /\ StreamInv
    BY DEF SInv
  <1>2. /\ UNCHANGED <<tool, wait_mode, kfifo, pushed, gone, read_buf, carry, frames, written,
                       g_stop, expired>>
        /\ ready' \in BOOLEAN /\ pc' \in {"read", "loop", "out", "wait"}
        /\ pc \in {"start", "loop", "wait", "read"} \/ Len(carry) < ScanBytes
    <2> USE <1>1 DEF TypeInv, device, program, output
    <2>1. CASE CppStart
      BY <2>1 DEF CppStart
    <2>2. CASE CppLoopTest \/ CppTimeout \/ CppInterrupted
      BY <2>2 DEF CppLoopTest, CppTimeout, CppInterrupted
    <2>3. CASE CppDrained \/ CppReadFails \/ CppParsed
      BY <2>3 DEF CppDrained, CppReadFails, CppParsed
    <2> QED BY <2>1, <2>2, <2>3
  <1>3. TypeInv'
    BY <1>1, <1>2 DEF TypeInv, LastId
  <1>4. CarryInv' /\ StagingInv'
    BY <1>1, <1>2 DEF CarryInv, StagingInv, should_stop, LimitReached
  <1>5. StreamInv'
    BY <1>1, <1>2, StreamStays DEF Forgets
  <1> QED BY <1>2, <1>3, <1>4, <1>5 DEF SInv, Line

\* A read goes straight to staging_.
LEMMA CppReads == SInv /\ tool = "cpp" /\ CppRead => SInv' /\ Line
  <1> SUFFICES ASSUME SInv, tool = "cpp", CppRead PROVE SInv' /\ Line
    OBVIOUS
  <1>1. TypeInv /\ StagingInv /\ StreamInv
    BY DEF SInv
  <1>2. PICK taken : TakeBytes(taken) /\ carry' = carry \o taken
    BY DEF CppRead
  <1>3. /\ UNCHANGED <<tool, wait_mode, pushed, gone, ready, read_buf, frames, written, g_stop,
                       expired>>
        /\ pc = "read" /\ pc' = "parse"
    BY DEF CppRead, program, output
  <1>4. /\ taken \in Seq(Bytes) /\ taken \o kfifo' = kfifo
        /\ kfifo' \in Seq(Bytes) /\ Len(kfifo') <= KfifoLen * ScanBytes
    BY <1>1, <1>2, BytesTaken
  <1>5. carry \in Seq(Bytes) /\ kfifo \in Seq(Bytes) /\ read_buf = <<>>
    BY <1>1, <1>3 DEF TypeInv, StagingInv
  <1>6. TypeInv'
    <2>1. LastId' = LastId
      BY <1>3 DEF LastId
    <2>2. carry' \in Seq(Bytes)
      BY <1>2, <1>4, <1>5, Joined
    <2> QED BY <1>1, <1>3, <1>4, <2>1, <2>2 DEF TypeInv
  <1>7. CarryInv' /\ StagingInv'
    BY <1>1, <1>3 DEF CarryInv, StagingInv
  <1>8. StreamInv'
    <2>1. UnderWay = carry \o kfifo
      BY <1>5, Moved DEF UnderWay
    <2>2. (carry \o taken) \o kfifo' = carry \o (taken \o kfifo')
          /\ carry \o taken \in Seq(Bytes)
      <3>1. carry \in Seq(Bytes) /\ taken \in Seq(Bytes) /\ kfifo' \in Seq(Bytes)
        BY <1>4, <1>5
      <3> QED BY ONLY <3>1, Moved, Joined
    <2>3. UnderWay' = carry' \o kfifo'
      <3>1. carry' \in Seq(Bytes) /\ kfifo' \in Seq(Bytes) /\ read_buf' = <<>>
        BY <1>2, <1>3, <1>4, <1>5, <2>2
      <3> QED BY <3>1, ConcatEmptySeq DEF UnderWay
    <2>4. UnderWay' = UnderWay
      BY <1>2, <1>4, <2>1, <2>2, <2>3
    <2>5. ~Forgets
      BY <1>3 DEF Forgets
    <2> QED BY <1>1, <1>3, <2>4, <2>5 DEF StreamInv, LastId
  <1> QED BY <1>3, <1>6, <1>7, <1>8 DEF SInv, Line

\* A scan of staging_ is written.
LEMMA CppWrites == SInv /\ tool = "cpp" /\ CppFrame => SInv' /\ Line
  <1> SUFFICES ASSUME SInv, tool = "cpp", CppFrame PROVE SInv' /\ Line
    OBVIOUS
  <1>1. TypeInv /\ StagingInv /\ StreamInv
    BY DEF SInv
  <1> DEFINE f == SubSeq(carry, 1, ScanBytes)
             rest == SubSeq(carry, ScanBytes + 1, Len(carry))
  <1>2. /\ UNCHANGED <<tool, wait_mode, kfifo, pushed, gone, ready, read_buf, g_stop, expired>>
        /\ pc = "parse" /\ Len(carry) >= ScanBytes /\ carry' = rest /\ written' = f
        /\ frames' = IF MaxFrames > 0 THEN frames + 1 ELSE 1 - frames
        /\ pc' = IF should_stop' THEN "read" ELSE "parse"
    BY DEF CppFrame, device, program
  <1>3. /\ carry \in Seq(Bytes) /\ kfifo \in Seq(Bytes) /\ read_buf = <<>>
        /\ Len(carry) \in Nat
    BY <1>1 DEF TypeInv, StagingInv
  <1>4. /\ f \in Seq(Bytes) /\ rest \in Seq(Bytes) /\ f \o rest = carry /\ Len(f) = ScanBytes
    <2>1. ScanBytes \in 0 .. Len(carry)
      BY <1>2, <1>3, NamesExist
    <2> QED BY <1>3, <2>1, Cut
  <1> HIDE DEF f, rest
  <1>5. UnderWay = f \o (rest \o kfifo) /\ rest \o kfifo \in Seq(Bytes)
    <2>1. (f \o rest) \o kfifo = f \o (rest \o kfifo) /\ rest \o kfifo \in Seq(Bytes)
      <3>1. f \in Seq(Bytes) /\ rest \in Seq(Bytes) /\ kfifo \in Seq(Bytes)
        BY <1>3, <1>4
      <3> QED BY ONLY <3>1, Moved
    <2>2. UnderWay = carry \o kfifo
      BY <1>3, Moved DEF UnderWay
    <2> QED BY <1>4, <2>1, <2>2
  <1>6. ScansBetween(UnderWay, LastId, pushed) /\ LastId \in Ids
    BY <1>1, <1>2 DEF StreamInv, Forgets, TypeInv
  <1>7. frames' \in Nat /\ (MaxFrames > 0 \/ frames' <= 1)
    BY <1>1, <1>2 DEF TypeInv
  <1>8. /\ written' = Scan(NextId(LastId)) /\ LastId' \in Ids /\ written' = Scan(LastId')
        /\ ScansBetween(rest \o kfifo, LastId', pushed)
    BY <1>2, <1>4, <1>5, <1>6, LineTaken
  <1>9. TypeInv'
    BY <1>1, <1>2, <1>4, <1>7, <1>8 DEF TypeInv
  <1>10. CarryInv' /\ StagingInv'
    BY <1>1, <1>2 DEF CarryInv, StagingInv
  <1>11. StreamInv'
    <2>1. UnderWay' = rest \o kfifo
      BY <1>2, <1>3, <1>4, Moved DEF UnderWay
    <2> QED BY <1>2, <1>8, <2>1 DEF StreamInv
  <1> QED BY <1>8, <1>9, <1>10, <1>11 DEF SInv, Line

\* The C++ tool's loop.
LEMMA CppKeepsStream ==
    SInv /\ tool = "cpp" /\ (CppStep \/ CppTimeout \/ CppInterrupted) => SInv' /\ Line
  BY CppLooks, CppReads, CppWrites DEF CppStep

\* The stream is kept by every step, and every line is the next scan.
LEMMA StreamKept == SInv /\ [Next]_vars => SInv' /\ Line
  <1> SUFFICES ASSUME SInv, [Next]_vars PROVE SInv' /\ Line
    OBVIOUS
  <1>1. CASE UNCHANGED vars
    BY <1>1, OutsideKeepsStream DEF SInv, vars, device, program, output, TypeInv, CarryInv, StagingInv,
             StreamInv, Forgets, UnderWay, LastId, should_stop, LimitReached, Line
  <1>2. CASE Next
    BY <1>2, OutsideKeepsStream, CKeepsStream, CppKeepsStream DEF Next, ToolStep, WaitOver
  <1> QED BY <1>1, <1>2

LEMMA StreamInvariant == Spec => []SInv
  BY StreamInit, StreamKept, PTL DEF Spec

\* Every variable keeps its type, and a tool that reads carries less than a scan.
THEOREM ReadersTypeCorrect == Spec => []TypeOK
  <1>1. SInv => TypeOK
    <2> SUFFICES ASSUME SInv PROVE TypeOK
      OBVIOUS
    <2>1. TypeInv /\ CarryInv /\ StagingInv
      BY DEF SInv
    <2>2. written \in [1 .. ScanBytes -> Bytes]
      BY <2>1 DEF TypeInv, Scan, Bytes, Ids
    <2> QED BY <2>1, <2>2 DEF TypeOK, TypeInv, CarryInv, StagingInv, Ids
  <1> QED BY <1>1, StreamInvariant, PTL

\* However a read cuts the stream, what a tool that goes on took from the kfifo is
\* written, or held in order before what the kfifo holds.
THEOREM NothingIsForgotten == Spec => []NothingForgotten
  <1>1. SInv => NothingForgotten
    BY DEF SInv, StreamInv, Forgets, ScansBetween, Follows, ByteAfter, UnderWay, LastId,
           NothingForgotten
  <1> QED BY <1>1, StreamInvariant, PTL

\* Each line of the CSV is one whole scan and the one after the line before.
THEOREM LinesInOrder == Spec => LinesAreScans
  <1>1. SInv /\ [Next]_vars => [frames' # frames => written' = Scan(NextId(written[1][1]))]_output
    BY StreamKept DEF Line, LastId
  <1> QED BY <1>1, StreamInvariant, PTL DEF Spec, LinesAreScans
=============================================================================
