---------------------------- MODULE SessionProofs ----------------------------
(***************************************************************************)
(* Theorems about CaptureSession, for any command lines, any interference  *)
(* and any number of runs: a session is a behaviour of Settings, so what   *)
(* SettingsProofs shows holds whatever the tools do; a tool that exits     *)
(* leaves the buffer off; one that captures does so as it was asked to;    *)
(* and nothing but a failure or somebody else keeps the C tool from        *)
(* capturing.                                                              *)
(***************************************************************************)
EXTENDS CaptureSession, SettingsProofs, SequenceTheorems

\* Every step of a session is a step of Settings or leaves Settings alone: the tool
\* and whoever else writes to sysfs have nothing but the driver's system calls.
LEMMA SessionSteps == [Next]_vars => [SettingsNext]_settings_vars
  <1> SUFFICES ASSUME [Next]_vars PROVE SettingsNext \/ UNCHANGED settings_vars
    OBVIOUS
  <1> USE SessionAssumption
  <1>1. CASE UNCHANGED vars
    BY <1>1 DEF vars
  <1>2. ASSUME NEW k \in Tools, NEW o \in Options, ToolStart(k, o)
        PROVE  UNCHANGED settings_vars
    BY <1>2 DEF ToolStart
  <1>3. CASE ToolStore \/ ToolReturn \/ ToolExit \/ RunEnds \/ ToolKilled \/ Rest
    BY <1>3 DEF ToolStore, ToolReturn, ToolExit, RunEnds, ToolKilled, Rest, vars
  <1>4. CASE ToolIssue
    <2>1. CASE \E val : IssueEnable(val)
      BY <2>1 DEF IssueEnable, Startable, SettingsNext, CallStart
    <2>2. CASE \E r \in Requests : WriteRaw("tool", r[1], r[2])
      BY <2>2 DEF SettingsNext, CallStart
    <2>3. ASSUME NEW s, <<s.attr, s.val>> \in Requests, WriteRaw("tool", s.attr, s.val)
          PROVE  \E r \in Requests : WriteRaw("tool", r[1], r[2])
      <3>1. WriteRaw("tool", <<s.attr, s.val>>[1], <<s.attr, s.val>>[2])
        BY <2>3
      <3> QED BY <2>3, <3>1
    <2> QED BY <1>4, <2>1, <2>2, <2>3 DEF ToolIssue
  <1>5. CASE ToolDisable \/ ToolCall \/ OtherCall
    BY <1>5 DEF ToolDisable, ToolCall, OtherCall, SettingsNext, CallStart
  <1>6. CASE OtherStart
    BY <1>6 DEF OtherStart, Startable, SettingsNext, CallStart
  <1>7. CASE BindStart \/ BindStep
    BY <1>7 DEF BindStart, BindStep, SettingsNext
  <1> QED BY <1>1, <1>2, <1>3, <1>4, <1>5, <1>6, <1>7 DEF Next, ToolStep

\* A session implements Settings.
THEOREM SessionImplementsSettings == Spec => SettingsSpec
  <1>1. Init => SettingsInit
    BY DEF Init
  <1> QED BY <1>1, SessionSteps, PTL DEF Spec, SettingsSpec

\* What SettingsProofs shows of write_raw, probe and odr_to_div holds in every
\* session, for any tools, command lines and interference.
THEOREM SessionKeepsSettings ==
    Spec => /\ [](SettingsTypeOK /\ SettingsAgree /\ ProbeErasesThePast /\ RateContract)
            /\ PeriodFixed
  BY SessionImplementsSettings, SettingsTypeCorrect, RegistersAgree, ProbeErases,
     RateContractHolds, SessionPeriodFixed, PTL

-----------------------------------------------------------------------------
(* The buffer is off when a tool has exited.                               *)

\* The steps that are system calls of Settings.
OwnCalls == {"enable", "sampling_frequency"}

\* Where a tool is, and what a disable that it has issued leads to.
ToolInv ==
    /\ DOMAIN buf = {"scan", "trig", "fifo_watermark", "length", "watermark"}
    /\ issued => phase \in {"configure", "give_up", "stop"}
    /\ ~issued => pc["tool"] = "idle"
    /\ issued /\ phase = "configure" => Program[step].attr \in OwnCalls
    /\ phase \in {"give_up", "stop"} => pc["tool"] \in {"idle", "release", "postdisable"}

\* Nothing turns the buffer on behind a tool's back unless "outside" says so.
OffInv ==
    /\ ~outside /\ phase \in {"give_up", "stop"} /\ issued /\ pc["tool"] # "postdisable"
         => ~enabled
    /\ ~outside /\ phase = "exit" => ~enabled

\* Somebody else's step, and the driver's, while no tool is reading.
LEMMA OthersAreSeen ==
    ASSUME OtherStart \/ OtherCall \/ BindStart \/ BindStep
    PROVE  /\ UNCHANGED <<tool, cfg, phase, step, issued>>
           /\ ~outside' => ~outside /\ (phase = "run" \/ BindStart)
  <1>1. UNCHANGED <<tool, cfg, phase, step, issued>>
    BY DEF OtherStart, OtherCall, BindStart, BindStep, progress
  <1>2. BindStart \/ NoteOther
    BY DEF OtherStart, OtherCall, BindStep
  <1>3. BindStart => (outside' <=> outside)
    BY DEF BindStart
  <1>4. NoteOther => (outside \/ phase # "run" => outside')
    BY ZenonT(30) DEF NoteOther
  <1> QED BY <1>1, <1>2, <1>3, <1>4

\* They do not touch the tool's system call.
LEMMA OthersLeaveCall ==
    ASSUME TypeCalls, OtherStart \/ OtherCall \/ BindStart \/ BindStep
    PROVE  pc'["tool"] = pc["tool"]
  <1> USE SessionAssumption DEF TypeCalls, At
  <1>1. CASE OtherStart
    <2>1. CASE UNCHANGED settings_vars
      BY <2>1 DEF settings_vars, calls
    <2>2. CASE \E r \in Requests : WriteRaw("shell", r[1], r[2])
      BY <2>2 DEF WriteRaw
    <2>3. CASE EnableStart("shell", Startable) \/ DisableStart("shell")
      BY <2>3 DEF EnableStart, DisableStart
    <2> QED BY <1>1, <2>1, <2>2, <2>3 DEF OtherStart
  <1>2. CASE OtherCall
    BY <1>2 DEF OtherCall, CallStep, Claim, WriteRegister, StoreSetting, Release, Preenable,
                EnableEnd, Postdisable
  <1>3. CASE BindStart
    BY <1>3 DEF BindStart, ProbeStart, calls
  <1>4. CASE BindStep
    BY <1>4 DEF BindStep, ProbeStep, ProbeFails, ChipResets, StopDevice, Unregister, CheckChip,
                SoftReset, PollReset, ApplyRegister, InitDevice, Register, calls
  <1> QED BY <1>1, <1>2, <1>3, <1>4

\* What a write that is over does to the phase.
LEMMA WriteEnds ==
    ASSUME NEW took, WriteDone(took) PROVE phase' \in {phase, "run", "give_up"}
  BY DEF WriteDone, Advance

\* The buffer's attributes stay the ones they are.
LEMMA AttributesKept ==
    ASSUME [Next]_vars, ToolInv PROVE (DOMAIN buf)' = DOMAIN buf
  <1>1. DOMAIN FreshBuffer = DOMAIN buf
    BY DEF FreshBuffer, ToolInv
  <1>2. ASSUME NEW a \in DOMAIN buf, NEW v PROVE DOMAIN Stored(a, v) = DOMAIN buf
    BY <1>2 DEF Stored, ToolInv
  <1>3. buf' \in {buf, FreshBuffer} \/ \E a \in DOMAIN buf : \E v : buf' = Stored(a, v)
    <2>1. CASE ToolStore
      BY <2>1 DEF ToolStore
    <2>2. CASE OtherStart
      BY <2>2 DEF OtherStart
    <2>3. CASE BindStep
      BY <2>3 DEF BindStep
    <2>4. CASE UNCHANGED buf
      BY <2>4
    <2> QED BY <2>1, <2>2, <2>3, <2>4
            DEF Next, ToolStep, vars, session_vars, ToolStart, ToolIssue, ToolReturn, ToolDisable,
                ToolExit, ToolCall, RunEnds, ToolKilled, OtherCall, BindStart, Rest
  <1> QED BY <1>1, <1>2, <1>3

\* A tool on its way through main.
LEMMA ToolKept == TypeCalls /\ ToolInv /\ [Next]_vars => ToolInv'
  <1> SUFFICES ASSUME TypeCalls, ToolInv, [Next]_vars PROVE ToolInv'
    OBVIOUS
  <1>1. (DOMAIN buf)' = {"scan", "trig", "fifo_watermark", "length", "watermark"}
    BY AttributesKept DEF ToolInv
  <1> USE SessionAssumption DEF TypeCalls, ToolInv, At
  <1>2. ASSUME NEW k \in Tools, NEW o \in Options, ToolStart(k, o) PROVE ToolInv'
    BY <1>1, <1>2 DEF ToolStart, settings_vars, calls
  <1>3. CASE ToolStore
    <2>1. phase = "configure" /\ ~issued /\ pc["tool"] = "idle"
      BY <1>3 DEF ToolStore, Configuring, OwnCalls
    <2>2. UNCHANGED <<issued, pc>> /\ phase' \in {phase, "run", "give_up"}
      BY <1>3, WriteEnds DEF ToolStore, settings_vars, calls
    <2> QED BY <1>1, <2>1, <2>2
  <1>4. CASE ToolReturn
    <2>1. ~issued' /\ UNCHANGED pc /\ pc["tool"] = "idle" /\ phase' \in {phase, "run", "give_up"}
      BY <1>4, WriteEnds DEF ToolReturn, Configuring, settings_vars, calls
    <2> QED BY <1>1, <2>1
  <1>5. CASE ToolIssue
    <2>1. issued' /\ phase' = "configure" /\ Program[step].attr \in OwnCalls
      BY <1>5 DEF ToolIssue, Configuring, OwnCalls
    <2>2. UNCHANGED Program /\ UNCHANGED step
      BY <1>5 DEF ToolIssue, Program
    <2> QED BY <1>1, <2>1, <2>2
  <1>6. CASE ToolDisable
    BY <1>1, <1>6 DEF ToolDisable, DisableStart, settings_vars, calls
  <1>7. CASE ToolExit \/ RunEnds \/ ToolKilled \/ Rest
    BY <1>1, <1>7 DEF ToolExit, RunEnds, ToolKilled, Rest, vars, session_vars, progress,
                      settings_vars, calls
  <1>8. CASE ToolCall
    <2>1. UNCHANGED <<phase, step, issued, Program>>
      BY <1>8 DEF ToolCall, progress, Program
    <2>2. pc["tool"] # "idle"
      BY <1>8 DEF ToolCall, CallStep, Claim, WriteRegister, StoreSetting, Release, Preenable,
                  EnableEnd, Postdisable
    <2>3. pc["tool"] \in {"release", "postdisable"} => pc'["tool"] \in {"idle", "release"}
      BY <1>8 DEF ToolCall, CallStep, Claim, WriteRegister, StoreSetting, Release, Preenable,
                  EnableEnd, Postdisable
    <2> QED BY <1>1, <2>1, <2>2, <2>3
  <1>9. CASE OtherStart \/ OtherCall \/ BindStart \/ BindStep
    <2>1. UNCHANGED <<tool, cfg, phase, step, issued>> /\ pc'["tool"] = pc["tool"]
      BY <1>9, OthersAreSeen, OthersLeaveCall
    <2>2. UNCHANGED Program
      BY <2>1 DEF Program
    <2> QED BY <1>1, <2>1, <2>2
  <1>10. CASE UNCHANGED vars
    BY <1>10 DEF vars, session_vars, progress, settings_vars, calls, Program
  <1> QED BY <1>2, <1>3, <1>4, <1>5, <1>6, <1>7, <1>8, <1>9, <1>10 DEF Next, ToolStep

\* A buffer that a tool has turned off stays off until somebody else is seen.
LEMMA OffKept == IInv /\ ToolInv /\ OffInv /\ [Next]_vars => OffInv'
  <1> SUFFICES ASSUME IInv, ToolInv, OffInv, [Next]_vars PROVE OffInv'
    OBVIOUS
  <1>1. TypeCalls /\ (~SysfsThere => ~enabled)
    BY DEF IInv, SettingsTypeOK, ProbeInv
  <1> USE SessionAssumption DEF OffInv, ToolInv
  <1>2. ASSUME NEW k \in Tools, NEW o \in Options, ToolStart(k, o) PROVE OffInv'
    BY <1>2 DEF ToolStart
  <1>3. CASE ToolStore
    <2>1. phase = "configure" /\ ~issued
      BY <1>3 DEF ToolStore, Configuring, OwnCalls
    <2> QED BY <1>3, <2>1, WriteEnds DEF ToolStore
  <1>4. CASE ToolReturn
    BY <1>4, WriteEnds DEF ToolReturn, Configuring
  <1>5. CASE ToolIssue \/ ToolKilled \/ RunEnds
    BY <1>5 DEF ToolIssue, Configuring, ToolKilled, RunEnds
  <1>6. CASE ToolDisable
    <2>1. CASE DisableStart("tool")
      BY <1>1, <1>6, <2>1 DEF ToolDisable, DisableStart, At, TypeCalls
    <2>2. CASE ~SysfsThere /\ phase' = "exit" /\ UNCHANGED settings_vars
      BY <1>1, <2>2 DEF settings_vars
    <2> QED BY <1>6, <2>1, <2>2 DEF ToolDisable
  <1>7. CASE ToolExit
    BY <1>7 DEF ToolExit, settings_vars
  <1>8. CASE ToolCall
    <2>1. UNCHANGED <<phase, issued, outside>>
      BY <1>8 DEF ToolCall, progress
    <2>2. pc["tool"] # "idle"
      BY <1>8 DEF ToolCall, CallStep, Claim, WriteRegister, StoreSetting, Release, Preenable,
                  EnableEnd, Postdisable, At
    <2>3. CASE pc["tool"] = "release"
      BY <1>8, <2>1, <2>3 DEF ToolCall, CallStep, Claim, WriteRegister, StoreSetting, Release,
                  Preenable, EnableEnd, Postdisable, At
    <2>4. CASE pc["tool"] = "postdisable"
      BY <1>8, <2>1, <2>4 DEF ToolCall, CallStep, Claim, WriteRegister, StoreSetting, Release,
                  Preenable, EnableEnd, Postdisable, At
    <2> QED BY <2>1, <2>2, <2>3, <2>4
  <1>9. CASE OtherStart \/ OtherCall \/ BindStart \/ BindStep
    <2>1. CASE BindStart
      BY <1>1, <2>1, OthersAreSeen, OthersLeaveCall DEF BindStart, ProbeStart
    <2>2. CASE ~BindStart
      BY <1>9, <2>2, OthersAreSeen
    <2> QED BY <2>1, <2>2
  <1>10. CASE UNCHANGED vars
    BY <1>10 DEF vars, session_vars, progress, settings_vars, calls
  <1> QED BY <1>2, <1>3, <1>4, <1>5, <1>6, <1>7, <1>8, <1>9, <1>10 DEF Next, ToolStep, Rest

\* On every way out of main the buffer has been turned off: disable_iio_buffer,
\* disable_buffer_noexcept.  Whoever turns it on again meanwhile is somebody else.
THEOREM ExitsOff == Spec => []ExitLeavesBufferOff
  <1>1. Init => ToolInv /\ OffInv
    BY SessionAssumption DEF Init, SettingsInit, ToolInv, OffInv, FreshBuffer
  <1>2. IInv => TypeCalls
    BY DEF IInv, SettingsTypeOK
  <1>3. Spec => []IInv
    BY SessionImplementsSettings, SettingsInvariant, PTL
  <1>4. OffInv => ExitLeavesBufferOff
    BY DEF OffInv, ExitLeavesBufferOff
  <1> QED BY <1>1, <1>2, <1>3, <1>4, ToolKept, OffKept, PTL DEF Spec

-----------------------------------------------------------------------------
(* The tools' programs.                                                    *)

\* The step that turns the buffer on.
EnableAt == IF tool = "c" \/ cfg.trig = "none" THEN 9 ELSE 10

\* The rate is the one asked for.
RateSet == reg["sampling_frequency"] = odr_to_div(cfg.hz)

\* A sequence z over S that begins as x and goes on as y.
BeginsAndGoesOn(S, z, x, y) ==
    /\ x \in Seq(S) /\ y \in Seq(S) /\ z \in Seq(S) /\ Len(z) = Len(x) + Len(y)
    /\ \A k \in 1 .. Len(x) : z[k] = x[k]
    /\ \A k \in 1 .. Len(y) : z[Len(x) + k] = y[k]

\* It is the two joined.
LEMMA JoinedIs ==
    ASSUME NEW S, NEW x, NEW y, NEW z, BeginsAndGoesOn(S, z, x, y)
    PROVE  x \o y = z
  <1> USE DEF BeginsAndGoesOn
  <1>1. Len(x) \in Nat /\ Len(y) \in Nat
    OBVIOUS
  <1>2. x \o y \in Seq(S) /\ Len(x \o y) = Len(x) + Len(y)
    BY ConcatProperties
  <1>3. ASSUME NEW k \in 1 .. Len(x \o y) PROVE (x \o y)[k] = z[k]
    <2>1. CASE k <= Len(x)
      BY <1>1, <1>2, <2>1, ConcatProperties
    <2>2. CASE k > Len(x)
      <3>1. k - Len(x) \in 1 .. Len(y) /\ Len(x) + (k - Len(x)) = k
        BY <1>1, <1>2, <2>2
      <3>2. z[k] = y[k - Len(x)]
        BY <3>1
      <3>3. (x \o y)[k] = y[k - Len(x)]
        BY <1>1, <1>2, <2>2, ConcatProperties
      <3> QED BY <3>2, <3>3
    <2> QED BY <1>1, <1>2, <2>1, <2>2
  <1> QED BY <1>2, <1>3, SeqEqual

\* The joins that the programs consist of, by the lengths of the parts.
LEMMA Join1_2 ==
    \A a, b, c :
        <<a>> \o <<b, c>> = <<a, b, c>>
  <1> TAKE a, b, c
  <1> DEFINE S == {a, b, c}
             x == <<a>>
             y == <<b, c>>
             z == <<a, b, c>>
  <1>1. BeginsAndGoesOn(S, z, x, y)
    BY DEF BeginsAndGoesOn
  <1> HIDE DEF S, x, y, z
  <1>2. x \o y = z
    BY <1>1, JoinedIs
  <1> QED BY <1>2 DEF x, y, z

\* Three and one more.
LEMMA Join3_1 ==
    \A a, b, c, d :
        <<a, b, c>> \o <<d>> = <<a, b, c, d>>
  <1> TAKE a, b, c, d
  <1> DEFINE S == {a, b, c, d}
             x == <<a, b, c>>
             y == <<d>>
             z == <<a, b, c, d>>
  <1>1. BeginsAndGoesOn(S, z, x, y)
    BY DEF BeginsAndGoesOn
  <1> HIDE DEF S, x, y, z
  <1>2. x \o y = z
    BY <1>1, JoinedIs
  <1> QED BY <1>2 DEF x, y, z

\* Four and one more.
LEMMA Join4_1 ==
    \A a, b, c, d, e :
        <<a, b, c, d>> \o <<e>> = <<a, b, c, d, e>>
  <1> TAKE a, b, c, d, e
  <1> DEFINE S == {a, b, c, d, e}
             x == <<a, b, c, d>>
             y == <<e>>
             z == <<a, b, c, d, e>>
  <1>1. BeginsAndGoesOn(S, z, x, y)
    BY DEF BeginsAndGoesOn
  <1> HIDE DEF S, x, y, z
  <1>2. x \o y = z
    BY <1>1, JoinedIs
  <1> QED BY <1>2 DEF x, y, z

\* Five and one more.
LEMMA Join5_1 ==
    \A a, b, c, d, e, f :
        <<a, b, c, d, e>> \o <<f>> = <<a, b, c, d, e, f>>
  <1> TAKE a, b, c, d, e, f
  <1> DEFINE S == {a, b, c, d, e, f}
             x == <<a, b, c, d, e>>
             y == <<f>>
             z == <<a, b, c, d, e, f>>
  <1>1. BeginsAndGoesOn(S, z, x, y)
    BY DEF BeginsAndGoesOn
  <1> HIDE DEF S, x, y, z
  <1>2. x \o y = z
    BY <1>1, JoinedIs
  <1> QED BY <1>2 DEF x, y, z

\* Six and three more.
LEMMA Join6_3 ==
    \A a, b, c, d, e, f, g, h, i :
        <<a, b, c, d, e, f>> \o <<g, h, i>> = <<a, b, c, d, e, f, g, h, i>>
  <1> TAKE a, b, c, d, e, f, g, h, i
  <1> DEFINE S == {a, b, c, d, e, f, g, h, i}
             x == <<a, b, c, d, e, f>>
             y == <<g, h, i>>
             z == <<a, b, c, d, e, f, g, h, i>>
  <1>1. BeginsAndGoesOn(S, z, x, y)
    BY DEF BeginsAndGoesOn
  <1> HIDE DEF S, x, y, z
  <1>2. x \o y = z
    BY <1>1, JoinedIs
  <1> QED BY <1>2 DEF x, y, z

\* Nine and two more.
LEMMA Join9_2 ==
    \A a, b, c, d, e, f, g, h, i, j, k :
        <<a, b, c, d, e, f, g, h, i>> \o <<j, k>> = <<a, b, c, d, e, f, g, h, i, j, k>>
  <1> TAKE a, b, c, d, e, f, g, h, i, j, k
  <1> DEFINE S == {a, b, c, d, e, f, g, h, i, j, k}
             x == <<a, b, c, d, e, f, g, h, i>>
             y == <<j, k>>
             z == <<a, b, c, d, e, f, g, h, i, j, k>>
  <1>1. BeginsAndGoesOn(S, z, x, y)
    BY DEF BeginsAndGoesOn
  <1> HIDE DEF S, x, y, z
  <1>2. x \o y = z
    BY <1>1, JoinedIs
  <1> QED BY <1>2 DEF x, y, z

\* Three and two more.
LEMMA Join3_2 ==
    \A a, b, c, d, e :
        <<a, b, c>> \o <<d, e>> = <<a, b, c, d, e>>
  <1> TAKE a, b, c, d, e
  <1> DEFINE S == {a, b, c, d, e}
             x == <<a, b, c>>
             y == <<d, e>>
             z == <<a, b, c, d, e>>
  <1>1. BeginsAndGoesOn(S, z, x, y)
    BY DEF BeginsAndGoesOn
  <1> HIDE DEF S, x, y, z
  <1>2. x \o y = z
    BY <1>1, JoinedIs
  <1> QED BY <1>2 DEF x, y, z

\* Five and two more.
LEMMA Join5_2 ==
    \A a, b, c, d, e, f, g :
        <<a, b, c, d, e>> \o <<f, g>> = <<a, b, c, d, e, f, g>>
  <1> TAKE a, b, c, d, e, f, g
  <1> DEFINE S == {a, b, c, d, e, f, g}
             x == <<a, b, c, d, e>>
             y == <<f, g>>
             z == <<a, b, c, d, e, f, g>>
  <1>1. BeginsAndGoesOn(S, z, x, y)
    BY DEF BeginsAndGoesOn
  <1> HIDE DEF S, x, y, z
  <1>2. x \o y = z
    BY <1>1, JoinedIs
  <1> QED BY <1>2 DEF x, y, z

\* Seven and one more.
LEMMA Join7_1 ==
    \A a, b, c, d, e, f, g, h :
        <<a, b, c, d, e, f, g>> \o <<h>> = <<a, b, c, d, e, f, g, h>>
  <1> TAKE a, b, c, d, e, f, g, h
  <1> DEFINE S == {a, b, c, d, e, f, g, h}
             x == <<a, b, c, d, e, f, g>>
             y == <<h>>
             z == <<a, b, c, d, e, f, g, h>>
  <1>1. BeginsAndGoesOn(S, z, x, y)
    BY DEF BeginsAndGoesOn
  <1> HIDE DEF S, x, y, z
  <1>2. x \o y = z
    BY <1>1, JoinedIs
  <1> QED BY <1>2 DEF x, y, z

\* Eight and one more.
LEMMA Join8_1 ==
    \A a, b, c, d, e, f, g, h, i :
        <<a, b, c, d, e, f, g, h>> \o <<i>> = <<a, b, c, d, e, f, g, h, i>>
  <1> TAKE a, b, c, d, e, f, g, h, i
  <1> DEFINE S == {a, b, c, d, e, f, g, h, i}
             x == <<a, b, c, d, e, f, g, h>>
             y == <<i>>
             z == <<a, b, c, d, e, f, g, h, i>>
  <1>1. BeginsAndGoesOn(S, z, x, y)
    BY DEF BeginsAndGoesOn
  <1> HIDE DEF S, x, y, z
  <1>2. x \o y = z
    BY <1>1, JoinedIs
  <1> QED BY <1>2 DEF x, y, z

\* Nine and one more.
LEMMA Join9_1 ==
    \A a, b, c, d, e, f, g, h, i, j :
        <<a, b, c, d, e, f, g, h, i>> \o <<j>> = <<a, b, c, d, e, f, g, h, i, j>>
  <1> TAKE a, b, c, d, e, f, g, h, i, j
  <1> DEFINE S == {a, b, c, d, e, f, g, h, i, j}
             x == <<a, b, c, d, e, f, g, h, i>>
             y == <<j>>
             z == <<a, b, c, d, e, f, g, h, i, j>>
  <1>1. BeginsAndGoesOn(S, z, x, y)
    BY DEF BeginsAndGoesOn
  <1> HIDE DEF S, x, y, z
  <1>2. x \o y = z
    BY <1>1, JoinedIs
  <1> QED BY <1>2 DEF x, y, z

\* Ten and two more.
LEMMA Join10_2 ==
    \A a, b, c, d, e, f, g, h, i, j, k, l :
        <<a, b, c, d, e, f, g, h, i, j>> \o <<k, l>> = <<a, b, c, d, e, f, g, h, i, j, k, l>>
  <1> TAKE a, b, c, d, e, f, g, h, i, j, k, l
  <1> DEFINE S == {a, b, c, d, e, f, g, h, i, j, k, l}
             x == <<a, b, c, d, e, f, g, h, i, j>>
             y == <<k, l>>
             z == <<a, b, c, d, e, f, g, h, i, j, k, l>>
  <1>1. BeginsAndGoesOn(S, z, x, y)
    BY DEF BeginsAndGoesOn
  <1> HIDE DEF S, x, y, z
  <1>2. x \o y = z
    BY <1>1, JoinedIs
  <1> QED BY <1>2 DEF x, y, z

\* The C tool's program.
LEMMA StepsOfC ==
    ASSUME tool = "c"
    PROVE  /\ Len(Program) = 11
           /\ Program[1] = May("enable", 0)
           /\ Program[2] = May("scan", "none")
           /\ Program[3] = Must("scan", "all")
           /\ Program[4] = Must("trig", cfg.trig)
           /\ Program[5] = Step("sampling_frequency", cfg.hz, TRUE, 2, TRUE)
           /\ Program[6] = Must("fifo_watermark", cfg.fifo_watermark)
           /\ Program[7] = Must("length", cfg.length)
           /\ Program[8] = Must("watermark", cfg.watermark)
           /\ Program[9] = Must("enable", 1)
           /\ Program[10] = Chardev
           /\ Program[11] = Output
  <1> DEFINE a == May("enable", 0)
             b == May("scan", "none")
             c == Must("scan", "all")
             d == Must("trig", cfg.trig)
             e == Step("sampling_frequency", cfg.hz, TRUE, 2, TRUE)
             f == Must("fifo_watermark", cfg.fifo_watermark)
             g == Must("length", cfg.length)
             h == Must("watermark", cfg.watermark)
             i == Must("enable", 1)
             j == Chardev
             k == Output
             p == <<a, b, c, d, e, f, g, h, i, j, k>>
  <1>1. Program = <<a>> \o <<b, c>> \o <<d>> \o <<e>> \o <<f>> \o <<g, h, i>> \o <<j, k>>
    BY DEF Program, Configure, Prepare, configure_scan_elements, configure_trigger,
           configure_sampling_frequency
  <1> HIDE DEF a, b, c, d, e, f, g, h, i, j, k
  <1>2. Program = p
    <2>1. <<a>> \o <<b, c>> = <<a, b, c>>
      BY Join1_2
    <2>2. <<a, b, c>> \o <<d>> = <<a, b, c, d>>
      BY Join3_1
    <2>3. <<a, b, c, d>> \o <<e>> = <<a, b, c, d, e>>
      BY Join4_1
    <2>4. <<a, b, c, d, e>> \o <<f>> = <<a, b, c, d, e, f>>
      BY Join5_1
    <2>5. <<a, b, c, d, e, f>> \o <<g, h, i>> = <<a, b, c, d, e, f, g, h, i>>
      BY Join6_3
    <2>6. <<a, b, c, d, e, f, g, h, i>> \o <<j, k>> = p
      BY Join9_2
    <2> QED BY <1>1, <2>1, <2>2, <2>3, <2>4, <2>5, <2>6
  <1>3. /\ Len(p) = 11 /\ p[1] = a /\ p[2] = b /\ p[3] = c /\ p[4] = d /\ p[5] = e /\ p[6] = f
        /\ p[7] = g /\ p[8] = h /\ p[9] = i /\ p[10] = j /\ p[11] = k
    OBVIOUS
  <1> HIDE DEF p
  <1> QED BY <1>2, <1>3 DEF a, b, c, d, e, f, g, h, i, j, k

\* Whether the C++ tool's attributes with an alternative are required.
Required == tool = "cpp"

\* The C++ tool's program as far as the trigger.
LEMMA StepsOfCpp ==
    ASSUME tool # "c"
    PROVE  /\ Len(Program) = IF cfg.trig = "none" THEN 11 ELSE 12
           /\ Program[1] = May("enable", 0)
           /\ Program[2] = May("scan", "none")
           /\ Program[3] = Must("scan", "all")
           /\ Program[4] = Step("sampling_frequency", cfg.hz, Required, 4, FALSE)
           /\ Program[5] = Step("sampling_frequency", cfg.hz, FALSE, 2, TRUE)
           /\ Program[6] = Step("fifo_watermark", cfg.fifo_watermark, Required, 2, FALSE)
           /\ Program[7] = Step("watermark", cfg.watermark, Required, 2, FALSE)
           /\ Program[8] = Must("length", cfg.length)
           /\ cfg.trig # "none" => Program[9] = Must("trig", cfg.trig)
           /\ Program[EnableAt] = Must("enable", 1)
           /\ Program[EnableAt + 1] = Output
           /\ Program[EnableAt + 2] = Chardev
  <1> DEFINE a == May("enable", 0)
             b == May("scan", "none")
             c == Must("scan", "all")
             d == Step("sampling_frequency", cfg.hz, Required, 4, FALSE)
             e == Step("sampling_frequency", cfg.hz, FALSE, 2, TRUE)
             f == Step("fifo_watermark", cfg.fifo_watermark, Required, 2, FALSE)
             g == Step("watermark", cfg.watermark, Required, 2, FALSE)
             h == Must("length", cfg.length)
             t == Must("trig", cfg.trig)
             i == Must("enable", 1)
             j == Output
             k == Chardev
  <1>1. Program = <<a>> \o <<b, c>> \o <<d, e>> \o <<f, g>> \o <<h>>
                    \o (IF cfg.trig = "none" THEN <<>> ELSE <<t>>) \o <<i>> \o <<j, k>>
    BY DEF Program, ConfigureCpp, CppScanElements, CppSamplingFrequency, CppWatermarks, CppTrigger,
           Required
  <1> HIDE DEF a, b, c, d, e, f, g, h, t, i, j, k
  <1> DEFINE u == <<a, b, c, d, e, f, g, h>>
  <1>2. <<a>> \o <<b, c>> \o <<d, e>> \o <<f, g>> \o <<h>> = u
    <2>1. <<a>> \o <<b, c>> = <<a, b, c>>
      BY Join1_2
    <2>2. <<a, b, c>> \o <<d, e>> = <<a, b, c, d, e>>
      BY Join3_2
    <2>3. <<a, b, c, d, e>> \o <<f, g>> = <<a, b, c, d, e, f, g>>
      BY Join5_2
    <2>4. <<a, b, c, d, e, f, g>> \o <<h>> = u
      BY Join7_1
    <2> QED BY <2>1, <2>2, <2>3, <2>4
  <1>3. CASE cfg.trig = "none"
    <2> DEFINE p == <<a, b, c, d, e, f, g, h, i, j, k>>
    <2>1. u \o <<>> = u
      <3> DEFINE S == {a, b, c, d, e, f, g, h}
      <3>1. u \in Seq(S)
        OBVIOUS
      <3> QED BY <3>1, ConcatEmptySeq
    <2>2. Program = (u \o <<i>>) \o <<j, k>>
      BY <1>1, <1>2, <1>3, <2>1
    <2>3. Program = p
      <3>1. u \o <<i>> = <<a, b, c, d, e, f, g, h, i>>
        BY Join8_1
      <3>2. <<a, b, c, d, e, f, g, h, i>> \o <<j, k>> = p
        BY Join9_2
      <3> QED BY <2>2, <3>1, <3>2
    <2>4. /\ Len(p) = 11 /\ p[1] = a /\ p[2] = b /\ p[3] = c /\ p[4] = d /\ p[5] = e
          /\ p[6] = f /\ p[7] = g /\ p[8] = h /\ p[9] = i /\ p[10] = j /\ p[11] = k
      OBVIOUS
    <2> HIDE DEF p
    <2>5. EnableAt = 9
      BY <1>3 DEF EnableAt
    <2> QED BY <1>3, <2>3, <2>4, <2>5 DEF a, b, c, d, e, f, g, h, i, j, k
  <1>4. CASE cfg.trig # "none"
    <2> DEFINE p == <<a, b, c, d, e, f, g, h, t, i, j, k>>
    <2>1. Program = ((u \o <<t>>) \o <<i>>) \o <<j, k>>
      BY <1>1, <1>2, <1>4
    <2>2. Program = p
      <3>1. u \o <<t>> = <<a, b, c, d, e, f, g, h, t>>
        BY Join8_1
      <3>2. <<a, b, c, d, e, f, g, h, t>> \o <<i>> = <<a, b, c, d, e, f, g, h, t, i>>
        BY Join9_1
      <3>3. <<a, b, c, d, e, f, g, h, t, i>> \o <<j, k>> = p
        BY Join10_2
      <3> QED BY <2>1, <3>1, <3>2, <3>3
    <2>3. /\ Len(p) = 12 /\ p[1] = a /\ p[2] = b /\ p[3] = c /\ p[4] = d /\ p[5] = e
          /\ p[6] = f /\ p[7] = g /\ p[8] = h /\ p[9] = t /\ p[10] = i /\ p[11] = j /\ p[12] = k
      OBVIOUS
    <2> HIDE DEF p
    <2>4. EnableAt = 10
      BY <1>4 DEF EnableAt
    <2> QED BY <1>4, <2>2, <2>3, <2>4 DEF a, b, c, d, e, f, g, h, t, i, j, k
  <1> QED BY <1>3, <1>4

-----------------------------------------------------------------------------
(* Types.                                                                  *)

\* The attributes, and what the options can become.
Buffers ==
    {b \in [scan : {"none", "part", "all"}, trig : Triggers, fifo_watermark : 1 .. 73,
            length : Nat, watermark : Nat] : b.length >= 2 /\ b.watermark \in 1 .. b.length}

Configs == [trig : Triggers, hz : Int, fifo_watermark : Int, length : Int, watermark : Int]

Phases == {"idle", "configure", "run", "give_up", "stop", "exit", "refused"}

TypeInv ==
    /\ buf \in Buffers /\ tool \in Tools /\ cfg \in Configs /\ (tool = "c" => cfg.trig # "none")
    /\ phase \in Phases /\ step \in 1 .. Len(Program) /\ tries \in Nat
    /\ worked \in BOOLEAN /\ issued \in BOOLEAN /\ outside \in BOOLEAN /\ failed \in BOOLEAN
    /\ others \in Nat /\ runs \in 0 .. MaxRuns /\ binds \in Nat
    /\ others + binds + faults <= MaxEvents + 1

\* Where a tool is in its program.
PlaceInv ==
    /\ phase # "configure" => step = 1 /\ tries = 0 /\ ~worked
    /\ phase = "configure" => tries < Program[step].tries /\ (worked => Program[step].every)
    /\ phase \notin {"idle", "refused"} => ArgsAccepted(cfg)

\* Values that can be written to an attribute.
Fits(a, v) ==
    /\ a = "scan" => v \in {"none", "part", "all"}
    /\ a = "trig" => v \in Triggers
    /\ a \in Numbers => v \in Int

\* Somebody else writes such values.
LEMMA OthersFit == \A r \in OthersSet : Fits(r[1], r[2])
  BY SessionAssumption DEF Fits, Numbers

\* A step of a program: what it writes fits, and it is tried up to four times.
Fine(s) ==
    /\ Fits(s.attr, s.val)
    /\ s.tries \in 1 .. 4 /\ s.fatal \in BOOLEAN /\ s.every \in BOOLEAN
    /\ s.every => s.attr = "sampling_frequency"

\* All steps are; the buffer is turned off first and on before the last two.
LEMMA ProgramShape ==
    tool \in Tools /\ cfg \in Configs =>
        /\ Len(Program) \in {11, 12} /\ Program[1] = May("enable", 0)
        /\ EnableAt \in {9, 10} /\ Len(Program) = EnableAt + 2
        /\ \A k \in 1 .. Len(Program) : Fine(Program[k])
  <1> SUFFICES ASSUME tool \in Tools, cfg \in Configs
               PROVE  /\ Len(Program) \in {11, 12} /\ Program[1] = May("enable", 0)
                      /\ EnableAt \in {9, 10} /\ Len(Program) = EnableAt + 2
                      /\ \A k \in 1 .. Len(Program) : Fine(Program[k])
    OBVIOUS
  <1>0. /\ Fits("enable", 0) /\ Fits("enable", 1) /\ Fits("chardev", 0) /\ Fits("output", 0)
        /\ Fits("scan", "none") /\ Fits("scan", "all") /\ Fits("trig", cfg.trig)
        /\ Fits("sampling_frequency", cfg.hz) /\ Fits("fifo_watermark", cfg.fifo_watermark)
        /\ Fits("length", cfg.length) /\ Fits("watermark", cfg.watermark)
    BY DEF Fits, Configs, Numbers
  <1>1. \A a, v : Fits(a, v) => Fine(May(a, v)) /\ Fine(Must(a, v))
    BY DEF May, Must, Step, Fine
  <1>2. /\ Fine(Step("sampling_frequency", cfg.hz, TRUE, 2, TRUE))
        /\ Fine(Step("sampling_frequency", cfg.hz, FALSE, 2, TRUE))
    BY <1>0 DEF Step, Fine
  <1>3. \A a, v : \A b \in BOOLEAN :
          Fits(a, v) => Fine(Step(a, v, b, 2, FALSE)) /\ Fine(Step(a, v, b, 4, FALSE))
    BY DEF Step, Fine
  <1>4. Fine(Chardev) /\ Fine(Output)
    BY <1>0, <1>1 DEF Chardev, Output
  <1>5. CASE tool = "c"
    <2>1. EnableAt = 9
      BY <1>5 DEF EnableAt
    <2>2. /\ Fine(Program[1]) /\ Fine(Program[2]) /\ Fine(Program[3]) /\ Fine(Program[4])
          /\ Fine(Program[5]) /\ Fine(Program[6]) /\ Fine(Program[7]) /\ Fine(Program[8])
          /\ Fine(Program[9]) /\ Fine(Program[10]) /\ Fine(Program[11])
      BY <1>0, <1>1, <1>2, <1>4, <1>5, StepsOfC
    <2>3. \A k \in 1 .. 11 : Fine(Program[k])
      BY <2>2
    <2>4. Len(Program) = 11 /\ Program[1] = May("enable", 0)
      BY <1>5, StepsOfC
    <2> QED BY <2>1, <2>3, <2>4
  <1>6. CASE tool # "c"
    <2>1. /\ Fine(Program[1]) /\ Fine(Program[2]) /\ Fine(Program[3]) /\ Fine(Program[4])
          /\ Fine(Program[5]) /\ Fine(Program[6]) /\ Fine(Program[7]) /\ Fine(Program[8])
      <3>1. Required \in BOOLEAN
        BY DEF Required
      <3> QED BY <1>0, <1>1, <1>2, <1>3, <1>6, <3>1, StepsOfCpp
    <2>2. /\ Fine(Program[EnableAt]) /\ Fine(Program[EnableAt + 1])
          /\ Fine(Program[EnableAt + 2])
          /\ cfg.trig # "none" => Fine(Program[9])
      BY <1>0, <1>1, <1>4, <1>6, StepsOfCpp
    <2>3. CASE cfg.trig = "none"
      <3>1. EnableAt = 9 /\ Len(Program) = 11
        BY <1>6, <2>3, StepsOfCpp DEF EnableAt
      <3>2. \A k \in 1 .. 11 : Fine(Program[k])
        BY <2>1, <2>2, <3>1
      <3> QED BY <1>6, <3>1, <3>2, StepsOfCpp
    <2>4. CASE cfg.trig # "none"
      <3>1. EnableAt = 10 /\ Len(Program) = 12
        BY <1>6, <2>4, StepsOfCpp DEF EnableAt
      <3>2. \A k \in 1 .. 12 : Fine(Program[k])
        BY <2>1, <2>2, <2>4, <3>1
      <3> QED BY <1>6, <3>1, <3>2, StepsOfCpp
    <2> QED BY <2>3, <2>4
  <1> QED BY <1>5, <1>6

\* What becomes of a write of the current step: it is the last one of the step, and
\* of the program; it is fatal; or there is another one.
LEMMA WriteOutcome ==
    ASSUME NEW took \in BOOLEAN, WriteDone(took)
    PROVE  \/ /\ step < Len(Program) /\ step' = step + 1 /\ phase' = phase
              /\ tries' = 0 /\ ~worked' /\ (Program[step].fatal => took \/ worked)
           \/ /\ step = Len(Program) /\ step' = 1 /\ phase' = "run"
              /\ tries' = 0 /\ ~worked' /\ (Program[step].fatal => took \/ worked)
           \/ /\ step' = 1 /\ phase' = "give_up" /\ tries' = 0
              /\ worked' = worked /\ ~worked /\ ~took /\ Program[step].fatal
           \/ /\ step' = step /\ phase' = phase /\ tries' = tries + 1
              /\ tries + 1 < Program[step].tries /\ worked' = (worked \/ took)
              /\ (took => Program[step].every)
  BY DEF WriteDone, Advance

\* What an attribute makes of a value that it takes.
LEMMA StoredTyped ==
    ASSUME buf \in Buffers, NEW a, NEW v, StoreTaken(a, v),
           a \in DOMAIN buf, Fits(a, v)
    PROVE  Stored(a, v) \in Buffers
  <1> USE DEF Buffers, Stored, StoreTaken, Fits, Numbers
  <1>1. CASE a = "scan"
    BY <1>1
  <1>2. CASE a = "trig"
    BY <1>2
  <1>3. CASE a = "fifo_watermark"
    BY <1>3 DEF Clamp
  <1>4. CASE a = "length"
    <2> DEFINE n == IF v < 2 THEN 2 ELSE v
               m == IF n < buf.watermark THEN n ELSE buf.watermark
    <2>1. Stored(a, v) = [buf EXCEPT !.length = n, !.watermark = m]
      BY <1>4
    <2>2. n \in Nat /\ n >= 2 /\ m \in 1 .. n
      BY <1>4
    <2> HIDE DEF n, m
    <2> DEFINE R == [scan : {"none", "part", "all"}, trig : Triggers, fifo_watermark : 1 .. 73,
                     length : Nat, watermark : Nat]
               c == [buf EXCEPT !.length = n]
    <2>3. c \in R /\ c.length = n
      BY <2>2
    <2>4. Stored(a, v) = [c EXCEPT !.watermark = m]
      BY <2>1
    <2> HIDE DEF c
    <2>5. [c EXCEPT !.watermark = m] \in R
      BY <2>2, <2>3
    <2>6. [c EXCEPT !.watermark = m].length = n /\ [c EXCEPT !.watermark = m].watermark = m
      BY <2>3
    <2> QED BY <2>2, <2>4, <2>5, <2>6
  <1>5. CASE a = "watermark"
    BY <1>5
  <1> QED BY <1>1, <1>2, <1>3, <1>4, <1>5

\* A device that has just been registered has values of these types.
LEMMA FreshTyped == FreshBuffer \in Buffers
  BY DEF FreshBuffer, Buffers, Triggers

\* A tool that has parsed its options.
LEMMA ConfigTyped ==
    ASSUME NEW k \in Tools, NEW o \in Options
    PROVE  ParseArgs(k, o) \in Configs /\ (k = "c" => ParseArgs(k, o).trig # "none")
  <1>1. o \in [trig : Triggers, hz : Int, fifo_watermark : Int, length : Int, watermark : Int]
    BY SessionAssumption
  <1>2. "wm" \in Triggers /\ \A v \in Int : \A d \in Int : Default(v, d) \in Int
    BY DEF Triggers, Default
  <1>3. ParseArgsC(o) \in Configs /\ ParseArgsC(o).trig # "none"
    <2> DEFINE f == Default(o.fifo_watermark, 16)
               t == IF o.trig = "none" THEN "wm" ELSE o.trig
    <2>1. f \in Int /\ Default(o.hz, 1000) \in Int /\ Default(o.length, 256) \in Int
      BY <1>1 DEF Default
    <2>2. Default(o.watermark, f) \in Int
      BY <1>1, <1>2, <2>1
    <2>3. t \in Triggers /\ t # "none"
      BY <1>1, <1>2
    <2> HIDE DEF f, t
    <2> QED BY <2>1, <2>2, <2>3 DEF ParseArgsC, Configs, f, t
  <1>4. ParseArgsCpp(o) \in Configs
    <2>1. /\ Default(o.hz, 1000) \in Int /\ Default(o.fifo_watermark, 16) \in Int
          /\ Default(o.length, 1024) \in Int /\ Default(o.watermark, 16) \in Int
      BY <1>1 DEF Default
    <2> QED BY <1>1, <2>1 DEF ParseArgsCpp, Configs
  <1> QED BY <1>3, <1>4 DEF ParseArgs

\* Bounds are kept.
LEMMA CountsKept ==
    TypeInv /\ faults \in Nat /\ faults' \in Nat /\ [Next]_vars =>
        /\ others' \in Nat /\ runs' \in 0 .. MaxRuns /\ binds' \in Nat
        /\ others' + binds' + faults' <= MaxEvents + 1
  <1> SUFFICES ASSUME TypeInv, faults \in Nat, faults' \in Nat, [Next]_vars
               PROVE  /\ others' \in Nat /\ runs' \in 0 .. MaxRuns /\ binds' \in Nat
                      /\ others' + binds' + faults' <= MaxEvents + 1
    OBVIOUS
  <1>0. /\ MaxRuns \in Nat /\ MaxEvents \in Nat /\ others \in Nat /\ runs \in 0 .. MaxRuns
        /\ binds \in Nat /\ others + binds + faults <= MaxEvents + 1
    BY SessionAssumption DEF TypeInv
  <1>1. CASE UNCHANGED <<counts, faults>>
    BY <1>0, <1>1 DEF counts
  <1>2. ASSUME NEW k \in Tools, NEW o \in Options, ToolStart(k, o)
        PROVE  UNCHANGED <<others, binds, faults>> /\ runs' \in 0 .. MaxRuns
    BY <1>0, <1>2 DEF ToolStart, settings_vars
  <1>3. CASE ToolIssue \/ ToolDisable
    <2>1. \A b : EnableStart("tool", b) => UNCHANGED faults
      BY DEF EnableStart
    <2>2. \A r, v : WriteRaw("tool", r, v) => UNCHANGED faults
      BY DEF WriteRaw
    <2>3. DisableStart("tool") => UNCHANGED faults
      BY DEF DisableStart
    <2>4. UNCHANGED <<counts, faults>>
      BY <1>3, <2>1, <2>2, <2>3 DEF ToolIssue, ToolDisable, IssueEnable, settings_vars
    <2> QED BY <1>1, <2>4
  <1>4. CASE ToolStore \/ ToolReturn \/ ToolExit \/ RunEnds \/ ToolKilled \/ Rest
    BY <1>1, <1>4 DEF ToolStore, ToolReturn, ToolExit, RunEnds, ToolKilled, Rest, vars,
                      session_vars, settings_vars
  <1>5. CASE ToolCall \/ OtherCall \/ BindStep
    BY <1>0, <1>5 DEF ToolCall, OtherCall, BindStep, NoteFault, Within, counts
  <1>6. CASE OtherStart
    <2>1. others' = others + 1 /\ runs' = runs /\ binds' = binds /\ Within
      BY <1>6 DEF OtherStart
    <2>2. others' \in Nat /\ runs' \in 0 .. MaxRuns /\ binds' \in Nat
      BY <1>0, <2>1
    <2> QED BY <2>1, <2>2 DEF Within
  <1>7. CASE BindStart
    <2>1. others' = others /\ runs' = runs /\ binds' = binds + 1 /\ Within
      BY <1>7 DEF BindStart
    <2>2. others' \in Nat /\ runs' \in 0 .. MaxRuns /\ binds' \in Nat
      BY <1>0, <2>1
    <2> QED BY <2>1, <2>2 DEF Within
  <1>8. CASE UNCHANGED vars
    BY <1>1, <1>8 DEF vars, session_vars, settings_vars
  <1> QED BY <1>0, <1>2, <1>3, <1>4, <1>5, <1>6, <1>7, <1>8 DEF Next, ToolStep

\* The attributes keep their types.
LEMMA BufferKept == TypeInv /\ ToolInv /\ [Next]_vars => buf' \in Buffers
  <1> SUFFICES ASSUME TypeInv, ToolInv, [Next]_vars PROVE buf' \in Buffers
    OBVIOUS
  <1>0. buf \in Buffers /\ FreshBuffer \in Buffers
    BY FreshTyped DEF TypeInv
  <1>1. CASE ToolStore
    <2>1. Fine(Program[step])
      BY ProgramShape DEF TypeInv
    <2>2. \/ buf' = buf
          \/ /\ Program[step].attr \in DOMAIN buf
             /\ StoreTaken(Program[step].attr, Program[step].val)
             /\ buf' = Stored(Program[step].attr, Program[step].val)
      BY <1>1 DEF ToolStore
    <2> QED BY <1>0, <2>1, <2>2, StoredTyped DEF Fine
  <1>2. CASE OtherStart
    <2>1. \/ buf' = buf
          \/ \E r \in OthersSet :
                r[1] \in DOMAIN buf /\ StoreTaken(r[1], r[2]) /\ buf' = Stored(r[1], r[2])
      BY <1>2 DEF OtherStart
    <2> QED BY <1>0, <2>1, StoredTyped, OthersFit
  <1>3. CASE BindStep
    BY <1>0, <1>3 DEF BindStep
  <1>4. CASE UNCHANGED buf
    BY <1>0, <1>4
  <1> QED BY <1>1, <1>2, <1>3, <1>4
          DEF Next, ToolStep, vars, session_vars, ToolStart, ToolIssue, ToolReturn, ToolDisable,
              ToolExit, ToolCall, RunEnds, ToolKilled, OtherCall, BindStart, Rest

\* A program changes with its tool only.
LEMMA ProgramKept == UNCHANGED <<tool, cfg>> => UNCHANGED Program
  BY DEF Program

\* The place a write that is over leads to.
PlaceOf(ph, st, tr, w) ==
    /\ ph \in Phases /\ st \in 1 .. Len(Program) /\ tr \in Nat /\ w \in BOOLEAN
    /\ ph # "configure" => st = 1 /\ tr = 0 /\ ~w
    /\ ph = "configure" => tr < Program[st].tries /\ (w => Program[st].every)

\* It is one.
LEMMA WriteLeads ==
    ASSUME TypeInv, PlaceInv, phase = "configure", NEW took \in BOOLEAN, WriteDone(took)
    PROVE  PlaceOf(phase', step', tries', worked')
  <1>1. /\ Len(Program) \in {11, 12} /\ \A k \in 1 .. Len(Program) : Fine(Program[k])
        /\ step \in 1 .. Len(Program) /\ tries \in Nat /\ worked \in BOOLEAN
    BY ProgramShape DEF TypeInv
  <1>2. CASE /\ step < Len(Program) /\ step' = step + 1 /\ phase' = phase
             /\ tries' = 0 /\ ~worked'
    <2>1. worked' = FALSE
      BY <1>2 DEF WriteDone, Advance
    <2>2. step + 1 \in 1 .. Len(Program) /\ Program[step + 1].tries \in 1 .. 4
      BY <1>1, <1>2 DEF Fine
    <2>3. step' \in 1 .. Len(Program) /\ tries' \in Nat /\ tries' < Program[step'].tries
      BY <1>2, <2>2
    <2> QED BY <1>2, <2>1, <2>3 DEF PlaceOf, Phases
  <1>3. CASE /\ step' = 1 /\ phase' \in {"run", "give_up"} /\ tries' = 0 /\ ~worked'
    <2>1. worked' \in BOOLEAN
      BY <1>1, ZenonT(20) DEF WriteDone, Advance
    <2> QED BY <1>1, <1>3, <2>1 DEF PlaceOf, Phases
  <1>4. CASE /\ step' = step /\ phase' = phase /\ tries' = tries + 1
             /\ tries + 1 < Program[step].tries /\ worked' = (worked \/ took)
             /\ (took => Program[step].every)
    <2>1. worked' \in BOOLEAN /\ (worked' => Program[step].every)
      BY <1>4 DEF PlaceInv
    <2> QED BY <1>1, <1>4, <2>1 DEF PlaceOf, Phases
  <1> QED BY <1>2, <1>3, <1>4, WriteOutcome

\* The flags are Boolean.
LEMMA FlagsKept ==
    TypeInv /\ [Next]_vars => issued' \in BOOLEAN /\ outside' \in BOOLEAN /\ failed' \in BOOLEAN
  <1> SUFFICES ASSUME TypeInv, [Next]_vars
               PROVE  issued' \in BOOLEAN /\ outside' \in BOOLEAN /\ failed' \in BOOLEAN
    OBVIOUS
  <1>0. issued \in BOOLEAN /\ outside \in BOOLEAN /\ failed \in BOOLEAN
    BY DEF TypeInv
  <1>1. \/ issued' \in {issued, TRUE, FALSE}
    BY DEF Next, ToolStep, vars, session_vars, progress, ToolStart, ToolStore, ToolIssue,
           ToolReturn, ToolDisable, ToolExit, ToolCall, RunEnds, ToolKilled, OtherStart, OtherCall,
           BindStart, BindStep, Rest
  <1>2. NoteOther \/ outside' \in {outside, FALSE, driver # "bound"}
    BY DEF Next, ToolStep, vars, session_vars, progress, ToolStart, ToolStore, ToolIssue,
           ToolReturn, ToolDisable, ToolExit, ToolCall, RunEnds, ToolKilled, OtherStart, OtherCall,
           BindStart, BindStep, Rest
  <1>3. NoteFault \/ failed' \in {failed, FALSE, TRUE}
    BY DEF Next, ToolStep, vars, session_vars, progress, ToolStart, ToolStore, ToolIssue,
           ToolReturn, ToolDisable, ToolExit, ToolCall, RunEnds, ToolKilled, OtherStart, OtherCall,
           BindStart, BindStep, Rest
  <1>4. NoteOther => outside' \in BOOLEAN
    BY Zenon DEF NoteOther
  <1>5. NoteFault => failed' \in BOOLEAN
    BY Zenon DEF NoteFault
  <1> QED BY <1>0, <1>1, <1>2, <1>3, <1>4, <1>5

\* A tool's options, and its place in its program.
LEMMA PlaceKept ==
    TypeInv /\ PlaceInv /\ [Next]_vars =>
        /\ tool' \in Tools /\ cfg' \in Configs /\ (tool' = "c" => cfg'.trig # "none")
        /\ PlaceOf(phase, step, tries, worked)'
        /\ phase' \notin {"idle", "refused"} => ArgsAccepted(cfg')
  <1> SUFFICES ASSUME TypeInv, PlaceInv, [Next]_vars
               PROVE  /\ tool' \in Tools /\ cfg' \in Configs /\ (tool' = "c" => cfg'.trig # "none")
                      /\ PlaceOf(phase, step, tries, worked)'
                      /\ phase' \notin {"idle", "refused"} => ArgsAccepted(cfg')
    OBVIOUS
  <1>0. PlaceOf(phase, step, tries, worked)
    BY DEF TypeInv, PlaceInv, PlaceOf
  <1>1. ASSUME NEW k \in Tools, NEW o \in Options, ToolStart(k, o)
        PROVE  /\ tool' \in Tools /\ cfg' \in Configs /\ (tool' = "c" => cfg'.trig # "none")
               /\ PlaceOf(phase, step, tries, worked)'
               /\ phase' \notin {"idle", "refused"} => ArgsAccepted(cfg')
    <2>1. /\ tool' = k /\ cfg' = ParseArgs(k, o)
          /\ step' = 1 /\ tries' = 0 /\ worked' = FALSE
          /\ phase' = IF ArgsAccepted(cfg') THEN "configure" ELSE "refused"
      BY <1>1 DEF ToolStart
    <2>2. tool' \in Tools /\ cfg' \in Configs /\ (tool' = "c" => cfg'.trig # "none")
      BY <2>1, ConfigTyped
    <2>3. (Len(Program) \in {11, 12} /\ Program[1] = May("enable", 0))'
      <3>1. (tool \in Tools /\ cfg \in Configs)'
        BY <2>2
      <3> QED BY <3>1, ProgramShape, PTL
    <2>4. PlaceOf(phase, step, tries, worked)'
      <3>1. 1 \in 1 .. Len(Program)' /\ (Program[1])'.tries = 1
        BY <2>3 DEF May, Step
      <3>2. step' \in 1 .. Len(Program)' /\ tries' < (Program[step])'.tries
        BY <2>1, <3>1
      <3> QED BY <2>1, <3>2 DEF PlaceOf, Phases
    <2> QED BY <2>1, <2>2, <2>4
  <1> SUFFICES ASSUME \A k \in Tools, o \in Options : ~ToolStart(k, o)
               PROVE  /\ UNCHANGED <<tool, cfg>> /\ PlaceOf(phase, step, tries, worked)'
                      /\ phase' \notin {"idle", "refused"} => phase \notin {"idle", "refused"}
    BY <1>1 DEF TypeInv, PlaceInv
  <1>2. UNCHANGED <<tool, cfg>>
    BY DEF Next, ToolStep, vars, session_vars, ToolStore, ToolIssue,
           ToolReturn, ToolDisable, ToolExit, ToolCall, RunEnds, ToolKilled, OtherStart, OtherCall,
           BindStart, BindStep, Rest
  <1>3. UNCHANGED Program
    BY <1>2, ProgramKept
  <1> SUFFICES /\ PlaceOf(phase', step', tries', worked')
               /\ phase' \notin {"idle", "refused"} => phase \notin {"idle", "refused"}
    BY <1>2, <1>3 DEF PlaceOf
  <1>4. CASE ToolStore
    <2>1. phase = "configure" /\ \E took \in BOOLEAN : WriteDone(took)
      <3>1. \A a, v : StoreTaken(a, v) \in BOOLEAN
        BY Zenon DEF StoreTaken
      <3>2. (Program[step].attr = "output" \/ SysfsThere) \in BOOLEAN
        BY Zenon
      <3> QED BY <1>4, <3>1, <3>2 DEF ToolStore, Configuring
    <2> QED BY <2>1, WriteLeads
  <1>5. CASE ToolReturn
    <2>1. phase = "configure" /\ \E took \in BOOLEAN : WriteDone(took)
      BY <1>5 DEF ToolReturn, Configuring
    <2> QED BY <2>1, WriteLeads
  <1>6. CASE UNCHANGED <<phase, step, tries, worked>>
    BY <1>0, <1>6
  <1>7. CASE /\ UNCHANGED <<step, tries, worked>> /\ phase' \in {"stop", "exit", "give_up"}
             /\ phase \in {"run", "give_up", "stop"}
    BY <1>0, <1>7 DEF PlaceOf, Phases
  <1>8. CASE ToolKilled
    <2>1. phase' = "idle" /\ step' = 1 /\ tries' = 0 /\ worked' = FALSE /\ 1 \in 1 .. Len(Program)
      BY <1>8, ProgramShape DEF ToolKilled, TypeInv
    <2> QED BY <2>1 DEF PlaceOf, Phases
  <1> QED BY <1>4, <1>5, <1>6, <1>7, <1>8
          DEF Next, ToolStep, vars, session_vars, progress, ToolIssue, ToolDisable, ToolExit,
              ToolCall, RunEnds, OtherStart, OtherCall, BindStart, BindStep, Rest

\* Types and places are kept.
LEMMA TypesKept ==
    /\ TypeInv /\ PlaceInv /\ ToolInv /\ faults \in Nat /\ faults' \in Nat /\ [Next]_vars
         => TypeInv' /\ PlaceInv'
  <1> SUFFICES ASSUME TypeInv, PlaceInv, ToolInv, faults \in Nat, faults' \in Nat, [Next]_vars
               PROVE  TypeInv' /\ PlaceInv'
    OBVIOUS
  <1>1. /\ others' \in Nat /\ runs' \in 0 .. MaxRuns /\ binds' \in Nat
        /\ others' + binds' + faults' <= MaxEvents + 1
    BY CountsKept
  <1>2. buf' \in Buffers /\ issued' \in BOOLEAN /\ outside' \in BOOLEAN /\ failed' \in BOOLEAN
    BY BufferKept, FlagsKept
  <1>3. /\ tool' \in Tools /\ cfg' \in Configs /\ (tool' = "c" => cfg'.trig # "none")
        /\ PlaceOf(phase, step, tries, worked)'
        /\ phase' \notin {"idle", "refused"} => ArgsAccepted(cfg')
    BY PlaceKept
  <1>4. (others + binds + faults <= MaxEvents + 1)'
    BY <1>1, SessionAssumption
  <1>5. Buffers' = Buffers
    BY DEF Buffers, Triggers
  <1>6. TypeInv'
    BY <1>1, <1>2, <1>3, <1>5 DEF TypeInv, PlaceOf, Phases, Configs, Triggers
  <1>7. PlaceInv'
    BY <1>3 DEF PlaceInv, PlaceOf, ArgsAccepted
  <1> QED BY <1>6, <1>7

\* They hold at first.
LEMMA TypesInitially == Init => TypeInv /\ PlaceInv /\ ToolInv
  <1> SUFFICES ASSUME Init PROVE TypeInv /\ PlaceInv /\ ToolInv
    OBVIOUS
  <1>1. ToolInv
    BY SessionAssumption DEF Init, SettingsInit, ToolInv, FreshBuffer
  <1>2. tool \in Tools /\ cfg \in Configs /\ (tool = "c" => cfg.trig # "none")
    <2>1. tool \in Tools /\ (CHOOSE o \in Options : TRUE) \in Options
      BY SessionAssumption DEF Init
    <2>2. cfg = ParseArgs(tool, CHOOSE o \in Options : TRUE)
      BY DEF Init
    <2> QED BY <2>1, <2>2, ConfigTyped
  <1>3. 1 \in 1 .. Len(Program)
    BY <1>2, ProgramShape
  <1>4. buf \in Buffers
    BY FreshTyped DEF Init
  <1>5. others + binds + faults <= MaxEvents + 1 /\ 0 \in 0 .. MaxRuns
    BY SessionAssumption DEF Init, SettingsInit
  <1>6. TypeInv
    BY <1>2, <1>3, <1>4, <1>5 DEF Init, TypeInv, Phases
  <1>7. PlaceInv
    BY DEF Init, PlaceInv
  <1> QED BY <1>1, <1>6, <1>7

\* A session's invariant so far.
BaseInv == IInv /\ ToolInv /\ TypeInv /\ PlaceInv

\* It is inductive ...
LEMMA BaseInductive == BaseInv /\ [Next]_vars => BaseInv'
  <1> SUFFICES ASSUME BaseInv, [Next]_vars PROVE BaseInv'
    OBVIOUS
  <1>1. IInv'
    BY SessionSteps, SettingsInductive DEF BaseInv
  <1>2. ToolInv'
    BY ToolKept DEF BaseInv, IInv, SettingsTypeOK
  <1>3. faults \in Nat /\ faults' \in Nat
    BY <1>1, SettingsAssumption DEF BaseInv, IInv, SettingsTypeOK
  <1>4. TypeInv' /\ PlaceInv'
    BY <1>3, TypesKept DEF BaseInv
  <1> QED BY <1>1, <1>2, <1>4 DEF BaseInv

\* ... and holds in every session.
LEMMA BaseInvariant == Spec => []BaseInv
  <1>1. Init => BaseInv
    BY TypesInitially, SettingsInitially DEF Init, BaseInv
  <1> QED BY <1>1, BaseInductive, PTL DEF Spec

\* The variables of a session are what parse_args, the attributes and the programs
\* of the two tools make them, and a tool never leaves its program.
THEOREM SessionTypeCorrect == Spec => []TypeOK
  <1>1. BaseInv => TypeOK
    <2> SUFFICES ASSUME BaseInv PROVE TypeOK
      OBVIOUS
    <2> USE DEF BaseInv, TypeInv
    <2>1. SettingsTypeOK
      BY DEF IInv
    <2>2. tries \in 0 .. 3
      <3>1. Fine(Program[step])
        BY ProgramShape
      <3> QED BY <3>1 DEF PlaceInv, Fine
    <2>3. /\ buf.scan \in {"none", "part", "all"} /\ buf.trig \in Triggers
          /\ buf.fifo_watermark \in 1 .. 73 /\ buf.length \in Nat
          /\ buf.watermark \in 1 .. buf.length
      BY DEF Buffers
    <2>4. \A b \in {worked, issued, outside, failed} : b \in BOOLEAN
      OBVIOUS
    <2> QED BY <2>1, <2>2, <2>3, <2>4 DEF TypeOK, Phases
  <1> QED BY <1>1, BaseInvariant, PTL

-----------------------------------------------------------------------------
(* What a tool has achieved.                                               *)

\* The tool's system call is over.
Over == pc["tool"] \in {"release", "idle"}

\* Where a system call that a tool has issued is, and what it has achieved.
OwnInv ==
    phase = "configure" /\ issued =>
        LET s == Program[step]
        IN  /\ s.attr = "enable" /\ s.val = 1 =>
                 \/ pc["tool"] \in {"preenable", "enable"}
                 \/ Over /\ (~outside /\ ret["tool"] = "OK" => enabled)
            /\ s.attr = "enable" /\ s.val # 1 => pc["tool"] = "postdisable" \/ Over
            /\ s.attr = "sampling_frequency" =>
                 \/ pc["tool"] \in {"claim", "lock", "store"} /\ req["tool"] = <<s.attr, s.val>>
                 \/ Over /\ (~outside /\ ret["tool"] = "OK" => RateSet)

\* What somebody else can be in without having been seen.
SeenInv ==
    ~outside =>
        /\ phase \in {"configure", "run"} => driver = "bound"
        /\ phase = "configure" /\ (issued \/ step > 1) => pc["shell"] \in {"idle", "claim"}
        /\ phase = "run" => pc["shell"] \in {"idle", "claim", "release"}
        /\ worked => RateSet

FifoSet == buf.fifo_watermark = Clamp(cfg.fifo_watermark)

LengthSet == buf.length = IF cfg.length < 2 THEN 2 ELSE cfg.length

\* What the steps that are done have set: the C tool's and the C++ tool's.
DoneC ==
    /\ step > 4 => buf.trig = cfg.trig
    /\ step > 5 => RateSet
    /\ step > 6 => FifoSet
    /\ step > 7 => LengthSet
    /\ step > 8 => buf.watermark = cfg.watermark /\ cfg.watermark <= buf.length

DoneCpp ==
    /\ step > 9 /\ cfg.trig # "none" => buf.trig = cfg.trig
    /\ tool = "cpp" =>
         /\ step > 4 => RateSet
         /\ step > 6 => FifoSet
         /\ step = 8 => buf.watermark = cfg.watermark /\ cfg.watermark <= buf.length
         /\ step > 8 => LengthSet
         /\ step > 8 =>
              buf.watermark = IF cfg.watermark <= buf.length THEN cfg.watermark ELSE buf.length

DoneInv ==
    ~outside /\ phase = "configure" =>
        /\ step > 3 => buf.scan = "all"
        /\ step > EnableAt => enabled
        /\ tool = "c" => DoneC
        /\ tool # "c" => DoneCpp

\* Nothing stands in the way of a C tool that nobody disturbs.
Undisturbed == tool = "c" /\ ~outside /\ ~failed /\ Satisfiable(cfg)

FreshInv ==
    Undisturbed /\ phase = "configure" =>
        /\ step = 1 /\ issued /\ Over => ret["tool"] = "OK" /\ ~enabled
        /\ step \in 2 .. 8 \/ (step = 9 /\ ~issued) => ~enabled
        /\ step \in {5, 9} /\ issued /\ Over => ret["tool"] = "OK"
        /\ step > 7 => cfg.watermark <= buf.length

SessionInv == OwnInv /\ SeenInv /\ DoneInv /\ FreshInv /\ CapturesAsAsked /\ FreshStartSucceeds

\* Which steps are system calls of Settings.
LEMMA OwnSteps ==
    ASSUME TypeInv, NEW k \in 1 .. Len(Program)
    PROVE  /\ Program[k].attr = "enable" /\ Program[k].val = 1 => k = EnableAt
           /\ Program[k].attr = "enable" /\ Program[k].val # 1 => k = 1
           /\ Program[k].attr = "sampling_frequency" =>
                k \in {4, 5} /\ Program[k].val = cfg.hz /\ (tool = "c" => k = 5)
           /\ Program[k].attr \notin OwnCalls => ~Program[k].every
           /\ k \in {1, EnableAt} => Program[k].attr = "enable" /\ ~Program[k].every
           /\ k > EnableAt <=> Program[k].attr \in {"chardev", "output"}
  <1> DEFINE T(j) ==
           /\ Program[j].attr = "enable" /\ Program[j].val = 1 => j = EnableAt
           /\ Program[j].attr = "enable" /\ Program[j].val # 1 => j = 1
           /\ Program[j].attr = "sampling_frequency" =>
                j \in {4, 5} /\ Program[j].val = cfg.hz /\ (tool = "c" => j = 5)
           /\ Program[j].attr \notin OwnCalls => ~Program[j].every
           /\ j \in {1, EnableAt} => Program[j].attr = "enable" /\ ~Program[j].every
           /\ j > EnableAt <=> Program[j].attr \in {"chardev", "output"}
  <1>1. EnableAt \in {9, 10} /\ Len(Program) = EnableAt + 2
    BY ProgramShape DEF TypeInv
  <1>2. CASE tool = "c"
    <2>1. EnableAt = 9
      BY <1>2 DEF EnableAt
    <2> USE <1>2, <2>1 DEF May, Must, Step, Chardev, Output, OwnCalls
    <2>2. T(1) /\ T(2) /\ T(3) /\ T(4)
      BY StepsOfC
    <2>3. T(5) /\ T(6) /\ T(7) /\ T(8)
      BY StepsOfC
    <2>4. T(9) /\ T(10) /\ T(11)
      BY StepsOfC
    <2> HIDE DEF T
    <2>5. k \in {1, 2, 3, 4, 5, 6, 7, 8, 9, 10, 11}
      BY <1>1
    <2>6. T(k)
      BY <2>2, <2>3, <2>4, <2>5
    <2> QED BY <2>6 DEF T
  <1>3. CASE tool # "c"
    <2> USE <1>3, <1>1 DEF May, Must, Step, Chardev, Output, OwnCalls
    <2>2. T(1) /\ T(2) /\ T(3) /\ T(4)
      BY StepsOfCpp
    <2>3. T(5) /\ T(6) /\ T(7) /\ T(8)
      BY StepsOfCpp
    <2>4. T(EnableAt) /\ T(EnableAt + 1) /\ T(EnableAt + 2)
      BY StepsOfCpp
    <2>5. EnableAt = 10 => T(9)
      BY StepsOfCpp DEF EnableAt
    <2> HIDE DEF T
    <2>6. \/ k \in {1, 2, 3, 4, 5, 6, 7, 8, EnableAt, EnableAt + 1, EnableAt + 2}
          \/ EnableAt = 10 /\ k = 9
      BY <1>1
    <2>7. T(k)
      BY <2>2, <2>3, <2>4, <2>5, <2>6
    <2> QED BY <2>7 DEF T
  <1> QED BY <1>2, <1>3

\* Its system call is not disturbed by the others'.
LEMMA OthersLeaveRequest ==
    ASSUME TypeCalls, OtherStart \/ OtherCall \/ BindStart \/ BindStep
    PROVE  req'["tool"] = req["tool"]
  <1> USE SessionAssumption DEF TypeCalls, At
  <1>1. CASE OtherStart
    <2>1. CASE UNCHANGED settings_vars
      BY <2>1 DEF settings_vars, calls
    <2>2. CASE \E r \in Requests : WriteRaw("shell", r[1], r[2])
      BY <2>2 DEF WriteRaw
    <2>3. CASE EnableStart("shell", Startable) \/ DisableStart("shell")
      BY <2>3 DEF EnableStart, DisableStart
    <2> QED BY <1>1, <2>1, <2>2, <2>3 DEF OtherStart
  <1>2. CASE OtherCall
    BY <1>2 DEF OtherCall, CallStep, Claim, WriteRegister, StoreSetting, Release, Preenable,
                EnableEnd, Postdisable
  <1>3. CASE BindStart
    BY <1>3 DEF BindStart, ProbeStart, calls
  <1>4. CASE BindStep
    BY <1>4 DEF BindStep, ProbeStep, ProbeFails, ChipResets, StopDevice, Unregister, CheckChip,
                SoftReset, PollReset, ApplyRegister, InitDevice, Register, calls
  <1> QED BY <1>1, <1>2, <1>3, <1>4

\* Two facts about what goes on beside a tool.
LEMMA OthersBeside ==
    ASSUME BaseInv, SeenInv, phase = "configure",
           OtherStart \/ OtherCall \/ BindStart \/ BindStep
    PROVE  outside'
  <1>1. CASE BindStart
    BY <1>1, OthersAreSeen DEF BindStart, ProbeStart, SeenInv
  <1>2. CASE ~BindStart
    BY <1>2, OthersAreSeen
  <1> QED BY <1>1, <1>2

\* A tool's system call leaves the rest of the session alone.
LEMMA CallLeaves ==
    ASSUME TypeCalls, ToolInv, ToolCall
    PROVE  /\ UNCHANGED <<buf, tool, cfg, phase, step, tries, worked, issued, outside, driver>>
           /\ UNCHANGED <<Program, EnableAt>> /\ pc'["shell"] = pc["shell"]
           /\ issued /\ phase \in {"configure", "give_up", "stop"}
  <1>1. UNCHANGED <<buf, tool, cfg, phase, step, tries, worked, issued, outside>>
    BY DEF ToolCall, progress
  <1>2. UNCHANGED driver /\ pc'["shell"] = pc["shell"] /\ pc["tool"] # "idle"
    BY SessionAssumption
       DEF ToolCall, CallStep, Claim, WriteRegister, StoreSetting, Release, Preenable,
           EnableEnd, Postdisable, At, TypeCalls, binding
  <1>3. issued /\ phase \in {"configure", "give_up", "stop"}
    BY <1>2 DEF ToolInv
  <1> QED BY <1>1, <1>2, <1>3 DEF Program, EnableAt

\* The system call of a step goes on.
LEMMA OwnCallKept ==
    ASSUME BaseInv, OwnInv, SeenInv, ToolCall
    PROVE  OwnInv'
  <1> DEFINE s == Program[step]
  <1>0. TypeCalls /\ ToolInv /\ TypeInv /\ CallInv
    BY DEF BaseInv, IInv, SettingsTypeOK
  <1>1. /\ UNCHANGED <<buf, tool, cfg, phase, step, issued, outside, Program>>
        /\ issued /\ RateSet' = (reg'["sampling_frequency"] = odr_to_div(cfg.hz))
    BY <1>0, CallLeaves DEF RateSet
  <1> SUFFICES ASSUME phase = "configure" PROVE OwnInv'
    BY <1>1 DEF OwnInv
  <1>2. /\ s.attr = "enable" /\ s.val = 1 =>
             \/ pc["tool"] \in {"preenable", "enable"}
             \/ Over /\ (~outside /\ ret["tool"] = "OK" => enabled)
        /\ s.attr = "enable" /\ s.val # 1 => pc["tool"] = "postdisable" \/ Over
        /\ s.attr = "sampling_frequency" =>
             \/ pc["tool"] \in {"claim", "lock", "store"} /\ req["tool"] = <<s.attr, s.val>>
             \/ Over /\ (~outside /\ ret["tool"] = "OK" => RateSet)
    BY <1>1 DEF OwnInv
  <1>3. s.attr = "sampling_frequency" => s.val = cfg.hz
    BY <1>0, OwnSteps DEF TypeInv
  <1> DEFINE Good ==
        /\ s.attr = "enable" /\ s.val = 1 =>
             \/ pc'["tool"] \in {"preenable", "enable"}
             \/ Over' /\ (~outside /\ ret'["tool"] = "OK" => enabled')
        /\ s.attr = "enable" /\ s.val # 1 => pc'["tool"] = "postdisable" \/ Over'
        /\ s.attr = "sampling_frequency" =>
             \/ pc'["tool"] \in {"claim", "lock", "store"} /\ req'["tool"] = <<s.attr, s.val>>
             \/ Over' /\ (~outside /\ ret'["tool"] = "OK" => RateSet')
  <1> SUFFICES Good
    BY <1>1 DEF OwnInv
  <1>4. Over = (pc["tool"] \in {"release", "idle"}) /\ Over' = (pc'["tool"] \in {"release", "idle"})
    BY DEF Over
  <1> HIDE DEF s
  <1> USE SessionAssumption DEF TypeCalls, At, Returns
  <1>5. CASE Claim("tool")
    BY <1>0, <1>2, <1>4, <1>5 DEF Claim
  <1>6. CASE WriteRegister("tool")
    BY <1>0, <1>2, <1>4, <1>6 DEF WriteRegister
  <1>7. CASE StoreSetting("tool")
    <2>1. pc["tool"] = "store" /\ pc'["tool"] = "release" /\ UNCHANGED reg
      BY <1>0, <1>7 DEF StoreSetting, hw
    <2>2. s.attr = "sampling_frequency" => RateSet'
      <3> SUFFICES ASSUME s.attr = "sampling_frequency" PROVE RateSet'
        OBVIOUS
      <3>1. req["tool"][1] = "sampling_frequency" /\ req["tool"][2] = cfg.hz
        <4>1. req["tool"] = <<s.attr, s.val>>
          BY <1>2, <1>4, <2>1
        <4> QED BY <1>3, <4>1
      <3>2. reg["sampling_frequency"] = Encode("sampling_frequency", cfg.hz)
        BY <1>0, <2>1, <3>1 DEF CallInv
      <3> QED BY <1>1, <2>1, <3>2 DEF Encode
    <2> QED BY <1>2, <1>4, <2>1, <2>2
  <1>8. CASE Release("tool")
    <2>1. /\ pc["tool"] = "release" /\ pc'["tool"] = "idle" /\ UNCHANGED <<reg, ret, enabled>>
      BY <1>0, <1>8 DEF Release, hw
    <2> QED BY <1>1, <1>2, <1>4, <2>1 DEF RateSet
  <1>9. CASE Preenable("tool")
    BY <1>0, <1>2, <1>4, <1>9 DEF Preenable
  <1>10. CASE EnableEnd("tool")
    <2>1. pc["tool"] = "enable" /\ pc'["tool"] = "release" /\ enabled'
      BY <1>0, <1>10 DEF EnableEnd
    <2> QED BY <1>2, <1>4, <2>1
  <1>11. CASE Postdisable("tool")
    BY <1>0, <1>2, <1>4, <1>11 DEF Postdisable
  <1> QED BY <1>5, <1>6, <1>7, <1>8, <1>9, <1>10, <1>11 DEF ToolCall, CallStep

\* It is issued.
LEMMA OwnIssueKept ==
    ASSUME BaseInv, ToolIssue
    PROVE  OwnInv'
  <1> DEFINE s == Program[step]
  <1>0. TypeCalls /\ pc["tool"] = "idle"
    BY DEF BaseInv, IInv, SettingsTypeOK, ToolIssue, Configuring
  <1>1. UNCHANGED <<tool, cfg, phase, step, outside, Program>>
    BY DEF ToolIssue, Program
  <1> DEFINE Good ==
        /\ s.attr = "enable" /\ s.val = 1 =>
             \/ pc'["tool"] \in {"preenable", "enable"}
             \/ Over' /\ (~outside /\ ret'["tool"] = "OK" => enabled')
        /\ s.attr = "enable" /\ s.val # 1 => pc'["tool"] = "postdisable" \/ Over'
        /\ s.attr = "sampling_frequency" =>
             \/ pc'["tool"] \in {"claim", "lock", "store"} /\ req'["tool"] = <<s.attr, s.val>>
             \/ Over' /\ (~outside /\ ret'["tool"] = "OK" => RateSet')
  <1> SUFFICES Good
    BY <1>1 DEF OwnInv
  <1>2. Over' = (pc'["tool"] \in {"release", "idle"})
    BY DEF Over
  <1>3. \/ s.attr = "enable" /\ IssueEnable(s.val)
        \/ s.attr = "sampling_frequency" /\ WriteRaw("tool", s.attr, s.val)
    BY DEF ToolIssue
  <1> HIDE DEF s
  <1> USE SessionAssumption DEF TypeCalls, At, Returns
  <1>4. CASE s.attr = "enable" /\ IssueEnable(s.val) /\ s.val = 1
    <2>1. EnableStart("tool", Startable)
      BY <1>4 DEF IssueEnable
    <2>2. \/ enabled' /\ pc'["tool"] = "release"
          \/ pc'["tool"] = "release" /\ ret'["tool"] = "error"
          \/ pc'["tool"] = "preenable"
      BY <1>0, <2>1 DEF EnableStart
    <2>3. s.attr # "sampling_frequency"
      BY <1>4
    <2> QED BY <1>2, <1>4, <2>2, <2>3
  <1>5. CASE s.attr = "enable" /\ IssueEnable(s.val) /\ s.val # 1
    BY <1>0, <1>2, <1>5 DEF IssueEnable, DisableStart
  <1>6. CASE s.attr = "sampling_frequency" /\ WriteRaw("tool", s.attr, s.val)
    BY <1>0, <1>2, <1>6 DEF WriteRaw
  <1> QED BY <1>3, <1>4, <1>5, <1>6

\* What a tool has issued is where the step says, and has achieved what it reports.
LEMMA OwnKept == BaseInv /\ OwnInv /\ SeenInv /\ [Next]_vars => OwnInv'
  <1> SUFFICES ASSUME BaseInv, OwnInv, SeenInv, [Next]_vars PROVE OwnInv'
    OBVIOUS
  <1>0. TypeCalls /\ ToolInv
    BY DEF BaseInv, IInv, SettingsTypeOK
  <1>1. CASE ~(phase' = "configure" /\ issued')
    BY <1>1 DEF OwnInv
  <1>2. CASE ToolCall
    BY <1>2, OwnCallKept
  <1>3. CASE ToolIssue
    BY <1>3, OwnIssueKept
  <1>4. CASE OtherStart \/ OtherCall \/ BindStart \/ BindStep
    <2>1. /\ UNCHANGED <<tool, cfg, phase, step, issued>> /\ pc'["tool"] = pc["tool"]
          /\ req'["tool"] = req["tool"]
      BY <1>0, <1>4, OthersAreSeen, OthersLeaveCall, OthersLeaveRequest
    <2>2. UNCHANGED Program /\ (phase = "configure" => outside')
      BY <1>4, <2>1, OthersBeside, ProgramKept
    <2> QED BY <2>1, <2>2 DEF OwnInv, Over
  <1>5. CASE ToolStore
    <2>1. ~issued'
      BY <1>0, <1>5 DEF ToolStore, Configuring, ToolInv, OwnCalls
    <2> QED BY <1>1, <2>1
  <1>6. CASE Rest \/ UNCHANGED vars
    <2>1. UNCHANGED <<Program, step, phase, issued, pc, ret, req, enabled, reg, outside, cfg>>
      BY <1>6 DEF Rest, vars, session_vars, settings_vars, progress, calls, hw, Program
    <2> QED BY <2>1 DEF OwnInv, Over, RateSet
  <1>7. ASSUME NEW k \in Tools, NEW o \in Options, ToolStart(k, o) PROVE ~issued'
    BY <1>7 DEF ToolStart
  <1>8. CASE ToolReturn \/ RunEnds \/ ToolKilled \/ ToolExit \/ ToolDisable
    BY <1>1, <1>8 DEF ToolReturn, RunEnds, ToolKilled, ToolExit, ToolDisable
  <1> QED BY <1>1, <1>2, <1>3, <1>4, <1>5, <1>6, <1>7, <1>8 DEF Next, ToolStep

\* A tool's system call leaves the rate as it is, or makes it what the tool wants,
\* and turns the buffer off in the first step only.
LEMMA CallKeepsDone ==
    ASSUME BaseInv, OwnInv, ToolCall, phase = "configure"
    PROVE  (RateSet => RateSet') /\ (enabled /\ step # 1 => enabled')
  <1> DEFINE s == Program[step]
  <1>0. TypeCalls /\ TypeHw /\ ToolInv /\ TypeInv /\ issued
    BY CallLeaves DEF BaseInv, IInv, SettingsTypeOK
  <1>1. cfg' = cfg
    BY DEF ToolCall
  <1>2. s.attr \in OwnCalls
    BY <1>0 DEF ToolInv
  <1>3. pc["tool"] = "lock" => req["tool"] = <<"sampling_frequency", cfg.hz>>
    <2>1. pc["tool"] = "lock" => req["tool"] = <<s.attr, s.val>> /\ s.attr = "sampling_frequency"
      BY <1>0, <1>2 DEF OwnInv, Over, OwnCalls
    <2>2. s.attr = "sampling_frequency" => s.val = cfg.hz
      BY <1>0, OwnSteps DEF TypeInv
    <2> QED BY <2>1, <2>2
  <1>4. pc["tool"] = "postdisable" => step = 1
    <2>1. pc["tool"] = "postdisable" => s.attr = "enable" /\ s.val # 1
      BY <1>0, <1>2 DEF OwnInv, Over, OwnCalls
    <2> QED BY <1>0, <2>1, OwnSteps DEF TypeInv
  <1>5. CASE UNCHANGED <<reg, enabled>>
    BY <1>1, <1>5 DEF RateSet
  <1>6. CASE WriteRegister("tool")
    <2>1. pc["tool"] = "lock" /\ enabled' = enabled
      BY <1>6 DEF WriteRegister, At
    <2>2. \/ reg' = reg
          \/ reg' = [reg EXCEPT !["sampling_frequency"] = Encode("sampling_frequency", cfg.hz)]
      <3>1. req["tool"][1] = "sampling_frequency" /\ req["tool"][2] = cfg.hz
        BY <1>3, <2>1
      <3>2. \/ reg' = reg
            \/ reg' = [reg EXCEPT ![req["tool"][1]] = Encode(req["tool"][1], req["tool"][2])]
        BY <1>6 DEF WriteRegister
      <3> QED BY <3>1, <3>2
    <2>3. CASE reg' = reg
      BY <1>5, <2>1, <2>3
    <2>4. CASE reg' = [reg EXCEPT !["sampling_frequency"] = Encode("sampling_frequency", cfg.hz)]
      <3>1. reg'["sampling_frequency"] = odr_to_div(cfg.hz)
        BY <1>0, <2>4 DEF TypeHw, Kinds, Encode
      <3> QED BY <1>1, <2>1, <3>1 DEF RateSet
    <2> QED BY <2>2, <2>3, <2>4
  <1>7. CASE EnableEnd("tool")
    BY <1>1, <1>7 DEF EnableEnd, hw, RateSet
  <1>8. CASE Postdisable("tool")
    BY <1>1, <1>4, <1>8 DEF Postdisable, At, RateSet
  <1>9. CASE Claim("tool") \/ StoreSetting("tool") \/ Release("tool") \/ Preenable("tool")
    BY <1>5, <1>9 DEF Claim, StoreSetting, Release, Preenable, hw
  <1> QED BY <1>6, <1>7, <1>8, <1>9 DEF ToolCall, CallStep

\* While a tool captures and nobody is seen, nothing changes that it relies on.
LEMMA RunUndisturbed ==
    ASSUME BaseInv, SeenInv, enabled, phase = "run", ~outside',
           OtherStart \/ OtherCall \/ BindStart \/ BindStep
    PROVE  /\ UNCHANGED <<tool, cfg, phase, outside, driver, reg, enabled, buf>>
           /\ pc'["shell"] \in {"idle", "claim", "release"}
  <1>0. TypeCalls /\ ProbeInv /\ buf \in Buffers /\ outside \in BOOLEAN /\ outside' \in BOOLEAN
    <2>1. outside' \in BOOLEAN
      BY FlagsKept DEF BaseInv, Next
    <2> QED BY <2>1 DEF BaseInv, TypeInv, IInv, SettingsTypeOK
  <1>1. UNCHANGED <<tool, cfg, phase>> /\ ~outside
    BY OthersAreSeen
  <1>2. UNCHANGED outside
    BY <1>0, <1>1
  <1>3. driver = "bound" /\ pc["shell"] \in {"idle", "claim", "release"}
    BY <1>1 DEF SeenInv
  <1>4. NoteOther => pc'["shell"] # "postdisable" /\ driver' = driver
    BY ZenonT(30) DEF NoteOther
  <1> SUFFICES /\ UNCHANGED <<driver, reg, enabled, buf>>
               /\ pc'["shell"] \in {"idle", "claim", "release"}
    BY <1>1, <1>2
  <1> USE SessionAssumption DEF TypeCalls, At
  <1>5. CASE OtherStart
    <2>1. pc'["shell"] # "postdisable"
      BY <1>4, <1>5 DEF OtherStart
    <2>2. ASSUME NEW r, NEW v, WriteRaw("shell", r, v), UNCHANGED buf
          PROVE  UNCHANGED <<driver, reg, enabled, buf, pc>>
      BY <2>2 DEF WriteRaw, hw, binding
    <2>3. ASSUME EnableStart("shell", Startable), UNCHANGED buf
          PROVE  UNCHANGED <<driver, reg, enabled, buf>> /\ pc'["shell"] = "release"
      BY <1>0, <2>3 DEF EnableStart, hw, binding
    <2>4. ~DisableStart("shell")
      BY <1>0, <2>1 DEF DisableStart
    <2>5. ASSUME UNCHANGED settings_vars, NEW r \in OthersSet, r[1] \in DOMAIN buf,
                 StoreTaken(r[1], r[2]), buf' = Stored(r[1], r[2])
          PROVE  UNCHANGED <<driver, reg, enabled, buf, pc>>
      <3>1. UNCHANGED <<driver, reg, enabled, pc>>
        BY <2>5 DEF settings_vars, binding, hw, calls
      <3>2. BufferEnabled
        BY <1>3 DEF BufferEnabled, Sampling
      <3>3. r[1] = "length" /\ r[2] = buf.length
        BY <2>5, <3>2 DEF StoreTaken
      <3>4. buf' = [buf EXCEPT !.length = buf.length, !.watermark = buf.watermark]
        <4> DEFINE n == IF buf.length < 2 THEN 2 ELSE buf.length
                   m == IF n < buf.watermark THEN n ELSE buf.watermark
        <4>1. buf' = [buf EXCEPT !.length = n, !.watermark = m]
          BY <2>5, <3>3 DEF Stored
        <4>2. n = buf.length /\ m = buf.watermark
          BY <1>0 DEF Buffers
        <4> HIDE DEF n, m
        <4> QED BY <4>1, <4>2
      <3>5. buf' = buf
        BY <1>0, <3>4 DEF Buffers
      <3> QED BY <3>1, <3>5
    <2> QED BY <1>3, <1>5, <2>2, <2>3, <2>4, <2>5 DEF OtherStart
  <1>6. CASE OtherCall
    <2>1. buf' = buf /\ CallStep("shell")
      BY <1>6 DEF OtherCall
    <2>2. CASE Claim("shell")
      BY <1>0, <2>1, <2>2 DEF Claim, hw, binding
    <2>3. CASE Release("shell")
      BY <1>0, <2>1, <2>3 DEF Release, hw, binding
    <2>4. ~WriteRegister("shell") /\ ~StoreSetting("shell") /\ ~Preenable("shell")
          /\ ~EnableEnd("shell") /\ ~Postdisable("shell")
      BY <1>3 DEF WriteRegister, StoreSetting, Preenable, EnableEnd, Postdisable
    <2> QED BY <2>1, <2>2, <2>3, <2>4 DEF CallStep
  <1>7. ~BindStart
    BY <1>3 DEF BindStart, ProbeStart
  <1>8. ~BindStep
    <2>1. BindStep => driver' = driver
      BY <1>4 DEF BindStep
    <2> QED BY <1>0, <1>3, <2>1
            DEF BindStep, ProbeStep, ProbeFails, ChipResets, StopDevice, Unregister, CheckChip,
                SoftReset, PollReset, ApplyRegister, InitDevice, Register, ProbeInv
  <1> QED BY <1>5, <1>6, <1>7, <1>8

\* A tool whose system call returns, with nobody seen, had issued it: what it asked
\* for is done if it is told so.
LEMMA Returned ==
    ASSUME BaseInv, OwnInv, SeenInv, ToolReturn, ~outside
    PROVE  /\ phase = "configure" /\ issued /\ Over /\ WriteDone(ret["tool"] = "OK")
           /\ UNCHANGED <<settings_vars, buf, tool, cfg, outside, failed, Program, EnableAt>>
           /\ pc["shell"] \in {"idle", "claim"}
           /\ ret["tool"] = "OK" /\ Program[step].attr = "sampling_frequency" => RateSet
           /\ ret["tool"] = "OK" /\ step = EnableAt => enabled
  <1>0. TypeInv /\ step \in 1 .. Len(Program)
    BY DEF BaseInv, TypeInv
  <1>1. phase = "configure" /\ pc["tool"] = "idle" /\ Over
    BY DEF ToolReturn, Configuring, Over
  <1>2. SysfsThere
    BY <1>1 DEF SeenInv, SysfsThere
  <1>3. issued /\ WriteDone(ret["tool"] = "OK")
    BY <1>2 DEF ToolReturn
  <1>4. UNCHANGED <<settings_vars, buf, tool, cfg, outside, failed, Program, EnableAt>>
    BY DEF ToolReturn, Program, EnableAt
  <1>5. pc["shell"] \in {"idle", "claim"}
    BY <1>1, <1>3 DEF SeenInv
  <1>6. ret["tool"] = "OK" /\ Program[step].attr = "sampling_frequency" => RateSet
    BY <1>1, <1>3 DEF OwnInv
  <1>7. ret["tool"] = "OK" /\ step = EnableAt => enabled
    <2>1. step = EnableAt => Program[step].attr = "enable" /\ Program[step].val = 1
      <3>1. EnableAt # 1
        BY <1>0, ProgramShape DEF TypeInv
      <3> QED BY <1>0, <3>1, OwnSteps
    <2> QED BY <1>1, <1>3, <2>1 DEF OwnInv
  <1> QED BY <1>1, <1>3, <1>4, <1>5, <1>6, <1>7

\* A store is made in a step of its own, later than the first one.
LEMMA StoreIs ==
    ASSUME BaseInv, ToolStore
    PROVE  /\ phase = "configure" /\ ~issued /\ step > 1 /\ step \in 1 .. Len(Program)
           /\ Program[step].attr \notin OwnCalls /\ ~Program[step].every /\ ~worked
           /\ UNCHANGED <<settings_vars, tool, cfg, issued, outside, Program, EnableAt>>
           /\ \E took \in BOOLEAN : WriteDone(took)
  <1>0. TypeInv /\ ToolInv /\ PlaceInv /\ step \in 1 .. Len(Program) /\ Len(Program) \in {11, 12}
    BY ProgramShape DEF BaseInv, TypeInv
  <1>1. phase = "configure" /\ pc["tool"] = "idle"
    BY DEF ToolStore, Configuring
  <1>2. Program[step].attr \notin OwnCalls
    BY <1>0 DEF ToolStore, ToolInv, OwnCalls
  <1>3. ~issued
    BY <1>0, <1>1, <1>2 DEF ToolInv
  <1>4. step > 1
    <2>1. step # 1
      BY <1>0, <1>2, OwnSteps DEF OwnCalls
    <2> QED BY <1>0, <2>1
  <1>5. ~Program[step].every /\ ~worked
    BY <1>0, <1>1, <1>2, OwnSteps DEF PlaceInv
  <1>6. UNCHANGED <<settings_vars, tool, cfg, issued, outside, Program, EnableAt>>
    BY DEF ToolStore, Program, EnableAt
  <1>7. \E took \in BOOLEAN : WriteDone(took)
    <2>1. \A a, v : StoreTaken(a, v) \in BOOLEAN
      BY Zenon DEF StoreTaken
    <2>2. (Program[step].attr = "output" \/ SysfsThere) \in BOOLEAN
      BY Zenon
    <2> QED BY <2>1, <2>2 DEF ToolStore
  <1> QED BY <1>0, <1>1, <1>2, <1>3, <1>4, <1>5, <1>6, <1>7

\* Issuing a system call changes nothing but its place.
LEMMA IssueLeaves ==
    ASSUME TypeCalls, LockInv, ToolIssue
    PROVE  /\ UNCHANGED <<buf, tool, cfg, phase, step, tries, worked, outside, failed>>
           /\ UNCHANGED <<driver, reg, enabled, Program, EnableAt>>
           /\ phase = "configure" /\ pc["tool"] = "idle" /\ pc'["shell"] = pc["shell"]
           /\ Program[step].attr = "enable" => pc["shell"] \in {"idle", "claim"}
  <1> USE SessionAssumption DEF TypeCalls
  <1>1. /\ UNCHANGED <<buf, tool, cfg, phase, step, tries, worked, outside, failed>>
        /\ UNCHANGED <<Program, EnableAt>> /\ phase = "configure" /\ pc["tool"] = "idle"
    BY DEF ToolIssue, Configuring, Program, EnableAt
  <1>2. \/ Program[step].attr = "enable" /\ (EnableStart("tool", Startable) \/ DisableStart("tool"))
        \/ /\ Program[step].attr = "sampling_frequency"
           /\ WriteRaw("tool", Program[step].attr, Program[step].val)
    BY DEF ToolIssue, IssueEnable
  <1>3. CASE EnableStart("tool", Startable) \/ DisableStart("tool")
    <2>1. UNCHANGED <<driver, reg, enabled>> /\ pc'["shell"] = pc["shell"] /\ mlock = "free"
      BY <1>3 DEF EnableStart, DisableStart, At, hw, binding
    <2>2. mlock # "shell" /\ pc["shell"] \in {"idle", "claim"}
      BY <2>1, SettingsAssumption DEF LockInv, Holding
    <2> QED BY <1>1, <2>1, <2>2
  <1>4. CASE \E a, v : WriteRaw("tool", a, v)
    <2>1. UNCHANGED <<driver, reg, enabled>> /\ pc'["shell"] = pc["shell"]
      BY <1>4 DEF WriteRaw, At, hw, binding
    <2>2. Program[step].attr # "enable" \/ EnableStart("tool", Startable) \/ DisableStart("tool")
      BY <1>2
    <2> QED BY <1>1, <1>3, <2>1, <2>2
  <1> QED BY <1>2, <1>3, <1>4

\* Nobody can be in anything but a write that has not begun.
LEMMA SeenKept ==
    BaseInv /\ OwnInv /\ SeenInv /\ CapturesAsAsked /\ [Next]_vars => SeenInv'
  <1> SUFFICES ASSUME BaseInv, OwnInv, SeenInv, CapturesAsAsked, [Next]_vars PROVE SeenInv'
    OBVIOUS
  <1>0. /\ TypeCalls /\ LockInv /\ ToolInv /\ TypeInv /\ PlaceInv /\ TypeInv' /\ PlaceInv'
        /\ step \in 1 .. Len(Program)
    BY BaseInductive DEF BaseInv, IInv, SettingsTypeOK, TypeInv
  <1>1. CASE outside' \/ phase' \notin {"configure", "run"}
    BY <1>0, <1>1 DEF SeenInv, PlaceInv
  <1> DEFINE Seen ==
        /\ driver' = "bound"
        /\ phase' = "configure" /\ (issued' \/ step' > 1) => pc'["shell"] \in {"idle", "claim"}
        /\ phase' = "run" => pc'["shell"] \in {"idle", "claim", "release"}
        /\ worked' => RateSet'
  <1> SUFFICES ASSUME ~outside', phase' \in {"configure", "run"} PROVE Seen
    BY <1>1 DEF SeenInv
  <1>2. ASSUME NEW k \in Tools, NEW o \in Options, ToolStart(k, o) PROVE Seen
    <2>1. /\ driver' = driver /\ driver = "bound" /\ step' = 1 /\ issued' = FALSE
          /\ worked' = FALSE /\ phase' \in {"configure", "refused"}
      BY <1>2 DEF ToolStart, settings_vars, binding
    <2> QED BY <2>1
  <1>3. CASE ToolStore
    <2>1. /\ phase = "configure" /\ step > 1 /\ ~outside /\ UNCHANGED <<settings_vars, issued, cfg>>
          /\ ~worked /\ ~Program[step].every /\ \E took \in BOOLEAN : WriteDone(took)
      BY <1>3, StoreIs
    <2>2. ~worked'
      BY <2>1, WriteOutcome
    <2>3. driver = "bound" /\ pc["shell"] \in {"idle", "claim"}
      BY <2>1 DEF SeenInv
    <2> QED BY <2>1, <2>2, <2>3 DEF settings_vars, binding, calls
  <1>4. CASE ToolIssue
    <2>1. /\ UNCHANGED <<cfg, phase, step, worked, outside, driver, reg>> /\ phase = "configure"
          /\ pc'["shell"] = pc["shell"] /\ pc["tool"] = "idle"
          /\ Program[step].attr = "enable" => pc["shell"] \in {"idle", "claim"}
      BY <1>0, <1>4, IssueLeaves
    <2>2. step = 1 => Program[step].attr = "enable"
      BY <1>0, OwnSteps
    <2>3. pc["shell"] \in {"idle", "claim"} /\ driver = "bound" /\ (worked => RateSet)
      BY <1>0, <2>1, <2>2 DEF SeenInv
    <2> QED BY <2>1, <2>3 DEF RateSet
  <1>5. CASE ToolReturn
    <2>1. ~outside
      BY <1>5 DEF ToolReturn
    <2>2. /\ phase = "configure" /\ issued /\ WriteDone(ret["tool"] = "OK")
          /\ UNCHANGED <<settings_vars, cfg>> /\ pc["shell"] \in {"idle", "claim"}
          /\ ret["tool"] = "OK" /\ Program[step].attr = "sampling_frequency" => RateSet
      BY <1>5, <2>1, Returned
    <2>3. driver = "bound" /\ (worked => RateSet)
      BY <2>1, <2>2 DEF SeenInv
    <2>4. worked' => worked \/ (ret["tool"] = "OK" /\ Program[step].every)
      BY <2>2, WriteOutcome
    <2>5. Program[step].every => Program[step].attr = "sampling_frequency"
      BY ProgramShape DEF BaseInv, TypeInv, Fine
    <2>6. worked' => RateSet
      BY <2>2, <2>3, <2>4, <2>5
    <2> QED BY <2>2, <2>3, <2>6 DEF settings_vars, binding, calls, hw, RateSet
  <1>6. CASE ToolCall
    <2>1. /\ UNCHANGED <<cfg, phase, step, worked, outside, issued, driver>> /\ issued
          /\ pc'["shell"] = pc["shell"] /\ phase = "configure"
      BY <1>0, <1>6, CallLeaves
    <2>2. RateSet => RateSet'
      BY <1>6, <2>1, CallKeepsDone
    <2> QED BY <2>1, <2>2 DEF SeenInv
  <1>7. CASE OtherStart \/ OtherCall \/ BindStart \/ BindStep
    <2>1. phase' = phase /\ phase = "run"
      BY <1>7, OthersAreSeen, OthersBeside
    <2>2. ~outside
      BY <1>7, OthersAreSeen
    <2>3. enabled
      BY <2>1, <2>2 DEF CapturesAsAsked, LayoutAsAsked
    <2>4. UNCHANGED driver /\ pc'["shell"] \in {"idle", "claim", "release"}
      BY <1>7, <2>1, <2>3, RunUndisturbed
    <2>5. ~worked'
      BY <1>0, <2>1 DEF PlaceInv
    <2> QED BY <2>1, <2>2, <2>4, <2>5 DEF SeenInv
  <1>8. CASE Rest \/ UNCHANGED vars
    <2>1. UNCHANGED <<step, phase, issued, pc, driver, reg, outside, cfg, worked>>
      BY <1>8 DEF Rest, vars, session_vars, settings_vars, progress, calls, hw, binding
    <2> QED BY <2>1 DEF SeenInv, RateSet
  <1>9. ~RunEnds /\ ~ToolKilled /\ ~ToolDisable /\ ~ToolExit
    BY DEF RunEnds, ToolKilled, ToolDisable, ToolExit
  <1> QED BY <1>2, <1>3, <1>4, <1>5, <1>6, <1>7, <1>8, <1>9 DEF Next, ToolStep

\* What a store changes, and what it does not.
LEMMA StoredSets ==
    ASSUME buf \in Buffers
    PROVE  /\ \A v : LET b == Stored("scan", v)
                     IN  /\ b.scan = v /\ b.trig = buf.trig /\ b.length = buf.length
                         /\ b.fifo_watermark = buf.fifo_watermark /\ b.watermark = buf.watermark
           /\ \A v : LET b == Stored("trig", v)
                     IN  /\ b.trig = v /\ b.scan = buf.scan /\ b.length = buf.length
                         /\ b.fifo_watermark = buf.fifo_watermark /\ b.watermark = buf.watermark
           /\ \A v : LET b == Stored("fifo_watermark", v)
                     IN  /\ b.fifo_watermark = Clamp(v) /\ b.scan = buf.scan
                         /\ b.trig = buf.trig /\ b.length = buf.length
                         /\ b.watermark = buf.watermark
           /\ \A v : LET b == Stored("watermark", v)
                     IN  /\ b.watermark = v /\ b.scan = buf.scan /\ b.trig = buf.trig
                         /\ b.fifo_watermark = buf.fifo_watermark /\ b.length = buf.length
           /\ \A v \in Int : LET b == Stored("length", v)
                     IN  /\ b.scan = buf.scan /\ b.trig = buf.trig
                         /\ b.fifo_watermark = buf.fifo_watermark
                         /\ b.length = IF v < 2 THEN 2 ELSE v
                         /\ b.watermark =
                              IF buf.watermark <= b.length THEN buf.watermark ELSE b.length
  <1>1. buf \in [scan : {"none", "part", "all"}, trig : Triggers, fifo_watermark : 1 .. 73,
                 length : Nat, watermark : Nat]
    BY DEF Buffers
  <1>2. \A v : Stored("scan", v) = [buf EXCEPT !.scan = v]
    BY DEF Stored
  <1>3. \A v : Stored("trig", v) = [buf EXCEPT !.trig = v]
    BY DEF Stored
  <1>4. \A v : Stored("fifo_watermark", v) = [buf EXCEPT !.fifo_watermark = Clamp(v)]
    BY DEF Stored
  <1>5. \A v : Stored("watermark", v) = [buf EXCEPT !.watermark = v]
    BY DEF Stored
  <1>6. ASSUME NEW v \in Int
        PROVE  LET b == Stored("length", v)
               IN  /\ b.scan = buf.scan /\ b.trig = buf.trig
                   /\ b.fifo_watermark = buf.fifo_watermark
                   /\ b.length = IF v < 2 THEN 2 ELSE v
                   /\ b.watermark = IF buf.watermark <= b.length THEN buf.watermark ELSE b.length
    <2> DEFINE n == IF v < 2 THEN 2 ELSE v
               m == IF n < buf.watermark THEN n ELSE buf.watermark
    <2>1. Stored("length", v) = [buf EXCEPT !.length = n, !.watermark = m]
      BY DEF Stored
    <2>2. n = (IF v < 2 THEN 2 ELSE v) /\ m = IF buf.watermark <= n THEN buf.watermark ELSE n
      BY <1>1
    <2> HIDE DEF n, m
    <2> DEFINE c == [buf EXCEPT !.length = n]
               d == [c EXCEPT !.watermark = m]
    <2>3. /\ DOMAIN c = DOMAIN buf /\ c.length = n /\ c.scan = buf.scan /\ c.trig = buf.trig
          /\ c.fifo_watermark = buf.fifo_watermark
      BY <1>1
    <2>4. Stored("length", v) = d
      BY <2>1
    <2> HIDE DEF c
    <2>5. /\ d.length = n /\ d.scan = buf.scan /\ d.trig = buf.trig /\ d.watermark = m
          /\ d.fifo_watermark = buf.fifo_watermark
      BY <1>1, <2>3
    <2> HIDE DEF d
    <2> QED BY <2>2, <2>4, <2>5
  <1>7. ASSUME NEW v
        PROVE  LET b == Stored("scan", v)
               IN  /\ b.scan = v /\ b.trig = buf.trig /\ b.length = buf.length
                   /\ b.fifo_watermark = buf.fifo_watermark /\ b.watermark = buf.watermark
    BY <1>1, <1>2
  <1>8. ASSUME NEW v
        PROVE  LET b == Stored("trig", v)
               IN  /\ b.trig = v /\ b.scan = buf.scan /\ b.length = buf.length
                   /\ b.fifo_watermark = buf.fifo_watermark /\ b.watermark = buf.watermark
    BY <1>1, <1>3
  <1>9. ASSUME NEW v
        PROVE  LET b == Stored("fifo_watermark", v)
               IN  /\ b.fifo_watermark = Clamp(v) /\ b.scan = buf.scan
                   /\ b.trig = buf.trig /\ b.length = buf.length /\ b.watermark = buf.watermark
    BY <1>1, <1>4
  <1>10. ASSUME NEW v
         PROVE  LET b == Stored("watermark", v)
                IN  /\ b.watermark = v /\ b.scan = buf.scan /\ b.trig = buf.trig
                    /\ b.fifo_watermark = buf.fifo_watermark /\ b.length = buf.length
    BY <1>1, <1>5
  <1> QED BY <1>6, <1>7, <1>8, <1>9, <1>10

\* What becomes of a store.
LEMMA StoreOutcome ==
    ASSUME BaseInv, ToolStore
    PROVE  \/ /\ step' = step + 1 /\ phase' = phase /\ step < Len(Program)
              /\ step > EnableAt => buf' = buf
              /\ \/ /\ StoreTaken(Program[step].attr, Program[step].val)
                    /\ buf' = Stored(Program[step].attr, Program[step].val)
                 \/ buf' = buf /\ (Program[step].fatal => step > EnableAt)
           \/ phase' = "run" /\ buf' = buf /\ step > EnableAt
           \/ phase' = "give_up" /\ buf' = buf
           \/ step' = step /\ phase' = phase /\ buf' = buf
  <1> DEFINE s == Program[step]
  <1>0. /\ step \in 1 .. Len(Program) /\ Len(Program) = EnableAt + 2 /\ EnableAt \in {9, 10}
        /\ ~s.every /\ ~worked /\ ToolInv /\ TypeInv
    BY StoreIs, ProgramShape DEF BaseInv, TypeInv
  <1>1. step > EnableAt => s.attr \in {"chardev", "output"}
    BY <1>0, OwnSteps
  <1>2. CASE s.attr \in {"chardev", "output"}
    <2>1. buf' = buf
      BY <1>0, <1>2 DEF ToolStore, ToolInv
    <2>2. \E took \in BOOLEAN : WriteDone(took)
      BY StoreIs
    <2>3. step > EnableAt
      BY <1>0, <1>2, OwnSteps
    <2> QED BY <1>0, <2>1, <2>2, <2>3, WriteOutcome
  <1>3. CASE s.attr \notin {"chardev", "output"}
    <2> DEFINE took == StoreTaken(s.attr, s.val)
    <2>1. /\ buf' = IF took THEN Stored(s.attr, s.val) ELSE buf
          /\ WriteDone(took)
      BY <1>3 DEF ToolStore
    <2>2. took \in BOOLEAN
      BY Zenon DEF StoreTaken
    <2> HIDE DEF took
    <2>3. step <= EnableAt
      BY <1>0, <1>1, <1>3
    <2>4. CASE took
      <3>1. step' = step + 1 /\ phase' = phase /\ step < Len(Program)
        <4>1. took = TRUE
          BY <2>2, <2>4
        <4>2. WriteDone(TRUE)
          BY <2>1, <4>1
        <4>3. \/ step < Len(Program) /\ step' = step + 1 /\ phase' = phase
              \/ step = Len(Program)
              \/ s.every
          BY <4>2, WriteOutcome
        <4> QED BY <1>0, <2>3, <4>3
      <3>2. StoreTaken(s.attr, s.val) /\ buf' = Stored(s.attr, s.val)
        BY <2>1, <2>4 DEF took
      <3> QED BY <1>0, <2>3, <3>1, <3>2
    <2>5. CASE ~took
      BY <1>0, <2>1, <2>2, <2>3, <2>5, WriteOutcome
    <2> QED BY <2>4, <2>5
  <1> QED BY <1>2, <1>3

\* What is done after one more step, or after a step that failed, of the C tool.
LEMMA StoreKeepsDoneC ==
    ASSUME BaseInv, ToolStore, tool = "c", DoneC, step > 3 => buf.scan = "all",
           phase' = "configure"
    PROVE  DoneC' /\ (step' > 3 => buf'.scan = "all")
  <1>0. /\ buf \in Buffers /\ step \in 1 .. 11 /\ EnableAt = 9 /\ Len(Program) = 11
        /\ phase = "configure" /\ step # 1 /\ step # 5 /\ step # 9
        /\ UNCHANGED <<cfg, reg>> /\ cfg.length \in Int
    <2>1. step \in 1 .. 11 /\ Len(Program) = 11 /\ EnableAt = 9
      BY StepsOfC DEF BaseInv, TypeInv, EnableAt
    <2>2. step # 1 /\ step # 5 /\ step # 9
      BY StoreIs, StepsOfC DEF OwnCalls, May, Must, Step
    <2> QED BY <2>1, <2>2, StoreIs DEF BaseInv, TypeInv, Configs, settings_vars, hw
  <1> DEFINE Old(st) == /\ st > 3 => buf.scan = "all"
                        /\ st > 4 => buf.trig = cfg.trig
                        /\ st > 5 => RateSet
                        /\ st > 6 => FifoSet
                        /\ st > 7 => LengthSet
                        /\ st > 8 => buf.watermark = cfg.watermark /\ cfg.watermark <= buf.length
             New == /\ step' > 3 => buf'.scan = "all"
                    /\ step' > 4 => buf'.trig = cfg.trig
                    /\ step' > 5 => RateSet
                    /\ step' > 6 => buf'.fifo_watermark = Clamp(cfg.fifo_watermark)
                    /\ step' > 7 => buf'.length = IF cfg.length < 2 THEN 2 ELSE cfg.length
                    /\ step' > 8 => buf'.watermark = cfg.watermark /\ cfg.watermark <= buf'.length
  <1>1. Old(step)
    BY DEF DoneC
  <1> SUFFICES New
    BY <1>0 DEF DoneC, FifoSet, LengthSet, RateSet
  <1>2. CASE buf' = buf /\ step' = step
    BY <1>1, <1>2 DEF FifoSet, LengthSet
  <1>3. CASE buf' = buf /\ step' = step + 1 /\ (Program[step].fatal => step > EnableAt)
    <2>1. step \in {2, 10, 11}
      <3>1. /\ Program[3].fatal /\ Program[4].fatal /\ Program[6].fatal /\ Program[7].fatal
            /\ Program[8].fatal
        BY StepsOfC DEF Must, Step
      <3> QED BY <1>0, <1>3, <3>1
    <2> QED BY <1>1, <1>3, <2>1 DEF FifoSet, LengthSet
  <1>4. CASE /\ step' = step + 1 /\ StoreTaken(Program[step].attr, Program[step].val)
             /\ buf' = Stored(Program[step].attr, Program[step].val) /\ step <= EnableAt
    <2>1. step \in {2, 3, 4, 6, 7, 8}
      BY <1>0, <1>4
    <2> USE DEF FifoSet, LengthSet, May, Must, Step
    <2>2. CASE step = 2
      BY <1>4, <2>2
    <2>3. CASE step = 3
      <3>1. buf' = Stored("scan", "all")
        BY <1>4, <2>3, StepsOfC
      <3> QED BY <1>0, <1>4, <2>3, <3>1, StoredSets
    <2>4. CASE step = 4
      <3>1. buf' = Stored("trig", cfg.trig)
        BY <1>4, <2>4, StepsOfC
      <3> QED BY <1>0, <1>1, <1>4, <2>4, <3>1, StoredSets
    <2>5. CASE step = 6
      <3>1. buf' = Stored("fifo_watermark", cfg.fifo_watermark)
        BY <1>4, <2>5, StepsOfC
      <3> QED BY <1>0, <1>1, <1>4, <2>5, <3>1, StoredSets
    <2>6. CASE step = 7
      <3>1. buf' = Stored("length", cfg.length)
        BY <1>4, <2>6, StepsOfC
      <3> QED BY <1>0, <1>1, <1>4, <2>6, <3>1, StoredSets
    <2>7. CASE step = 8
      <3>1. buf' = Stored("watermark", cfg.watermark) /\ StoreTaken("watermark", cfg.watermark)
        BY <1>4, <2>7, StepsOfC
      <3>2. cfg.watermark <= buf.length
        BY <1>0, <3>1 DEF StoreTaken, Buffers
      <3> QED BY <1>0, <1>1, <1>4, <2>7, <3>1, <3>2, StoredSets
    <2> QED BY <2>1, <2>2, <2>3, <2>4, <2>5, <2>6, <2>7
  <1>5. step <= EnableAt \/ step > EnableAt
    BY <1>0
  <1> QED BY <1>0, <1>2, <1>3, <1>4, <1>5, StoreOutcome

\* The same of the C++ tool.
LEMMA StoreKeepsDoneCpp ==
    ASSUME BaseInv, ToolStore, tool # "c", DoneCpp, step > 3 => buf.scan = "all",
           phase' = "configure"
    PROVE  DoneCpp' /\ (step' > 3 => buf'.scan = "all")
  <1>0. /\ buf \in Buffers /\ step \in 1 .. 12 /\ EnableAt \in {9, 10}
        /\ phase = "configure" /\ step # 1 /\ step # 4 /\ step # 5 /\ step # EnableAt
        /\ UNCHANGED <<cfg, tool, reg>> /\ cfg.length \in Int
        /\ (EnableAt = 10 => cfg.trig # "none") /\ (EnableAt = 9 => cfg.trig = "none")
    <2>1. step \in 1 .. 12 /\ EnableAt \in {9, 10}
      BY ProgramShape DEF BaseInv, TypeInv
    <2>2. step # 1 /\ step # 4 /\ step # 5 /\ step # EnableAt
      BY StoreIs, StepsOfCpp DEF OwnCalls, May, Must, Step
    <2> QED BY <2>1, <2>2, StoreIs DEF BaseInv, TypeInv, Configs, settings_vars, hw, EnableAt
  <1> DEFINE Old(st) ==
               /\ st > 3 => buf.scan = "all"
               /\ st > 9 /\ cfg.trig # "none" => buf.trig = cfg.trig
               /\ tool = "cpp" =>
                    /\ st > 4 => RateSet
                    /\ st > 6 => FifoSet
                    /\ st = 8 => buf.watermark = cfg.watermark /\ cfg.watermark <= buf.length
                    /\ st > 8 => LengthSet
                    /\ st > 8 =>
                         buf.watermark =
                           IF cfg.watermark <= buf.length THEN cfg.watermark ELSE buf.length
             New ==
               /\ step' > 3 => buf'.scan = "all"
               /\ step' > 9 /\ cfg.trig # "none" => buf'.trig = cfg.trig
               /\ tool = "cpp" =>
                    /\ step' > 4 => RateSet
                    /\ step' > 6 => buf'.fifo_watermark = Clamp(cfg.fifo_watermark)
                    /\ step' = 8 => buf'.watermark = cfg.watermark /\ cfg.watermark <= buf'.length
                    /\ step' > 8 => buf'.length = IF cfg.length < 2 THEN 2 ELSE cfg.length
                    /\ step' > 8 =>
                         buf'.watermark =
                           IF cfg.watermark <= buf'.length THEN cfg.watermark ELSE buf'.length
  <1>1. Old(step)
    BY DEF DoneCpp
  <1> SUFFICES New
    BY <1>0 DEF DoneCpp, FifoSet, LengthSet, RateSet
  <1>2. CASE buf' = buf /\ step' = step
    BY <1>1, <1>2 DEF FifoSet, LengthSet
  <1>3. CASE buf' = buf /\ step' = step + 1 /\ (Program[step].fatal => step > EnableAt)
    <2>1. \/ step \in {2, 6, 7} /\ tool # "cpp"
          \/ step = 2
          \/ step > EnableAt
      <3>1. /\ Program[3].fatal /\ Program[8].fatal
            /\ tool = "cpp" => Program[6].fatal /\ Program[7].fatal
            /\ EnableAt = 10 => Program[9].fatal
        <4>1. Program[3].fatal /\ Program[8].fatal /\ (EnableAt = 10 => Program[9].fatal)
          BY <1>0, StepsOfCpp DEF Must, Step
        <4>2. Program[6].fatal = Required /\ Program[7].fatal = Required
          BY StepsOfCpp DEF Step
        <4>3. tool = "cpp" => Required
          BY DEF Required
        <4> QED BY <4>1, <4>2, <4>3
      <3>2. step \in {2, 3, 6, 7, 8} \/ (step = 9 /\ EnableAt = 10) \/ step > EnableAt
        BY <1>0
      <3> QED BY <1>0, <1>3, <3>1, <3>2
    <2> QED BY <1>0, <1>1, <1>3, <2>1 DEF FifoSet, LengthSet
  <1>4. CASE /\ step' = step + 1 /\ StoreTaken(Program[step].attr, Program[step].val)
             /\ buf' = Stored(Program[step].attr, Program[step].val) /\ step <= EnableAt
    <2>1. step \in {2, 3, 6, 7, 8} \/ (step = 9 /\ cfg.trig # "none")
      BY <1>0, <1>4
    <2> USE DEF FifoSet, LengthSet, May, Must, Step
    <2>2. CASE step = 2
      BY <1>4, <2>2
    <2>3. CASE step = 3
      <3>1. buf' = Stored("scan", "all")
        BY <1>4, <2>3, StepsOfCpp
      <3> QED BY <1>0, <1>4, <2>3, <3>1, StoredSets
    <2>4. CASE step = 9 /\ cfg.trig # "none"
      <3>1. buf' = Stored("trig", cfg.trig)
        BY <1>4, <2>4, StepsOfCpp
      <3> QED BY <1>0, <1>1, <1>4, <2>4, <3>1, StoredSets
    <2>5. CASE step = 6
      <3>1. buf' = Stored("fifo_watermark", cfg.fifo_watermark)
        BY <1>4, <2>5, StepsOfCpp
      <3> QED BY <1>0, <1>1, <1>4, <2>5, <3>1, StoredSets
    <2>6. CASE step = 7
      <3>1. buf' = Stored("watermark", cfg.watermark) /\ StoreTaken("watermark", cfg.watermark)
        BY <1>4, <2>6, StepsOfCpp
      <3>2. cfg.watermark <= buf.length
        BY <1>0, <3>1 DEF StoreTaken, Buffers
      <3> QED BY <1>0, <1>1, <1>4, <2>6, <3>1, <3>2, StoredSets
    <2>7. CASE step = 8
      <3>1. buf' = Stored("length", cfg.length)
        BY <1>4, <2>7, StepsOfCpp
      <3> QED BY <1>0, <1>1, <1>4, <2>7, <3>1, StoredSets
    <2> QED BY <2>1, <2>2, <2>3, <2>4, <2>5, <2>6, <2>7
  <1>5. step <= EnableAt \/ step > EnableAt
    BY <1>0
  <1> QED BY <1>0, <1>2, <1>3, <1>4, <1>5, StoreOutcome

\* What a system call that returns has done, in both tools.
LEMMA ReturnKeepsDone ==
    ASSUME BaseInv, OwnInv, SeenInv, DoneInv, ToolReturn, ~outside, phase' = "configure"
    PROVE  DoneInv'
  <1>0. /\ step \in 1 .. Len(Program) /\ EnableAt \in {9, 10} /\ Len(Program) = EnableAt + 2
        /\ TypeInv
    BY ProgramShape DEF BaseInv, TypeInv
  <1>1. /\ phase = "configure" /\ WriteDone(ret["tool"] = "OK")
        /\ UNCHANGED <<reg, enabled, buf, tool, cfg, outside, EnableAt>>
        /\ ret["tool"] = "OK" /\ Program[step].attr = "sampling_frequency" => RateSet
        /\ ret["tool"] = "OK" /\ step = EnableAt => enabled
    BY Returned DEF settings_vars, hw
  <1>2. \/ step' = step
        \/ step' = step + 1 /\ (Program[step].fatal => ret["tool"] = "OK" \/ worked)
    BY <1>1, WriteOutcome
  <1>3. step \in {1, 4, 5, EnableAt} /\ (tool = "c" => step # 4)
    <2>1. Program[step].attr \in {"enable", "sampling_frequency"}
      BY DEF ToolReturn
    <2> QED BY <1>0, <2>1, OwnSteps
  <1>4. worked => Program[step].every /\ RateSet
    BY <1>1 DEF SeenInv, BaseInv, PlaceInv
  <1>5. /\ step > 3 => buf.scan = "all"
        /\ step > EnableAt => enabled
        /\ tool = "c" => DoneC
        /\ tool # "c" => DoneCpp
    BY <1>1 DEF DoneInv
  <1>6. CASE step' = step
    BY <1>1, <1>5, <1>6 DEF DoneInv, DoneC, DoneCpp, RateSet, FifoSet, LengthSet
  <1>7. CASE step' = step + 1 /\ (Program[step].fatal => ret["tool"] = "OK" \/ worked)
    <2>1. step = EnableAt => enabled
      <3>1. step = EnableAt => Program[step].fatal /\ ~Program[step].every
        <4>1. step = EnableAt => Program[step] = Must("enable", 1)
          BY StepsOfC, StepsOfCpp DEF EnableAt
        <4> QED BY <4>1 DEF Must, Step
      <3> QED BY <1>1, <1>4, <1>7, <3>1
    <2>2. step = 5 /\ tool = "c" => RateSet
      <3>1. step = 5 /\ tool = "c" =>
              Program[step] = Step("sampling_frequency", cfg.hz, TRUE, 2, TRUE)
        BY StepsOfC
      <3> QED BY <1>1, <1>4, <1>7, <3>1 DEF Step
    <2>3. step = 4 /\ tool = "cpp" => RateSet
      <3>1. step = 4 /\ tool = "cpp" =>
              Program[step] = Step("sampling_frequency", cfg.hz, Required, 4, FALSE) /\ Required
        BY StepsOfCpp DEF Required
      <3> QED BY <1>1, <1>4, <1>7, <3>1 DEF Step
    <2>5. /\ step + 1 > 3 => buf.scan = "all"
          /\ step + 1 > EnableAt => enabled
      BY <1>0, <1>3, <1>5, <2>1
    <2>6. tool = "c" =>
            /\ step + 1 > 4 => buf.trig = cfg.trig
            /\ step + 1 > 5 => RateSet
            /\ step + 1 > 6 => FifoSet
            /\ step + 1 > 7 => LengthSet
            /\ step + 1 > 8 => buf.watermark = cfg.watermark /\ cfg.watermark <= buf.length
      <3> SUFFICES ASSUME tool = "c"
                   PROVE  /\ step + 1 > 4 => buf.trig = cfg.trig
                          /\ step + 1 > 5 => RateSet
                          /\ step + 1 > 6 => FifoSet
                          /\ step + 1 > 7 => LengthSet
                          /\ step + 1 > 8 =>
                               buf.watermark = cfg.watermark /\ cfg.watermark <= buf.length
        OBVIOUS
      <3>1. step \in {1, 5, 9}
        BY <1>3 DEF EnableAt
      <3> QED BY <1>5, <2>2, <3>1 DEF DoneC
    <2>7. tool # "c" =>
            /\ step + 1 > 9 /\ cfg.trig # "none" => buf.trig = cfg.trig
            /\ tool = "cpp" =>
                 /\ step + 1 > 4 => RateSet
                 /\ step + 1 > 6 => FifoSet
                 /\ step + 1 = 8 => buf.watermark = cfg.watermark /\ cfg.watermark <= buf.length
                 /\ step + 1 > 8 => LengthSet
                 /\ step + 1 > 8 =>
                      buf.watermark =
                        IF cfg.watermark <= buf.length THEN cfg.watermark ELSE buf.length
      <3>1. tool # "c" /\ step = 9 => cfg.trig = "none"
        BY <1>3 DEF EnableAt
      <3> QED BY <1>0, <1>3, <1>5, <2>3, <3>1 DEF DoneCpp
    <2> QED BY <1>1, <1>7, <2>5, <2>6, <2>7
          DEF DoneInv, DoneC, DoneCpp, RateSet, FifoSet, LengthSet
  <1> QED BY <1>2, <1>6, <1>7

\* What a tool has done stays done.
LEMMA DoneKept ==
    BaseInv /\ OwnInv /\ SeenInv /\ DoneInv /\ [Next]_vars => DoneInv'
  <1> SUFFICES ASSUME BaseInv, OwnInv, SeenInv, DoneInv, [Next]_vars,
                      ~outside', phase' = "configure"
               PROVE  DoneInv'
    BY DEF DoneInv
  <1>0. /\ TypeCalls /\ LockInv /\ ToolInv /\ TypeInv /\ EnableAt \in {9, 10}
        /\ step \in 1 .. Len(Program)
    BY ProgramShape DEF BaseInv, IInv, SettingsTypeOK, TypeInv
  <1>1. ASSUME NEW k \in Tools, NEW o \in Options, ToolStart(k, o) PROVE DoneInv'
    <2>1. step' = 1
      BY <1>1 DEF ToolStart
    <2> QED BY <2>1 DEF DoneInv, DoneC, DoneCpp, EnableAt
  <1>2. CASE ToolStore
    <2>1. /\ phase = "configure" /\ ~outside /\ UNCHANGED <<settings_vars, tool, cfg, EnableAt>>
      BY <1>2, StoreIs
    <2>2. enabled' = enabled /\ (step' > EnableAt => step > EnableAt)
      <3>1. step' = step \/ (step' = step + 1 /\ step # EnableAt)
        <4>1. step # EnableAt
          BY <1>0, <1>2, StoreIs, OwnSteps DEF OwnCalls
        <4> QED BY <1>2, <4>1, StoreOutcome
      <3> QED BY <1>0, <2>1, <3>1 DEF settings_vars
    <2>3. CASE tool = "c"
      <3>1. DoneC' /\ (step' > 3 => buf'.scan = "all")
        BY <1>2, <2>1, <2>3, StoreKeepsDoneC DEF DoneInv
      <3> QED BY <2>1, <2>2, <2>3, <3>1 DEF DoneInv
    <2>4. CASE tool # "c"
      <3>1. DoneCpp' /\ (step' > 3 => buf'.scan = "all")
        BY <1>2, <2>1, <2>4, StoreKeepsDoneCpp DEF DoneInv
      <3> QED BY <2>1, <2>2, <2>4, <3>1 DEF DoneInv
    <2> QED BY <2>3, <2>4
  <1>3. CASE ToolIssue
    <2>1. UNCHANGED <<buf, tool, cfg, phase, step, outside, reg, enabled, EnableAt>>
      BY <1>0, <1>3, IssueLeaves
    <2> QED BY <2>1 DEF DoneInv, DoneC, DoneCpp, RateSet, FifoSet, LengthSet
  <1>4. CASE ToolReturn
    <2>1. ~outside
      BY <1>4 DEF ToolReturn
    <2> QED BY <1>4, <2>1, ReturnKeepsDone
  <1>5. CASE ToolCall
    <2>1. UNCHANGED <<buf, tool, cfg, phase, step, outside, EnableAt>>
      BY <1>0, <1>5, CallLeaves
    <2>2. (RateSet => RateSet') /\ (enabled /\ step # 1 => enabled')
      BY <1>5, <2>1, CallKeepsDone
    <2> QED BY <1>0, <2>1, <2>2 DEF DoneInv, DoneC, DoneCpp, FifoSet, LengthSet
  <1>6. ~OtherStart /\ ~OtherCall /\ ~BindStart /\ ~BindStep
    BY OthersAreSeen, OthersBeside
  <1>7. CASE Rest \/ UNCHANGED vars
    <2>1. UNCHANGED <<buf, tool, cfg, phase, step, outside, reg, enabled>>
      BY <1>7 DEF Rest, vars, session_vars, settings_vars, progress, hw
    <2> QED BY <2>1 DEF DoneInv, DoneC, DoneCpp, RateSet, FifoSet, LengthSet, EnableAt
  <1>8. ~RunEnds /\ ~ToolKilled /\ ~ToolDisable /\ ~ToolExit
    BY DEF RunEnds, ToolKilled, ToolDisable, ToolExit
  <1> QED BY <1>1, <1>2, <1>3, <1>4, <1>5, <1>6, <1>7, <1>8 DEF Next, ToolStep

\* A tool that begins to capture has done everything, and nobody takes it away.
LEMMA CapturesKept ==
    BaseInv /\ OwnInv /\ SeenInv /\ DoneInv /\ CapturesAsAsked /\ [Next]_vars => CapturesAsAsked'
  <1> SUFFICES ASSUME BaseInv, OwnInv, SeenInv, DoneInv, CapturesAsAsked, [Next]_vars,
                      ~outside', phase' = "run"
               PROVE  CapturesAsAsked'
    BY DEF CapturesAsAsked
  <1> DEFINE All == /\ enabled /\ buf.scan = "all" /\ (cfg.trig # "none" => buf.trig = cfg.trig)
                    /\ tool # "cpp_strict" =>
                         /\ RateSet /\ FifoSet /\ LengthSet
                         /\ buf.watermark =
                              IF cfg.watermark <= buf.length THEN cfg.watermark ELSE buf.length
  <1>0. /\ TypeCalls /\ LockInv /\ ToolInv /\ TypeInv /\ EnableAt \in {9, 10}
        /\ step \in 1 .. Len(Program) /\ Len(Program) = EnableAt + 2
    BY ProgramShape DEF BaseInv, IInv, SettingsTypeOK, TypeInv
  <1>1. SUFFICES All /\ UNCHANGED <<buf, cfg, tool, reg, enabled>>
    BY <1>1 DEF CapturesAsAsked, LayoutAsAsked, SettingsAsAsked, RateSet, FifoSet, LengthSet
  <1>2. phase = "run" /\ ~outside => All
    BY DEF CapturesAsAsked, LayoutAsAsked, SettingsAsAsked, RateSet, FifoSet, LengthSet
  <1> HIDE DEF All
  <1>3. CASE ToolStore
    <2>1. /\ phase = "configure" /\ ~outside /\ UNCHANGED <<settings_vars, tool, cfg>>
      BY <1>3, StoreIs
    <2>2. buf' = buf /\ step > EnableAt
      BY <1>3, <2>1, StoreOutcome
    <2>3. /\ buf.scan = "all" /\ enabled /\ (tool = "c" => DoneC) /\ (tool # "c" => DoneCpp)
      BY <1>0, <2>1, <2>2 DEF DoneInv
    <2>4. ASSUME tool = "c" PROVE All
      <3>1. step \in {10, 11, 12}
        BY <1>0, <2>2
      <3> QED BY <2>3, <2>4, <3>1 DEF All, DoneC
    <2>5. ASSUME tool # "c" PROVE All
      <3>1. tool # "cpp_strict" => tool = "cpp"
        BY <1>0, <2>5, SessionAssumption DEF TypeInv
      <3>2. cfg.trig # "none" => EnableAt = 10
        BY <2>5 DEF EnableAt
      <3>3. step \in {10, 11, 12} /\ (EnableAt = 10 => step \in {11, 12})
        BY <1>0, <2>2
      <3> QED BY <2>3, <2>5, <3>1, <3>2, <3>3 DEF All, DoneCpp
    <2> QED BY <2>1, <2>2, <2>4, <2>5 DEF settings_vars, hw
  <1>4. ~ToolReturn
    <2>1. ToolReturn => phase = "configure" /\ step < Len(Program)
      <3>1. ToolReturn => step <= EnableAt
        BY <1>0, OwnSteps DEF ToolReturn
      <3>2. step <= EnableAt => step < Len(Program)
        BY <1>0
      <3> QED BY <3>1, <3>2 DEF ToolReturn, Configuring
    <2>2. ASSUME ToolReturn PROVE FALSE
      <3>1. \E took \in BOOLEAN : WriteDone(took)
        BY <2>2 DEF ToolReturn
      <3> QED BY <1>0, <2>1, <2>2, <3>1, WriteOutcome
    <2> QED BY <2>2
  <1>5. ~ToolCall
    BY <1>0, CallLeaves
  <1>6. CASE OtherStart \/ OtherCall \/ BindStart \/ BindStep
    <2>1. phase = "run" /\ ~outside
      BY <1>6, OthersAreSeen
    <2>2. All /\ enabled
      BY <1>2, <2>1 DEF All
    <2> QED BY <1>6, <2>1, <2>2, RunUndisturbed
  <1>7. CASE Rest \/ UNCHANGED vars
    <2>1. UNCHANGED <<buf, tool, cfg, phase, outside, reg, enabled>>
      BY <1>7 DEF Rest, vars, session_vars, settings_vars, progress, hw
    <2> QED BY <1>2, <2>1
  <1>8. ~RunEnds /\ ~ToolKilled /\ ~ToolDisable /\ ~ToolExit /\ ~ToolIssue
    BY DEF RunEnds, ToolKilled, ToolDisable, ToolExit, ToolIssue, Configuring
  <1>9. ASSUME NEW k \in Tools, NEW o \in Options, ToolStart(k, o) PROVE FALSE
    BY <1>9 DEF ToolStart
  <1> QED BY <1>3, <1>4, <1>5, <1>6, <1>7, <1>8, <1>9 DEF Next, ToolStep

-----------------------------------------------------------------------------
(* Nothing stands in the way of a C tool that nobody disturbs.             *)

\* What the driver and the core make of a store of an undisturbed tool.
LEMMA FreshStoreTaken ==
    ASSUME BaseInv, SeenInv, FreshInv, Undisturbed, phase = "configure", ~issued,
           step \in {2, 3, 4, 6, 7, 8}
    PROVE  StoreTaken(Program[step].attr, Program[step].val)
  <1>0. /\ tool = "c" /\ buf \in Buffers /\ cfg \in Configs /\ ArgsAccepted(cfg)
        /\ TypeCalls /\ ToolInv
    BY DEF BaseInv, TypeInv, PlaceInv, IInv, SettingsTypeOK, Undisturbed
  <1>1. ~enabled
    BY DEF FreshInv
  <1>2. SysfsThere /\ pc["shell"] \in {"idle", "claim"} /\ pc["tool"] = "idle"
    BY <1>0 DEF SeenInv, SysfsThere, Undisturbed, ToolInv
  <1>3. ~BufferEnabled
    BY <1>1, <1>2, SessionAssumption DEF BufferEnabled, Sampling
  <1>4. CASE step \in {2, 3, 4, 7}
    <2>1. Program[step].attr \in {"scan", "trig", "length"}
      BY <1>0, <1>4, StepsOfC DEF May, Must, Step
    <2> QED BY <1>1, <1>2, <2>1 DEF StoreTaken
  <1>5. CASE step = 6
    <2>1. Program[step].attr = "fifo_watermark"
      BY <1>0, <1>5, StepsOfC DEF Must, Step
    <2> QED BY <1>2, <1>3, <2>1 DEF StoreTaken
  <1>6. CASE step = 8
    <2>1. Program[step].attr = "watermark" /\ Program[step].val = cfg.watermark
      BY <1>0, <1>6, StepsOfC DEF Must, Step
    <2>2. cfg.watermark \in 1 .. buf.length
      <3>1. cfg.watermark <= buf.length
        BY <1>6 DEF FreshInv
      <3> QED BY <1>0, <3>1 DEF Buffers, Configs, ArgsAccepted
    <2> QED BY <1>1, <1>2, <2>1, <2>2 DEF StoreTaken
  <1> QED BY <1>4, <1>5, <1>6

\* A store of such a tool works, and the tool goes on.
LEMMA FreshStore ==
    ASSUME BaseInv, SeenInv, FreshInv, ToolStore, tool = "c", ~outside, ~failed', Satisfiable(cfg)
    PROVE  /\ phase' # "give_up" /\ enabled' = enabled
           /\ phase' = "configure" => step' = step + 1
           /\ step \in {2, 3, 4, 6, 7, 8, 10, 11} /\ (step \in {2, 3, 4, 6, 7, 8} => ~enabled)
           /\ step > 6 => cfg.watermark <= buf'.length
  <1>0. /\ phase = "configure" /\ ~issued /\ ~Program[step].every /\ UNCHANGED settings_vars
        /\ ToolInv /\ buf \in Buffers /\ cfg \in Configs
    BY StoreIs DEF BaseInv, TypeInv
  <1>1. ~failed
    BY DEF ToolStore
  <1>2. Undisturbed
    BY <1>1 DEF Undisturbed
  <1>3. step \in {2, 3, 4, 6, 7, 8, 10, 11}
    <2>1. step \in 1 .. 11 /\ EnableAt = 9
      BY StepsOfC DEF BaseInv, TypeInv, EnableAt
    <2>2. step # 1 /\ step # 5 /\ step # 9
      BY StoreIs, StepsOfC DEF OwnCalls, May, Must, Step
    <2> QED BY <2>1, <2>2
  <1>4. step \in {2, 3, 4, 6, 7, 8} => ~enabled
    BY <1>0, <1>2 DEF FreshInv
  <1>5. WriteDone(TRUE)
    <2>1. CASE step \in {2, 3, 4, 6, 7, 8}
      <3>1. StoreTaken(Program[step].attr, Program[step].val) = TRUE
        <4>1. StoreTaken(Program[step].attr, Program[step].val) \in BOOLEAN
          BY Zenon DEF StoreTaken
        <4> QED BY <1>0, <1>2, <2>1, <4>1, FreshStoreTaken
      <3>2. Program[step].attr \notin {"chardev", "output"}
        BY <2>1, StepsOfC DEF May, Must, Step
      <3>3. WriteDone(StoreTaken(Program[step].attr, Program[step].val))
        BY <3>2 DEF ToolStore
      <3> QED BY <3>1, <3>3
    <2>2. CASE step \in {10, 11}
      <3>1. Program[step].attr \in {"chardev", "output"}
        BY <2>2, StepsOfC DEF Must, Step, Chardev, Output
      <3>2. SysfsThere
        BY <1>0 DEF SeenInv, SysfsThere
      <3>3. (Program[step].attr = "output" \/ SysfsThere) = TRUE
        BY <3>2
      <3>4. WriteDone(Program[step].attr = "output" \/ SysfsThere)
        BY <1>0, <3>1 DEF ToolStore, ToolInv
      <3> QED BY <3>3, <3>4
    <2> QED BY <1>3, <2>1, <2>2
  <1>6. phase' \in {phase, "run"} /\ (phase' = "configure" => step' = step + 1)
    <2>1. \/ step' = step + 1 /\ phase' = phase
          \/ phase' = "run"
          \/ Program[step].every
      BY <1>5, WriteOutcome
    <2> QED BY <1>0, <2>1
  <1>7. step > 6 => cfg.watermark <= buf'.length
    <2>1. CASE step = 7
      <3>1. StoreTaken("length", cfg.length)
        BY <1>0, <1>2, <2>1, FreshStoreTaken, StepsOfC DEF Must, Step
      <3>2. buf' = Stored("length", cfg.length)
        <4>1. Program[step].attr = "length" /\ Program[step].val = cfg.length
          BY <2>1, StepsOfC DEF Must, Step
        <4>2. buf' = Stored(Program[step].attr, Program[step].val)
          BY <3>1, <4>1 DEF ToolStore
        <4> QED BY <4>1, <4>2
      <3>3. buf'.length \in Int /\ buf'.length >= cfg.length
        BY <1>0, <3>2, StoredSets DEF Configs
      <3> QED BY <1>0, <3>3 DEF Satisfiable, Configs
    <2>2. CASE step = 8
      <3>1. cfg.watermark <= buf.length
        BY <1>0, <1>2, <2>2 DEF FreshInv
      <3>2. buf' = buf \/ buf' = Stored("watermark", cfg.watermark)
        <4>1. Program[step].attr = "watermark" /\ Program[step].val = cfg.watermark
          BY <2>2, StepsOfC DEF Must, Step
        <4>2. buf' = buf \/ buf' = Stored(Program[step].attr, Program[step].val)
          BY DEF ToolStore
        <4> QED BY <4>1, <4>2
      <3>3. buf'.length = buf.length
        BY <1>0, <3>2, StoredSets
      <3> QED BY <3>1, <3>3
    <2>3. CASE step \in {10, 11}
      <3>1. buf' = buf
        <4>1. Program[step].attr \in {"chardev", "output"}
          BY <2>3, StepsOfC DEF Must, Step, Chardev, Output
        <4> QED BY <1>0, <4>1 DEF ToolStore, ToolInv
      <3>2. cfg.watermark <= buf.length
        BY <1>0, <1>2, <2>3 DEF FreshInv
      <3> QED BY <3>1, <3>2
    <2> QED BY <1>3, <2>1, <2>2, <2>3
  <1> QED BY <1>0, <1>3, <1>4, <1>6, <1>7 DEF settings_vars

\* The steps of the C tool that are system calls of Settings.
LEMMA OwnStepsOfC ==
    ASSUME TypeInv, tool = "c", Program[step].attr \in OwnCalls
    PROVE  /\ step \in {1, 5, 9}
           /\ step = 1 => Program[step].attr = "enable" /\ Program[step].val = 0
           /\ step = 5 => Program[step].attr = "sampling_frequency" /\ Program[step].val = cfg.hz
           /\ step = 9 => Program[step].attr = "enable" /\ Program[step].val = 1
           /\ step # 5 => ~Program[step].every
  <1>1. step \in 1 .. 11 /\ EnableAt = 9
    BY StepsOfC DEF TypeInv, EnableAt
  <1>2. step \in {1, 5, 9}
    BY <1>1, OwnSteps DEF TypeInv, OwnCalls
  <1> QED BY <1>2, StepsOfC DEF May, Must, Step

\* A system call of such a tool works.
LEMMA FreshReturn ==
    ASSUME BaseInv, OwnInv, SeenInv, FreshInv, ToolReturn, tool = "c", ~outside, ~failed',
           Satisfiable(cfg)
    PROVE  /\ phase' # "give_up" /\ UNCHANGED <<enabled, buf>> /\ ~issued'
           /\ phase' = "configure" => step' = step + 1 \/ (step = 5 /\ step' = step)
           /\ step \in {1, 5, 9} /\ (step # 9 => ~enabled)
           /\ step > 7 => cfg.watermark <= buf.length
  <1>1. /\ phase = "configure" /\ issued /\ Over /\ WriteDone(ret["tool"] = "OK")
        /\ UNCHANGED <<settings_vars, buf, failed>>
    BY Returned
  <1>2. Undisturbed
    BY <1>1 DEF Undisturbed
  <1>3. step \in {1, 5, 9} /\ (step # 5 => ~Program[step].every)
    <2>1. Program[step].attr \in OwnCalls
      BY DEF ToolReturn, OwnCalls
    <2> QED BY <2>1, OwnStepsOfC DEF BaseInv
  <1>4. ret["tool"] = "OK" /\ (step # 9 => ~enabled) /\ (step > 7 => cfg.watermark <= buf.length)
    BY <1>1, <1>2, <1>3 DEF FreshInv
  <1>5. WriteDone(TRUE)
    <2>1. (ret["tool"] = "OK") = TRUE
      BY <1>4
    <2> QED BY <1>1, <2>1
  <1>6. \/ step' = step + 1 /\ phase' = phase
        \/ phase' = "run"
        \/ step' = step /\ phase' = phase /\ Program[step].every
    BY <1>5, WriteOutcome
  <1>7. ~issued'
    BY DEF ToolReturn
  <1> QED BY <1>1, <1>3, <1>4, <1>6, <1>7 DEF settings_vars

\* Where an undisturbed tool's system call is, step by step: when it is issued ...
LEMMA FreshIssue ==
    ASSUME BaseInv, OwnInv, SeenInv, DoneInv, FreshInv, ToolIssue
    PROVE  FreshInv'
  <1>0. TypeCalls /\ LockInv /\ TypeInv /\ (tool = "c" => cfg.trig # "none")
    BY DEF BaseInv, IInv, SettingsTypeOK, TypeInv
  <1>1. /\ UNCHANGED <<buf, tool, cfg, phase, step, outside, failed, enabled>>
        /\ phase = "configure" /\ ~issued /\ issued'
    BY <1>0, IssueLeaves DEF ToolIssue
  <1> SUFFICES ASSUME tool = "c", ~outside, ~failed, Satisfiable(cfg) PROVE FreshInv'
    BY <1>1 DEF FreshInv, Undisturbed
  <1>2. Undisturbed
    BY DEF Undisturbed
  <1>3. \/ Program[step].attr = "enable" /\ IssueEnable(Program[step].val)
        \/ /\ Program[step].attr = "sampling_frequency"
           /\ WriteRaw("tool", Program[step].attr, Program[step].val)
    BY DEF ToolIssue
  <1>4. /\ step \in {1, 5, 9}
        /\ step = 1 => Program[step].attr = "enable" /\ Program[step].val = 0
        /\ step = 5 => Program[step].attr = "sampling_frequency" /\ Program[step].val = cfg.hz
        /\ step = 9 => Program[step].attr = "enable" /\ Program[step].val = 1
    BY <1>0, <1>3, OwnStepsOfC DEF OwnCalls
  <1>5. (step # 1 => ~enabled) /\ (step > 7 => cfg.watermark <= buf.length)
    BY <1>1, <1>2, <1>4 DEF FreshInv
  <1> DEFINE New == /\ step = 1 /\ Over' => ret'["tool"] = "OK" /\ ~enabled
                    /\ step \in {5, 9} => ~Over'
  <1>6. SUFFICES New
    <2>1. step \in {5, 9} => step # 1 /\ ~(step \in 2 .. 8 /\ enabled)
      BY <1>5
    <2> QED BY <1>1, <1>4, <1>5, <1>6, <2>1 DEF FreshInv
  <1>7. Over' = (pc'["tool"] \in {"release", "idle"})
    BY DEF Over
  <1> USE SessionAssumption DEF TypeCalls, At, Returns
  <1>8. CASE step = 1
    <2>1. DisableStart("tool")
      BY <1>3, <1>4, <1>8 DEF IssueEnable
    <2>2. \/ ~enabled /\ ret'["tool"] = "OK"
          \/ pc'["tool"] = "postdisable"
      BY <1>0, <2>1 DEF DisableStart
    <2>3. Over' => ret'["tool"] = "OK" /\ ~enabled
      BY <1>7, <2>2
    <2>4. step \notin {5, 9}
      BY <1>8
    <2> QED BY <2>3, <2>4
  <1>9. CASE step = 5
    <2>1. WriteRaw("tool", Program[step].attr, Program[step].val)
      BY <1>3, <1>4, <1>9
    <2>2. pc'["tool"] = "claim"
      BY <1>0, <1>5, <1>9, <2>1 DEF WriteRaw
    <2> QED BY <1>7, <1>9, <2>2
  <1>10. CASE step = 9
    <2>1. EnableStart("tool", Startable)
      BY <1>3, <1>4, <1>10 DEF IssueEnable
    <2>2. Startable
      BY <1>0, <1>1, <1>10 DEF DoneInv, DoneC, Startable
    <2>3. pc'["tool"] = "preenable"
      BY <1>0, <1>5, <1>10, <2>1, <2>2 DEF EnableStart
    <2> QED BY <1>7, <1>10, <2>3
  <1> QED BY <1>4, <1>8, <1>9, <1>10

\* ... and when it goes on.
LEMMA FreshCall ==
    ASSUME BaseInv, OwnInv, SeenInv, FreshInv, ToolCall, phase = "configure"
    PROVE  FreshInv'
  <1>0. TypeCalls /\ ToolInv /\ TypeInv /\ faults \in Int
    BY SettingsAssumption DEF BaseInv, IInv, SettingsTypeOK
  <1>1. /\ UNCHANGED <<buf, tool, cfg, phase, step, outside, issued, Program>> /\ issued
    BY <1>0, CallLeaves
  <1>2. (~failed' => ~failed /\ faults' = faults)
    BY ZenonT(20) DEF ToolCall, NoteFault
  <1> SUFFICES ASSUME tool = "c", ~outside, ~failed', Satisfiable(cfg) PROVE FreshInv'
    BY <1>1 DEF FreshInv, Undisturbed
  <1>3. Undisturbed /\ faults' = faults
    BY <1>2 DEF Undisturbed
  <1>4. ~Fault
    BY <1>0, <1>3 DEF Fault
  <1>5. /\ step \in {1, 5, 9}
        /\ step = 1 => Program[step].attr = "enable" /\ Program[step].val = 0
        /\ step = 5 => Program[step].attr = "sampling_frequency" /\ Program[step].val = cfg.hz
        /\ step = 9 => Program[step].attr = "enable" /\ Program[step].val = 1
    BY <1>0, <1>1, OwnStepsOfC DEF ToolInv
  <1>6. /\ step = 1 /\ Over => ret["tool"] = "OK" /\ ~enabled
        /\ step = 5 => ~enabled
        /\ step \in {5, 9} /\ Over => ret["tool"] = "OK"
        /\ step > 7 => cfg.watermark <= buf.length
    BY <1>1, <1>3, <1>5 DEF FreshInv
  <1>7. /\ step = 1 => pc["tool"] \in {"postdisable", "release", "idle"}
        /\ step = 5 => \/ pc["tool"] \in {"claim", "lock", "store"}
                            /\ req["tool"] = <<"sampling_frequency", cfg.hz>>
                       \/ pc["tool"] \in {"release", "idle"}
        /\ step = 9 => pc["tool"] \in {"preenable", "enable", "release", "idle"}
    BY <1>1, <1>5 DEF OwnInv, Over
  <1> DEFINE New == /\ step = 1 /\ Over' => ret'["tool"] = "OK" /\ ~enabled'
                    /\ step = 5 => ~enabled'
                    /\ step \in {5, 9} /\ Over' => ret'["tool"] = "OK"
  <1>8. SUFFICES New
    BY <1>1, <1>5, <1>6, <1>8 DEF FreshInv
  <1>9. /\ Over' = (pc'["tool"] \in {"release", "idle"})
        /\ Over = (pc["tool"] \in {"release", "idle"})
    BY DEF Over
  <1> USE SessionAssumption DEF TypeCalls, At, Returns
  <1>10. CASE Claim("tool")
    <2>1. pc["tool"] = "claim" /\ (~enabled => pc'["tool"] = "lock") /\ enabled' = enabled
      BY <1>0, <1>10 DEF Claim
    <2> QED BY <1>5, <1>6, <1>7, <1>9, <2>1
  <1>11. CASE WriteRegister("tool")
    <2>1. pc["tool"] = "lock" /\ enabled' = enabled
      BY <1>11 DEF WriteRegister
    <2>2. req["tool"][1] = "sampling_frequency" /\ req["tool"][2] = cfg.hz /\ step = 5
      BY <1>5, <1>7, <2>1
    <2>3. Accepted(req["tool"][1], req["tool"][2])
      BY <2>2 DEF Accepted, Satisfiable
    <2>4. pc'["tool"] = "store"
      BY <1>0, <1>4, <1>11, <2>3 DEF WriteRegister
    <2> QED BY <1>6, <1>9, <2>1, <2>2, <2>4
  <1>12. CASE StoreSetting("tool")
    <2>1. pc["tool"] = "store" /\ ret'["tool"] = "OK" /\ enabled' = enabled
      BY <1>0, <1>12 DEF StoreSetting
    <2> QED BY <1>5, <1>6, <1>7, <2>1
  <1>13. CASE Release("tool")
    <2>1. Over /\ UNCHANGED <<ret, enabled>>
      BY <1>13 DEF Release, Over
    <2> QED BY <1>6, <2>1
  <1>14. CASE Preenable("tool")
    <2>1. pc["tool"] = "preenable" /\ pc'["tool"] = "enable"
      BY <1>0, <1>4, <1>14 DEF Preenable
    <2> QED BY <1>5, <1>7, <1>9, <2>1
  <1>15. CASE EnableEnd("tool")
    <2>1. pc["tool"] = "enable" /\ ret'["tool"] = "OK"
      BY <1>0, <1>15 DEF EnableEnd
    <2> QED BY <1>5, <1>7, <2>1
  <1>16. CASE Postdisable("tool")
    <2>1. pc["tool"] = "postdisable" /\ ret'["tool"] = "OK" /\ ~enabled'
      BY <1>0, <1>4, <1>16 DEF Postdisable
    <2> QED BY <1>5, <1>7, <2>1
  <1> QED BY <1>10, <1>11, <1>12, <1>13, <1>14, <1>15, <1>16 DEF ToolCall, CallStep

\* Such a tool stays on its way ...
LEMMA FreshKept ==
    BaseInv /\ OwnInv /\ SeenInv /\ DoneInv /\ FreshInv /\ [Next]_vars => FreshInv'
  <1> SUFFICES ASSUME BaseInv, OwnInv, SeenInv, DoneInv, FreshInv, [Next]_vars,
                      tool' = "c", ~outside', ~failed', Satisfiable(cfg'), phase' = "configure"
               PROVE  FreshInv'
    BY DEF FreshInv, Undisturbed
  <1> DEFINE New == /\ step' = 1 => ~issued'
                    /\ step' \in 2 .. 8 \/ (step' = 9 /\ ~issued') => ~enabled'
                    /\ step' \in {5, 9} => ~issued'
                    /\ step' > 7 => cfg'.watermark <= buf'.length
  <1>0. New => FreshInv'
    BY DEF FreshInv
  <1>1. ASSUME NEW k \in Tools, NEW o \in Options, ToolStart(k, o) PROVE New
    BY <1>1 DEF ToolStart
  <1>2. CASE ToolStore
    <2>1. UNCHANGED <<tool, cfg, outside, issued>> /\ ~issued
      BY <1>2, StoreIs
    <2>2. /\ enabled' = enabled /\ step' = step + 1
          /\ step \in {2, 3, 4, 6, 7, 8, 10, 11} /\ (step \in {2, 3, 4, 6, 7, 8} => ~enabled)
          /\ step > 6 => cfg.watermark <= buf'.length
      BY <1>2, <2>1, FreshStore
    <2> QED BY <1>0, <2>1, <2>2
  <1>3. CASE ToolReturn
    <2>1. UNCHANGED <<tool, cfg, outside>>
      BY <1>3 DEF ToolReturn
    <2>2. /\ UNCHANGED <<enabled, buf>> /\ ~issued'
          /\ step' = step + 1 \/ (step = 5 /\ step' = step)
          /\ step \in {1, 5, 9} /\ (step # 9 => ~enabled)
          /\ step > 7 => cfg.watermark <= buf.length
      BY <1>3, <2>1, FreshReturn
    <2> QED BY <1>0, <2>1, <2>2
  <1>4. CASE ToolIssue
    BY <1>4, FreshIssue
  <1>5. CASE ToolCall
    <2>1. phase = "configure"
      BY <1>5 DEF ToolCall, progress
    <2> QED BY <1>5, <2>1, FreshCall
  <1>6. ~OtherStart /\ ~OtherCall /\ ~BindStart /\ ~BindStep
    BY OthersAreSeen, OthersBeside
  <1>7. CASE Rest \/ UNCHANGED vars
    <2>1. UNCHANGED <<buf, tool, cfg, phase, step, issued, outside, failed, enabled, pc, ret>>
      BY <1>7 DEF Rest, vars, session_vars, settings_vars, progress, calls
    <2> QED BY <2>1 DEF FreshInv, Undisturbed, Over, Satisfiable, ValidHz, odr_to_div
  <1>8. ~RunEnds /\ ~ToolKilled /\ ~ToolDisable /\ ~ToolExit
    BY DEF RunEnds, ToolKilled, ToolDisable, ToolExit
  <1> QED BY <1>0, <1>1, <1>2, <1>3, <1>4, <1>5, <1>6, <1>7, <1>8 DEF Next, ToolStep

\* ... and never gives up.
LEMMA FreshSucceeds ==
    /\ BaseInv /\ OwnInv /\ SeenInv /\ FreshInv /\ FreshStartSucceeds /\ [Next]_vars
         => FreshStartSucceeds'
  <1> SUFFICES ASSUME BaseInv, OwnInv, SeenInv, FreshInv, FreshStartSucceeds, [Next]_vars,
                      tool' = "c", ~outside', ~failed', Satisfiable(cfg'), phase' = "give_up"
               PROVE  FALSE
    BY DEF FreshStartSucceeds
  <1>0. TypeCalls /\ ToolInv
    BY DEF BaseInv, IInv, SettingsTypeOK
  <1>1. ASSUME phase = "give_up", tool = "c", ~outside, ~failed, Satisfiable(cfg) PROVE FALSE
    BY <1>1 DEF FreshStartSucceeds
  <1>2. ASSUME NEW k \in Tools, NEW o \in Options, ToolStart(k, o) PROVE FALSE
    BY <1>2 DEF ToolStart
  <1>3. CASE ToolStore
    BY <1>3, StoreIs, FreshStore
  <1>4. CASE ToolReturn
    <2>1. UNCHANGED <<tool, cfg, outside>>
      BY <1>4 DEF ToolReturn
    <2> QED BY <1>4, <2>1, FreshReturn
  <1>5. NoteFault => ~failed
    BY ZenonT(20) DEF NoteFault
  <1>6. CASE ToolCall
    <2>1. UNCHANGED <<tool, cfg, phase, outside>> /\ ~failed
      BY <1>0, <1>5, <1>6, CallLeaves DEF ToolCall
    <2> QED BY <1>1, <2>1
  <1>7. CASE OtherStart \/ OtherCall \/ BindStart \/ BindStep
    <2>1. UNCHANGED <<tool, cfg, phase>> /\ ~outside
      BY <1>7, OthersAreSeen
    <2>2. ~failed
      BY <1>5, <1>7 DEF OtherStart, OtherCall, BindStart, BindStep
    <2> QED BY <1>1, <2>1, <2>2
  <1>8. CASE ToolDisable
    BY <1>1, <1>8 DEF ToolDisable
  <1>9. CASE ToolExit
    BY <1>9 DEF ToolExit
  <1>10. CASE Rest \/ UNCHANGED vars
    <2>1. UNCHANGED <<tool, cfg, phase, outside, failed>>
      BY <1>10 DEF Rest, vars, session_vars, progress
    <2> QED BY <1>1, <2>1
  <1>11. ~RunEnds /\ ~ToolKilled /\ ~ToolIssue
    BY DEF RunEnds, ToolKilled, ToolIssue, Configuring
  <1> QED BY <1>2, <1>3, <1>4, <1>6, <1>7, <1>8, <1>9, <1>10, <1>11 DEF Next, ToolStep

-----------------------------------------------------------------------------
(* What a tool that captures can rely on.                                  *)

\* The whole invariant of a session.
SessionInvs == BaseInv /\ SessionInv

\* It holds in every session.
LEMMA SessionInvariant == Spec => []SessionInvs
  <1>1. Init => SessionInv
    <2>1. Init => phase = "idle" /\ worked = FALSE /\ issued = FALSE
      BY DEF Init
    <2> QED BY <2>1 DEF SessionInv, OwnInv, SeenInv, DoneInv, FreshInv, CapturesAsAsked,
                        FreshStartSucceeds
  <1>2. BaseInv /\ SessionInv /\ [Next]_vars => SessionInv'
    BY OwnKept, SeenKept, DoneKept, CapturesKept, FreshKept, FreshSucceeds DEF SessionInv
  <1> QED BY <1>1, <1>2, BaseInvariant, PTL DEF Spec, SessionInvs

\* A tool that captures captures with the layout, rate and watermarks that it was asked
\* for: configure_iio_sysfs and IioConfigurator::configure stop at the first step
\* that fails, and the driver refuses everybody while the buffer is on.
THEOREM SessionCaptures == Spec => []CapturesAsAsked
  <1>1. SessionInvs => CapturesAsAsked
    BY DEF SessionInvs, SessionInv
  <1> QED BY <1>1, SessionInvariant, PTL

\* configure_iio_sysfs of the C tool turns off and overwrites whatever a killed run or
\* somebody else has left behind: nothing but a failure or interference makes it fail.
THEOREM FreshStarts == Spec => []FreshStartSucceeds
  <1>1. SessionInvs => FreshStartSucceeds
    BY DEF SessionInvs, SessionInv
  <1> QED BY <1>1, SessionInvariant, PTL
=============================================================================
