---------------------------- MODULE CaptureSession ----------------------------
(***************************************************************************)
(* A capture from the outside: the C tool icm20602_iio_capture_fixed.c or  *)
(* the C++ tool iio_icm20602_reader.cpp configures the device through      *)
(* sysfs, captures and turns the buffer off, while somebody else writes to *)
(* the same attributes, the driver is removed and bound again, transfers   *)
(* fail, and the tool is killed and started again.                         *)
(*                                                                         *)
(* A tool's configuration is a program, a sequence of steps.  A step       *)
(* writes one value to one attribute, up to "tries" times: until a write   *)
(* works or, if "every", in any case; no write working is fatal or only    *)
(* warned of.  Writes of settings and of buffer/enable are Settings'       *)
(* system calls; those of the other attributes are atomic.                 *)
(***************************************************************************)
EXTENDS Settings

CONSTANTS
    Tools,          \* the tools that are run
    Options,        \* command lines; NotGiven for an option that is absent
    OthersSet,      \* <<attribute, value>> that somebody else writes
    MaxRuns,        \* bound: runs of a tool
    MaxEvents       \* bound: system calls of somebody else, bindings after the
                    \* first one and failing transfers, taken together

NotGiven == -1

\* The trigger is one of the driver's, the scan elements are all, some or none on,
\* and whatever else is given or written is a number.
Triggers == {"none", "drdy", "wm"}

Numbers == {"fifo_watermark", "length", "watermark", "sampling_frequency", "gyro_scale",
            "accel_scale", "enable"}

ASSUME SessionAssumption ==
    /\ Threads = {"tool", "shell"}
    /\ Tools # {} /\ Tools \subseteq {"c", "cpp", "cpp_strict"}
    /\ Options # {}
    /\ Options \subseteq [trig : Triggers, hz : Int, fifo_watermark : Int, length : Int,
                          watermark : Int]
    /\ OthersSet \subseteq ({"scan"} \X {"none", "part", "all"})
                             \cup ({"trig"} \X Triggers) \cup (Numbers \X Int)
    /\ MaxRuns \in Nat /\ MaxEvents \in Nat

VARIABLES
    buf,            \* the IIO buffer's attributes, trigger and fifo_watermark
    tool, cfg,      \* which tool runs, and its configuration
    phase, step,    \* where it is
    tries, worked,  \* writes made in this step; one of them worked
    issued,         \* the tool is in a system call of Settings
    outside,        \* somebody else changed something since the tool started
    failed,         \* a transfer or an open failed since the tool started
    others, runs, binds

progress == <<phase, step, tries, worked, issued>>
counts == <<others, runs, binds>>
session_vars == <<buf, tool, cfg, progress, outside, failed, counts>>
vars == <<settings_vars, session_vars>>

-----------------------------------------------------------------------------
(* The tools.                                                              *)

Default(value, default) == IF value = NotGiven THEN default ELSE value

\* What parse_args makes of the options: the C tool's and the C++ tool's.
ParseArgsC(o) ==
    LET fifo == Default(o.fifo_watermark, 16)
    IN  [trig |-> IF o.trig = "none" THEN "wm" ELSE o.trig,
         hz |-> Default(o.hz, 1000),
         fifo_watermark |-> fifo,
         length |-> Default(o.length, 256),
         watermark |-> Default(o.watermark, fifo)]

ParseArgsCpp(o) ==
    [trig |-> o.trig,
     hz |-> Default(o.hz, 1000),
     fifo_watermark |-> Default(o.fifo_watermark, 16),
     length |-> Default(o.length, 1024),
     watermark |-> Default(o.watermark, 16)]

ParseArgs(k, o) == IF k = "c" THEN ParseArgsC(o) ELSE ParseArgsCpp(o)

\* It refuses numbers that are not positive.
ArgsAccepted(c) == c.hz > 0 /\ c.fifo_watermark > 0 /\ c.length > 0 /\ c.watermark > 0

Step(attr, val, fatal, n, every) ==
    [attr |-> attr, val |-> val, fatal |-> fatal, tries |-> n, every |-> every]

Must(attr, val) == Step(attr, val, TRUE, 1, FALSE)
May(attr, val) == Step(attr, val, FALSE, 1, FALSE)

\* The scan elements, the trigger and the rate of the C tool.
configure_scan_elements == <<May("scan", "none"), Must("scan", "all")>>
configure_trigger(c) == <<Must("trig", c.trig)>>
configure_sampling_frequency(c) == <<Step("sampling_frequency", c.hz, TRUE, 2, TRUE)>>

\* What comes before the buffer's own attributes.
Prepare(c) ==
    <<May("enable", 0)>> \o configure_scan_elements \o configure_trigger(c)
      \o configure_sampling_frequency(c) \o <<Must("fifo_watermark", c.fifo_watermark)>>

\* Mutants: buffer/watermark is written before buffer/length; a buffer that
\* cannot be enabled is only warned of, as one that cannot be disabled is.
Configure_WatermarkFirst(c) ==
    Prepare(c) \o <<Must("watermark", c.watermark), Must("length", c.length), Must("enable", 1)>>

Configure_WarnsOfEnable(c) ==
    Prepare(c) \o <<Must("length", c.length), Must("watermark", c.watermark), May("enable", 1)>>

\* configure_iio_sysfs of the C tool.
Configure(c) ==
    Prepare(c) \o <<Must("length", c.length), Must("watermark", c.watermark), Must("enable", 1)>>

\* The same of the C++ tool.  write_one_of goes through its candidates twice; two
\* of those for the rate exist.
CppScanElements == <<May("scan", "none"), Must("scan", "all")>>

CppSamplingFrequency(c, required) ==
    <<Step("sampling_frequency", c.hz, required, 4, FALSE),
      Step("sampling_frequency", c.hz, FALSE, 2, TRUE)>>

CppWatermarks(c, required) ==
    <<Step("fifo_watermark", c.fifo_watermark, required, 2, FALSE),
      Step("watermark", c.watermark, required, 2, FALSE)>>

CppTrigger(c) == IF c.trig = "none" THEN <<>> ELSE <<Must("trig", c.trig)>>

\* IioConfigurator::configure.
ConfigureCpp(c, required) ==
    <<May("enable", 0)>> \o CppScanElements \o CppSamplingFrequency(c, required)
      \o CppWatermarks(c, required) \o <<Must("length", c.length)>> \o CppTrigger(c)
      \o <<Must("enable", 1)>>

\* After the configuration a tool opens the device and its output.
Chardev == Must("chardev", 0)
Output == Must("output", 0)

\* The C++ tool passes !strict_optional_sysfs for "required".
Program ==
    CASE tool = "c"   -> Configure(cfg) \o <<Chardev, Output>>
      [] tool = "cpp" -> ConfigureCpp(cfg, TRUE) \o <<Output, Chardev>>
      [] OTHER        -> ConfigureCpp(cfg, FALSE) \o <<Output, Chardev>>

-----------------------------------------------------------------------------
(* The attributes that Settings does not have.                             *)

\* A device that has just been registered.
FreshBuffer ==
    [scan |-> "none", trig |-> "none", fifo_watermark |-> 16, length |-> 2, watermark |-> 1]

\* icm20602_fifo_watermark_clamp.
Clamp(n) == IF n < 1 THEN 1 ELSE IF n > 73 THEN 73 ELSE n

\* The driver's buffer_enabled; stop_device clears it.
BufferEnabled == Sampling /\ driver = "bound"

\* Whether a write to an attribute is taken, and what it makes of it.
StoreTaken(attr, val) ==
    /\ SysfsThere
    /\ CASE attr = "fifo_watermark" -> ~BufferEnabled
         [] attr = "length"         -> val = buf.length \/ ~enabled
         [] attr = "watermark"      -> ~enabled /\ val \in 1 .. buf.length
         [] OTHER                   -> ~enabled

\* Mutant: a shorter buffer keeps its watermark.
Stored_KeepsWatermark(attr, val) ==
    CASE attr = "fifo_watermark" -> [buf EXCEPT !.fifo_watermark = Clamp(val)]
      [] attr = "length" -> [buf EXCEPT !.length = IF val < 2 THEN 2 ELSE val]
      [] OTHER -> [buf EXCEPT ![attr] = val]

Stored(attr, val) ==
    CASE attr = "fifo_watermark" -> [buf EXCEPT !.fifo_watermark = Clamp(val)]
      [] attr = "length" ->
            LET n == IF val < 2 THEN 2 ELSE val
            IN  [buf EXCEPT !.length = n, !.watermark = IF n < @ THEN n ELSE @]
      [] attr = "watermark" -> [buf EXCEPT !.watermark = val]
      [] attr = "scan" -> [buf EXCEPT !.scan = val]
      [] attr = "trig" -> [buf EXCEPT !.trig = val]

\* fifo_watermark_store takes data->lock, the core's attributes the mlock.
StoreLock(attr) == IF attr = "fifo_watermark" THEN lock = "free" ELSE mlock = "free"

Startable == buf.scan # "none" /\ buf.trig # "none"

-----------------------------------------------------------------------------
(* A run of a tool.                                                        *)

Init ==
    /\ SettingsInit
    /\ buf = FreshBuffer
    /\ tool = CHOOSE k \in Tools : TRUE
    /\ cfg = ParseArgs(tool, CHOOSE o \in Options : TRUE)
    /\ phase = "idle" /\ step = 1 /\ tries = 0 /\ worked = FALSE /\ issued = FALSE
    /\ outside = FALSE /\ failed = FALSE
    /\ others = 0 /\ runs = 0 /\ binds = 0

Within == others' + binds' + faults' <= MaxEvents + 1

\* A transfer of this step failed.
NoteFault == failed' = (failed \/ faults' # faults) /\ Within

ToolStart(k, o) ==
    /\ phase \in {"idle", "exit", "refused"} /\ pc["tool"] = "idle"
    /\ runs < MaxRuns /\ runs' = runs + 1
    /\ tool' = k /\ cfg' = ParseArgs(k, o)
    /\ phase' = IF ArgsAccepted(cfg') THEN "configure" ELSE "refused"
    /\ step' = 1 /\ tries' = 0 /\ worked' = FALSE /\ issued' = FALSE
    /\ outside' = (driver # "bound") /\ failed' = FALSE
    /\ UNCHANGED <<settings_vars, buf, others, binds>>

\* The next step: with the tool configured it runs.
Advance ==
    /\ tries' = 0 /\ worked' = FALSE
    /\ \/ step = Len(Program) /\ phase' = "run" /\ step' = 1
       \/ step < Len(Program) /\ step' = step + 1 /\ UNCHANGED phase

\* Mutant: a write that must work is made until it does.
WriteDone_Again(took) ==
    LET s == Program[step]
    IN  \/ (took \/ (~s.fatal /\ tries + 1 = s.tries)) /\ Advance
        \/ /\ ~took /\ (s.fatal \/ tries + 1 < s.tries)
           /\ tries' = IF s.fatal THEN tries ELSE tries + 1
           /\ UNCHANGED <<worked, phase, step>>

\* A write of the current step is over.
WriteDone(took) ==
    LET s == Program[step]
    IN  \/ ((took /\ ~s.every) \/ (tries + 1 = s.tries /\ (took \/ worked \/ ~s.fatal)))
             /\ Advance
        \/ /\ tries + 1 = s.tries /\ ~took /\ ~worked /\ s.fatal
           /\ phase' = "give_up" /\ step' = 1 /\ tries' = 0
           /\ UNCHANGED worked
        \/ /\ tries + 1 < s.tries /\ (~took \/ s.every)
           /\ tries' = tries + 1 /\ worked' = (worked \/ took)
           /\ UNCHANGED <<phase, step>>

Configuring == phase = "configure" /\ pc["tool"] = "idle"

\* A step on one of the attributes of this module, on the device node or on
\* the output, either of which may fail to open.
ToolStore ==
    /\ Configuring
    /\ LET s == Program[step]
       IN  \/ /\ s.attr \in DOMAIN buf /\ StoreLock(s.attr)
              /\ buf' = IF StoreTaken(s.attr, s.val) THEN Stored(s.attr, s.val) ELSE buf
              /\ WriteDone(StoreTaken(s.attr, s.val))
              /\ UNCHANGED failed
           \/ /\ s.attr \in {"chardev", "output"}
              /\ \/ WriteDone(s.attr = "output" \/ SysfsThere) /\ UNCHANGED failed
                 \/ WriteDone(FALSE) /\ failed' = TRUE
              /\ UNCHANGED buf
    /\ UNCHANGED <<settings_vars, tool, cfg, issued, outside, counts>>

\* A write to buffer/enable or to sampling_frequency is issued ...
IssueEnable(val) ==
    IF val = 1 THEN EnableStart("tool", Startable) ELSE DisableStart("tool")

ToolIssue ==
    /\ Configuring /\ ~issued
    /\ LET s == Program[step]
       IN  \/ s.attr = "enable" /\ IssueEnable(s.val)
           \/ /\ s.attr = "sampling_frequency" /\ <<s.attr, s.val>> \in Requests
              /\ WriteRaw("tool", s.attr, s.val)
    /\ issued' = TRUE
    /\ UNCHANGED <<buf, tool, cfg, phase, step, tries, worked, outside, failed, counts>>

\* ... and returns; or there is no device any more.
ToolReturn ==
    /\ Configuring
    /\ Program[step].attr \in {"enable", "sampling_frequency"}
    /\ \/ issued /\ WriteDone(ret["tool"] = "OK")
       \/ ~issued /\ ~SysfsThere /\ WriteDone(FALSE)
    /\ issued' = FALSE
    /\ UNCHANGED <<settings_vars, buf, tool, cfg, outside, failed, counts>>

\* The read loop (CaptureReader, ReaderCpp) ends.
RunEnds ==
    /\ phase = "run" /\ phase' = "stop"
    /\ UNCHANGED <<settings_vars, buf, tool, cfg, step, tries, worked, issued, outside, failed,
                   counts>>

\* Mutant: only a tool that ran turns the buffer off.
ToolDisable_RanOnly ==
    /\ phase \in {"give_up", "stop"} /\ pc["tool"] = "idle" /\ ~issued
    /\ \/ phase = "stop" /\ DisableStart("tool") /\ issued' = TRUE /\ UNCHANGED phase
       \/ (~SysfsThere \/ phase = "give_up") /\ phase' = "exit"
            /\ UNCHANGED <<settings_vars, issued>>
    /\ UNCHANGED <<buf, tool, cfg, step, tries, worked, outside, failed, counts>>

\* disable_iio_buffer on every way out of main; disable_buffer_noexcept.
ToolDisable ==
    /\ phase \in {"give_up", "stop"} /\ pc["tool"] = "idle" /\ ~issued
    /\ \/ DisableStart("tool") /\ issued' = TRUE /\ UNCHANGED phase
       \/ ~SysfsThere /\ phase' = "exit" /\ UNCHANGED <<settings_vars, issued>>
    /\ UNCHANGED <<buf, tool, cfg, step, tries, worked, outside, failed, counts>>

\* Having turned it off after a capture, the C++ tool does so again in
\* ~IioConfigurator.
ToolExit ==
    /\ phase \in {"give_up", "stop"} /\ pc["tool"] = "idle" /\ issued
    /\ phase' = IF phase = "stop" /\ tool # "c" THEN "give_up" ELSE "exit"
    /\ issued' = FALSE
    /\ UNCHANGED <<settings_vars, buf, tool, cfg, step, tries, worked, outside, failed, counts>>

\* SIGKILL: the buffer stays as it is.
ToolKilled ==
    /\ phase \in {"configure", "run", "give_up", "stop"} /\ pc["tool"] = "idle"
    /\ phase' = "idle" /\ step' = 1 /\ tries' = 0 /\ worked' = FALSE /\ issued' = FALSE
    /\ outside' = FALSE /\ failed' = FALSE
    /\ UNCHANGED <<settings_vars, buf, tool, cfg, counts>>

\* The tool's system call goes on.
ToolCall ==
    /\ CallStep("tool")
    /\ UNCHANGED <<buf, tool, cfg, progress, outside, counts>>
    /\ NoteFault

-----------------------------------------------------------------------------
(* Somebody else, and the driver's binding.                                *)

\* While the tool runs only turning the buffer off, or removing the driver,
\* takes anything away from it.
NoteOther ==
    outside' = (outside \/ phase # "run" \/ pc'["shell"] = "postdisable" \/ driver' # driver)

OtherStart ==
    /\ others' = others + 1
    /\ \/ /\ \/ \E r \in Requests : <<r[1], r[2]>> \in OthersSet /\ WriteRaw("shell", r[1], r[2])
             \/ <<"enable", 1>> \in OthersSet /\ EnableStart("shell", Startable)
             \/ <<"enable", 0>> \in OthersSet /\ DisableStart("shell")
          /\ UNCHANGED buf
       \/ /\ \E r \in OthersSet :
                /\ r[1] \in DOMAIN buf /\ StoreLock(r[1]) /\ StoreTaken(r[1], r[2])
                /\ buf' = Stored(r[1], r[2])
          /\ UNCHANGED settings_vars
    /\ UNCHANGED <<tool, cfg, progress, failed, runs, binds>>
    /\ NoteOther /\ Within

OtherCall ==
    /\ CallStep("shell")
    /\ UNCHANGED <<buf, tool, cfg, progress, counts>>
    /\ NoteOther /\ NoteFault

BindStart ==
    /\ ProbeStart
    /\ binds' = binds + 1
    /\ UNCHANGED <<buf, tool, cfg, progress, outside, failed, others, runs>>
    /\ Within

BindStep ==
    /\ ProbeStep \/ ProbeFails \/ ChipResets \/ StopDevice \/ Unregister
    /\ buf' = IF driver' = "bound" THEN FreshBuffer ELSE buf
    /\ UNCHANGED <<tool, cfg, progress, counts>>
    /\ NoteOther /\ NoteFault

-----------------------------------------------------------------------------
\* Everybody rests: nobody is in a system call or waits for anything.
Rest ==
    /\ phase \in {"idle", "run", "exit", "refused"} /\ \A t \in Threads : pc[t] = "idle"
    /\ mlock = "free" /\ lock = "free" /\ driver \in {"unbound", "bound"}
    /\ UNCHANGED vars

ToolStep ==
    ToolStore \/ ToolIssue \/ ToolReturn \/ ToolDisable \/ ToolExit \/ ToolCall

Next ==
    \/ \E k \in Tools, o \in Options : ToolStart(k, o)
    \/ ToolStep \/ RunEnds \/ ToolKilled
    \/ OtherStart \/ OtherCall \/ BindStart \/ BindStep \/ Rest

Spec == Init /\ [][Next]_vars

\* The tool and whoever is in a system call run on.
FairSpec == Spec /\ SF_vars(ToolStep) /\ WF_vars(OtherCall) /\ WF_vars(BindStep)

-----------------------------------------------------------------------------
(* Properties.                                                             *)

TypeOK ==
    /\ SettingsTypeOK
    /\ buf.scan \in {"none", "part", "all"} /\ buf.trig \in Triggers
    /\ buf.fifo_watermark \in 1 .. 73 /\ buf.length \in Nat /\ buf.watermark \in 1 .. buf.length
    /\ tool \in Tools /\ runs \in 0 .. MaxRuns
    /\ phase \in {"idle", "configure", "run", "give_up", "stop", "exit", "refused"}
    /\ step \in 1 .. Len(Program) /\ tries \in 0 .. 3
    /\ \A b \in {worked, issued, outside, failed} : b \in BOOLEAN
    /\ others + binds + faults <= MaxEvents + 1

\* The buffer is on with the layout that the tool parses, and everything else is
\* as the command line says.
LayoutAsAsked == enabled /\ buf.scan = "all" /\ (cfg.trig # "none" => buf.trig = cfg.trig)

SettingsAsAsked ==
    /\ reg["sampling_frequency"] = odr_to_div(cfg.hz)
    /\ buf.fifo_watermark = Clamp(cfg.fifo_watermark)
    /\ buf.length = IF cfg.length < 2 THEN 2 ELSE cfg.length
    /\ buf.watermark = IF cfg.watermark <= buf.length THEN cfg.watermark ELSE buf.length

\* A tool that captures captures what it was asked for, whatever the run before
\* left behind, whatever transfers failed on the way and however often others
\* try to change a setting of the running session.
CapturesAsAsked ==
    phase = "run" /\ ~outside => LayoutAsAsked /\ (tool # "cpp_strict" => SettingsAsAsked)

\* --strict-optional-sysfs: a tool that captures has set every optional attribute.
StrictMeansFatal ==
    phase = "run" /\ ~outside /\ tool = "cpp_strict" => SettingsAsAsked

\* A tool that exits, unless it is killed, leaves the buffer off.
ExitLeavesBufferOff == phase = "exit" /\ ~outside => ~enabled

\* A command line that the device can satisfy.
Satisfiable(c) == ValidHz(c.hz) /\ c.watermark <= c.length

\* With no failing transfer or open and nobody interfering, the C tool never fails to
\* configure what the device can do, whatever a killed run, somebody else or a
\* failed configuration has left behind.
FreshStartSucceeds ==
    phase = "give_up" /\ tool = "c" => outside \/ failed \/ ~Satisfiable(cfg)

\* A tool that was started captures, exits or is killed: it waits for no lock for
\* ever, whoever fails, is refused or removes the driver at the same time.
ToolSettles == phase = "configure" ~> phase \in {"run", "exit", "idle"}
=============================================================================
