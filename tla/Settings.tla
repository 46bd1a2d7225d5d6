------------------------------- MODULE Settings -------------------------------
(***************************************************************************)
(* The settings of ICM20602.c: the sampling frequency and the two scales,  *)
(* held once in the chip's registers and once in icm20602_data.  Probe     *)
(* resets the chip and writes what the device tree asks for; user space    *)
(* changes them through write_raw, one system call per thread, under the   *)
(* IIO core's mlock and data->lock; nobody may while a buffer is on.       *)
(*                                                                         *)
(* A setting is named for its sysfs attribute.  A register is represented  *)
(* by the bits of the setting in it.                                       *)
(***************************************************************************)
EXTENDS Integers, Sequences

CONSTANTS
    Threads,        \* user-space threads
    Requests,       \* <<setting, value>> that user space writes
    DeviceTrees,    \* device trees: a value, or 0 for none, of each property
    ResetPolls,     \* times soft_reset polls for the end of a reset (20)
    MaxFaults       \* bound: SPI transfers and registrations that fail

Kinds == {"sampling_frequency", "gyro_scale", "accel_scale"}

ASSUME SettingsAssumption ==
    /\ "free" \notin Threads
    /\ Requests \subseteq Kinds \X Int
    /\ DeviceTrees \subseteq [Kinds -> Nat]
    /\ ResetPolls \in Nat \ {0} /\ MaxFaults \in Nat

VARIABLES
    reg,            \* SMPLRT_DIV, GYRO_CONFIG and ACCEL_CONFIG, by setting
    quiet,          \* the chip's FIFO and interrupts are off
    resetting,      \* the chip is in a soft reset
    dt,             \* the device tree's node
    driver,         \* where probe or remove is
    config,         \* data->config
    polls,          \* retry in soft_reset
    applied,        \* registers that apply_settings has written
    data,           \* sampling_frequency, gyro_scale_idx and accel_scale_idx
    enabled,        \* iio_buffer_enabled
    mlock, lock,    \* holders of indio_dev->mlock and data->lock
    pc, req,        \* the system call a thread is in: where, and what it writes
    ret,            \* whether the last system call of a thread worked
    faults

hw == <<reg, quiet, resetting>>
binding == <<dt, driver, config, polls, applied>>
calls == <<mlock, lock, pc, req, ret>>
settings_vars == <<hw, binding, data, enabled, calls, faults>>

-----------------------------------------------------------------------------
(* Tables and conversions.                                                 *)

\* The scales in micro units, by index.
gyro_scale_table == [i \in 0 .. 3 |-> <<133, 266, 532, 1064>>[i + 1]]
accel_scale_table == [i \in 0 .. 3 |-> <<598, 1197, 2394, 4788>>[i + 1]]

\* The ranges that the device tree names, by index.
gyro_range == [i \in 0 .. 3 |-> <<250, 500, 1000, 2000>>[i + 1]]
accel_range == [i \in 0 .. 3 |-> <<2, 4, 8, 16>>[i + 1]]

\* Bits 4 and 3 of the range registers.
RegVal(idx) == 8 * idx

\* What the *_available attributes list.
Available(s) ==
    CASE s = "gyro_scale"  -> {133, 266, 532, 1064}
      [] s = "accel_scale" -> {598, 1197, 2394, 4788}
      [] OTHER -> {4, 8, 10, 20, 25, 50, 100, 125, 200, 250, 500, 1000}

\* Mutant: the divider is rounded up.
odr_to_div_Ceil(hz) == (999 + hz) \div hz - 1

odr_to_div(hz) == 1000 \div hz - 1

real_hz(div) == 1000 \div (div + 1)

ValidHz(hz) == hz > 0 /\ hz <= 1000 /\ odr_to_div(hz) <= 255

\* Whether set_*_scale and set_sampling_frequency take a value ...
Accepted(s, v) ==
    CASE s = "gyro_scale"  -> \E i \in 0 .. 3 : gyro_scale_table[i] = v
      [] s = "accel_scale" -> \E i \in 0 .. 3 : accel_scale_table[i] = v
      [] OTHER             -> ValidHz(v)

\* ... and what they write to the register for it.
Encode(s, v) ==
    CASE s = "gyro_scale"  -> RegVal(CHOOSE i \in 0 .. 3 : gyro_scale_table[i] = v)
      [] s = "accel_scale" -> RegVal(CHOOSE i \in 0 .. 3 : accel_scale_table[i] = v)
      [] OTHER             -> odr_to_div(v)

\* What icm20602_data holds for a register: the real rate, or the table's index.
Mirror(s, r) == IF s = "sampling_frequency" THEN real_hz(r) ELSE r \div 8

\* The values a register holds.
RegValues(s) == IF s = "sampling_frequency" THEN 0 .. 255 ELSE {0, 8, 16, 24}

\* What a show of the attribute returns.
Shown(s) ==
    CASE s = "gyro_scale"  -> gyro_scale_table[data[s]]
      [] s = "accel_scale" -> accel_scale_table[data[s]]
      [] OTHER             -> data[s]

default_config ==
    [s \in Kinds |-> CASE s = "gyro_scale"  -> 24
                       [] s = "accel_scale" -> 16
                       [] OTHER             -> 7]

\* parse_dt: a property that is absent or that it does not know leaves the default.
ParseDt(tree) ==
    [s \in Kinds |->
        CASE s = "gyro_scale" /\ \E i \in 0 .. 3 : gyro_range[i] = tree[s] ->
                RegVal(CHOOSE i \in 0 .. 3 : gyro_range[i] = tree[s])
          [] s = "accel_scale" /\ \E i \in 0 .. 3 : accel_range[i] = tree[s] ->
                RegVal(CHOOSE i \in 0 .. 3 : accel_range[i] = tree[s])
          [] s = "sampling_frequency" /\ ValidHz(tree[s]) -> odr_to_div(tree[s])
          [] OTHER -> default_config[s]]

\* The registers in the order apply_settings writes them; those without a
\* setting stand for their neighbours.
ApplyOrder ==
    <<"pwr_mgmt", "sampling_frequency", "gyro_scale", "accel_scale", "int_pin_cfg">>

\* The request of a thread that writes no setting.
NoRequest == <<"none", 0>>

-----------------------------------------------------------------------------
SettingsInit ==
    /\ reg = [s \in Kinds |-> 0] /\ quiet = TRUE /\ resetting = FALSE
    /\ dt \in DeviceTrees /\ driver = "unbound" /\ config = default_config
    /\ polls = 0 /\ applied = 0
    /\ data = [s \in Kinds |-> Mirror(s, default_config[s])] /\ enabled = FALSE
    /\ mlock = "free" /\ lock = "free"
    /\ pc = [t \in Threads |-> "idle"] /\ req = [t \in Threads |-> NoRequest]
    /\ ret = [t \in Threads |-> "OK"]
    /\ faults = 0

\* A session is on, or about to be.
Sampling == enabled \/ \E t \in Threads : pc[t] = "enable"

\* One more transfer fails.
Fault == faults < MaxFaults /\ faults' = faults + 1

-----------------------------------------------------------------------------
(* Probe.                                                                  *)

\* The driver is bound: parse_dt.
ProbeStart ==
    /\ driver = "unbound" /\ driver' = "check"
    /\ config' = ParseDt(dt)
    /\ UNCHANGED <<hw, dt, polls, applied, data, enabled, calls, faults>>

\* A step of probe fails: what devm has allocated is given back.
ProbeFails ==
    /\ driver \in {"check", "reset", "poll", "apply", "register"}
    /\ Fault
    /\ driver' = "unbound"
    /\ UNCHANGED <<hw, dt, config, polls, applied, data, enabled, calls>>

\* check_chip reads WHO_AM_I.
CheckChip ==
    /\ driver = "check" /\ driver' = "reset"
    /\ UNCHANGED <<hw, dt, config, polls, applied, data, enabled, calls, faults>>

\* Mutant: the "official code", which sleeps where this driver resets.
SoftReset_Sleep ==
    /\ driver = "reset" /\ driver' = "poll"
    /\ polls' = 0
    /\ UNCHANGED <<hw, dt, config, applied, data, enabled, calls, faults>>

\* soft_reset sets DEVICE_RESET ...
SoftReset ==
    /\ driver = "reset" /\ driver' = "poll"
    /\ resetting' = TRUE /\ polls' = 0
    /\ UNCHANGED <<reg, quiet, dt, config, applied, data, enabled, calls, faults>>

\* The chip's reset ends: every register has its reset value.
ChipResets ==
    /\ resetting /\ resetting' = FALSE
    /\ reg' = [s \in Kinds |-> 0] /\ quiet' = TRUE
    /\ UNCHANGED <<binding, data, enabled, calls, faults>>

\* ... and polls until PWR_MGMT_1 reads 0x41, or gives up with -ETIMEDOUT.
PollReset ==
    /\ driver = "poll"
    /\ \/ ~resetting /\ driver' = "apply" /\ applied' = 0 /\ UNCHANGED polls
       \/ /\ resetting
          /\ polls' = polls + 1
          /\ driver' = IF polls + 1 = ResetPolls THEN "unbound" ELSE driver
          /\ UNCHANGED applied
    /\ UNCHANGED <<hw, dt, config, data, enabled, calls, faults>>

\* apply_settings writes the next register; a chip in reset forgets it.
ApplyRegister ==
    /\ driver = "apply" /\ applied < Len(ApplyOrder)
    /\ applied' = applied + 1
    /\ LET s == ApplyOrder[applied + 1]
       IN  reg' = IF s \in Kinds /\ ~resetting THEN [reg EXCEPT ![s] = config[s]] ELSE reg
    /\ UNCHANGED <<quiet, resetting, dt, driver, config, polls, data, enabled, calls, faults>>

\* The rest of init_device: the runtime state follows the template.
InitDevice ==
    /\ driver = "apply" /\ applied = Len(ApplyOrder)
    /\ data' = [s \in Kinds |-> Mirror(s, config[s])]
    /\ driver' = "register"
    /\ UNCHANGED <<hw, dt, config, polls, applied, enabled, calls, faults>>

\* Triggers, interrupt and the IIO device are registered.
Register ==
    /\ driver = "register" /\ driver' = "bound"
    /\ UNCHANGED <<hw, dt, config, polls, applied, data, enabled, calls, faults>>

-----------------------------------------------------------------------------
(* write_raw.  remove has stopped the device before sysfs goes away.       *)

SysfsThere == driver \in {"bound", "stopped"}

At(t, here, there) == pc[t] = here /\ pc' = [pc EXCEPT ![t] = there]

Returns(t, code) == ret' = [ret EXCEPT ![t] = code]

\* A first look at iio_buffer_enabled, without the mlock: -EBUSY.
WriteRaw(t, s, v) ==
    /\ SysfsThere /\ pc[t] = "idle"
    /\ \/ enabled /\ Returns(t, "error") /\ UNCHANGED <<pc, req>>
       \/ /\ ~enabled /\ At(t, "idle", "claim") /\ UNCHANGED ret
          /\ req' = [req EXCEPT ![t] = <<s, v>>]
    /\ UNCHANGED <<hw, binding, data, enabled, mlock, lock, faults>>

\* Mutant: that look is taken for enough.
Claim_Skipped(t) ==
    /\ At(t, "claim", "lock")
    /\ UNCHANGED <<hw, binding, data, enabled, mlock, lock, req, ret, faults>>

\* iio_device_claim_direct_mode.
Claim(t) ==
    /\ mlock = "free"
    /\ \/ /\ enabled /\ At(t, "claim", "idle") /\ Returns(t, "error")
          /\ req' = [req EXCEPT ![t] = NoRequest] /\ UNCHANGED mlock
       \/ ~enabled /\ At(t, "claim", "lock") /\ mlock' = t /\ UNCHANGED <<ret, req>>
    /\ UNCHANGED <<hw, binding, data, enabled, lock, faults>>

\* set_*_scale and set_sampling_frequency look the value up and write the register ...
WriteRegister(t) ==
    LET s == req[t][1]
        v == req[t][2]
    IN  /\ lock = "free"
        /\ \/ /\ Accepted(s, v)
              /\ At(t, "lock", "store") /\ lock' = t
              /\ reg' = IF resetting THEN reg ELSE [reg EXCEPT ![s] = Encode(s, v)]
              /\ UNCHANGED <<ret, faults>>
           \/ /\ At(t, "lock", "release") /\ Returns(t, "error")
              /\ \/ ~Accepted(s, v) /\ UNCHANGED faults
                 \/ Accepted(s, v) /\ Fault
              /\ UNCHANGED <<reg, lock>>
        /\ UNCHANGED <<quiet, resetting, binding, data, enabled, mlock, req>>

\* Mutant: the frequency shown is the one asked for.
StoreSetting_AsAsked(t) ==
    LET s == req[t][1]
        v == req[t][2]
    IN  /\ At(t, "store", "release") /\ Returns(t, "OK") /\ lock' = "free"
        /\ data' = [data EXCEPT ![s] =
                      IF s = "sampling_frequency" THEN v ELSE Mirror(s, Encode(s, v))]
        /\ UNCHANGED <<hw, binding, enabled, mlock, req, faults>>

\* ... and only then icm20602_data.
StoreSetting(t) ==
    LET s == req[t][1]
        v == req[t][2]
    IN  /\ At(t, "store", "release") /\ Returns(t, "OK") /\ lock' = "free"
        /\ data' = [data EXCEPT ![s] = Mirror(s, Encode(s, v))]
        /\ UNCHANGED <<hw, binding, enabled, mlock, req, faults>>

\* iio_device_release_direct_mode, and the end of a write to buffer/enable.
Release(t) ==
    /\ At(t, "release", "idle") /\ mlock' = "free"
    /\ req' = [req EXCEPT ![t] = NoRequest]
    /\ UNCHANGED <<hw, binding, data, enabled, lock, ret, faults>>

-----------------------------------------------------------------------------
(* buffer/enable.  BufferLifecycle has the callbacks' details.             *)

\* The core takes the mlock; startable: it finds a trigger and a channel.
EnableStart(t, startable) ==
    /\ SysfsThere /\ pc[t] = "idle" /\ mlock = "free" /\ mlock' = t
    /\ \/ enabled /\ At(t, "idle", "release") /\ Returns(t, "OK")
       \/ ~enabled /\ ~startable /\ At(t, "idle", "release") /\ Returns(t, "error")
       \/ ~enabled /\ startable /\ At(t, "idle", "preenable") /\ UNCHANGED ret
    /\ UNCHANGED <<hw, binding, data, enabled, lock, req, faults>>

\* preenable starts the chip; when it fails the chip may be half started.
Preenable(t) ==
    /\ lock = "free"
    /\ \/ At(t, "preenable", "enable") /\ quiet' = FALSE /\ UNCHANGED <<ret, faults>>
       \/ /\ At(t, "preenable", "release") /\ Returns(t, "error")
          /\ quiet' \in BOOLEAN /\ Fault
    /\ UNCHANGED <<reg, resetting, binding, data, enabled, mlock, lock, req>>

\* The core switches the mode, attaches and returns.
EnableEnd(t) ==
    /\ At(t, "enable", "release") /\ Returns(t, "OK")
    /\ enabled' = TRUE
    /\ UNCHANGED <<hw, binding, data, mlock, lock, req, faults>>

DisableStart(t) ==
    /\ SysfsThere /\ pc[t] = "idle" /\ mlock = "free" /\ mlock' = t
    /\ \/ ~enabled /\ At(t, "idle", "release") /\ Returns(t, "OK")
       \/ enabled /\ At(t, "idle", "postdisable") /\ UNCHANGED ret
    /\ UNCHANGED <<hw, binding, data, enabled, lock, req, faults>>

\* postdisable stops what it knows to be on; the buffer is off in any case.
Postdisable(t) ==
    /\ lock = "free" /\ At(t, "postdisable", "release")
    /\ enabled' = FALSE /\ quiet' \in {quiet, TRUE}
    /\ \/ Returns(t, "OK") /\ UNCHANGED faults
       \/ Returns(t, "error") /\ Fault
    /\ UNCHANGED <<reg, resetting, binding, data, mlock, lock, req>>

-----------------------------------------------------------------------------
(* Remove.                                                                 *)

\* stop_device takes data->lock, not the mlock.  It stops a session's FIFO, not
\* one that a failed preenable left behind; its transfers may fail.
StopDevice ==
    /\ driver = "bound" /\ lock = "free" /\ driver' = "stopped"
    /\ \/ quiet' \in (IF Sampling THEN {TRUE} ELSE {quiet, TRUE}) /\ UNCHANGED faults
       \/ quiet' \in {quiet, TRUE} /\ Fault
    /\ UNCHANGED <<reg, resetting, dt, config, polls, applied, data, enabled, calls>>

\* devm unregisters the device, once the system calls in it are over, and
\* disables a buffer that is still on.
Unregister ==
    /\ driver = "stopped" /\ \A t \in Threads : pc[t] = "idle"
    /\ driver' = "unbound" /\ enabled' = FALSE
    /\ quiet' \in (IF enabled THEN {quiet, TRUE} ELSE {quiet})
    /\ UNCHANGED <<reg, resetting, dt, config, polls, applied, data, calls, faults>>

-----------------------------------------------------------------------------
ProbeStep ==
    \/ CheckChip \/ SoftReset \/ PollReset \/ ApplyRegister \/ InitDevice \/ Register

CallStep(t) ==
    \/ Claim(t) \/ WriteRegister(t) \/ StoreSetting(t) \/ Release(t)
    \/ Preenable(t) \/ EnableEnd(t) \/ Postdisable(t)

CallStart(t) ==
    \/ \E r \in Requests : WriteRaw(t, r[1], r[2])
    \/ \E b \in BOOLEAN : EnableStart(t, b)
    \/ DisableStart(t)

SettingsNext ==
    \/ ProbeStart \/ ProbeStep \/ ProbeFails \/ ChipResets
    \/ StopDevice \/ Unregister
    \/ \E t \in Threads : CallStart(t) \/ CallStep(t)

SettingsSpec == SettingsInit /\ [][SettingsNext]_settings_vars

-----------------------------------------------------------------------------
(* Properties.                                                             *)

TypeHw ==
    /\ reg \in [Kinds -> Nat] /\ \A s \in Kinds : reg[s] \in RegValues(s)
    /\ quiet \in BOOLEAN /\ resetting \in BOOLEAN

TypeBinding ==
    /\ dt \in DeviceTrees
    /\ driver \in {"unbound", "check", "reset", "poll", "apply", "register", "bound", "stopped"}
    /\ config \in [Kinds -> Nat] /\ \A s \in Kinds : config[s] \in RegValues(s)
    /\ polls \in 0 .. ResetPolls /\ applied \in 0 .. 5

TypeData == data \in [Kinds -> Nat] /\ enabled \in BOOLEAN

TypeCalls ==
    /\ mlock \in Threads \cup {"free"} /\ lock \in Threads \cup {"free"}
    /\ pc \in [Threads -> {"idle", "claim", "lock", "store", "release",
                           "preenable", "enable", "postdisable"}]
    /\ req \in [Threads -> Requests \cup {NoRequest}]
    /\ ret \in [Threads -> {"OK", "error"}]

SettingsTypeOK ==
    TypeHw /\ TypeBinding /\ TypeData /\ TypeCalls /\ faults \in 0 .. MaxFaults

Bound == driver \in {"bound", "stopped"}

\* Whoever gets data->lock finds icm20602_data and the chip's registers in
\* agreement, whatever writes failed, raced or were refused before: the rate and
\* the scales that are shown are those the chip samples with.
SettingsAgree ==
    Bound /\ lock = "free" => \A s \in Kinds : data[s] = Mirror(s, reg[s])

\* Probe leaves nothing of what an earlier binding, or a reset it did not wait
\* for, left in the chip: its settings are the device tree's and it is quiet.
ProbeErasesThePast ==
    driver = "register" => quiet /\ ~resetting /\ reg = config

\* While the chip samples for a session no setting changes, neither in the chip
\* nor in icm20602_data: the period that dates the frames of a FIFO is the one
\* they were taken with.
PeriodFixed == [][Sampling /\ Sampling' => reg' = reg /\ data' = data]_settings_vars

\* The chip is never slower than asked; what is shown can be written back and
\* changes nothing; and what the *_available attributes list is met exactly.
RateContract ==
    /\ \A r \in Requests :
          r[1] = "sampling_frequency" /\ Accepted(r[1], r[2]) =>
              real_hz(Encode(r[1], r[2])) >= r[2]
    /\ \A s \in Kinds : \A v \in Available(s) :
          /\ Accepted(s, v)
          /\ s = "sampling_frequency" => (Encode(s, v) + 1) * v = 1000
    /\ Bound /\ lock = "free" =>
          \A s \in Kinds : Accepted(s, Shown(s)) /\ Encode(s, Shown(s)) = reg[s]
=============================================================================
