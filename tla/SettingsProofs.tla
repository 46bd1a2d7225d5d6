---------------------------- MODULE SettingsProofs ----------------------------
(***************************************************************************)
(* Theorems about Settings, for any number of threads, any requests and    *)
(* any device tree: the chip's registers and icm20602_data agree, nothing  *)
(* changes under a session, a probe erases the past, and no rate is slower *)
(* than the one asked for.                                                 *)
(***************************************************************************)
EXTENDS Settings, TLAPS

\* A divider that the rate it makes is converted back to.
SettledDiv(div) == ValidHz(real_hz(div)) /\ odr_to_div(real_hz(div)) = div

\* Who holds the mlock and data->lock, by the place a thread is at.
Holding == {"lock", "store", "release", "preenable", "enable", "postdisable"}

LockInv ==
    \A t \in Threads : (mlock = t <=> pc[t] \in Holding) /\ (lock = t <=> pc[t] = "store")

\* What a thread in a system call relies on.
CallInv ==
    \A t \in Threads :
       /\ pc[t] \in {"claim", "lock", "store"} => req[t] \in Requests
       /\ pc[t] \in {"lock", "store", "preenable", "enable"} => ~enabled
       /\ pc[t] = "store" =>
            Accepted(req[t][1], req[t][2]) /\ reg[req[t][1]] = Encode(req[t][1], req[t][2])

\* What probe has done to the chip; nobody gets at an unregistered device.
ProbeInv ==
    /\ ~SysfsThere => ~enabled /\ \A t \in Threads : pc[t] = "idle"
    /\ driver \in {"apply", "register", "bound", "stopped"} => ~resetting
    /\ driver = "poll" => polls < ResetPolls /\ (resetting \/ quiet)
    /\ driver \in {"apply", "register"} => quiet
    /\ driver = "apply" =>
         /\ applied >= 2 => reg["sampling_frequency"] = config["sampling_frequency"]
         /\ applied >= 3 => reg["gyro_scale"] = config["gyro_scale"]
         /\ applied >= 4 => reg["accel_scale"] = config["accel_scale"]
    /\ driver = "register" => \A s \in Kinds : reg[s] = config[s]

\* Register and icm20602_data differ at most in what a thread is about to store.
AgreeInv ==
    driver \in {"register", "bound", "stopped"} =>
        \A s \in Kinds :
           (\A t \in Threads : pc[t] = "store" => req[t][1] # s) => data[s] = Mirror(s, reg[s])

\* The divider in the chip and the one in the template are settled.
RateInv == SettledDiv(reg["sampling_frequency"]) /\ SettledDiv(config["sampling_frequency"])

IInv == SettingsTypeOK /\ LockInv /\ CallInv /\ ProbeInv /\ AgreeInv /\ RateInv

-----------------------------------------------------------------------------
(* The conversions.                                                        *)

\* The rates, which are also what a divider is one less than.
Rates == 1 .. 1000

\* What both real_hz and odr_to_div do.
Quotient(n) == 1000 \div n

\* Quotients of 1000 are in range.
LEMMA QuotientTyped == ASSUME NEW n \in Rates PROVE Quotient(n) \in Rates
  BY SMTT(60) DEF Quotient, Rates

\* Dividing by the quotient gives the divisor back, or more.
LEMMA QuotientOfQuotient == ASSUME NEW n \in Rates PROVE n <= Quotient(Quotient(n))
  BY SMTT(60) DEF Quotient, Rates

\* A larger divisor gives no larger quotient.
LEMMA QuotientShrinks ==
    ASSUME NEW a \in Rates, NEW b \in Rates, a <= b
    PROVE  Quotient(b) <= Quotient(a)
  BY SMTT(60) DEF Quotient, Rates

\* odr_to_div and real_hz in terms of the quotient.
LEMMA RatesAreQuotients ==
    /\ \A hz \in Int : odr_to_div(hz) = Quotient(hz) - 1
    /\ \A div \in Int : real_hz(div) = Quotient(div + 1)
  BY DEF odr_to_div, real_hz, Quotient

\* The third division changes nothing any more.
LEMMA QuotientSettles ==
    ASSUME NEW n \in Rates
    PROVE  Quotient(Quotient(Quotient(n))) = Quotient(n)
  <1>1. Quotient(n) \in Rates
    BY QuotientTyped
  <1>2. Quotient(Quotient(n)) \in Rates
    BY <1>1, QuotientTyped
  <1>3. Quotient(Quotient(Quotient(n))) \in Rates
    BY <1>2, QuotientTyped
  <1>4. Quotient(n) <= Quotient(Quotient(Quotient(n)))
    BY <1>1, QuotientOfQuotient
  <1>5. n <= Quotient(Quotient(n))
    BY QuotientOfQuotient
  <1>6. Quotient(Quotient(Quotient(n))) <= Quotient(n)
    BY <1>2, <1>5, QuotientShrinks
  <1>7. \A a, b \in Rates : a <= b /\ b <= a => a = b
    BY DEF Rates
  <1> QED BY <1>1, <1>3, <1>4, <1>6, <1>7, Zenon

\* set_sampling_frequency: the divider fits its register, the chip is at least as
\* fast as asked, and the rate it reports is converted back to the same divider.
LEMMA RateOfDivider ==
    ASSUME NEW hz \in Int, ValidHz(hz)
    PROVE  /\ odr_to_div(hz) \in 0 .. 255
           /\ real_hz(odr_to_div(hz)) >= hz
           /\ SettledDiv(odr_to_div(hz))
  <1> DEFINE q == Quotient(hz)
             r == Quotient(q)
  <1>1. hz \in Rates
    BY DEF ValidHz, Rates
  <1>2. q \in Rates
    BY <1>1, QuotientTyped
  <1>3. r \in Rates
    BY <1>2, QuotientTyped
  <1>4. hz <= r
    BY <1>1, QuotientOfQuotient
  <1>5. Quotient(r) = q
    BY <1>1, QuotientSettles
  <1> HIDE DEF r
  <1>6. odr_to_div(hz) = q - 1 /\ odr_to_div(r) = q - 1
    BY <1>3, <1>5, RatesAreQuotients DEF Rates
  <1> HIDE DEF q
  <1>7. real_hz(odr_to_div(hz)) = r
    <2>1. q - 1 \in Int /\ q - 1 + 1 = q
      BY <1>2 DEF Rates
    <2>2. real_hz(q - 1) = Quotient(q)
      BY <2>1, RatesAreQuotients
    <2> QED BY <1>6, <2>2 DEF r
  <1>8. odr_to_div(hz) <= 255
    BY DEF ValidHz
  <1>9. ValidHz(r)
    BY <1>3, <1>6, <1>8 DEF ValidHz, Rates
  <1> QED BY <1>2, <1>3, <1>4, <1>6, <1>7, <1>8, <1>9 DEF SettledDiv, Rates

\* Register values are numbers.
LEMMA RegValuesAreNumbers == \A s \in Kinds : RegValues(s) \subseteq Nat
  BY DEF RegValues

\* What is written to a register fits it, and a divider written is settled.
LEMMA EncodeTyped ==
    ASSUME NEW s \in Kinds, NEW v \in Int, Accepted(s, v)
    PROVE  /\ Encode(s, v) \in RegValues(s)
           /\ s = "sampling_frequency" => SettledDiv(Encode(s, v))
  <1>1. CASE s = "gyro_scale"
    BY <1>1 DEF Accepted, Encode, RegValues, RegVal
  <1>2. CASE s = "accel_scale"
    BY <1>2 DEF Accepted, Encode, RegValues, RegVal
  <1>3. CASE s = "sampling_frequency"
    <2>1. ValidHz(v) /\ Encode(s, v) = odr_to_div(v) /\ RegValues(s) = 0 .. 255
      BY <1>3 DEF Accepted, Encode, RegValues
    <2> QED BY <2>1, RateOfDivider
  <1> QED BY <1>1, <1>2, <1>3 DEF Kinds

\* What icm20602_data holds is a number.
LEMMA MirrorTyped ==
    ASSUME NEW s \in Kinds, NEW r \in RegValues(s)
    PROVE  Mirror(s, r) \in Nat
  <1>1. CASE s = "sampling_frequency"
    <2>1. r \in 0 .. 255 /\ r + 1 \in Rates
      BY <1>1 DEF RegValues, Rates
    <2>2. real_hz(r) = Quotient(r + 1)
      BY <2>1, RatesAreQuotients
    <2>3. Quotient(r + 1) \in Rates
      BY <2>1, QuotientTyped
    <2> QED BY <1>1, <2>2, <2>3 DEF Mirror, Rates
  <1>2. CASE s # "sampling_frequency"
    BY <1>2 DEF Mirror, RegValues, Kinds
  <1> QED BY <1>1, <1>2

\* The template that probe starts from and what parse_dt makes of it.
LEMMA TemplateTyped ==
    ASSUME NEW c, c = default_config \/ \E tree \in [Kinds -> Nat] : c = ParseDt(tree)
    PROVE  /\ c \in [Kinds -> Nat] /\ \A s \in Kinds : c[s] \in RegValues(s)
           /\ SettledDiv(c["sampling_frequency"])
  <1>1. SettledDiv(7)
    BY DEF SettledDiv, ValidHz, real_hz, odr_to_div
  <1>2. default_config \in [Kinds -> Nat] /\ \A s \in Kinds : default_config[s] \in RegValues(s)
    BY DEF default_config, Kinds, RegValues
  <1>3. default_config["sampling_frequency"] = 7
    BY DEF default_config, Kinds
  <1>4. ASSUME NEW tree \in [Kinds -> Nat], c = ParseDt(tree)
        PROVE  /\ c \in [Kinds -> Nat] /\ \A s \in Kinds : c[s] \in RegValues(s)
               /\ SettledDiv(c["sampling_frequency"])
    <2>1. c["gyro_scale"] \in RegValues("gyro_scale")
      <3>1. default_config["gyro_scale"] \in RegValues("gyro_scale")
        BY <1>2 DEF Kinds
      <3> QED BY <1>4, <3>1 DEF ParseDt, RegValues, RegVal, Kinds
    <2>2. c["accel_scale"] \in RegValues("accel_scale")
      <3>1. default_config["accel_scale"] \in RegValues("accel_scale")
        BY <1>2 DEF Kinds
      <3> QED BY <1>4, <3>1 DEF ParseDt, RegValues, RegVal, Kinds
    <2>3. /\ c["sampling_frequency"] \in RegValues("sampling_frequency")
          /\ SettledDiv(c["sampling_frequency"])
      <3>1. CASE ValidHz(tree["sampling_frequency"])
        <4>1. c["sampling_frequency"] = odr_to_div(tree["sampling_frequency"])
          BY <1>4, <3>1 DEF ParseDt, Kinds
        <4>2. tree["sampling_frequency"] \in Int
          BY DEF Kinds
        <4> QED BY <3>1, <4>1, <4>2, RateOfDivider DEF RegValues
      <3>2. CASE ~ValidHz(tree["sampling_frequency"])
        <4>1. c["sampling_frequency"] = 7
          BY <1>3, <1>4, <3>2 DEF ParseDt, Kinds
        <4> QED BY <1>1, <4>1 DEF RegValues
      <3> QED BY <3>1, <3>2
    <2>4. \A s \in Kinds : c[s] \in RegValues(s)
      BY <2>1, <2>2, <2>3 DEF Kinds
    <2>5. c = [s \in Kinds |-> c[s]]
      BY <1>4 DEF ParseDt
    <2> QED BY <2>3, <2>4, <2>5, RegValuesAreNumbers
  <1> QED BY <1>1, <1>2, <1>3, <1>4

-----------------------------------------------------------------------------
(* The invariant holds at first, and every step keeps it.                  *)

\* Probe's first state.
LEMMA SettingsInitially == SettingsInit => IInv
  <1> SUFFICES ASSUME SettingsInit PROVE IInv
    OBVIOUS
  <1> USE DEF SettingsInit
  <1>1. /\ config \in [Kinds -> Nat] /\ \A s \in Kinds : config[s] \in RegValues(s)
        /\ SettledDiv(config["sampling_frequency"])
    BY TemplateTyped
  <1>2. \A s \in Kinds : data[s] \in Nat
    BY <1>1, MirrorTyped
  <1>3. SettledDiv(0)
    BY DEF SettledDiv, ValidHz, real_hz, odr_to_div
  <1>4. \A s \in Kinds : reg[s] \in RegValues(s)
    BY DEF RegValues, Kinds
  <1>5. SettingsTypeOK
    <2>1. TypeHw
      BY <1>4 DEF TypeHw
    <2>2. TypeBinding
      BY <1>1, SettingsAssumption DEF TypeBinding
    <2>3. TypeData
      BY <1>2 DEF TypeData
    <2>4. TypeCalls
      BY DEF TypeCalls
    <2> QED BY <2>1, <2>2, <2>3, <2>4, SettingsAssumption DEF SettingsTypeOK
  <1>6. LockInv /\ CallInv /\ ProbeInv /\ AgreeInv
    BY SettingsAssumption DEF LockInv, CallInv, ProbeInv, AgreeInv, Holding, SysfsThere
  <1>7. RateInv
    BY <1>1, <1>3 DEF RateInv, Kinds
  <1> QED BY <1>5, <1>6, <1>7 DEF IInv

\* Only these steps touch what the calls in progress rely on.
CallActions(t) ==
    \/ \E r \in Requests : WriteRaw(t, r[1], r[2])
    \/ \E b \in BOOLEAN : EnableStart(t, b)
    \/ DisableStart(t) \/ CallStep(t)

\* A step outside the system calls leaves them alone.
LEMMA OutsideCalls ==
    ASSUME SettingsNext \/ UNCHANGED settings_vars, ~\E t \in Threads : CallActions(t)
    PROVE  UNCHANGED calls
  BY DEF SettingsNext, settings_vars, CallActions, CallStart, ProbeStart, ProbeStep, CheckChip, SoftReset,
         PollReset, ApplyRegister, InitDevice, Register, ProbeFails, ChipResets, StopDevice, Unregister

\* A lock is held by the thread that is at a place where it holds it.
LEMMA LocksKept == TypeCalls /\ LockInv /\ [SettingsNext]_settings_vars => LockInv'
  <1> SUFFICES ASSUME TypeCalls, LockInv, [SettingsNext]_settings_vars PROVE LockInv'
    OBVIOUS
  <1> USE SettingsAssumption DEF TypeCalls, LockInv, Holding, At
  <1>1. CASE ~\E t \in Threads : CallActions(t)
    BY <1>1, OutsideCalls DEF calls
  <1>2. ASSUME NEW t \in Threads, CallActions(t) PROVE LockInv'
    <2>1. CASE \E r \in Requests : WriteRaw(t, r[1], r[2])
      BY <2>1 DEF WriteRaw
    <2>2. CASE \E b \in BOOLEAN : EnableStart(t, b)
      BY <2>2 DEF EnableStart
    <2>3. CASE DisableStart(t)
      BY <2>3 DEF DisableStart
    <2>4. CASE Claim(t)
      BY <2>4 DEF Claim
    <2>5. CASE WriteRegister(t)
      BY <2>5 DEF WriteRegister
    <2>6. CASE StoreSetting(t)
      BY <2>6 DEF StoreSetting
    <2>7. CASE Release(t)
      BY <2>7 DEF Release
    <2>8. CASE Preenable(t)
      BY <2>8 DEF Preenable
    <2>9. CASE EnableEnd(t)
      BY <2>9 DEF EnableEnd
    <2>10. CASE Postdisable(t)
      BY <2>10 DEF Postdisable
    <2> QED BY <1>2, <2>1, <2>2, <2>3, <2>4, <2>5, <2>6, <2>7, <2>8, <2>9, <2>10
            DEF CallActions, CallStep
  <1> QED BY <1>1, <1>2

\* The calls in progress keep their types.
LEMMA CallsTyped == TypeCalls /\ [SettingsNext]_settings_vars => TypeCalls'
  <1> SUFFICES ASSUME TypeCalls, [SettingsNext]_settings_vars PROVE TypeCalls'
    OBVIOUS
  <1> USE SettingsAssumption DEF TypeCalls, At, Returns
  <1>1. CASE ~\E t \in Threads : CallActions(t)
    BY <1>1, OutsideCalls DEF calls
  <1>2. ASSUME NEW t \in Threads, CallActions(t) PROVE TypeCalls'
    <2>1. ASSUME NEW r \in Requests, WriteRaw(t, r[1], r[2]) PROVE TypeCalls'
      <3>1. <<r[1], r[2]>> \in Requests
        OBVIOUS
      <3> QED BY <2>1, <3>1 DEF WriteRaw
    <2>2. CASE \E b \in BOOLEAN : EnableStart(t, b)
      BY <2>2 DEF EnableStart
    <2>3. CASE DisableStart(t)
      BY <2>3 DEF DisableStart
    <2>4. CASE Claim(t)
      BY <2>4 DEF Claim
    <2>5. CASE WriteRegister(t)
      BY <2>5 DEF WriteRegister
    <2>6. CASE StoreSetting(t)
      BY <2>6 DEF StoreSetting
    <2>7. CASE Release(t)
      BY <2>7 DEF Release
    <2>8. CASE Preenable(t)
      BY <2>8 DEF Preenable
    <2>9. CASE EnableEnd(t)
      BY <2>9 DEF EnableEnd
    <2>10. CASE Postdisable(t)
      BY <2>10 DEF Postdisable
    <2> QED BY <1>2, <2>1, <2>2, <2>3, <2>4, <2>5, <2>6, <2>7, <2>8, <2>9, <2>10
            DEF CallActions, CallStep
  <1> QED BY <1>1, <1>2

\* The request of a thread in write_raw is one for a setting, with a number.
LEMMA RequestTyped ==
    ASSUME TypeCalls, CallInv, NEW t \in Threads, pc[t] \in {"claim", "lock", "store"}
    PROVE  req[t] \in Requests /\ req[t][1] \in Kinds /\ req[t][2] \in Int
  BY SettingsAssumption DEF CallInv

\* What a step does to the chip's registers.
RegStep ==
    \/ UNCHANGED reg
    \/ reg' = [s \in Kinds |-> 0] /\ resetting
    \/ /\ driver = "apply" /\ applied \in 1 .. 3
       /\ reg' = [reg EXCEPT ![ApplyOrder[applied + 1]] = config[ApplyOrder[applied + 1]]]
    \/ \E t \in Threads :
          /\ pc[t] = "lock" /\ pc'[t] = "store" /\ Accepted(req[t][1], req[t][2])
          /\ reg' = [reg EXCEPT ![req[t][1]] = Encode(req[t][1], req[t][2])]
          /\ UNCHANGED <<data, req>>

\* A register changes in a reset, in apply_settings and in write_raw only.
LEMMA RegSteps == TypeBinding /\ TypeCalls /\ [SettingsNext]_settings_vars => RegStep
  <1> SUFFICES ASSUME TypeBinding, TypeCalls, [SettingsNext]_settings_vars PROVE RegStep
    OBVIOUS
  <1>1. CASE ChipResets
    BY <1>1 DEF RegStep, ChipResets
  <1>2. CASE ApplyRegister
    <2>1. applied \in 0 .. 4 /\ driver = "apply"
      BY <1>2 DEF ApplyRegister, ApplyOrder, TypeBinding
    <2>2. CASE applied \in {0, 4}
      BY <1>2, <2>2 DEF RegStep, ApplyRegister, ApplyOrder, Kinds
    <2>3. CASE applied \in 1 .. 3
      BY <1>2, <2>1, <2>3 DEF RegStep, ApplyRegister, ApplyOrder, Kinds
    <2> QED BY <2>1, <2>2, <2>3
  <1>3. ASSUME NEW t \in Threads, WriteRegister(t) PROVE RegStep
    BY <1>3 DEF RegStep, WriteRegister, At, TypeCalls
  <1>4. CASE UNCHANGED reg
    BY <1>4 DEF RegStep
  <1> QED BY <1>1, <1>2, <1>3, <1>4
          DEF SettingsNext, settings_vars, hw, CallStart, CallStep, ProbeStart, ProbeStep, CheckChip,
              SoftReset, PollReset, InitDevice, Register, ProbeFails, StopDevice, Unregister,
              WriteRaw, EnableStart, DisableStart, Claim, StoreSetting, Release, Preenable,
              EnableEnd, Postdisable

\* The registers keep their ranges, and the divider stays settled.
LEMMA RegTyped ==
    ASSUME TypeHw, TypeBinding, TypeCalls, CallInv, RateInv, RegStep
    PROVE  /\ reg' \in [Kinds -> Nat] /\ \A s \in Kinds : reg'[s] \in RegValues(s)
           /\ SettledDiv(reg'["sampling_frequency"])
  <1> USE DEF TypeHw, RateInv
  <1>1. CASE UNCHANGED reg
    BY <1>1
  <1>2. CASE reg' = [s \in Kinds |-> 0]
    BY <1>2 DEF Kinds, RegValues, SettledDiv, ValidHz, real_hz, odr_to_div
  <1>3. CASE /\ driver = "apply" /\ applied \in 1 .. 3
             /\ reg' = [reg EXCEPT ![ApplyOrder[applied + 1]] = config[ApplyOrder[applied + 1]]]
    <2>1. ApplyOrder[applied + 1] \in Kinds
      <3>1. applied = 1 \/ applied = 2 \/ applied = 3
        BY <1>3
      <3> QED BY <3>1 DEF ApplyOrder, Kinds
    <2>2. PICK s \in Kinds : reg' = [reg EXCEPT ![s] = config[s]]
      BY <1>3, <2>1
    <2>3. "sampling_frequency" \in Kinds
      BY DEF Kinds
    <2> QED BY <2>2, <2>3, RegValuesAreNumbers DEF TypeBinding
  <1>4. ASSUME NEW t \in Threads, pc[t] = "lock", Accepted(req[t][1], req[t][2]),
               reg' = [reg EXCEPT ![req[t][1]] = Encode(req[t][1], req[t][2])]
        PROVE  /\ reg' \in [Kinds -> Nat] /\ \A s \in Kinds : reg'[s] \in RegValues(s)
               /\ SettledDiv(reg'["sampling_frequency"])
    BY <1>4, RequestTyped, EncodeTyped, RegValuesAreNumbers
  <1> QED BY <1>1, <1>2, <1>3, <1>4 DEF RegStep

\* The chip's state keeps its types.
LEMMA HwTyped == IInv /\ [SettingsNext]_settings_vars => TypeHw'
  <1> SUFFICES ASSUME IInv, [SettingsNext]_settings_vars PROVE TypeHw'
    OBVIOUS
  <1>1. reg' \in [Kinds -> Nat] /\ \A s \in Kinds : reg'[s] \in RegValues(s)
    BY RegSteps, RegTyped DEF IInv, SettingsTypeOK
  <1>2. quiet' \in BOOLEAN /\ resetting' \in BOOLEAN
    BY DEF IInv, SettingsTypeOK, TypeHw, SettingsNext, settings_vars, hw, CallStart, CallStep,
           ProbeStart, ProbeStep, CheckChip, SoftReset, PollReset, ApplyRegister, InitDevice,
           Register, ProbeFails, ChipResets, StopDevice, Unregister, WriteRaw, EnableStart,
           DisableStart, Claim, WriteRegister, StoreSetting, Release, Preenable, EnableEnd,
           Postdisable
  <1> QED BY <1>1, <1>2 DEF TypeHw

\* Probe's state keeps its types, and the template's divider is settled.
LEMMA BindingTyped ==
    IInv /\ [SettingsNext]_settings_vars =>
        TypeBinding' /\ SettledDiv(config'["sampling_frequency"])
  <1> SUFFICES ASSUME IInv, [SettingsNext]_settings_vars
               PROVE  TypeBinding' /\ SettledDiv(config'["sampling_frequency"])
    OBVIOUS
  <1>1. /\ TypeBinding /\ SettledDiv(config["sampling_frequency"])
        /\ driver = "poll" => polls < ResetPolls
    BY DEF IInv, SettingsTypeOK, RateInv, ProbeInv
  <1>2. CASE ProbeStart
    <2>1. dt \in [Kinds -> Nat]
      BY <1>1, SettingsAssumption DEF TypeBinding
    <2>2. /\ config' \in [Kinds -> Nat] /\ \A s \in Kinds : config'[s] \in RegValues(s)
          /\ SettledDiv(config'["sampling_frequency"])
      BY <1>2, <2>1, TemplateTyped DEF ProbeStart
    <2> QED BY <1>1, <1>2, <2>2 DEF TypeBinding, ProbeStart
  <1>3. CASE PollReset
    BY <1>1, <1>3, SettingsAssumption DEF TypeBinding, PollReset
  <1>4. CASE ApplyRegister
    BY <1>1, <1>4 DEF TypeBinding, ApplyRegister, ApplyOrder
  <1>5. CASE CheckChip \/ Register \/ ProbeFails
    BY <1>1, <1>5 DEF TypeBinding, CheckChip, Register, ProbeFails
  <1>7. CASE SoftReset \/ InitDevice
    BY <1>1, <1>7, SettingsAssumption DEF TypeBinding, SoftReset, InitDevice
  <1>8. CASE StopDevice \/ Unregister
    BY <1>1, <1>8 DEF TypeBinding, StopDevice, Unregister
  <1>6. CASE UNCHANGED binding
    BY <1>1, <1>6 DEF TypeBinding, binding
  <1> QED BY <1>2, <1>3, <1>4, <1>5, <1>6, <1>7, <1>8
          DEF SettingsNext, settings_vars, CallStart, CallStep, ProbeStep, ChipResets, WriteRaw,
              EnableStart, DisableStart, Claim, WriteRegister, StoreSetting, Release, Preenable,
              EnableEnd, Postdisable

\* What a step does to icm20602_data.
DataStep ==
    \/ UNCHANGED data
    \/ driver = "apply" /\ driver' = "register" /\ applied = 5
       /\ data' = [s \in Kinds |-> Mirror(s, config[s])]
    \/ \E t \in Threads :
          /\ pc[t] = "store" /\ pc' = [pc EXCEPT ![t] = "release"]
          /\ data' = [data EXCEPT ![req[t][1]] = Mirror(req[t][1], Encode(req[t][1], req[t][2]))]
          /\ UNCHANGED <<reg, req, driver>>

\* icm20602_data changes in init_device and at the end of write_raw only.
LEMMA DataSteps == [SettingsNext]_settings_vars => DataStep
  <1> SUFFICES ASSUME [SettingsNext]_settings_vars PROVE DataStep
    OBVIOUS
  <1>1. CASE InitDevice
    BY <1>1 DEF InitDevice, DataStep, ApplyOrder
  <1>2. ASSUME NEW t \in Threads, StoreSetting(t) PROVE DataStep
    BY <1>2 DEF StoreSetting, At, DataStep, hw, binding
  <1>3. CASE UNCHANGED data
    BY <1>3 DEF DataStep
  <1> QED BY <1>1, <1>2, <1>3
          DEF SettingsNext, settings_vars, CallStart, CallStep, ProbeStart, ProbeStep, CheckChip,
              SoftReset, PollReset, ApplyRegister, Register, ProbeFails, ChipResets, StopDevice,
              Unregister, WriteRaw, EnableStart, DisableStart, Claim, WriteRegister, Release,
              Preenable, EnableEnd, Postdisable

\* The driver's data keeps its types.
LEMMA DataTyped == IInv /\ [SettingsNext]_settings_vars => TypeData'
  <1> SUFFICES ASSUME IInv, [SettingsNext]_settings_vars PROVE TypeData'
    OBVIOUS
  <1>1. TypeData /\ TypeBinding /\ TypeCalls /\ CallInv
    BY DEF IInv, SettingsTypeOK
  <1>2. ASSUME UNCHANGED data PROVE data' \in [Kinds -> Nat]
    BY <1>1, <1>2 DEF TypeData
  <1>3. ASSUME data' = [s \in Kinds |-> Mirror(s, config[s])] PROVE data' \in [Kinds -> Nat]
    <2>1. \A s \in Kinds : Mirror(s, config[s]) \in Nat
      BY <1>1, MirrorTyped DEF TypeBinding
    <2> QED BY <1>3, <2>1
  <1>4. ASSUME NEW t \in Threads, pc[t] = "store",
               data' = [data EXCEPT ![req[t][1]] =
                          Mirror(req[t][1], Encode(req[t][1], req[t][2]))]
        PROVE  data' \in [Kinds -> Nat]
    <2>1. req[t][1] \in Kinds /\ req[t][2] \in Int /\ Accepted(req[t][1], req[t][2])
      BY <1>1, <1>4, RequestTyped DEF CallInv
    <2>2. Mirror(req[t][1], Encode(req[t][1], req[t][2])) \in Nat
      BY <2>1, EncodeTyped, MirrorTyped
    <2> QED BY <1>1, <1>4, <2>1, <2>2 DEF TypeData
  <1>5. data' \in [Kinds -> Nat]
    BY <1>2, <1>3, <1>4, DataSteps DEF DataStep
  <1>6. enabled' \in BOOLEAN
    BY <1>1
       DEF TypeData, SettingsNext, settings_vars, CallStart, CallStep, ProbeStart, ProbeStep,
           CheckChip, SoftReset, PollReset, ApplyRegister, InitDevice, Register, ProbeFails,
           ChipResets, StopDevice, Unregister, WriteRaw, EnableStart, DisableStart, Claim,
           WriteRegister, StoreSetting, Release, Preenable, EnableEnd, Postdisable
  <1> QED BY <1>5, <1>6 DEF TypeData

\* The bound on faults.
LEMMA FaultsBounded ==
    SettingsTypeOK /\ [SettingsNext]_settings_vars => faults' \in 0 .. MaxFaults
  <1> SUFFICES ASSUME SettingsTypeOK, [SettingsNext]_settings_vars
               PROVE  UNCHANGED faults \/ Fault
    BY SettingsAssumption DEF SettingsTypeOK, Fault
  <1>1. CASE ProbeFails \/ StopDevice
    BY <1>1 DEF ProbeFails, StopDevice
  <1>2. ASSUME NEW t \in Threads, WriteRegister(t) \/ Preenable(t) \/ Postdisable(t)
        PROVE  UNCHANGED faults \/ Fault
    BY <1>2 DEF WriteRegister, Preenable, Postdisable
  <1>3. CASE UNCHANGED faults
    BY <1>3
  <1> QED BY <1>1, <1>2, <1>3
          DEF SettingsNext, settings_vars, CallStart, CallStep, ProbeStart, ProbeStep, CheckChip,
              SoftReset, PollReset, ApplyRegister, InitDevice, Register, ChipResets, Unregister,
              WriteRaw, EnableStart, DisableStart, Claim, StoreSetting, Release, EnableEnd

\* What a thread in a system call relies on stays true.
LEMMA CallsKept == IInv /\ [SettingsNext]_settings_vars => CallInv'
  <1> SUFFICES ASSUME IInv, [SettingsNext]_settings_vars PROVE CallInv'
    OBVIOUS
  <1>1. /\ TypeHw /\ TypeBinding /\ TypeData /\ TypeCalls
        /\ LockInv /\ CallInv /\ ProbeInv
    BY DEF IInv, SettingsTypeOK
  <1>2. CASE ~\E t \in Threads : CallActions(t)
    <2>1. UNCHANGED calls
      BY <1>2, OutsideCalls
    <2>2. enabled' \in {enabled, FALSE}
      BY <1>1, <1>2
         DEF TypeData, SettingsNext, settings_vars, CallActions, CallStart, ProbeStart, ProbeStep,
             CheckChip, SoftReset, PollReset, ApplyRegister, InitDevice, Register, ProbeFails,
             ChipResets, StopDevice, Unregister
    <2>3. UNCHANGED reg \/ \A t \in Threads : pc[t] = "idle"
      BY <1>1, <2>1, RegSteps DEF RegStep, ProbeInv, SysfsThere, calls, TypeBinding
    <2> QED BY <1>1, <2>1, <2>2, <2>3 DEF CallInv, calls, TypeData
  <1>3. ASSUME NEW t \in Threads, CallActions(t) PROVE CallInv'
    <2> USE SettingsAssumption DEF CallInv, At, TypeCalls
    <2>1. ASSUME NEW r \in Requests, WriteRaw(t, r[1], r[2]) PROVE CallInv'
      <3>1. <<r[1], r[2]>> \in Requests
        OBVIOUS
      <3> QED BY <1>1, <2>1, <3>1 DEF WriteRaw, hw
    <2>2. CASE \E b \in BOOLEAN : EnableStart(t, b)
      BY <1>1, <2>2 DEF EnableStart, hw
    <2>3. CASE DisableStart(t)
      BY <1>1, <2>3 DEF DisableStart, hw
    <2>4. CASE Claim(t)
      BY <1>1, <2>4 DEF Claim, hw
    <2>5. CASE WriteRegister(t)
      <3>1. ~resetting
        BY <1>1, <2>5 DEF WriteRegister, ProbeInv, SysfsThere, TypeBinding
      <3>2. \A u \in Threads : pc[u] # "store"
        BY <1>1, <2>5 DEF WriteRegister, LockInv
      <3>3. pc[t] = "lock" /\ req[t][1] \in Kinds
        BY <1>1, <2>5, RequestTyped DEF WriteRegister
      <3> QED BY <1>1, <2>5, <3>1, <3>2, <3>3 DEF WriteRegister, TypeHw
    <2>6. CASE StoreSetting(t)
      BY <1>1, <2>6 DEF StoreSetting, hw
    <2>7. CASE Release(t)
      BY <1>1, <2>7 DEF Release, hw
    <2>8. CASE Preenable(t)
      BY <1>1, <2>8 DEF Preenable
    <2>9. CASE EnableEnd(t)
      <3>1. \A u \in Threads : u # t => pc[u] \notin Holding
        BY <1>1, <2>9 DEF EnableEnd, LockInv, Holding
      <3> QED BY <1>1, <2>9, <3>1 DEF EnableEnd, Holding, hw
    <2>10. CASE Postdisable(t)
      BY <1>1, <2>10 DEF Postdisable
    <2> QED BY <1>3, <2>1, <2>2, <2>3, <2>4, <2>5, <2>6, <2>7, <2>8, <2>9, <2>10
            DEF CallActions, CallStep
  <1> QED BY <1>2, <1>3

\* Nobody is in a system call of a device that is not registered.
LEMMA NobodyInside ==
    ASSUME TypeCalls, ProbeInv, NEW t \in Threads, CallActions(t)
    PROVE  driver \in {"bound", "stopped"}
  BY DEF ProbeInv, SysfsThere, CallActions, CallStep, WriteRaw, EnableStart, DisableStart, Claim,
         WriteRegister, StoreSetting, Release, Preenable, EnableEnd, Postdisable, At

\* A system call leaves probe alone.
LEMMA CallsLeaveBinding ==
    ASSUME NEW t \in Threads, CallActions(t) PROVE UNCHANGED <<binding, resetting>>
  BY DEF CallActions, CallStep, WriteRaw, EnableStart, DisableStart, Claim, hw, binding,
         WriteRegister, StoreSetting, Release, Preenable, EnableEnd, Postdisable

\* Probe leaves in the chip what it is to leave.
LEMMA ProbeKept == IInv /\ [SettingsNext]_settings_vars => ProbeInv'
  <1> SUFFICES ASSUME IInv, [SettingsNext]_settings_vars PROVE ProbeInv'
    OBVIOUS
  <1>1. TypeHw /\ TypeBinding /\ TypeData /\ TypeCalls /\ ProbeInv
    BY DEF IInv, SettingsTypeOK
  <1>2. ASSUME NEW t \in Threads, CallActions(t) PROVE ProbeInv'
    BY <1>1, <1>2, NobodyInside, CallsLeaveBinding DEF ProbeInv, SysfsThere, binding
  <1>3. CASE ~\E t \in Threads : CallActions(t)
    <2>1. UNCHANGED calls
      BY <1>3, OutsideCalls
    <2> USE SettingsAssumption DEF ProbeInv, SysfsThere, calls, TypeBinding
    <2>2. CASE ProbeStart
      BY <1>1, <2>1, <2>2 DEF ProbeStart, hw
    <2>3. CASE CheckChip
      BY <1>1, <2>1, <2>3 DEF CheckChip, hw
    <2>4. CASE SoftReset
      BY <1>1, <2>1, <2>4 DEF SoftReset
    <2>5. CASE PollReset
      BY <1>1, <2>1, <2>5 DEF PollReset, hw, TypeHw
    <2>6. CASE ApplyRegister
      <3>1. /\ driver = "apply" /\ driver' = "apply" /\ applied' = applied + 1 /\ ~resetting
            /\ applied \in 0 .. 4 /\ UNCHANGED <<config, quiet, resetting, enabled, pc>>
        BY <1>1, <2>6 DEF ApplyRegister, ApplyOrder
      <3>2. CASE applied = 0
        BY <1>1, <3>1, <3>2
      <3>3. CASE applied = 1
        BY <1>1, <2>6, <3>1, <3>3 DEF ApplyRegister, ApplyOrder, Kinds, TypeHw
      <3>4. CASE applied = 2
        BY <1>1, <2>6, <3>1, <3>4 DEF ApplyRegister, ApplyOrder, Kinds, TypeHw
      <3>5. CASE applied = 3
        BY <1>1, <2>6, <3>1, <3>5 DEF ApplyRegister, ApplyOrder, Kinds, TypeHw
      <3>6. CASE applied = 4
        BY <1>1, <2>6, <3>1, <3>6 DEF ApplyRegister, ApplyOrder, Kinds, TypeHw
      <3> QED BY <3>1, <3>2, <3>3, <3>4, <3>5, <3>6
    <2>7. CASE InitDevice
      BY <1>1, <2>1, <2>7 DEF InitDevice, ApplyOrder, Kinds, hw
    <2>8. CASE Register
      BY <1>1, <2>1, <2>8 DEF Register, hw
    <2>9. CASE ProbeFails
      BY <1>1, <2>1, <2>9 DEF ProbeFails, hw
    <2>10. CASE ChipResets
      BY <1>1, <2>1, <2>10 DEF ChipResets, binding
    <2>11. CASE StopDevice
      BY <1>1, <2>1, <2>11 DEF StopDevice
    <2>12. CASE Unregister
      BY <1>1, <2>1, <2>12 DEF Unregister
    <2>13. CASE UNCHANGED settings_vars
      BY <1>1, <2>13 DEF settings_vars, hw, binding
    <2> QED BY <1>3, <2>2, <2>3, <2>4, <2>5, <2>6, <2>7, <2>8, <2>9, <2>10, <2>11, <2>12, <2>13
            DEF SettingsNext, ProbeStep, CallActions, CallStart
  <1> QED BY <1>2, <1>3

\* A system call that neither writes a register nor stores.
LEMMA AgreeUntouched ==
    ASSUME TypeCalls, AgreeInv, NEW t \in Threads, CallActions(t), driver \in {"bound", "stopped"},
           UNCHANGED <<reg, data>>, \A u \in Threads : pc'[u] = "store" <=> pc[u] = "store",
           \A u \in Threads : pc[u] = "store" => req'[u] = req[u]
    PROVE  AgreeInv'
  BY CallsLeaveBinding DEF AgreeInv

\* Registers and icm20602_data stay in agreement.
LEMMA AgreeKept == IInv /\ [SettingsNext]_settings_vars => AgreeInv'
  <1> SUFFICES ASSUME IInv, [SettingsNext]_settings_vars PROVE AgreeInv'
    OBVIOUS
  <1>1. /\ TypeHw /\ TypeBinding /\ TypeData /\ TypeCalls
        /\ LockInv /\ CallInv /\ ProbeInv /\ AgreeInv
    BY DEF IInv, SettingsTypeOK
  <1>2. ASSUME NEW t \in Threads, CallActions(t) PROVE AgreeInv'
    <2>1. driver \in {"bound", "stopped"} /\ UNCHANGED driver /\ ~resetting
      BY <1>1, <1>2, NobodyInside, CallsLeaveBinding DEF binding, ProbeInv
    <2> USE DEF At, TypeCalls
    <2>2. ASSUME NEW r \in Requests, WriteRaw(t, r[1], r[2]) PROVE AgreeInv'
      BY <1>1, <1>2, <2>1, <2>2, AgreeUntouched DEF WriteRaw, hw
    <2>3. CASE (\E b \in BOOLEAN : EnableStart(t, b)) \/ DisableStart(t)
      BY <1>1, <1>2, <2>1, <2>3, AgreeUntouched DEF EnableStart, DisableStart, hw
    <2>4. CASE Claim(t) \/ Release(t)
      BY <1>1, <1>2, <2>1, <2>4, AgreeUntouched DEF Claim, Release, hw
    <2>5. CASE Preenable(t) \/ EnableEnd(t) \/ Postdisable(t)
      BY <1>1, <1>2, <2>1, <2>5, AgreeUntouched DEF Preenable, EnableEnd, Postdisable, hw
    <2>6. CASE WriteRegister(t)
      <3>1. \A u \in Threads : pc[u] # "store"
        BY <1>1, <2>6, SettingsAssumption DEF WriteRegister, LockInv
      <3>2. CASE UNCHANGED reg
        BY <1>1, <2>1, <2>6, <3>1, <3>2 DEF WriteRegister, AgreeInv
      <3>3. CASE ~UNCHANGED reg
        <4>1. /\ reg' = [reg EXCEPT ![req[t][1]] = Encode(req[t][1], req[t][2])]
              /\ pc'[t] = "store" /\ UNCHANGED <<data, req>>
          BY <1>1, <2>6, <3>3 DEF WriteRegister
        <4> QED BY <1>1, <2>1, <3>1, <4>1 DEF AgreeInv, TypeHw
      <3> QED BY <3>2, <3>3
    <2>7. CASE StoreSetting(t)
      <3>1. \A u \in Threads : pc[u] = "store" => u = t
        BY <1>1, <2>7, SettingsAssumption DEF StoreSetting, LockInv
      <3>2. /\ data' = [data EXCEPT ![req[t][1]] =
                          Mirror(req[t][1], Encode(req[t][1], req[t][2]))]
            /\ reg[req[t][1]] = Encode(req[t][1], req[t][2]) /\ UNCHANGED reg
        BY <1>1, <2>7 DEF StoreSetting, CallInv, hw
      <3>3. \A s \in Kinds : s # req[t][1] => data[s] = Mirror(s, reg[s])
        BY <1>1, <2>1, <3>1 DEF AgreeInv
      <3>4. \A s \in Kinds : data'[s] = Mirror(s, reg'[s])
        BY <1>1, <3>2, <3>3 DEF TypeData
      <3> QED BY <3>4 DEF AgreeInv
    <2> QED BY <1>2, <2>2, <2>3, <2>4, <2>5, <2>6, <2>7 DEF CallActions, CallStep
  <1>3. CASE ~\E t \in Threads : CallActions(t)
    <2>1. UNCHANGED <<pc, req>>
      BY <1>3, OutsideCalls DEF calls
    <2>2. CASE InitDevice
      <3>1. \A s \in Kinds : data'[s] = Mirror(s, reg'[s])
        BY <1>1, <2>2 DEF InitDevice, ApplyOrder, ProbeInv, Kinds, hw
      <3> QED BY <3>1 DEF AgreeInv
    <2>3. CASE UNCHANGED <<reg, data>> /\ (driver' = "unbound" \/ UNCHANGED driver)
      BY <1>1, <2>1, <2>3 DEF AgreeInv
    <2>4. CASE ProbeStart \/ CheckChip \/ SoftReset \/ PollReset \/ ApplyRegister
      BY <2>4, <1>1 DEF ProbeStart, CheckChip, SoftReset, PollReset, ApplyRegister, AgreeInv,
                   TypeBinding
    <2>5. CASE Register \/ StopDevice
      BY <1>1, <2>1, <2>5 DEF Register, StopDevice, AgreeInv, hw
    <2>6. CASE ChipResets
      BY <1>1, <2>6 DEF ChipResets, binding, ProbeInv, AgreeInv
    <2> QED BY <1>3, <2>2, <2>3, <2>4, <2>5, <2>6
            DEF SettingsNext, settings_vars, hw, binding, ProbeStep, CallActions, CallStart,
                ProbeFails, Unregister
  <1> QED BY <1>2, <1>3

\* The invariant is inductive.
LEMMA SettingsInductive == IInv /\ [SettingsNext]_settings_vars => IInv'
  <1> SUFFICES ASSUME IInv, [SettingsNext]_settings_vars PROVE IInv'
    OBVIOUS
  <1>1. TypeHw /\ TypeBinding /\ TypeCalls /\ LockInv /\ CallInv /\ RateInv /\ SettingsTypeOK
    BY DEF IInv, SettingsTypeOK
  <1>2. SettingsTypeOK'
    BY <1>1, HwTyped, BindingTyped, DataTyped, CallsTyped, FaultsBounded DEF SettingsTypeOK
  <1>3. LockInv' /\ CallInv' /\ ProbeInv' /\ AgreeInv'
    BY <1>1, LocksKept, CallsKept, ProbeKept, AgreeKept
  <1>4. RateInv'
    BY <1>1, RegSteps, RegTyped, BindingTyped DEF RateInv
  <1> QED BY <1>2, <1>3, <1>4 DEF IInv

-----------------------------------------------------------------------------
(* The theorems.                                                           *)

\* Every behaviour of the settings stays in the invariant.
THEOREM SettingsInvariant == SettingsSpec => []IInv
  BY SettingsInitially, SettingsInductive, PTL DEF SettingsSpec

\* Every variable has its type in every reachable state.
THEOREM SettingsTypeCorrect == SettingsSpec => []SettingsTypeOK
  <1>1. IInv => SettingsTypeOK
    BY DEF IInv
  <1> QED BY <1>1, SettingsInvariant, PTL

\* SettingsAgree: when data->lock is free, write_raw's two copies of each setting
\* are the same.
LEMMA InvariantAgrees == IInv => SettingsAgree
  <1> SUFFICES ASSUME IInv, Bound, lock = "free"
               PROVE  \A s \in Kinds : data[s] = Mirror(s, reg[s])
    BY DEF SettingsAgree
  <1>1. \A t \in Threads : pc[t] # "store"
    BY SettingsAssumption DEF IInv, LockInv
  <1> QED BY <1>1 DEF IInv, AgreeInv, Bound

\* No write that fails, races or is refused leaves chip and driver apart.
THEOREM RegistersAgree == SettingsSpec => []SettingsAgree
  BY InvariantAgrees, SettingsInvariant, PTL

\* soft_reset, apply_settings and init_device leave nothing of an earlier binding.
THEOREM ProbeErases == SettingsSpec => []ProbeErasesThePast
  <1>1. IInv => ProbeErasesThePast
    <2> SUFFICES ASSUME IInv, driver = "register" PROVE quiet /\ ~resetting /\ reg = config
      BY DEF ProbeErasesThePast
    <2>1. quiet /\ ~resetting /\ \A s \in Kinds : reg[s] = config[s]
      BY DEF IInv, ProbeInv
    <2>2. reg \in [Kinds -> Nat] /\ config \in [Kinds -> Nat]
      BY DEF IInv, SettingsTypeOK, TypeHw, TypeBinding
    <2> QED BY <2>1, <2>2
  <1> QED BY <1>1, SettingsInvariant, PTL

\* While a buffer is on, or coming on, write_raw changes neither chip nor driver.
THEOREM SessionPeriodFixed == SettingsSpec => PeriodFixed
  <1>1. IInv /\ IInv' /\ [SettingsNext]_settings_vars
        => [Sampling /\ Sampling' => reg' = reg /\ data' = data]_settings_vars
    <2> SUFFICES ASSUME IInv, IInv', SettingsNext \/ UNCHANGED settings_vars, Sampling, Sampling'
                 PROVE  reg' = reg /\ data' = data
      OBVIOUS
    <2>1. Sampling => SysfsThere /\ ~resetting
      BY DEF IInv, ProbeInv, Sampling, SysfsThere, SettingsTypeOK, TypeBinding
    <2>2. \A t \in Threads : Sampling => pc[t] \notin {"lock", "store"}
      BY SettingsAssumption DEF IInv, LockInv, CallInv, Sampling, Holding
    <2>3. reg' = reg
      BY <2>1, <2>2, RegSteps DEF RegStep, SysfsThere, IInv, SettingsTypeOK
    <2>4. data' = data
      BY <2>1, <2>2, DataSteps DEF DataStep, SysfsThere
    <2> QED BY <2>3, <2>4
  <1> QED BY <1>1, SettingsInvariant, PTL DEF SettingsSpec, PeriodFixed

\* A scale's table is read back as it was written.
LEMMA ScalesReadBack ==
    \A i \in 0 .. 3 :
       /\ (CHOOSE j \in 0 .. 3 : gyro_scale_table[j] = gyro_scale_table[i]) = i
       /\ (CHOOSE j \in 0 .. 3 : accel_scale_table[j] = accel_scale_table[i]) = i
  <1>1. \A i, j \in 0 .. 3 : gyro_scale_table[j] = gyro_scale_table[i] => j = i
    BY DEF gyro_scale_table
  <1>2. \A i, j \in 0 .. 3 : accel_scale_table[j] = accel_scale_table[i] => j = i
    BY DEF accel_scale_table
  <1> QED BY <1>1, <1>2

\* What read_avail lists is taken, and the chip runs at exactly the listed rates.
LEMMA AvailableIsMet ==
    ASSUME NEW s \in Kinds, NEW v \in Available(s)
    PROVE  Accepted(s, v) /\ (s = "sampling_frequency" => (Encode(s, v) + 1) * v = 1000)
  <1>1. CASE s = "gyro_scale"
    BY <1>1 DEF Available, Accepted, gyro_scale_table
  <1>2. CASE s = "accel_scale"
    BY <1>2 DEF Available, Accepted, accel_scale_table
  <1>3. CASE s = "sampling_frequency"
    <2>1. v \in {4, 8, 10, 20, 25, 50, 100, 125, 200, 250, 500, 1000}
      BY <1>3 DEF Available
    <2>2. ValidHz(v) /\ (odr_to_div(v) + 1) * v = 1000
      BY <2>1 DEF ValidHz, odr_to_div
    <2> QED BY <1>3, <2>2 DEF Accepted, Encode
  <1> QED BY <1>1, <1>2, <1>3 DEF Kinds

\* What read_raw shows can be written back, and changes nothing.
LEMMA ShownReadBack ==
    ASSUME IInv, NEW s \in Kinds, data[s] = Mirror(s, reg[s])
    PROVE  Accepted(s, Shown(s)) /\ Encode(s, Shown(s)) = reg[s]
  <1>1. reg[s] \in RegValues(s)
    BY DEF IInv, SettingsTypeOK, TypeHw
  <1>2. CASE s = "sampling_frequency"
    <2>1. Shown(s) = real_hz(reg[s]) /\ SettledDiv(reg[s])
      BY <1>2 DEF Shown, Mirror, IInv, RateInv
    <2> QED BY <1>2, <2>1 DEF Accepted, Encode, SettledDiv
  <1>3. CASE s # "sampling_frequency"
    <2>1. data[s] \in 0 .. 3 /\ reg[s] = RegVal(data[s])
      BY <1>1, <1>3 DEF RegValues, Mirror, RegVal
    <2>2. CASE s = "gyro_scale"
      <3>1. Shown(s) = gyro_scale_table[data[s]]
        BY <2>2 DEF Shown
      <3>2. (CHOOSE i \in 0 .. 3 : gyro_scale_table[i] = gyro_scale_table[data[s]]) = data[s]
        BY <2>1, ScalesReadBack
      <3>3. Encode(s, Shown(s)) = RegVal(data[s])
        BY <2>2, <3>1, <3>2 DEF Encode
      <3> QED BY <2>1, <2>2, <3>1, <3>3 DEF Accepted
    <2>3. CASE s = "accel_scale"
      <3>1. Shown(s) = accel_scale_table[data[s]]
        BY <2>3 DEF Shown
      <3>2. (CHOOSE i \in 0 .. 3 : accel_scale_table[i] = accel_scale_table[data[s]]) = data[s]
        BY <2>1, ScalesReadBack
      <3>3. Encode(s, Shown(s)) = RegVal(data[s])
        BY <2>3, <3>1, <3>2 DEF Encode
      <3> QED BY <2>1, <2>3, <3>1, <3>3 DEF Accepted
    <2> QED BY <1>3, <2>2, <2>3 DEF Kinds
  <1> QED BY <1>2, <1>3

\* No chip slower than asked, no listed rate that is not met, no shown value that
\* would change anything if it were written back: odr_to_div and its inverse.
THEOREM RateContractHolds == SettingsSpec => []RateContract
  <1>1. IInv => RateContract
    <2> SUFFICES ASSUME IInv PROVE RateContract
      OBVIOUS
    <2>1. ASSUME NEW r \in Requests, r[1] = "sampling_frequency", Accepted(r[1], r[2])
          PROVE  real_hz(Encode(r[1], r[2])) >= r[2]
      <3>1. r[2] \in Int
        BY SettingsAssumption
      <3>2. ValidHz(r[2]) /\ Encode(r[1], r[2]) = odr_to_div(r[2])
        BY <2>1 DEF Accepted, Encode
      <3> QED BY <3>1, <3>2, RateOfDivider
    <2>2. ASSUME Bound, lock = "free", NEW s \in Kinds
          PROVE  Accepted(s, Shown(s)) /\ Encode(s, Shown(s)) = reg[s]
      <3>1. data[s] = Mirror(s, reg[s])
        BY <2>2, InvariantAgrees DEF SettingsAgree
      <3> QED BY <3>1, ShownReadBack
    <2> QED BY <2>1, <2>2, AvailableIsMet DEF RateContract
  <1> QED BY <1>1, SettingsInvariant, PTL
=============================================================================
