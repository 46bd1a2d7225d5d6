--------------------------- MODULE MCCaptureSession ---------------------------
(***************************************************************************)
(* CaptureSession for TLC: command lines that differ in every attribute    *)
(* (one wants more than the device can do, one is refused) and a device    *)
(* tree with two values that the driver understands and one that it does   *)
(* not.                                                                    *)
(***************************************************************************)
EXTENDS CaptureSession

\* Options that are not given, overridden one by one below.
Bare == [trig |-> "none", hz |-> NotGiven, fifo_watermark |-> NotGiven,
         length |-> NotGiven, watermark |-> NotGiven]

Defaults == [Bare EXCEPT !.trig = "wm"]
Small == [trig |-> "drdy", hz |-> 501, fifo_watermark |-> 100, length |-> 2, watermark |-> 2]
TooLittle == [Bare EXCEPT !.trig = "wm", !.length = 8]

MCOptions == {Defaults, Small, TooLittle, [Bare EXCEPT !.hz = 0]}

MCOthers ==
    {<<"sampling_frequency", 100>>, <<"sampling_frequency", 2000>>,
     <<"accel_scale", 598>>, <<"gyro_scale", 266>>,
     <<"enable", 0>>, <<"enable", 1>>,
     <<"scan", "part">>, <<"trig", "drdy">>, <<"fifo_watermark", 1>>,
     <<"length", 1>>, <<"watermark", 1>>}

MCRequests ==
    {<<"sampling_frequency", o>> : o \in {100, 501, 1000, 2000}}
      \cup {<<"accel_scale", 598>>, <<"gyro_scale", 266>>}

MCDeviceTrees == {[sampling_frequency |-> 200, gyro_scale |-> 500, accel_scale |-> 3]}
=============================================================================
