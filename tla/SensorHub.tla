------------------------------ MODULE SensorHub ------------------------------
(***************************************************************************)
(* The three motion sensors: accelerometer (acc_ism330dlc.c), gyroscope    *)
(* (gyro_ism330dlc.c) and magnetometer (mag.c), over the helpers of        *)
(* iio_utils.c and the device lookup of thread_def.c.  Each file keeps the *)
(* number of its IIO device, an array of channels and a lock for readers;  *)
(* init and deinit go through the kernel's files one write at a time and   *)
(* stop at the first that fails.  What the kernel was told survives the    *)
(* program; what the program knows does not.                               *)
(***************************************************************************)
EXTENDS Integers

CONSTANTS
  Threads,     \* the threads that call the library
  Ops,         \* what each of them calls, for which sensor
  DeviceZero,  \* which device is iio:device0: a sensor, or "other"
  MaxFaults    \* bound on the failures of a behaviour

Sensors == {"acc", "gyro", "mag"}
Calls == (Sensors \X {"init", "deinit", "read"})
           \cup {<<"gyro", "gyro_disable">>, <<"gyro", "gyro_enable">>}

ASSUME SensorAssumption ==
  /\ Ops \in [Threads -> SUBSET Calls]
  /\ DeviceZero \in Sensors \cup {"other"}
  /\ MaxFaults \in Nat

VARIABLES
  axes,      \* the three scan elements of each device: "none", "some" or "all" are on
  buffer,    \* its buffer is enabled
  number,    \* acc_event_no, gyro_event_no, mag_event_no
  channels,  \* "empty" (num_channels is 0), "live", or "freed" (NULL, but num_channels is not)
  sized,     \* scan_size, one variable for all three files, is not 0
  accOk,     \* acc_init_success
  lock,      \* acc_lock, gyro_lock, mag_lock
  pc, on,    \* where each thread is, and the sensor it calls for
  nested,    \* the thread is in the acc_init() of acc_deinit()
  said,      \* what the last call for a sensor returned (history)
  clean,     \* nothing has failed in the thread's call (history)
  orderly,   \* calls for one sensor have not overlapped, but for reads (history)
  faults     \* failures so far (bound)

kernelVars == <<axes, buffer>>
procVars == <<number, channels, sized, accOk, lock>>
callVars == <<on, nested>>
histVars == <<said, clean, orderly, faults>>
vars == <<kernelVars, procVars, pc, callVars, histVars>>

ReadPcs == {"rWait", "rOpen", "walk"}
InitPcs == {"look", "axes", "build", "enable", "regs", "failed"}
DeinitPcs == {"dStart", "dBuffer", "dAxes", "dAxesErr", "dRegs"}
GyroPcs == {"offLook", "off", "offAxes", "onLook", "onAxes", "onBuffer"}

TypeOK ==
  /\ axes \in [Sensors -> {"none", "some", "all"}] /\ buffer \in [Sensors -> BOOLEAN]
  /\ number \in [Sensors -> {"unset", "own", "wrong", "zero"}]
  /\ channels \in [Sensors -> {"empty", "live", "freed"}]
  /\ sized \in BOOLEAN /\ accOk \in BOOLEAN /\ lock \in [Sensors -> {0, 1}]
  /\ pc \in [Threads -> {"idle"} \cup ReadPcs \cup InitPcs \cup DeinitPcs \cup GyroPcs]
  /\ on \in [Threads -> Sensors] /\ nested \in [Threads -> BOOLEAN]
  /\ said \in [Sensors -> {"nothing", "up", "down", "gaveUp"}]
  /\ clean \in [Threads -> BOOLEAN] /\ orderly \in BOOLEAN /\ faults \in 0..MaxFaults

\* Mutant of FirstNumber: the magnetometer's 0 for all three.
FirstNumberZero == [s \in Sensors |-> "zero"]

\* mag_event_no starts at 0, the other two at -1.
FirstNumber == [s \in Sensors |-> IF s = "mag" THEN "zero" ELSE "unset"]

Init ==
  /\ axes = [s \in Sensors |-> "none"] /\ buffer = [s \in Sensors |-> FALSE]
  /\ number = FirstNumber /\ channels = [s \in Sensors |-> "empty"]
  /\ sized = FALSE /\ accOk = FALSE /\ lock = [s \in Sensors |-> 1]
  /\ pc = [t \in Threads |-> "idle"] /\ on = [t \in Threads |-> "acc"]
  /\ nested = [t \in Threads |-> FALSE] /\ clean = [t \in Threads |-> TRUE]
  /\ said = [s \in Sensors |-> "nothing"] /\ orderly = TRUE /\ faults = 0

-----------------------------------------------------------------------------
(* The kernel's side, and the ways a call ends.                            *)

\* The device a number leads to.
Dev(s) == CASE number[s] = "own" -> s
            [] number[s] = "zero" -> DeviceZero
            [] OTHER -> "nowhere"

\* Another sensor's device has no scan elements by this sensor's names, and the
\* kernel refuses to change one while the buffer is enabled.
AxesWritable(s) == Dev(s) = s /\ ~buffer[s]

\* What is left of the axes when the first, second or third write fails.
Partly(s) == IF AxesWritable(s) THEN {axes[s], "some"} ELSE {axes[s]}

Goto(t, l) == pc' = [pc EXCEPT ![t] = l]

Fine == UNCHANGED <<clean, faults>>
Fails == faults < MaxFaults /\ faults' = faults + 1
Fault(t) == Fails /\ clean' = [clean EXCEPT ![t] = FALSE]

SetAxes(s, a) == axes' = [axes EXCEPT ![s] = a]
SetBuffer(d, b) == buffer' = [buffer EXCEPT ![d] = b]

\* The clean-up of the three deinit functions: num_channels stays.
Freed(s) == channels' = [channels EXCEPT ![s] = IF @ = "live" THEN "freed" ELSE @]

\* on[t] does not matter between calls.
Idle(t) == Goto(t, "idle") /\ on' = [on EXCEPT ![t] = "acc"]

Answer(t, word) ==
  /\ Idle(t)
  /\ said' = [said EXCEPT ![on[t]] = word]
  /\ clean' = [clean EXCEPT ![t] = TRUE]

-----------------------------------------------------------------------------
(* acc_init(), gyro_init(), mag_init().                                    *)

\* get_gpio_event() returns the length of a path when it finds no device, and of the
\* three only mag_init() looks again next time.
AfterLook == [look |-> "axes", offLook |-> "off", onLook |-> "onAxes"]
Look(t) ==
  LET s == on[t] IN
  /\ pc[t] \in DOMAIN AfterLook
  /\ \/ /\ s = "mag" \/ number[s] = "unset"
        /\ \/ number' = [number EXCEPT ![s] = "own"] /\ Fine
           \/ number' = [number EXCEPT ![s] = "wrong"] /\ Fault(t)
     \/ s # "mag" /\ number[s] # "unset" /\ UNCHANGED number /\ Fine
  /\ accOk' = (accOk /\ s # "acc")
  /\ Goto(t, AfterLook[pc[t]])
  /\ UNCHANGED <<kernelVars, channels, sized, lock, callVars, said, orderly>>

\* The axes that are off are switched on.
InitAxes(t) ==
  LET s == on[t] IN
  /\ pc[t] = "axes"
  /\ \/ Dev(s) = s /\ (axes[s] = "all" \/ AxesWritable(s))
          /\ SetAxes(s, "all") /\ Goto(t, "build") /\ Fine
     \/ ~(Dev(s) = s /\ (axes[s] = "all" \/ AxesWritable(s)))
          /\ Goto(t, "failed") /\ UNCHANGED axes /\ Fine
     \/ \E a \in Partly(s) : SetAxes(s, a) /\ Goto(t, "failed") /\ Fault(t)
  /\ UNCHANGED <<buffer, procVars, callVars, said, orderly>>

\* What build_channel_array() leaves when it fails.  Its first pass counts the axes
\* in num_channels itself and leaves the array as it was; a malloc() that fails
\* leaves the count without an array; the second pass frees the array and the count.
Unbuilt(s) == {"empty", "freed"} \cup (IF channels[s] = "live" THEN {"live"} ELSE {})

\* Mutant of InitBuild: channels that are there are not built again.
InitBuildOnce(t) ==
  LET s == on[t] IN
  /\ pc[t] = "build"
  /\ \/ channels' = [channels EXCEPT ![s] = IF @ = "empty" THEN "live" ELSE @]
          /\ sized' = TRUE /\ Goto(t, "enable") /\ Fine
     \/ \E c \in Unbuilt(s) : channels' = [channels EXCEPT ![s] = c]
          /\ UNCHANGED sized /\ Goto(t, "failed") /\ Fault(t)
  /\ UNCHANGED <<kernelVars, number, accOk, lock, callVars, said, orderly>>

\* build_channel_array() and the size of a scan: three axes of two bytes each.
InitBuild(t) ==
  LET s == on[t] IN
  /\ pc[t] = "build"
  /\ \/ channels' = [channels EXCEPT ![s] = "live"]
          /\ sized' = TRUE /\ Goto(t, "enable") /\ Fine
     \/ \E c \in Unbuilt(s) : channels' = [channels EXCEPT ![s] = c]
          /\ UNCHANGED sized /\ Goto(t, "failed") /\ Fault(t)
  /\ UNCHANGED <<kernelVars, number, accOk, lock, callVars, said, orderly>>

\* mag_init() takes a buffer it cannot read for one that is enabled.
InitEnable(t) ==
  LET s == on[t] IN
  /\ pc[t] = "enable"
  /\ \/ SetBuffer(s, TRUE) /\ Goto(t, "regs") /\ Fine
     \/ s = "mag" /\ UNCHANGED buffer /\ Goto(t, "regs") /\ Fault(t)
     \/ UNCHANGED buffer /\ Goto(t, "failed") /\ Fault(t)
  /\ UNCHANGED <<axes, procVars, callVars, said, orderly>>

\* The registers of the chip; of their many writes acc_init() reports only the last
\* exchange, gyro_init() and mag_init() one.  acc_deinit() goes on from here.
InitRegs(t) ==
  LET s == on[t] IN
  /\ pc[t] = "regs"
  /\ \/ /\ accOk' = (accOk \/ s = "acc")
        /\ IF nested[t]
             THEN Goto(t, "dBuffer") /\ nested' = [nested EXCEPT ![t] = FALSE]
                    /\ UNCHANGED <<on, said, clean>>
             ELSE Answer(t, "up") /\ UNCHANGED nested
        /\ UNCHANGED faults
     \/ Goto(t, "failed") /\ Fault(t) /\ UNCHANGED <<accOk, callVars, said>>
  /\ UNCHANGED <<kernelVars, number, channels, sized, lock, orderly>>

\* An init that failed; one within acc_deinit() makes that free the channels and
\* return 0 all the same.
InitFailed(t) ==
  LET s == on[t] IN
  /\ pc[t] = "failed"
  /\ IF nested[t] THEN Freed(s) /\ Answer(t, "gaveUp")
                  ELSE Answer(t, "nothing") /\ UNCHANGED channels
  /\ nested' = [nested EXCEPT ![t] = FALSE]
  /\ UNCHANGED <<kernelVars, number, sized, accOk, lock, orderly, faults>>

-----------------------------------------------------------------------------
(* acc_deinit(), gyro_deinit(), mag_deinit().                              *)

\* Mutant of DeinitEnds: the clean-up overwrites the result.
DeinitEndsWell(t, word) == Freed(on[t]) /\ Answer(t, "down")

\* The end of each of the three: the channels are freed whatever happened.
DeinitEnds(t, word) == Freed(on[t]) /\ Answer(t, word)

DeinitStart(t) ==
  LET s == on[t] IN
  /\ pc[t] = "dStart"
  /\ Goto(t, IF s = "acc" /\ ~accOk THEN "look" ELSE "dBuffer")
  /\ nested' = [nested EXCEPT ![t] = s = "acc" /\ ~accOk]
  /\ UNCHANGED <<kernelVars, procVars, on, histVars>>

\* acc_deinit() and gyro_deinit(): a number that leads nowhere cannot be written to.
DeinitBuffer(t) ==
  LET s == on[t] d == Dev(s) IN
  /\ pc[t] = "dBuffer" /\ s # "mag"
  /\ \/ d # "nowhere" /\ SetBuffer(d, FALSE) /\ Goto(t, "dAxes")
          /\ Fine /\ UNCHANGED <<on, channels, said>>
     \/ d = "nowhere" /\ UNCHANGED <<buffer, faults>> /\ DeinitEnds(t, "nothing")
     \/ Fails
          /\ UNCHANGED buffer /\ DeinitEnds(t, "nothing")
  /\ UNCHANGED <<axes, number, sized, accOk, lock, nested, orderly>>

\* mag_deinit(): the chip is put to idle first; if that fails the buffer stays on,
\* the axes are tried nevertheless and the failure is returned in the end.
MagDeinitBuffer(t) ==
  LET d == Dev("mag") IN
  /\ pc[t] = "dBuffer" /\ on[t] = "mag"
  /\ \/ d \in Sensors /\ buffer[d] /\ SetBuffer(d, FALSE) /\ Goto(t, "dAxes")
          /\ Fine /\ UNCHANGED <<on, channels, said>>
     \/ (d \in Sensors => ~buffer[d]) /\ Goto(t, "dAxes")
          /\ Fine /\ UNCHANGED <<on, buffer, channels, said>>
     \/ d \in Sensors /\ buffer[d] /\ Goto(t, "dAxesErr")
          /\ Fault(t) /\ UNCHANGED <<on, buffer, channels, said>>
     \/ d \in Sensors /\ buffer[d] /\ Goto(t, "dAxes")   \* the buffer was not readable
          /\ Fault(t) /\ UNCHANGED <<on, buffer, channels, said>>
     \/ d \in Sensors /\ buffer[d] /\ Fails
          /\ UNCHANGED buffer /\ DeinitEnds(t, "nothing")
  /\ UNCHANGED <<axes, number, sized, accOk, lock, nested, orderly>>

\* Only mag_deinit() leaves alone an axis that reads 0.
AxesCanGo(s) == Dev(s) = s /\ (AxesWritable(s) \/ (s = "mag" /\ axes[s] = "none"))

DeinitAxes(t) ==
  LET s == on[t] IN
  /\ pc[t] \in {"dAxes", "dAxesErr"}
  /\ \/ /\ AxesCanGo(s) /\ SetAxes(s, "none") /\ UNCHANGED faults
        /\ \/ s = "gyro" /\ Goto(t, "dRegs") /\ UNCHANGED <<on, channels, said, clean, number, accOk>>
           \/ /\ s = "acc" /\ DeinitEnds(t, "down") /\ accOk' = FALSE
              /\ number' = [number EXCEPT !["acc"] = "unset"]
           \/ /\ s = "mag" /\ DeinitEnds(t, IF pc[t] = "dAxes" THEN "down" ELSE "nothing")
              /\ UNCHANGED <<number, accOk>>
     \/ ~AxesCanGo(s) /\ DeinitEnds(t, "nothing") /\ UNCHANGED <<axes, number, accOk, faults>>
     \/ Fails
          /\ \E a \in Partly(s) : SetAxes(s, a)
          /\ DeinitEnds(t, "nothing") /\ UNCHANGED <<number, accOk>>
  /\ UNCHANGED <<buffer, sized, lock, nested, orderly>>

\* gyro_deinit(): a register that cannot be written ends it before the number is
\* reset, with `ret` set and `error`, which it returns, still 0.
GyroDeinitRegs(t) ==
  /\ pc[t] = "dRegs"
  /\ \/ number' = [number EXCEPT !["gyro"] = "unset"] /\ UNCHANGED faults
     \/ Fails /\ UNCHANGED number
  /\ DeinitEnds(t, "down")
  /\ UNCHANGED <<kernelVars, sized, accOk, lock, nested, orderly>>

-----------------------------------------------------------------------------
(* gyro_disable() and gyro_enable(): the kernel's side only.               *)

\* Their results do not matter here.
Leave(t) == Answer(t, said["gyro"])

GyroOff(t) ==
  LET d == Dev("gyro") IN
  /\ pc[t] = "off"
  /\ \/ d # "nowhere" /\ SetBuffer(d, FALSE) /\ Goto(t, "offAxes") /\ Fine /\ UNCHANGED <<on, said>>
     \/ d = "nowhere" /\ Leave(t) /\ UNCHANGED <<buffer, faults>>
     \/ Fails /\ Leave(t) /\ UNCHANGED buffer
  /\ UNCHANGED <<axes, procVars, nested, orderly>>

\* Mutant of GyroAxes: a failed axis does not keep the buffer from being enabled.
GyroAxesGoesOn(t) ==
  /\ pc[t] \in {"offAxes", "onAxes"}
  /\ \/ AxesWritable("gyro") /\ SetAxes("gyro", IF pc[t] = "onAxes" THEN "all" ELSE "none") /\ Fine
     \/ ~AxesWritable("gyro") /\ UNCHANGED axes /\ Fine
     \/ Fault(t) /\ \E a \in Partly("gyro") : SetAxes("gyro", a)
  /\ Goto(t, IF pc[t] = "onAxes" THEN "onBuffer" ELSE "idle") /\ UNCHANGED <<on, said>>
  /\ UNCHANGED <<buffer, procVars, nested, orderly>>

\* The axes go off after the buffer and on before it; an enabled buffer makes
\* gyro_enable() fail at the first of them.
GyroAxes(t) ==
  /\ pc[t] \in {"offAxes", "onAxes"}
  /\ \/ /\ AxesWritable("gyro") /\ UNCHANGED faults
        /\ \/ pc[t] = "offAxes" /\ SetAxes("gyro", "none") /\ Leave(t)
           \/ pc[t] = "onAxes" /\ SetAxes("gyro", "all") /\ Goto(t, "onBuffer")
                /\ UNCHANGED <<on, said, clean>>
     \/ ~AxesWritable("gyro") /\ Leave(t) /\ UNCHANGED <<axes, faults>>
     \/ Fails /\ Leave(t) /\ \E a \in Partly("gyro") : SetAxes("gyro", a)
  /\ UNCHANGED <<buffer, procVars, nested, orderly>>

GyroOnBuffer(t) ==
  /\ pc[t] = "onBuffer"
  /\ \/ SetBuffer("gyro", TRUE) /\ UNCHANGED faults
     \/ Fails /\ UNCHANGED buffer
  /\ Leave(t)
  /\ UNCHANGED <<axes, procVars, nested, orderly>>

-----------------------------------------------------------------------------
(* accelerometer_read(), gyroscope_read(), magnetometer_read().            *)

\* Mutant of ReadWait: the semaphore is not taken.
ReadWaitDropped(t) ==
  /\ pc[t] = "rWait" /\ Goto(t, "rOpen")
  /\ UNCHANGED <<kernelVars, procVars, callVars, histVars>>

ReadWait(t) ==
  LET s == on[t] IN
  /\ pc[t] = "rWait" /\ lock[s] > 0
  /\ lock' = [lock EXCEPT ![s] = @ - 1]
  /\ Goto(t, "rOpen")
  /\ UNCHANGED <<kernelVars, number, channels, sized, accOk, callVars, histVars>>

\* The device opens and select() finds scans, which needs an enabled buffer.
ReadOpen(t) ==
  LET s == on[t] IN
  /\ pc[t] = "rOpen" /\ Dev(s) \in Sensors /\ buffer[Dev(s)]
  /\ Goto(t, "walk")
  /\ UNCHANGED <<kernelVars, procVars, callVars, histVars>>

\* The end of a read.
ReadEnd(t) ==
  /\ lock' = [lock EXCEPT ![on[t]] = @ + 1]
  /\ Idle(t)
  /\ UNCHANGED <<kernelVars, number, channels, sized, accOk, nested, histVars>>

\* No memory, no device, or no data in 20 ms.
ReadNothing(t) == pc[t] = "rOpen" /\ ReadEnd(t)

\* process_scan_acc() and the like go through the channels for each scan.
ReadWalk(t) == pc[t] = "walk" /\ ReadEnd(t)

-----------------------------------------------------------------------------
(* The threads and the program.                                            *)

Entry == [init |-> "look", deinit |-> "dStart", read |-> "rWait",
          gyro_disable |-> "offLook", gyro_enable |-> "onLook"]

\* The calls after which what an init or deinit returned before still counts.
Keeping(s) == {"read"} \cup IF said[s] = "up" THEN {"gyro_disable", "gyro_enable"} ELSE {}

\* Nothing is called any more once calls have overlapped on a sensor (bound).
Call(t) ==
  /\ pc[t] = "idle" /\ orderly
  /\ \E s \in Sensors, op \in DOMAIN Entry :
       /\ <<s, op>> \in Ops[t]
       /\ on' = [on EXCEPT ![t] = s]
       /\ Goto(t, Entry[op])
       /\ said' = [said EXCEPT ![s] = IF op \in Keeping(s) THEN @ ELSE "nothing"]
       /\ orderly' = \A u \in Threads : on[u] = s /\ pc[u] # "idle" =>
                                          op = "read" /\ pc[u] \in ReadPcs
  /\ UNCHANGED <<kernelVars, procVars, nested, clean, faults>>

Step(t) ==
  \/ Look(t) \/ InitAxes(t) \/ InitBuild(t) \/ InitEnable(t) \/ InitRegs(t) \/ InitFailed(t)
  \/ DeinitStart(t) \/ DeinitBuffer(t) \/ MagDeinitBuffer(t) \/ DeinitAxes(t) \/ GyroDeinitRegs(t)
  \/ GyroOff(t) \/ GyroAxes(t) \/ GyroOnBuffer(t)
  \/ ReadWait(t) \/ ReadOpen(t) \/ ReadNothing(t) \/ ReadWalk(t)

\* The program ends, at any point, and is started again: it knows nothing.
Restart ==
  /\ number' = FirstNumber /\ channels' = [s \in Sensors |-> "empty"]
  /\ sized' = FALSE /\ accOk' = FALSE /\ lock' = [s \in Sensors |-> 1]
  /\ pc' = [t \in Threads |-> "idle"] /\ on' = [t \in Threads |-> "acc"]
  /\ nested' = [t \in Threads |-> FALSE] /\ clean' = [t \in Threads |-> TRUE]
  /\ said' = [s \in Sensors |-> "nothing"]
  /\ UNCHANGED <<kernelVars, orderly, faults>>

Next == (\E t \in Threads : Call(t) \/ Step(t)) \/ Restart

Spec == Init /\ [][Next]_vars

-----------------------------------------------------------------------------
(* Safety.                                                                 *)

\* A read that finds scans after an init that returned 0 walks channels that exist,
\* with a scan size that is not 0, and alone (the values pass through one static
\* structure): whatever failed before, whatever other sensors do at the time
\* (acc_ism330dlc.c 388-490, gyro_ism330dlc.c 458-553, mag.c 310-402).
ReadSafe ==
  \A t \in Threads : orderly /\ pc[t] = "walk" /\ said[on[t]] = "up" =>
    /\ channels[on[t]] = "live" /\ sized
    /\ \A u \in Threads \ {t} : ~(pc[u] = "walk" /\ on[u] = on[t])

\* A call changes nothing on the device of another sensor; the exception is the
\* magnetometer until mag_init() has replaced the 0 with which mag_event_no starts
\* (mag.c 29, 219-240).
OwnDevice ==
  [][\A t \in Threads, s \in Sensors :
       pc'[t] # pc[t] /\ s # on[t] /\ ~(on[t] = "mag" /\ number["mag"] = "zero") =>
         axes'[s] = axes[s] /\ buffer'[s] = buffer[s]]_vars

\* A deinit that returned 0 has left the kernel's side off: after any failures,
\* restarts and partial calls before it, and although mag_deinit() goes on with the
\* axes when the chip did not go idle (the kernel then refuses them).  "gaveUp" is
\* the 0 of acc_deinit() after an acc_init() of its own has failed.
DeinitHonest ==
  orderly => \A s \in Sensors : said[s] = "down" => axes[s] = "none" /\ ~buffer[s]

\* No history of failures, restarts and half-done calls leaves a sensor in a state
\* from which an init that meets no failure of its own fails, unless a lookup has
\* left a wrong number behind (acc 40-261, gyro 43-199, mag 62-210).
InitRecovers ==
  \A t \in Threads : orderly /\ pc[t] = "failed" /\ clean[t] =>
    on[t] # "mag" /\ number[on[t]] = "wrong"
=============================================================================
