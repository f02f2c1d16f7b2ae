--------------------------- MODULE BatteryMonitor ---------------------------
(***************************************************************************)
(* The battery monitor and the ways the device goes down.                  *)
(* battery_control_monitoring() (battery.c) reads the board temperature    *)
(* through acc_temp_read() (acc_ism330dlc.c), one byte at a time, and      *)
(* switches the charger and the battery.  Another thread or program calls  *)
(* MCU_sleep_mode() (i2c_framing.c), push_device_to_sleep() or             *)
(* restart_device() (init.c), which switch them too, without a lock.       *)
(* Two helpers return 0 also when nothing was written: i2c_write()         *)
(* (init.c), which does not look at what i2cset exits with, and            *)
(* set_gpio_value() (gpio.c), whose write takes place in an fclose() it    *)
(* does not test.  Only the transfer to the MCU is tested.                 *)
(* Temperatures are in half degrees Celsius.                               *)
(***************************************************************************)
EXTENDS Integers

CONSTANTS
  Temps,      \* the temperatures that occur, in half degrees
  WakeTemps   \* those found after a pause or on waking up

Deg(d) == 2 * d

ASSUME BatteryAssumption ==
  /\ Temps \subseteq Int /\ WakeTemps \subseteq Temps
  /\ \A t \in Temps : Deg(-100) < t /\ t < Deg(150)   \* 16 bits hold the reading

VARIABLES
  temp,       \* the temperature
  pc,         \* the monitor: "high", "low", "charge", "connect", "pause", "ended"
  high,       \* the high byte of the sensor, once read
  reading,    \* the temperature acc_temp_read() returned, in half degrees
  sampled,    \* the temperature when the high byte was read (history)
  awake,      \* the device has not been suspended since (history)
  charging,   \* BATTERY_CE_GPIO is 0: the charger is on
  writer,     \* who switched the charger last, "monitor" or "other"; or "lost" if
              \* the last to do so was told it had and had not (history)
  connected,  \* the battery is not in shipment mode
  cutter,     \* who switched the battery last, likewise
  sleeper,    \* where the other thread is, or "suspended" or "off" for the device
  mode,       \* what it calls: "none" when it is awake
  mcu,        \* the sleep request the MCU holds: "none", "sleep" or "dpdm"
  accLine,    \* what has been done to give the MCU the accelerometer's line
  missed      \* what this call was told it had done to it and had not (history)

monitorVars == <<pc, high, reading, sampled, connected, cutter>>
sleepVars == <<sleeper, mode, mcu, accLine, missed>>
vars == <<temp, monitorVars, awake, charging, writer, sleepVars>>

Modes == {"push", "sleep", "dpdm", "dpdmAcc", "restart"}
\* The interrupt is taken from the CPU, and its level changed.
LineSteps == {"freed", "level"}
Switchers == {"monitor", "other", "lost"}
Sleepers == {"awake", "turn", "tell", "wakeOn", "enter", "entering", "suspended",
             "leaving", "cut", "poweroff", "cutTimer", "down", "off"}

TypeOK ==
  /\ temp \in Temps /\ sampled \in Temps
  /\ pc \in {"high", "low", "charge", "connect", "pause", "ended"}
  /\ high \in 0..255
  /\ reading \in (-Deg(128) + Deg(25))..(Deg(128) + Deg(25))
  /\ awake \in BOOLEAN /\ charging \in BOOLEAN /\ connected \in BOOLEAN
  /\ writer \in Switchers /\ cutter \in Switchers
  /\ sleeper \in Sleepers /\ mode \in Modes \cup {"none"}
  /\ mcu \in {"none", "sleep", "dpdm"}
  /\ accLine \subseteq LineSteps /\ missed \subseteq LineSteps

Init ==
  /\ temp \in Temps /\ sampled = temp /\ awake = TRUE
  /\ pc = "high" /\ high = 0 /\ reading = 0
  /\ charging \in BOOLEAN /\ connected = TRUE
  /\ writer = "other" /\ cutter = "other"
  /\ sleeper = "awake" /\ mode = "none" /\ mcu = "none"
  /\ accLine = {} /\ missed = {}

\* The threads run.
Running == sleeper \notin {"suspended", "off"}

-----------------------------------------------------------------------------
(* The sensor and acc_temp_read().                                         *)

\* The register pair: 256 steps per degree from 25 degrees, two's complement.
Raw(t) == ((t - Deg(25)) * 128) % 65536
HighByte(t) == Raw(t) \div 256
LowByte(t) == Raw(t) % 256

\* Mutant of Decode: the negative half is not told from the positive one.
DecodeUnsigned(raw) == raw \div 128 + Deg(25)

\* Lines 640-651.  The negative half is negated in 16 bits, and the offset is then
\* subtracted from the magnitude.
Decode(raw) ==
  IF raw <= 32767
    THEN raw \div 128 + Deg(25)
    ELSE ((65536 - raw) % 65536) \div 128 - Deg(25)

\* The temperature moves by at most half a degree between two readings; from the second
\* to the pause nobody looks at it.
Drifts == temp' \in {temp - 1, temp, temp + 1} \cap Temps

ReadHigh ==
  /\ pc = "high" /\ Running
  /\ high' = HighByte(temp) /\ sampled' = temp /\ awake' = TRUE
  /\ Drifts
  /\ pc' = "low"
  /\ UNCHANGED <<reading, charging, writer, connected, cutter, sleepVars>>

ReadLow ==
  /\ pc = "low" /\ Running
  /\ reading' = Decode(high * 256 + LowByte(temp))
  /\ high' = 0
  /\ Drifts
  /\ pc' = "charge"
  /\ UNCHANGED <<sampled, awake, charging, writer, connected, cutter, sleepVars>>

-----------------------------------------------------------------------------
(* The monitor's decisions.                                                *)

\* battery_charge_state_config(1) turns the charger off, (0) turns it on; or it returns
\* 0 and the GPIO is as it was.
SetCharge(on, who) ==
  \/ charging' = on /\ writer' = who
  \/ UNCHANGED charging /\ writer' = "lost"

\* battery_connect_config(BAT_ON) or one of the two BAT_OFF, likewise.
SetBattery(on, who) ==
  \/ connected' = on /\ cutter' = who
  \/ UNCHANGED connected /\ cutter' = "lost"

\* Mutant of Charge: the limits of the discharge test are used.
ChargeAtDischargeLimits ==
  /\ pc = "charge" /\ Running
  /\ SetCharge(reading > Deg(-20) /\ reading < Deg(60), "monitor")
  /\ pc' = "connect"
  /\ UNCHANGED <<temp, high, reading, sampled, awake, connected, cutter, sleepVars>>

Charge ==
  /\ pc = "charge" /\ Running
  /\ SetCharge(reading > 0 /\ reading < Deg(45), "monitor")
  /\ pc' = "connect"
  /\ UNCHANGED <<temp, high, reading, sampled, awake, connected, cutter, sleepVars>>

Connect ==
  /\ pc = "connect" /\ Running
  /\ SetBattery(reading > Deg(-20) /\ reading < Deg(60), "monitor")
  /\ pc' = "pause" /\ reading' = 0
  /\ UNCHANGED <<temp, high, sampled, awake, charging, writer, sleepVars>>

\* sleep(battery_monitoring_interval).
Pause ==
  /\ pc = "pause" /\ Running
  /\ Drifts \/ temp' \in WakeTemps
  /\ pc' = "high" /\ sampled' = temp' /\ awake' = TRUE
  /\ UNCHANGED <<high, reading, charging, writer, connected, cutter, sleepVars>>

\* Any call that fails ends the loop, and the function, with what is set as it is.
Fail ==
  /\ pc \in {"high", "low", "charge", "connect"} /\ Running
  /\ pc' = "ended" /\ high' = 0 /\ reading' = 0 /\ sampled' = temp
  /\ UNCHANGED <<temp, awake, charging, writer, connected, cutter, sleepVars>>

-----------------------------------------------------------------------------
(* push_device_to_sleep().                                                 *)

MonitorWaits == UNCHANGED monitorVars

\* From one step of the call to the next; the call that returns forgets its mode and
\* what it missed.
SleepGoto(from, to) ==
  /\ sleeper = from /\ sleeper' = to
  /\ mode' = IF to = "awake" THEN "none" ELSE mode
  /\ missed' = IF to = "awake" THEN {} ELSE missed
Quietly == UNCHANGED <<temp, awake, charging, writer>> /\ MonitorWaits

Push ==
  /\ sleeper = "awake" /\ sleeper' = "enter" /\ mode' = "push"
  /\ UNCHANGED <<mcu, accLine, missed>> /\ Quietly

\* The results of the two battery_charge_state_config() calls are not tested.
SleepEnter ==
  /\ SleepGoto("enter", "entering")
  /\ \/ SetCharge(FALSE, "other")
     \/ UNCHANGED <<charging, writer>>
  /\ UNCHANGED <<temp, awake, mcu, accLine>> /\ MonitorWaits

\* Writing "mem" suspends the device, or fails.
Suspend ==
  /\ SleepGoto("entering", "suspended") \/ SleepGoto("entering", "leaving")
  /\ UNCHANGED <<mcu, accLine>> /\ Quietly

\* The MCU or another source wakes the device, and the MCU's request is over.
Resume ==
  /\ SleepGoto("suspended", "leaving")
  /\ temp' \in WakeTemps
  /\ awake' = FALSE /\ mcu' = "none"
  /\ UNCHANGED <<charging, writer, accLine>> /\ MonitorWaits

SleepLeave ==
  /\ SleepGoto("leaving", "awake")
  /\ \/ SetCharge(TRUE, "other")
     \/ UNCHANGED <<charging, writer>>
  /\ UNCHANGED <<temp, awake, mcu, accLine>> /\ MonitorWaits

-----------------------------------------------------------------------------
(* MCU_sleep_mode().                                                       *)

\* What it takes: a source at least, and no timer in deep power down.
Accepted(deep, sources) == sources # {} /\ ~(deep /\ "timer" \in sources)

\* A request that is not accepted changes nothing.
MCU_sleep_mode ==
  /\ sleeper = "awake"
  /\ \E deep \in BOOLEAN, sources \in SUBSET {"timer", "acc", "other"} :
       /\ Accepted(deep, sources)
       /\ LET turns == deep /\ "acc" \in sources
          IN /\ mode' = IF turns THEN "dpdmAcc" ELSE IF deep THEN "dpdm" ELSE "sleep"
             /\ sleeper' = IF turns THEN "turn" ELSE "tell"
  /\ UNCHANGED <<mcu, accLine, missed>> /\ Quietly

\* Any other step that fails ends the call too, with what was done before it as it is.
GivesUp ==
  /\ \E step \in {"turn", "wakeOn", "cut", "poweroff"} : SleepGoto(step, "awake")
  /\ UNCHANGED <<mcu, accLine>> /\ Quietly

\* Two writes, neither of which can see itself fail; the second may also fail openly,
\* and then ends the call.
TurnAccLine ==
  \E done \in SUBSET LineSteps :
    \/ /\ sleeper = "turn" /\ sleeper' = "tell"
       /\ accLine' = accLine \cup done /\ missed' = LineSteps \ done
       /\ UNCHANGED <<mode, mcu>> /\ Quietly
    \/ /\ SleepGoto("turn", "awake")
       /\ accLine' = accLine \cup (done \ {"level"})
       /\ UNCHANGED mcu /\ Quietly

Deep == {"dpdm", "dpdmAcc"}

\* What the frame asks for.
Request == IF mode \in Deep THEN "dpdm" ELSE "sleep"

\* Mutant of Tell: the result of mcu_i2c_write() is not tested.
TellUntested ==
  /\ SleepGoto("tell", IF mode \in Deep THEN "cut" ELSE "wakeOn")
  /\ mcu' \in {mcu, Request}
  /\ UNCHANGED accLine /\ Quietly

\* The frame goes to the MCU, in one transfer.
Tell ==
  /\ SleepGoto("tell", IF mode \in Deep THEN "cut" ELSE "wakeOn")
  /\ mcu' = Request
  /\ UNCHANGED accLine /\ Quietly

\* No bus, or no answer on it.
TellFails == SleepGoto("tell", "awake") /\ UNCHANGED <<mcu, accLine>> /\ Quietly

\* config_mcu_wakeup(ENABLE), which cannot tell whether the kernel took it.
WakeOn == SleepGoto("wakeOn", "enter") /\ UNCHANGED <<mcu, accLine>> /\ Quietly

CutRest == UNCHANGED <<temp, pc, high, reading, sampled, awake, charging, writer, mcu, accLine>>

\* Mutant of Cut: a switch that is reported to have failed does not end the call.
CutUntested ==
  /\ SleepGoto("cut", "poweroff")
  /\ SetBattery(FALSE, "other") \/ UNCHANGED <<connected, cutter>>
  /\ CutRest

\* battery_connect_config(BAT_OFF_WITHOUT_TIMER) returned 0.
Cut == SleepGoto("cut", "poweroff") /\ SetBattery(FALSE, "other") /\ CutRest

\* system("poweroff") returns while everything still runs.
Poweroff == SleepGoto("poweroff", "down") /\ UNCHANGED <<mcu, accLine>> /\ Quietly

-----------------------------------------------------------------------------
(* restart_device(), and the device off and on again.                      *)

\* The sensors are powered down first, whatever comes of it.  On external power the
\* battery is cut and a pin pulled, on the battery "reboot" is run; with a power
\* source that cannot be read nothing is done.
Restart ==
  /\ sleeper = "awake" /\ mode' = "restart"
  /\ sleeper' \in {"cutTimer", "down"}
  /\ UNCHANGED <<mcu, accLine, missed>> /\ Quietly

CutTimer ==
  /\ SleepGoto("cutTimer", "down") \/ SleepGoto("cutTimer", "awake")
  /\ SetBattery(FALSE, "other") \/ UNCHANGED <<connected, cutter>>
  /\ CutRest

PowerOff == SleepGoto("down", "off") /\ UNCHANGED <<mcu, accLine>> /\ Quietly

Boot ==
  /\ SleepGoto("off", "awake")
  /\ temp' \in WakeTemps /\ sampled' = temp' /\ awake' = TRUE
  /\ pc' = "high" /\ high' = 0 /\ reading' = 0
  /\ mcu' = "none" /\ accLine' = {}
  /\ UNCHANGED <<charging, writer, connected, cutter>>

Monitor == ReadHigh \/ ReadLow \/ Charge \/ Connect \/ Pause \/ Fail
Sleeper ==
  \/ Push \/ SleepEnter \/ Suspend \/ Resume \/ SleepLeave
  \/ MCU_sleep_mode \/ GivesUp \/ TurnAccLine \/ Tell \/ TellFails \/ WakeOn \/ Cut \/ Poweroff
  \/ Restart \/ CutTimer \/ PowerOff \/ Boot
Next == Monitor \/ Sleeper

Spec == Init /\ [][Next]_vars

-----------------------------------------------------------------------------
(* Safety.                                                                 *)

\* The monitor's decision stands: its write took, and nobody has switched the charger
\* since.
Decided == pc \in {"connect", "pause"} /\ writer = "monitor"

\* From 26 degrees up the monitor does what it is for, although the two bytes are
\* read at different times (a carry between them moves the reading by up to a
\* degree), provided the device is not suspended in the middle of the pass, and but for
\* a switch that was lost while its call returned 0:
\* the charger is off above 46 and on below 44 degrees, and the battery is taken
\* off above 61 and put back below 59 (battery.c 331-388, acc_ism330dlc.c 632-651).
WarmIsHandled ==
  sampled >= Deg(26) /\ awake =>
    /\ Decided => /\ sampled >= Deg(46) => ~charging
                  /\ sampled <= Deg(44) => charging
    /\ pc = "pause" /\ cutter = "monitor" =>
         /\ sampled >= Deg(61) => ~connected
         /\ sampled <= Deg(59) => connected

\* Nobody goes down alone: when the device is suspended by MCU_sleep_mode(), or its
\* power is on the way out, the MCU holds the request that will wake it, whatever failed
\* in calls before; that transfer is tested.  Of the accelerometer's line, if that is the
\* source, less is sure: what was not done of it is what this call was told it had done
\* (i2c_framing.c 234-397).
CanWakeUp ==
  /\ sleeper = "suspended" /\ mode = "sleep" => mcu = "sleep"
  /\ sleeper \in {"poweroff", "down", "off"} /\ mode \in Deep => mcu = "dpdm"
  /\ sleeper \in {"poweroff", "down", "off"} /\ mode = "dpdmAcc" =>
       LineSteps \ accLine \subseteq missed

\* "Disable the battery Discharge instantly" (i2c_framing.c 311): a device in deep power
\* down is off the battery, unless the monitor, which nothing stops before the power
\* goes, has put it back meanwhile because the temperature allows it, or the last switch
\* was lost while its call returned 0.
PowerDownCuts ==
  sleeper \in {"down", "off"} /\ mode \in Deep /\ connected =>
    cutter \in {"monitor", "lost"}

-----------------------------------------------------------------------------
(* What the comments promise and the code does not do.                     *)

\* "API to control the battery charging or discharging based on the input
\* tempearature" (battery.c 314-315), which is "the ambient board temperature"
\* (acc_ism330dlc.c 621): the charger is not left on below -1 degree.  Below 25
\* degrees acc_temp_read() returns the temperature with its sign changed.
ColdIsHandled == Decided /\ sampled <= Deg(-1) /\ sleeper = "awake" => ~charging
=============================================================================
