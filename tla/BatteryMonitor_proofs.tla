------------------------ MODULE BatteryMonitor_proofs ------------------------
(***************************************************************************)
(* TypeOK, WarmIsHandled, CanWakeUp and PowerDownCuts hold for any         *)
(* temperatures.  ReadingIsClose is the arithmetic of the two bytes; IInv  *)
(* adds how the reading follows the sample until the decisions are made    *)
(* (Follows), to which call a step belongs (Places), and what has been     *)
(* done before it (Told, Turned, Off).                                     *)
(***************************************************************************)
EXTENDS BatteryMonitor, TLAPS

(* What was read is within half a degree of the sample. *)
Close == sampled - 1 <= reading /\ reading <= sampled + 1

Warm == sampled >= Deg(26) /\ awake

(* Between the two bytes, and from the second one to the last decision. *)
Follows ==
  /\ pc = "low" => high = HighByte(sampled)
  /\ pc = "low" /\ awake => sampled - 1 <= temp /\ temp <= sampled + 1
  /\ pc \in {"charge", "connect"} /\ Warm => Close

(* The calls in which a step occurs. *)
Places ==
  /\ sleeper = "turn" => mode = "dpdmAcc"
  /\ sleeper = "tell" => mode \in {"sleep"} \cup Deep
  /\ sleeper = "wakeOn" => mode = "sleep"
  /\ sleeper \in {"enter", "entering", "suspended"} => mode \in {"push", "sleep"}
  /\ sleeper \in {"cut", "poweroff"} => mode \in Deep
  /\ sleeper = "cutTimer" => mode = "restart"

Asleep == {"wakeOn", "enter", "entering", "suspended"}
Down == {"cut", "poweroff", "down", "off"}

(* The request the MCU holds behind a successful Tell. *)
Told ==
  /\ sleeper \in Asleep /\ mode = "sleep" => mcu = "sleep"
  /\ sleeper \in Down /\ mode \in Deep => mcu = "dpdm"

(* The line it has been given, or so TurnAccLine was told. *)
Turned ==
  sleeper \in Down \cup {"tell"} /\ mode = "dpdmAcc" => LineSteps \ accLine \subseteq missed

(* The battery behind a Cut that was told it had switched. *)
Off ==
  sleeper \in Down \ {"cut"} /\ mode \in Deep /\ connected => cutter \in {"monitor", "lost"}

IInv == TypeOK /\ Follows /\ WarmIsHandled /\ Places /\ Told /\ Turned /\ Off

-----------------------------------------------------------------------------
(* The arithmetic of acc_temp_read().                                      *)

LEMMA Remainder == ASSUME NEW n \in Int PROVE 0 <= n % 65536 /\ n % 65536 <= 65535
  OBVIOUS

LEMMA RawRange ==
  ASSUME NEW t \in Int
  PROVE  Raw(t) \in Int /\ 0 <= Raw(t) /\ Raw(t) <= 65535
<1> DEFINE n == (t - 50) * 128
<1>1. n \in Int
  OBVIOUS
<1>2. Raw(t) = n % 65536
  BY DEF Raw, Deg
<1> HIDE DEF n
<1>3. n % 65536 \in Int
  BY <1>1
<1> QED BY <1>1, <1>2, <1>3, Remainder

LEMMA Split ==
  ASSUME NEW n \in Int, 0 <= n, n <= 65535
  PROVE  /\ n \div 256 \in 0..255
         /\ n % 256 \in 0..255
  OBVIOUS

LEMMA Bytes ==
  ASSUME NEW t \in Int
  PROVE  HighByte(t) \in 0..255 /\ LowByte(t) \in 0..255
<1> DEFINE n == Raw(t)
<1>1. n \in Int /\ 0 <= n /\ n <= 65535
  BY RawRange
<1>2. HighByte(t) = n \div 256 /\ LowByte(t) = n % 256
  BY DEF HighByte, LowByte
<1> HIDE DEF n
<1> QED BY <1>1, <1>2, Split

LEMMA DecodeRange ==
  ASSUME NEW raw \in Int, 0 <= raw, raw <= 65535
  PROVE  Decode(raw) \in (-Deg(128) + Deg(25))..(Deg(128) + Deg(25))
<1>1. CASE raw <= 32767
  <2>1. raw \div 128 \in Int /\ 0 <= raw \div 128 /\ raw \div 128 <= 255
    BY <1>1
  <2> QED BY <1>1, <2>1 DEF Decode, Deg
<1>2. CASE ~(raw <= 32767)
  <2> DEFINE m == (65536 - raw) % 65536
  <2>1. m \in Int /\ 0 <= m /\ m <= 32768
    BY <1>2
  <2> HIDE DEF m
  <2>2. m \div 128 \in Int /\ 0 <= m \div 128 /\ m \div 128 <= 256
    BY <2>1
  <2>3. Decode(raw) = m \div 128 - 50
    BY <1>2 DEF Decode, Deg, m
  <2> QED BY <2>2, <2>3 DEF Deg
<1> QED BY <1>1, <1>2

(* Above 25 degrees the register holds the distance from there without the wrap: the *)
(* high byte has the whole degrees, and the low byte the half.                        *)
LEMMA WarmBytes ==
  ASSUME NEW t \in Int, 50 <= t, t < 300
  PROVE  HighByte(t) = (t - 50) \div 2 /\ LowByte(t) = 128 * ((t - 50) % 2)
<1> DEFINE n == t - 50
<1>1. n \in Int /\ 0 <= n /\ n < 250
  OBVIOUS
<1>2. Raw(t) = (n * 128) % 65536
  BY DEF Raw, Deg
<1> HIDE DEF n
<1>3. (n * 128) % 65536 = n * 128
  BY <1>1
<1>4. (n * 128) \div 256 = n \div 2
  BY <1>1
<1>5. (n * 128) % 256 = 128 * (n % 2)
  BY <1>1
<1>6. HighByte(t) = n \div 2 /\ LowByte(t) = 128 * (n % 2)
  BY <1>2, <1>3, <1>4, <1>5 DEF HighByte, LowByte
<1> QED BY <1>6 DEF n

(* Below it the register wraps: it holds the distance from 25 degrees, subtracted    *)
(* from 2^16.                                                                        *)
LEMMA ColdRegister ==
  ASSUME NEW t \in Int, -200 < t, t < 50
  PROVE  Raw(t) = 65536 - (50 - t) * 128
<1> DEFINE n == 50 - t
<1>1. n \in Int /\ 0 < n /\ n < 250
  OBVIOUS
<1>2. Raw(t) = (-(n * 128)) % 65536
  BY DEF Raw, Deg
<1> HIDE DEF n
<1>3. (-(n * 128)) % 65536 = 65536 - n * 128
  BY <1>1
<1> QED BY <1>2, <1>3 DEF n

(* What acc_temp_read() makes of a register that did not change between its two      *)
(* bytes (acc_ism330dlc.c 640-651): the temperature from 25 degrees up, and below 25 *)
(* the temperature with its sign changed, at every half degree the sensor measures.  *)
(* The offset that has to be added once the sign is back is subtracted instead.      *)
THEOREM ColdIsMirrored ==
  ASSUME NEW t \in Int, Deg(-100) < t, t < Deg(150)
  PROVE  Decode(Raw(t)) = IF t >= Deg(25) THEN t ELSE -t
<1>1. -200 < t /\ t < 300
  BY DEF Deg
<1>2. CASE t >= 50
  <2> DEFINE n == t - 50
  <2>1. n \in Int /\ 0 <= n /\ n < 250 /\ t = n + 50
    BY <1>1, <1>2
  <2>2. Raw(t) = (n * 128) % 65536
    BY DEF Raw, Deg
  <2> HIDE DEF n
  <2>3. (n * 128) % 65536 = n * 128 /\ (n * 128) \div 128 = n /\ n * 128 <= 32767
    BY <2>1
  <2>4. Decode(Raw(t)) = n + 50
    BY <2>2, <2>3 DEF Decode, Deg
  <2> QED BY <1>2, <2>1, <2>4 DEF Deg
<1>3. CASE t < 50
  <2> DEFINE n == 50 - t
             r == Raw(t)
  <2>1. n \in Int /\ 0 < n /\ n < 250 /\ t = 50 - n
    BY <1>1, <1>3
  <2>2. r = 65536 - n * 128
    BY <1>1, <1>3, ColdRegister
  <2> HIDE DEF n, r
  <2>3. r \in Int /\ ~(r <= 32767) /\ 65536 - r = n * 128
    BY <2>1, <2>2
  <2>4. (n * 128) % 65536 = n * 128 /\ (n * 128) \div 128 = n
    BY <2>1
  <2>5. Decode(r) = n - 50
    <3>1. Decode(r) = ((65536 - r) % 65536) \div 128 - 50
      BY <2>3 DEF Decode, Deg
    <3> QED BY <2>3, <2>4, <3>1
  <2>6. Decode(Raw(t)) = n - 50
    BY <2>5 DEF r
  <2> QED BY <1>3, <2>1, <2>6 DEF Deg
<1> QED BY <1>1, <1>2, <1>3

(* From 26 degrees up a reading of two bytes half a degree apart is half a degree    *)
(* away from the temperature at the first, whatever is carried between them.         *)
LEMMA ReadingIsClose ==
  ASSUME NEW s \in Int, NEW t \in Int, 52 <= s, s < 300, t < 300,
         s - 1 <= t, t <= s + 1
  PROVE  /\ s - 1 <= Decode(HighByte(s) * 256 + LowByte(t))
         /\ Decode(HighByte(s) * 256 + LowByte(t)) <= s + 1
<1> DEFINE h == (s - 50) \div 2
           l == (t - 50) % 2
           r == 2 * h + l
<1>1. HighByte(s) = h /\ LowByte(t) = 128 * l
  BY WarmBytes
<1>2. h \in Int /\ 1 <= h /\ h <= 125
  OBVIOUS
<1>3. l \in Int /\ 0 <= l /\ l <= 1
  OBVIOUS
<1>4. s - 51 <= r /\ r <= s - 49
  OBVIOUS
<1> HIDE DEF h, l
<1>5. r \in Int /\ 0 <= r /\ r <= 251
  BY <1>2, <1>3
<1>6. HighByte(s) * 256 + LowByte(t) = r * 128
  BY <1>1, <1>2, <1>3
<1> HIDE DEF r
<1>7. r * 128 <= 32767 /\ (r * 128) \div 128 = r
  BY <1>5
<1>8. Decode(r * 128) = r + 50
  BY <1>5, <1>7 DEF Decode, Deg
<1> QED BY <1>4, <1>5, <1>6, <1>8

-----------------------------------------------------------------------------
(* Each action keeps the types and the invariant.                          *)

LEMMA Constants ==
  /\ \A t \in Temps : t \in Int /\ -200 < t /\ t < 300
  /\ WakeTemps \subseteq Temps
  BY BatteryAssumption DEF Deg

(* The two bytes make a register value. *)
LEMMA Joined ==
  ASSUME NEW h \in 0..255, NEW l \in 0..255
  PROVE  h * 256 + l \in Int /\ 0 <= h * 256 + l /\ h * 256 + l <= 65535
  OBVIOUS

LEMMA TypeMonitor == TypeOK /\ Monitor => TypeOK'
<1> SUFFICES ASSUME TypeOK, Monitor PROVE TypeOK'
  OBVIOUS
<1> USE DEF TypeOK, sleepVars, Drifts, Running, Switchers
<1>1. CASE ReadHigh
  BY <1>1, Constants, Bytes DEF ReadHigh
<1>2. CASE ReadLow
  <2>1. temp \in Int /\ LowByte(temp) \in 0..255
    BY Constants, Bytes
  <2>2. reading' \in (-Deg(128) + Deg(25))..(Deg(128) + Deg(25))
    BY <1>2, <2>1, Joined, DecodeRange DEF ReadLow
  <2> QED BY <1>2, <2>2 DEF ReadLow
<1>3. CASE Charge
  <2>1. charging' \in BOOLEAN /\ writer' \in Switchers
    BY <1>3 DEF Charge, SetCharge
  <2>2. /\ pc' = "connect"
        /\ UNCHANGED <<temp, high, reading, sampled, awake, connected, cutter, sleepVars>>
    BY <1>3 DEF Charge
  <2> QED BY <2>1, <2>2
<1>4. CASE Connect
  <2>1. connected' \in BOOLEAN /\ cutter' \in Switchers
    BY <1>4 DEF Connect, SetBattery
  <2>2. /\ pc' = "pause" /\ reading' = 0
        /\ UNCHANGED <<temp, high, sampled, awake, charging, writer, sleepVars>>
    BY <1>4 DEF Connect
  <2> QED BY <2>1, <2>2 DEF Deg
<1>5. CASE Pause
  BY <1>5, Constants DEF Pause
<1>6. CASE Fail
  BY <1>6 DEF Fail, Deg
<1> QED BY <1>1, <1>2, <1>3, <1>4, <1>5, <1>6 DEF Monitor

LEMMA TypeSleeper == TypeOK /\ Sleeper => TypeOK'
<1> SUFFICES ASSUME TypeOK, Sleeper PROVE TypeOK'
  OBVIOUS
<1> USE DEF TypeOK, Quietly, MonitorWaits, monitorVars, SleepGoto, Sleepers, Modes, Switchers
<1>1. CASE Push \/ Suspend
  BY <1>1 DEF Push, Suspend
<1>8. CASE SleepEnter \/ SleepLeave
  <2>1. charging' \in BOOLEAN /\ writer' \in Switchers
    BY <1>8 DEF SleepEnter, SleepLeave, SetCharge
  <2>2. sleeper' \in {"entering", "awake"} /\ mode' \in {mode, "none"} /\ missed' \in {missed, {}}
    BY <1>8 DEF SleepEnter, SleepLeave
  <2>3. UNCHANGED <<temp, awake, mcu, accLine, monitorVars>>
    BY <1>8 DEF SleepEnter, SleepLeave
  <2> QED BY <2>1, <2>2, <2>3
<1>2. CASE Resume
  BY ZenonT(40), <1>2, Constants DEF Resume
<1>3. CASE MCU_sleep_mode \/ GivesUp \/ TellFails \/ WakeOn
  BY <1>3 DEF MCU_sleep_mode, GivesUp, TellFails, WakeOn
<1>9. CASE TurnAccLine
  <2>1. accLine' \subseteq LineSteps /\ missed' \subseteq LineSteps
    BY <1>9 DEF TurnAccLine
  <2>2. sleeper' \in {"tell", "awake"} /\ mode' \in {mode, "none"} /\ UNCHANGED mcu /\ Quietly
    BY <1>9 DEF TurnAccLine
  <2> QED BY <2>1, <2>2
<1>4. CASE Tell
  BY <1>4 DEF Tell, Request
<1>5. CASE Cut \/ CutTimer
  <2>1. connected' \in BOOLEAN /\ cutter' \in Switchers
    BY <1>5 DEF Cut, CutTimer, SetBattery
  <2>2. /\ sleeper' \in {"poweroff", "down", "awake"} /\ mode' \in {mode, "none"}
        /\ missed' \in {missed, {}}
    BY <1>5 DEF Cut, CutTimer
  <2>3. UNCHANGED <<temp, pc, high, reading, sampled, awake, charging, writer, mcu, accLine>>
    BY <1>5 DEF Cut, CutTimer, CutRest
  <2> QED BY <2>1, <2>2, <2>3
<1>6. CASE Poweroff \/ Restart \/ PowerOff
  BY <1>6 DEF Poweroff, Restart, PowerOff
<1>7. CASE Boot
  BY <1>7, Constants DEF Boot, Deg
<1> QED BY <1>1, <1>2, <1>3, <1>4, <1>5, <1>6, <1>7, <1>8, <1>9 DEF Sleeper

(* The steps of the other thread leave the monitor's data, but for the charger and   *)
(* the battery, which it then owns, and for the sample, which ends a pass.           *)
LEMMA FollowsStep ==
  ASSUME TypeOK, Follows, Monitor \/ Sleeper PROVE Follows'
<1> USE DEF Follows, Close, Warm
<1>1. temp \in Int /\ sampled \in Int /\ sampled < 300 /\ temp < 300
  BY Constants DEF TypeOK
<1>2. CASE ReadHigh
  BY <1>1, <1>2 DEF ReadHigh, Drifts
<1>3. CASE ReadLow
  <2>1. /\ pc = "low" /\ high = HighByte(sampled) /\ pc' = "charge"
        /\ sampled' = sampled /\ awake' = awake
        /\ reading' = Decode(HighByte(sampled) * 256 + LowByte(temp))
    BY <1>3 DEF ReadLow
  <2>2. ASSUME awake, sampled >= 52 PROVE Close'
    <3>1. sampled - 1 <= temp /\ temp <= sampled + 1
      BY <2>1, <2>2
    <3> QED BY <1>1, <2>1, <2>2, <3>1, ReadingIsClose
  <2> QED BY <2>1, <2>2 DEF Deg
<1>4. CASE Charge
  BY <1>4 DEF Charge
<1>5. CASE Connect \/ Pause \/ Fail
  BY <1>5 DEF Connect, Pause, Fail
<1>6. CASE Resume
  BY <1>6 DEF Resume, MonitorWaits, monitorVars
<1>7. CASE Boot
  BY <1>7 DEF Boot
<1>8. CASE Cut \/ CutTimer
  <2>1. UNCHANGED <<temp, pc, high, reading, sampled, awake>>
    BY <1>8 DEF Cut, CutTimer, CutRest
  <2> QED BY <2>1
<1>9. CASE /\ Sleeper
           /\ ~(Resume \/ Boot \/ Cut \/ CutTimer)
  <2>1. UNCHANGED <<temp, pc, high, reading, sampled, awake>>
    BY <1>9 DEF Sleeper, Push, SleepEnter, Suspend, SleepLeave, MCU_sleep_mode, GivesUp,
       TurnAccLine, Tell, TellFails, WakeOn, Poweroff, Restart, PowerOff, Quietly,
       MonitorWaits, monitorVars
  <2> QED BY <2>1
<1> QED BY <1>2, <1>3, <1>4, <1>5, <1>6, <1>7, <1>8, <1>9 DEF Monitor

(* The decisions are made on a reading that is close, and stay the monitor's until   *)
(* somebody else switches.                                                           *)
LEMMA WarmStep ==
  ASSUME TypeOK, Follows, WarmIsHandled, Monitor \/ Sleeper PROVE WarmIsHandled'
<1> USE DEF WarmIsHandled, Decided
<1>1. sampled \in Int /\ reading \in Int
  BY Constants DEF TypeOK, Deg
<1>2. CASE ReadHigh \/ ReadLow \/ Pause \/ Fail
  BY <1>2 DEF ReadHigh, ReadLow, Pause, Fail
<1>3. CASE Charge
  <2>1. /\ charging' = (reading > 0 /\ reading < 90) \/ writer' = "lost"
        /\ pc' = "connect" /\ sampled' = sampled /\ awake' = awake
    BY <1>3 DEF Charge, SetCharge, Deg
  <2>2. sampled >= 52 /\ awake => sampled - 1 <= reading /\ reading <= sampled + 1
    BY <1>3 DEF Charge, Follows, Warm, Close, Deg
  <2>3. sampled >= 52 /\ awake =>
          /\ sampled >= 92 => ~(reading > 0 /\ reading < 90)
          /\ sampled <= 88 => reading > 0 /\ reading < 90
    BY <1>1, <2>2
  <2>4. sampled >= 52 /\ awake /\ writer' # "lost" =>
          /\ sampled >= 92 => ~charging'
          /\ sampled <= 88 => charging'
    BY <2>1, <2>3, Zenon
  <2> QED BY <2>1, <2>4 DEF Deg
<1>4. CASE Connect
  <2>1. /\ connected' = (reading > -40 /\ reading < 120) \/ cutter' = "lost"
        /\ pc = "connect"
        /\ pc' = "pause" /\ UNCHANGED <<sampled, awake, charging, writer>>
    BY <1>4 DEF Connect, SetBattery, Deg
  <2>2. sampled >= 52 /\ awake => sampled - 1 <= reading /\ reading <= sampled + 1
    BY <2>1 DEF Follows, Warm, Close, Deg
  <2>3. sampled >= 52 /\ awake =>
          /\ sampled >= 122 => ~(reading > -40 /\ reading < 120)
          /\ sampled <= 118 => reading > -40 /\ reading < 120
    BY <1>1, <2>2
  <2>4. sampled >= 52 /\ awake /\ cutter' # "lost" =>
          /\ sampled >= 122 => ~connected'
          /\ sampled <= 118 => connected'
    BY <2>1, <2>3, Zenon
  <2> QED BY <2>1, <2>4 DEF Deg
<1>5. CASE Sleeper /\ ~Resume /\ ~Boot
  <2>1. /\ UNCHANGED <<pc, sampled, awake>>
        /\ writer' \in {"other", "lost"} \/ UNCHANGED <<charging, writer>>
        /\ cutter' \in {"other", "lost"} \/ UNCHANGED <<connected, cutter>>
    BY <1>5 DEF Sleeper, Push, SleepEnter, Suspend, SleepLeave, MCU_sleep_mode, GivesUp,
       TurnAccLine, Tell, TellFails, WakeOn, Cut, Poweroff, Restart, CutTimer, PowerOff,
       CutRest, Quietly, MonitorWaits, monitorVars, SetCharge, SetBattery
  <2> QED BY <2>1
<1>6. CASE Resume
  BY <1>6 DEF Resume
<1>7. CASE Boot
  BY <1>7 DEF Boot
<1> QED BY <1>2, <1>3, <1>4, <1>5, <1>6, <1>7 DEF Monitor

(* The monitor does not touch the other thread, and takes the battery as its own. *)
LEMMA DownStep ==
  ASSUME Places, Told, Turned, Off, Monitor \/ Sleeper
  PROVE  (Places /\ Told /\ Turned /\ Off)'
<1> USE DEF Places, Told, Turned, Off, Deep, Asleep, Down
<1>1. CASE Monitor
  <2>1. /\ UNCHANGED sleepVars
        /\ UNCHANGED <<connected, cutter>> \/ cutter' \in {"monitor", "lost"}
    BY <1>1 DEF Monitor, ReadHigh, ReadLow, Charge, Connect, Pause, Fail, SetBattery
  <2> QED BY <2>1 DEF sleepVars
<1> USE DEF Quietly, MonitorWaits, monitorVars, SleepGoto
<1>2. CASE Push \/ SleepEnter \/ Suspend \/ SleepLeave
  BY <1>2 DEF Push, SleepEnter, Suspend, SleepLeave
<1>3. CASE Resume
  BY <1>3 DEF Resume
<1>4. CASE MCU_sleep_mode
  BY <1>4 DEF MCU_sleep_mode
<1>5. CASE GivesUp \/ TellFails \/ WakeOn
  BY <1>5 DEF GivesUp, TellFails, WakeOn
<1>12. CASE TurnAccLine
  <2>1. \/ sleeper' = "awake" /\ mode' = "none"
        \/ /\ sleeper = "turn" /\ sleeper' = "tell" /\ mode' = mode
           /\ LineSteps \ accLine' \subseteq missed'
    BY <1>12 DEF TurnAccLine
  <2> QED BY <2>1
<1>6. CASE Tell
  BY <1>6 DEF Tell, Request
<1>7. CASE Cut
  BY <1>7 DEF Cut, CutRest, SetBattery
<1>8. CASE CutTimer
  BY <1>8 DEF CutTimer, CutRest, SetBattery
<1>9. CASE Poweroff \/ PowerOff
  BY <1>9 DEF Poweroff, PowerOff
<1>11. CASE Restart
  BY <1>11 DEF Restart
<1>10. CASE Boot
  BY <1>10 DEF Boot
<1> QED BY <1>1, <1>2, <1>3, <1>4, <1>5, <1>6, <1>7, <1>8, <1>9, <1>10, <1>11, <1>12
      DEF Sleeper

LEMMA Invariant == Spec => []IInv
<1>1. Init => IInv
  <2> SUFFICES ASSUME Init PROVE IInv
    OBVIOUS
  <2> QED BY Constants DEF Init, IInv, TypeOK, Sleepers, Follows, WarmIsHandled, Decided,
         Places, Told, Turned, Off, Deep, Deg, Asleep, Down, Switchers
<1>2. IInv /\ [Next]_vars => IInv'
  <2> SUFFICES ASSUME IInv, [Next]_vars PROVE IInv'
    OBVIOUS
  <2>1. CASE Next
    <3>1. Monitor \/ Sleeper
      BY <2>1 DEF Next
    <3> QED BY <3>1, TypeMonitor, TypeSleeper, FollowsStep, WarmStep, DownStep DEF IInv
  <2>2. CASE UNCHANGED vars
    BY <2>2 DEF vars, monitorVars, sleepVars, IInv, TypeOK, Follows, Close, Warm,
       WarmIsHandled, Decided, Places, Told, Turned, Off
  <2> QED BY <2>1, <2>2
<1> QED BY <1>1, <1>2, PTL DEF Spec

(* For any temperatures the reading stays in the range of 16 bits, and the steps of  *)
(* the other thread belong to its calls.                                             *)
THEOREM TypeCorrect == Spec => []TypeOK
<1>1. IInv => TypeOK
  BY DEF IInv
<1> QED BY <1>1, Invariant, PTL

(* From 26 degrees up the charger and the battery follow the temperature, for any    *)
(* temperatures, as long as the last switch took (battery.c 331-388,                 *)
(* acc_ism330dlc.c 632-651).                                                         *)
THEOREM WarmFollowed == Spec => []WarmIsHandled
<1>1. IInv => WarmIsHandled
  BY DEF IInv
<1> QED BY <1>1, Invariant, PTL

(* The device goes down only with the MCU told, for certain, and with every step of  *)
(* giving it the accelerometer's line done or falsely reported done, where that is   *)
(* the source (i2c_framing.c 234-397).                                               *)
THEOREM McuKnows == Spec => []CanWakeUp
<1>1. IInv => CanWakeUp
  BY DEF IInv, CanWakeUp, Told, Turned, Asleep, Down, Deep
<1> QED BY <1>1, Invariant, PTL

(* In deep power down the battery is off unless the monitor has put it back, or the  *)
(* last switch was lost behind a 0 (i2c_framing.c 311-319, battery.c 368-383,        *)
(* init.c 707-716).                                                                  *)
THEOREM BatteryIsCut == Spec => []PowerDownCuts
<1>1. IInv => PowerDownCuts
  BY DEF IInv, PowerDownCuts, Off, Down
<1> QED BY <1>1, Invariant, PTL
=============================================================================
