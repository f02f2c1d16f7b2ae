--------------------------- MODULE WakeupSources ---------------------------
(***************************************************************************)
(* The wakeup sources of the device (power_management.c): the config_*     *)
(* calls that switch one source on or off, disable_all_wakeup_sources(),   *)
(* which init() runs, and enable_requested_wakeup_sources() of the MCU     *)
(* test program.  The last two are sequences of config_* calls that end at *)
(* the first one that fails.  The program may die at any point; what it    *)
(* has switched on stays on.  Most of these calls cannot see their last    *)
(* write fail, and return 0 all the same.                                  *)
(***************************************************************************)
EXTENDS Naturals, Sequences

CONSTANT Rtc   \* TRUE if the external RTC is there (/dev/rtc1)

ASSUME WakeupAssumption == Rtc \in BOOLEAN

VARIABLES
  on,       \* what can wake the device: power/wakeup files that say "enabled",
            \* the alarm of rtc0 ("timer"), the external RTC with its interrupt line
  lost,     \* what a call of this sequence that returned 0 did not switch (history)
  accUp,    \* acc_init_success
  task,     \* the sequence that is being run: "none", "disable" or "request"
  plan,     \* the config_* calls it still has to make
  req,      \* what the last call was asked to switch on
  result    \* which call ended last, and how

vars == <<on, lost, accUp, task, plan, req, result>>

\* The names of the config_* calls, and what they switch; "sms" stands for the
\* three power/wakeup files between the modem and the USB host, all enabled.
Cans == {"can0", "can1", "can2"}
Sources == {"mcu", "timer", "rtc", "ign", "acc", "sms"} \cup Cans
Calls == [on : BOOLEAN, src : Sources] \cup {[on |-> FALSE, src |-> "accDeinit"]}
On(s) == [on |-> TRUE, src |-> s]
Off(s) == [on |-> FALSE, src |-> s]
Set(s, b) == IF b THEN On(s) ELSE Off(s)

\* The wakeup bits of a request to the MCU.
Requests == SUBSET {"ign", "acc", "can", "timer", "rtc"}

Tasks == {"none", "disable", "request"}
Results == [of : {"none", "config", "disable", "request"}, end : {"none", "ok", "failed"}]
Nothing == [of |-> "none", end |-> "none"]

TypeOK ==
  /\ on \subseteq Sources /\ lost \subseteq Sources \ Cans /\ accUp \in BOOLEAN
  /\ task \in Tasks /\ plan \in Seq(Calls) /\ (task = "none") = (plan = <<>>)
  /\ req \subseteq Sources \cup {"can"}
  /\ result \in Results

Init ==
  /\ on = {} /\ lost = {} /\ accUp = FALSE
  /\ task = "none" /\ plan = <<>> /\ req = {}
  /\ result = Nothing

-----------------------------------------------------------------------------
(* What one config_* call does.                                            *)

\* The file config_can_wakeup() writes.  strcmp() is 0 for equal names, and the
\* tests of lines 412, 446 and 480 are not negated: "can0" falls through to the
\* test of CAN1, every other name is answered by the first.
CanFile(n) == IF n # "can0" THEN "can0" ELSE IF n # "can1" THEN "can1" ELSE "can2"

\* What the call switches.  config_rtc_wakeup() never reads `option`: with 0
\* seconds it writes the present time as the alarm, with its enable bits.
Targets(c) ==
  IF c.src \in Cans THEN {CanFile(c.src)} ELSE {c.src} \ {"accDeinit"}
SwitchesOn(c) == c.on \/ c.src = "rtc"
Switch(c) == on' = IF SwitchesOn(c) THEN on \cup Targets(c) ELSE on \ Targets(c)

\* What a 0 says nothing of.  fwrite() only fills a buffer, and the fclose() that
\* writes it is tested for the CAN files alone (435, 469, 503); i2c_write() (init.c
\* 707-716) returns 0 whatever i2cset exits with, and the RTC's interrupt line is set
\* up with it.  config_sms_wakeup() writes nothing if lsusb does not list the modem.
Unseen(c) == c.src \notin Cans /\ c.src # "accDeinit"

\* A call that returns 0.
Succeeds(c) ==
  /\ c.src = "rtc" => Rtc
  /\ Switch(c) \/ (Unseen(c) /\ UNCHANGED on)
  /\ accUp' = (c.src = "acc" \/ (accUp /\ c.src # "accDeinit"))

\* A call that fails: before it writes anything; or, of several writes, after
\* some: the RTC's enable bits are cleared first; one USB file of three can break
\* the chain, or complete it.  acc_init() may have succeeded before.
Fails(c) ==
  /\ \/ UNCHANGED on
     \/ c.src = "rtc" /\ Rtc /\ on' = on \ {"rtc"}
     \/ c.src = "sms" /\ Switch(c)
  /\ IF c.src = "acc" THEN accUp' \in {accUp, TRUE} ELSE UNCHANGED accUp

\* What a call that returned 0 should have switched and did not.
Missed(c) == {s \in Targets(c) : ~(s \in on' <=> SwitchesOn(c))}

-----------------------------------------------------------------------------
(* The calls.                                                              *)

\* disable_all_wakeup_sources(), as init() calls it.
DisablePlan ==
  <<Off("mcu")>> \o (IF Rtc THEN <<Off("rtc")>> ELSE <<>>)
    \o <<Off("timer"), Off("ign"), Off("acc"), Off("can0"), Off("can1"), Off("can2")>>

\* Mutant of AccPart: the accelerometer's interrupt is not switched off.
AccPartDeinitOnly(r) == IF "acc" \in r THEN <<On("acc")>> ELSE <<Off("accDeinit")>>

\* enable_requested_wakeup_sources() with the bits r.
AccPart(r) == IF "acc" \in r THEN <<On("acc")>> ELSE <<Off("acc"), Off("accDeinit")>>
ClockPart(r) ==
  IF "timer" \in r THEN <<On("timer")>>
    ELSE IF "rtc" \in r THEN <<On("rtc")>>
    ELSE (IF Rtc THEN <<Off("rtc")>> ELSE <<>>) \o <<Off("timer")>>
RequestPlan(r) ==
  <<Off("can0"), Off("can1"), Set("ign", "ign" \in r)>> \o AccPart(r)
    \o <<Set("can2", "can" \in r)>> \o ClockPart(r) \o <<On("mcu")>>

Start(t, p, r) ==
  /\ task = "none"
  /\ task' = t /\ plan' = p /\ req' = r
  /\ result' = Nothing
  /\ lost' = {} /\ UNCHANGED <<on, accUp>>

\* The application switches one source by name.
Config ==
  \E s \in Sources, b \in BOOLEAN :
    /\ task = "none"
    /\ \/ Succeeds(Set(s, b)) /\ result' = [of |-> "config", end |-> "ok"]
       \/ Fails(Set(s, b)) /\ result' = [of |-> "config", end |-> "failed"]
    /\ req' = {x \in {s} : b} /\ lost' = {}
    /\ UNCHANGED <<task, plan>>

DisableAll == Start("disable", DisablePlan, {})
Request == \E r \in Requests : Start("request", RequestPlan(r), r)

Return(how) ==
  /\ task' = "none" /\ plan' = <<>>
  /\ result' = [of |-> task, end |-> how]
  /\ UNCHANGED req

\* Mutant of GoOn: the end of the sequence is missed by one.
GoOnTooFar ==
  IF plan # <<>>
    THEN plan' = Tail(plan) /\ UNCHANGED <<task, req, result>>
    ELSE Return("ok")

GoOn ==
  IF Len(plan) > 1
    THEN plan' = Tail(plan) /\ UNCHANGED <<task, req, result>>
    ELSE Return("ok")

StepSucceeds ==
  /\ task # "none" /\ Succeeds(Head(plan)) /\ GoOn
  /\ lost' = lost \cup Missed(Head(plan))

\* In a request, the result of config_rtc_wakeup(DISABLE, DISABLE) is overwritten
\* by that of config_timer_wakeup().
Overwritten == task = "request" /\ Head(plan) = Off("rtc")

\* Mutant of StepFails: disable_all_wakeup_sources() ignores failures too.
StepFailsIgnored ==
  /\ task # "none" /\ Fails(Head(plan)) /\ UNCHANGED lost
  /\ IF Overwritten \/ task = "disable" THEN GoOn ELSE Return("failed")

StepFails ==
  /\ task # "none" /\ Fails(Head(plan)) /\ UNCHANGED lost
  /\ IF Overwritten THEN GoOn ELSE Return("failed")

-----------------------------------------------------------------------------
(* The clock, and the death of the program.                                *)

AlarmFires ==
  /\ "timer" \in on
  /\ on' = on \ {"timer"}
  /\ UNCHANGED <<lost, accUp, task, plan, req, result>>

Restart ==
  /\ accUp' = FALSE
  /\ task' = "none" /\ plan' = <<>> /\ req' = {}
  /\ result' = Nothing
  /\ lost' = {} /\ UNCHANGED on

Next ==
  \/ Config \/ DisableAll \/ Request
  \/ StepSucceeds \/ StepFails
  \/ AlarmFires \/ Restart

Spec == Init /\ [][Next]_vars

-----------------------------------------------------------------------------
(* Safety.                                                                 *)

Returned(t) == result = [of |-> t, end |-> "ok"]

\* What a disable_all_wakeup_sources() that returned 0 leaves behind after any earlier
\* history, failed calls and a restart in the middle of one included: of the six
\* sources it reaches, those that can still wake the device are among the ones whose
\* write failed unseen.  The two CAN interfaces never do: fclose() is tested for them,
\* and the crossed names of config_can_wakeup() still reach both files.
\* Not covered: the SMS path and the external RTC (power_management.c 19-97).
DisabledAfterInit ==
  Returned("disable") =>
    on \cap {"mcu", "timer", "ign", "acc", "can0", "can1"} \subseteq lost

\* After an enable_requested_wakeup_sources() that returned 0 the MCU line is armed,
\* ignition, accelerometer and the requested clock are as requested, each unless its
\* own write failed unseen; and of the CAN interfaces exactly the one that answers for
\* "can2" follows the request, without exception (mcu_test_app.c 68-203).
RequestHonoured ==
  Returned("request") =>
    /\ "mcu" \in on \cup lost
    /\ \A s \in {"ign", "acc"} \ lost : (s \in on) = (s \in req)
    /\ ("can0" \in on) = ("can" \in req) /\ "can1" \notin on
    /\ "rtc" \in req /\ "timer" \notin req => "rtc" \in on \cup lost
    /\ req \cap {"timer", "rtc"} = {} => "timer" \notin on \ lost

-----------------------------------------------------------------------------
(* What comments promise and the code does not do.                         *)

\* "This will ensure that the device will not wakeup from sources which are not
\* enabled by the user" (init.c 526-528): config_can_wakeup() switches on no CAN
\* interface but the one it is called with.  The crossed comparison does.
OnlyAskedCanWakes ==
  [][task = "none" => (on' \ on) \cap Cans \subseteq req']_vars

\* "API to disable all the wakeup interrupts" (power_management.c 15), built on
\* "Pass 0 to disable the wakeup" (166-167) for the RTC, whose enable bits are
\* written instead of cleared.
RtcZeroDisables == Returned("disable") => "rtc" \notin on
=============================================================================
