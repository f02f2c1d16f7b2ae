----------------------------- MODULE WatchThread -----------------------------
(***************************************************************************)
(* A watch thread of thread_def.c: ignition_pin_status_check() with its    *)
(* flag ign_status, or timer_wakeup_monitor() with timer_thread_status.    *)
(* The two have the same control.  The flag is a plain int: 0 no thread,   *)
(* 1 watching, -1 stop.  One thread of the application calls enable and    *)
(* disable; a new thread opens its device and only then sets the flag.     *)
(*                                                                         *)
(* Abstracted: the search for the input device, the select() period, the   *)
(* two seconds of sleep in disable (any number of steps of the threads     *)
(* fits into a call), and an interrupted select() (no signal handler is    *)
(* installed by the library).                                              *)
(***************************************************************************)
EXTENDS Integers, FiniteSets

CONSTANT Threads    \* identities; a thread that has returned frees its own

ASSUMPTION WatchAssumption == IsFiniteSet(Threads)

VARIABLES
  kind,       \* which of the two watches this is
  flag,       \* ign_status or timer_thread_status
  value,      \* ignition_status_value or timer_state
  pc,         \* where each thread is
  app,        \* where the application is in its call
  due,        \* the call that comes next if enable and disable alternate
  inTurn      \* whether they have alternated so far

vars == <<kind, flag, value, pc, app, due, inTurn>>

calls == <<kind, due, inTurn>>

(* What an event leaves in the value: ignition on and off, or the alarm. *)
Seen == IF kind = "ignition" THEN {-1, 1} ELSE {1}

Labels == {"none", "open", "mark", "test", "wait", "reset", "clear", "close", "dead"}

TypeOK ==
  /\ kind \in {"ignition", "timer"}
  /\ flag \in {-1, 0, 1}
  /\ value \in Seen \cup {0}
  /\ pc \in [Threads -> Labels]
  /\ app \in {"idle", "create", "stop", "probe"}
  /\ due \in {"enable", "disable"}
  /\ inTurn \in BOOLEAN

Init ==
  /\ kind \in {"ignition", "timer"}
  /\ flag = 0
  /\ value = 0
  /\ pc = [t \in Threads |-> "none"]
  /\ app = "idle"
  /\ due = "enable"
  /\ inTurn = TRUE

Goto(t, label) == pc' = [pc EXCEPT ![t] = label]

----------------------------------------------------------------------------
(* The application *)

Call(c, next) ==
  /\ app = "idle"
  /\ kind' = kind
  /\ due' = next
  /\ inTurn' = (inTurn /\ due = c)

(* Mutant of Enable: only a flag of 1 counts as a running thread. *)
EnableAfterStop ==
  /\ Call("enable", "disable")
  /\ app' = IF flag # 1 THEN "create" ELSE "idle"
  /\ UNCHANGED <<flag, value, pc>>

(* enable: a flag other than 0 is reported as a running thread. *)
Enable ==
  /\ Call("enable", "disable")
  /\ app' = IF flag = 0 THEN "create" ELSE "idle"
  /\ UNCHANGED <<flag, value, pc>>

(* pthread_create() does not touch the flag; it may fail. *)
Create ==
  /\ app = "create"
  /\ app' = "idle"
  /\ \/ \E t \in Threads : pc[t] = "none" /\ Goto(t, "open")
     \/ UNCHANGED pc
  /\ UNCHANGED <<flag, value, calls>>

(* Mutant of Disable: the request is a decrement. *)
DisableByDecrement ==
  /\ Call("disable", "enable")
  /\ flag' = flag - 1
  /\ app' = "stop"
  /\ UNCHANGED <<value, pc>>

(* disable: the request is made whether or not a thread exists. *)
Disable ==
  /\ Call("disable", "enable")
  /\ flag' = -1
  /\ app' = "stop"
  /\ UNCHANGED <<value, pc>>

Return ==
  /\ app = "stop"
  /\ app' = "idle"
  /\ UNCHANGED <<flag, value, pc, calls>>

(* ignition_pin_status() asks the GPIO list if it finds the value 0; an    *)
(* event may be read before the answer is stored.                          *)
AskStatus ==
  /\ kind = "ignition"
  /\ app = "idle"
  /\ value = 0
  /\ app' = "probe"
  /\ UNCHANGED <<flag, value, pc, calls>>

Probe ==
  /\ app = "probe"
  /\ value' \in Seen \cup {value}
  /\ app' = "idle"
  /\ UNCHANGED <<flag, pc, calls>>

(* push_device_to_sleep() starts with timer_state = 0. *)
SleepClears ==
  /\ kind = "timer"
  /\ app = "idle"
  /\ value' = 0
  /\ UNCHANGED <<flag, pc, app, calls>>

Application ==
  Enable \/ Create \/ Disable \/ Return \/ AskStatus \/ Probe \/ SleepClears

----------------------------------------------------------------------------
(* A watch thread *)

(* Mutant of Open: the flag is set before the device is opened. *)
OpenMarksFirst(t) ==
  /\ pc[t] = "open"
  /\ Goto(t, "mark") \/ Goto(t, "none")
  /\ flag' = 1
  /\ UNCHANGED <<value, app, calls>>

Open(t) ==
  /\ pc[t] = "open"
  /\ Goto(t, "mark") \/ Goto(t, "none")
  /\ UNCHANGED <<flag, value, app, calls>>

Mark(t) ==
  /\ pc[t] = "mark"
  /\ flag' = 1
  /\ Goto(t, "test")
  /\ UNCHANGED <<value, app, calls>>

(* Mutant of Test: the loop looks for the value a stopped thread leaves. *)
TestForIdle(t) ==
  /\ pc[t] = "test"
  /\ Goto(t, IF flag = 0 THEN "reset" ELSE "wait")
  /\ UNCHANGED <<flag, value, app, calls>>

Test(t) ==
  /\ pc[t] = "test"
  /\ Goto(t, IF flag = -1 THEN "reset" ELSE "wait")
  /\ UNCHANGED <<flag, value, app, calls>>

(* select() and read(): a timeout or an event of another key leaves the    *)
(* value alone; after a short read the thread returns at once, with its    *)
(* device open.                                                            *)
Wait(t) ==
  /\ pc[t] = "wait"
  /\ \/ value' \in Seen \cup {value} /\ Goto(t, "test")
     \/ value' = value /\ Goto(t, "dead")
  /\ UNCHANGED <<flag, app, calls>>

Reset(t) ==
  /\ pc[t] = "reset"
  /\ flag' = 0
  /\ Goto(t, "clear")
  /\ UNCHANGED <<value, app, calls>>

Clear(t) ==
  /\ pc[t] = "clear"
  /\ value' = 0
  /\ Goto(t, "close")
  /\ UNCHANGED <<flag, app, calls>>

Close(t) ==
  /\ pc[t] = "close"
  /\ Goto(t, "none")
  /\ UNCHANGED <<flag, value, app, calls>>

Step(t) ==
  Open(t) \/ Mark(t) \/ Test(t) \/ Wait(t) \/ Reset(t) \/ Clear(t) \/ Close(t)

----------------------------------------------------------------------------
Next == Application \/ \E t \in Threads : Step(t)

Spec == Init /\ [][Next]_vars

FairSpec ==
  /\ Spec
  /\ WF_vars(Create \/ Return \/ Probe)
  /\ \A t \in Threads : WF_vars(Step(t))

----------------------------------------------------------------------------
(* Properties *)

Starting(t) == pc[t] \in {"open", "mark"}
Watching(t) == pc[t] \in {"test", "wait", "reset"}

(* With calls in turn one thread at most is on its way to its loop, in it,  *)
(* or dead of a short read with its device open, although the flag is      *)
(* tested long before the new thread sets it: a stop that meets a thread   *)
(* on its way, and a dead thread, leave a flag that refuses the next       *)
(* start.  So one open device at most is lost, whatever is called later.   *)
OneWatcher ==
  inTurn => \A t, u \in Threads :
              /\ Starting(t) \/ Watching(t) \/ pc[t] = "dead"
              /\ Starting(u) \/ Watching(u) \/ pc[u] = "dead"
              => t = u

(* The flag tells the truth to the next start: 1 only with a thread that   *)
(* watches or that died of a short read, 0 with none in its loop.          *)
FlagHonest ==
  inTurn => /\ flag = 1 => \E t \in Threads : Watching(t) \/ pc[t] = "dead"
            /\ flag = 0 => \A t \in Threads : ~Watching(t)

(* A stop that meets a thread in its loop ends it, and its value and       *)
(* device with it, as long as the calls are made in turn.                  *)
StopObeyed ==
  \A t \in Threads :
    (flag = -1 /\ Watching(t)) ~> (pc[t] \in {"none", "dead"} \/ ~inTurn)

=============================================================================
