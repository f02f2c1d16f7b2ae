------------------------------ MODULE GpsPort ------------------------------
(***************************************************************************)
(* The GPS port and the AT port of the modem, shared by the threads of the *)
(* program through two semaphores: gps_lock (u_gps.c) around gps_fd, and   *)
(* gsm_at_cmd_lock (init.c) around the AT port, which gsm_at_cmd() opens   *)
(* and closes for every command.  gps_init(), gps_deinit(), agps_init()    *)
(* and send_sms() are built from gsm_at_cmd() calls, some of them made     *)
(* with gps_lock held.  The manager thread and the application's threads   *)
(* may call any of them at any time.                                       *)
(***************************************************************************)
EXTENDS Integers, FiniteSets

CONSTANTS
  Threads,     \* the threads that call the library
  Ops,         \* the calls they make, a subset of Calls
  LinkTests,   \* looks at ppp0 before agps_init() gives up (10)
  LockCap      \* bound on the value of gps_lock

Calls == {"gps_init", "gps_deinit", "get_gps_data", "gsm_at_cmd", "send_sms", "agps_init"}

ASSUME GpsAssumption ==
  /\ IsFiniteSet(Threads)
  /\ Ops \subseteq Calls
  /\ LinkTests \in Nat \ {0}
  /\ LockCap \in Nat \ {0}

VARIABLES
  gpsLock,   \* value of the semaphore gps_lock
  atLock,    \* value of the semaphore gsm_at_cmd_lock
  gpsFd,     \* gps_fd: closed, open, or open on a port that has gone ("hung")
  modem,     \* the modem's four USB ports exist
  session,   \* the modem runs a GNSS session: AT+QGPS? answers 1
  pc,        \* where each thread is in its call
  at,        \* where it is in the gsm_at_cmd() it is making
  ans,       \* what that command answered
  ret,       \* where gps_deinit() returns to
  tries      \* the counter i of agps_init()

portVars == <<gpsFd, session>>
vars == <<gpsLock, atLock, gpsFd, modem, session, pc, at, ans, ret, tries>>

\* What the caller makes of the response buffer: it contains a "1", an "OK" (or
\* the other text it looks for), neither, or it was not written at all.
Answers == {"one", "ok", "other", "unwritten"}

\* The commands of agps_init() between the two lock operations, in order; "setup"
\* stands for the run of commands whose answers are ignored (QICSGP, QIACT, QGPSXTRA
\* and their like).  "xtra" is agps_xtra_data_download(), which drives the AT port by
\* itself.
Script == [setup |-> "qflst", qflst |-> "qfdel", qfdel |-> "xtra",
           relist |-> "qntp", qntp |-> "xtratime", xtratime |-> "load", load |-> "aPost"]

\* GSM_set_to_message_init(), whose four commands are one here, and the dialogue of
\* send_sms() that follows it.
SmsScript == [sInit |-> "sSend"]

\* The labels at which a thread makes an AT command, and gps_lock's holders.
AtPcs == {"iQuery", "iEnable", "dQuery", "dEnd", "cmd", "sSend", "aQuery"}
           \cup DOMAIN SmsScript \cup DOMAIN Script
GpsPcs == {"iTest", "iEnable", "iOpen", "iPost", "dClose", "dQuery", "dEnd", "dPost",
           "gTest", "gRead", "gPost", "xtra", "xtraPort", "aPost"} \cup DOMAIN Script
Pcs == {"idle", "iWait", "dWait", "gCheck", "gWait", "aLink", "aGive", "aWait"}
         \cup AtPcs \cup GpsPcs
AtSteps == {"none", "check", "wait", "open", "talk", "post", "done"}
Returns == {"idle", "iWait", "aLink"}

TypeOK ==
  /\ gpsLock \in 0..LockCap /\ atLock \in {0, 1}
  /\ gpsFd \in {"closed", "open", "hung"}
  /\ modem \in BOOLEAN /\ session \in BOOLEAN
  /\ pc \in [Threads -> Pcs] /\ at \in [Threads -> AtSteps]
  /\ ans \in [Threads -> Answers] /\ ret \in [Threads -> Returns]
  /\ tries \in [Threads -> 0..LinkTests]

Init ==
  /\ gpsLock = 1 /\ atLock = 1
  /\ gpsFd = "closed" /\ modem = FALSE /\ session = FALSE
  /\ pc = [t \in Threads |-> "idle"] /\ at = [t \in Threads |-> "none"]
  /\ ans = [t \in Threads |-> "unwritten"] /\ ret = [t \in Threads |-> "idle"]
  /\ tries = [t \in Threads |-> 0]

-----------------------------------------------------------------------------
(* Control.  A thread that reaches a label of AtPcs starts its command.    *)

Goto(t, l) ==
  /\ pc' = [pc EXCEPT ![t] = l]
  /\ at' = [at EXCEPT ![t] = IF l \in AtPcs THEN "check" ELSE "none"]
  /\ ans' = [ans EXCEPT ![t] = "unwritten"]

AtGoto(t, s) == at' = [at EXCEPT ![t] = s] /\ UNCHANGED <<pc, ans>>

Answered(t, l) == pc[t] = l /\ at[t] = "done"

Holders == {t \in Threads : pc[t] \in GpsPcs}

\* Posts of gps_lock that no wait has matched.
Surplus == gpsLock + Cardinality(Holders) - 1

-----------------------------------------------------------------------------
(* gsm_at_cmd(): the ports, the lock, the port, the exchange, the release. *)

AtCheck(t) ==
  /\ at[t] = "check"
  /\ AtGoto(t, IF modem THEN "wait" ELSE "done")
  /\ UNCHANGED <<gpsLock, atLock, portVars, modem, ret, tries>>

AtWait(t) ==
  /\ at[t] = "wait" /\ atLock > 0
  /\ atLock' = atLock - 1
  /\ AtGoto(t, "open")
  /\ UNCHANGED <<gpsLock, portVars, modem, ret, tries>>

\* Mutant of AtOpen: the error path returns with the lock.
AtOpenKeepsLock(t) ==
  /\ at[t] = "open"
  /\ \/ modem /\ AtGoto(t, "talk")
     \/ AtGoto(t, "done")
  /\ UNCHANGED <<gpsLock, atLock, portVars, modem, ret, tries>>

\* A port that does not open is released at once, with an error.
AtOpen(t) ==
  /\ at[t] = "open"
  /\ \/ modem /\ AtGoto(t, "talk") /\ UNCHANGED atLock
     \/ atLock' = atLock + 1 /\ AtGoto(t, "done")
  /\ UNCHANGED <<gpsLock, portVars, modem, ret, tries>>

\* The exchange.  Only AT+QGPS? tells the session, only AT+QGPS=1 and AT+QGPSEND
\* change it; a failed read leaves the buffer unwritten.
AtTalk(t) ==
  /\ at[t] = "talk"
  /\ at' = [at EXCEPT ![t] = "post"]
  /\ \/ ans' = [ans EXCEPT ![t] = "unwritten"] /\ UNCHANGED session
     \/ /\ modem /\ pc[t] \in {"iQuery", "dQuery", "aQuery"}
        /\ ans' = [ans EXCEPT ![t] = IF session THEN "one" ELSE "other"]
        /\ UNCHANGED session
     \/ /\ modem /\ pc[t] \notin {"iQuery", "dQuery", "aQuery"}
        /\ \E a \in {"ok", "other"} :
             /\ ans' = [ans EXCEPT ![t] = a]
             /\ session' = CASE a = "ok" /\ pc[t] = "iEnable" -> TRUE
                             [] a = "ok" /\ pc[t] = "dEnd" -> FALSE
                             [] OTHER -> session
  /\ UNCHANGED <<gpsLock, atLock, gpsFd, modem, pc, ret, tries>>

AtPost(t) ==
  /\ at[t] = "post"
  /\ atLock' = atLock + 1
  /\ AtGoto(t, "done")
  /\ UNCHANGED <<gpsLock, portVars, modem, ret, tries>>

-----------------------------------------------------------------------------
(* gps_init().                                                             *)

KeepLocks == UNCHANGED <<gpsLock, atLock>>

\* A running session is ended first, by a whole gps_deinit() of its own.
InitQueried(t) ==
  /\ Answered(t, "iQuery")
  /\ Goto(t, IF ans[t] = "one" THEN "dWait" ELSE "iWait")
  /\ ret' = [ret EXCEPT ![t] = IF ans[t] = "one" THEN "iWait" ELSE "idle"]
  /\ KeepLocks /\ UNCHANGED <<portVars, modem, tries>>

\* sem_wait(gps_lock), at the four places that take it.
AfterWait == [iWait |-> "iTest", dWait |-> "dClose", gWait |-> "gTest", aWait |-> "setup"]
GpsWait(t) ==
  /\ pc[t] \in DOMAIN AfterWait /\ gpsLock > 0
  /\ gpsLock' = gpsLock - 1
  /\ Goto(t, AfterWait[pc[t]])
  /\ UNCHANGED <<atLock, portVars, modem, ret, tries>>

InitTest(t) ==
  /\ pc[t] = "iTest"
  /\ Goto(t, IF gpsFd = "closed" THEN "iEnable" ELSE "iPost")
  /\ KeepLocks /\ UNCHANGED <<portVars, modem, ret, tries>>

\* Mutant of InitEnabled: an answer that is not OK returns at once.
InitEnabledKeepsLock(t) ==
  /\ Answered(t, "iEnable")
  /\ Goto(t, IF ans[t] = "ok" THEN "iOpen" ELSE "idle")
  /\ gpsFd' = IF ans[t] = "unwritten" THEN "closed" ELSE gpsFd
  /\ KeepLocks /\ UNCHANGED <<session, modem, ret, tries>>

\* After AT+QGPS=1: the port is opened only on an OK.
InitEnabled(t) ==
  /\ Answered(t, "iEnable")
  /\ Goto(t, IF ans[t] = "ok" THEN "iOpen" ELSE "iPost")
  /\ gpsFd' = IF ans[t] = "unwritten" THEN "closed" ELSE gpsFd
  /\ KeepLocks /\ UNCHANGED <<session, modem, ret, tries>>

InitOpen(t) ==
  /\ pc[t] = "iOpen"
  /\ \/ modem /\ gpsFd' = "open"
     \/ gpsFd' = "closed"
  /\ Goto(t, "iPost")
  /\ KeepLocks /\ UNCHANGED <<session, modem, ret, tries>>

\* sem_post(gps_lock), at the four places that release it.
GpsPost(t) ==
  /\ pc[t] \in {"iPost", "dPost", "gPost", "aPost"}
  /\ gpsLock' = gpsLock + 1
  /\ Goto(t, IF pc[t] = "dPost" THEN ret[t] ELSE "idle")
  /\ ret' = [ret EXCEPT ![t] = "idle"]
  /\ tries' = [tries EXCEPT ![t] = IF pc[t] = "aPost" THEN 0 ELSE @]
  /\ UNCHANGED <<atLock, portVars, modem>>

-----------------------------------------------------------------------------
(* gps_deinit() and get_gps_data().                                        *)

DeinitClose(t) ==
  /\ pc[t] = "dClose"
  /\ gpsFd' = "closed"
  /\ Goto(t, "dQuery")
  /\ KeepLocks /\ UNCHANGED <<session, modem, ret, tries>>

\* The buffer of line 94 is not initialised: a query that fails leaves in it
\* whatever the stack held, with a "1" or without.
DeinitQueried(t) ==
  /\ Answered(t, "dQuery")
  /\ \/ ans[t] \in {"one", "unwritten"} /\ Goto(t, "dEnd")
     \/ ans[t] # "one" /\ Goto(t, "dPost")
  /\ KeepLocks /\ UNCHANGED <<portVars, modem, ret, tries>>

DeinitEnded(t) ==
  /\ Answered(t, "dEnd")
  /\ Goto(t, "dPost")
  /\ KeepLocks /\ UNCHANGED <<portVars, modem, ret, tries>>

DataCheck(t) ==
  /\ pc[t] = "gCheck"
  /\ Goto(t, IF modem THEN "gWait" ELSE "idle")
  /\ KeepLocks /\ UNCHANGED <<portVars, modem, ret, tries>>

\* Mutant of DataTest: gps_fd is read without a look at it.
DataTestDropped(t) ==
  /\ pc[t] = "gTest"
  /\ Goto(t, "gRead")
  /\ KeepLocks /\ UNCHANGED <<portVars, modem, ret, tries>>

DataTest(t) ==
  /\ pc[t] = "gTest"
  /\ Goto(t, IF gpsFd = "closed" THEN "gPost" ELSE "gRead")
  /\ KeepLocks /\ UNCHANGED <<portVars, modem, ret, tries>>

\* The reading loop of lines 716-828 ends only when nothing comes for a second, which
\* is for the modem to give.  A port that has gone is readable for ever (end of file).
DataSilence(t) ==
  /\ pc[t] = "gRead" /\ gpsFd # "hung"
  /\ Goto(t, "gPost")
  /\ KeepLocks /\ UNCHANGED <<portVars, modem, ret, tries>>

-----------------------------------------------------------------------------
(* A single AT command, and send_sms().                                    *)

CmdReturned(t) ==
  /\ pc[t] \in {"cmd", "sSend"} /\ at[t] = "done"
  /\ Goto(t, "idle")
  /\ KeepLocks /\ UNCHANGED <<portVars, modem, ret, tries>>

\* GSM_set_to_message_init() must succeed; send_sms() then takes the port once
\* more, for the whole dialogue.
SmsReady(t) ==
  /\ pc[t] \in DOMAIN SmsScript /\ at[t] = "done"
  /\ Goto(t, IF ans[t] = "unwritten" THEN "idle" ELSE SmsScript[pc[t]])
  /\ KeepLocks /\ UNCHANGED <<portVars, modem, ret, tries>>

-----------------------------------------------------------------------------
(* agps_init().                                                            *)

AgpsQueried(t) ==
  /\ Answered(t, "aQuery")
  /\ \/ ans[t] \in {"one", "unwritten"} /\ Goto(t, "dWait") /\ ret' = [ret EXCEPT ![t] = "aLink"]
     \/ ans[t] # "one" /\ Goto(t, "aLink") /\ UNCHANGED ret
  /\ KeepLocks /\ UNCHANGED <<portVars, modem, tries>>

\* Mutant of AgpsLink: the bound is off by one.
AgpsLinkOffByOne(t) ==
  /\ pc[t] = "aLink"
  /\ \/ modem /\ Goto(t, "aWait") /\ UNCHANGED tries
     \/ tries[t] <= LinkTests /\ Goto(t, "aQuery")
          /\ tries' = [tries EXCEPT ![t] = @ + 1]
     \/ tries[t] > LinkTests /\ Goto(t, "aGive") /\ UNCHANGED tries
  /\ KeepLocks /\ UNCHANGED <<portVars, modem, ret>>

\* Lines 453-477.  ppp0 may be up whenever there is a modem.  "i == 10" holds when
\* the link never came up, and also when it came up at the last look.
AgpsLink(t) ==
  /\ pc[t] = "aLink"
  /\ \/ modem /\ Goto(t, IF tries[t] = LinkTests THEN "aGive" ELSE "aWait") /\ UNCHANGED tries
     \/ tries[t] < LinkTests /\ Goto(t, "aQuery")
          /\ tries' = [tries EXCEPT ![t] = @ + 1]
     \/ tries[t] = LinkTests /\ Goto(t, "aGive") /\ UNCHANGED tries
  /\ KeepLocks /\ UNCHANGED <<portVars, modem, ret>>

\* Lines 469-477 post gps_lock, which this thread has not taken.
AgpsGive(t) ==
  /\ pc[t] = "aGive"
  /\ gpsLock' = gpsLock + 1
  /\ Goto(t, "idle")
  /\ tries' = [tries EXCEPT ![t] = 0]
  /\ UNCHANGED <<atLock, portVars, modem, ret>>

\* The answers of most commands are logged and otherwise ignored: QFDEL is skipped if xtra2.bin is not listed, QNTP is repeated
\* until the modem has the time, and a refused QGPSXTRATIME ends the script, as an
\* asprintf() that fails does.
AgpsAnswered(t) ==
  /\ pc[t] \in DOMAIN Script /\ at[t] = "done"
  /\ \/ (pc[t] = "qntp" => ans[t] = "ok") /\ (pc[t] = "xtratime" => ans[t] = "ok")
          /\ Goto(t, Script[pc[t]])
     \/ pc[t] = "qflst" /\ Goto(t, "xtra")
     \/ pc[t] = "qntp" /\ ans[t] # "ok" /\ Goto(t, "qntp")
     \/ pc[t] = "qntp" /\ ans[t] = "ok" /\ Goto(t, "aPost")
     \/ pc[t] = "xtratime" /\ ans[t] # "ok" /\ Goto(t, "aPost")
  /\ KeepLocks /\ UNCHANGED <<portVars, modem, ret, tries>>

\* agps_xtra_data_download() opens the AT port without gsm_at_cmd_lock.
XtraOpen(t) ==
  /\ pc[t] = "xtra"
  /\ \/ modem /\ Goto(t, "xtraPort")
     \/ Goto(t, "relist")
  /\ KeepLocks /\ UNCHANGED <<portVars, modem, ret, tries>>

XtraDone(t) ==
  /\ pc[t] = "xtraPort"
  /\ Goto(t, "relist")
  /\ KeepLocks /\ UNCHANGED <<portVars, modem, ret, tries>>

-----------------------------------------------------------------------------
(* The threads and the modem.                                              *)

Entry == [gps_init |-> "iQuery", gps_deinit |-> "dWait", get_gps_data |-> "gCheck",
          gsm_at_cmd |-> "cmd", send_sms |-> "sInit", agps_init |-> "aQuery"]

Call(t) ==
  /\ pc[t] = "idle"
  /\ \E op \in Ops : /\ op = "agps_init" => Surplus + 1 + Cardinality(Threads) <= LockCap
                     /\ Goto(t, Entry[op])
  /\ KeepLocks /\ UNCHANGED <<portVars, modem, ret, tries>>

AtCommand(t) == AtCheck(t) \/ AtWait(t) \/ AtOpen(t) \/ AtTalk(t) \/ AtPost(t)

\* What a thread does by itself, and what it needs the modem's silence for.
Proceed(t) ==
  \/ AtCommand(t)
  \/ InitQueried(t) \/ GpsWait(t) \/ InitTest(t) \/ InitEnabled(t) \/ InitOpen(t) \/ GpsPost(t)
  \/ DeinitClose(t) \/ DeinitQueried(t) \/ DeinitEnded(t)
  \/ DataCheck(t) \/ DataTest(t)
  \/ CmdReturned(t) \/ SmsReady(t)
  \/ AgpsQueried(t) \/ AgpsLink(t) \/ AgpsGive(t) \/ AgpsAnswered(t)
  \/ XtraOpen(t) \/ XtraDone(t)

Step(t) == Proceed(t) \/ DataSilence(t)

ThreadsIdle == UNCHANGED <<gpsLock, atLock, pc, at, ans, ret, tries>>

ModemComes == ~modem /\ modem' = TRUE /\ ThreadsIdle /\ UNCHANGED portVars

\* The ports go, and an open one is hung up.
ModemGoes ==
  /\ modem
  /\ modem' = FALSE /\ session' = FALSE
  /\ gpsFd' = IF gpsFd = "open" THEN "hung" ELSE gpsFd
  /\ ThreadsIdle

Next ==
  \/ \E t \in Threads : Call(t) \/ Step(t)
  \/ ModemComes \/ ModemGoes

Spec == Init /\ [][Next]_vars

-----------------------------------------------------------------------------
(* Safety.                                                                 *)

\* gsm_at_cmd_lock is held by exactly the threads between its sem_wait() and the
\* one sem_post() of the path they are on (init.c 57-151, 215-381): at most one
\* of them talks on the AT port, and no error path loses the lock.
AtHolders == {t \in Threads : at[t] \in {"open", "talk", "post"}}
AtSurplus == atLock + Cardinality(AtHolders) - 1
AtPortOwned == AtSurplus = 0

\* No path out of the four functions keeps gps_lock: it is free or held.
GpsLockKept == Surplus >= 0

\* The two semaphores as the code around them counts on them: CountedLock.
AtLocked == INSTANCE CountedLock
              WITH inside <- AtHolders, surplus <- AtSurplus, MayOverpost <- FALSE
GpsLocked == INSTANCE CountedLock
               WITH inside <- Holders, surplus <- Surplus, MayOverpost <- TRUE

\* Whatever path a call takes, nested commands and error returns included, a
\* thread comes in by a wait that found the lock free, alone, and goes out by one
\* post of its own (init.c 57-151, 215-381; u_gps.c 45-85, 96-136, 479-664,
\* 686-868).  Only gps_lock is ever posted by a thread that is not inside
\* (469-477), and what that post does is let one thread more in for good.
LocksSpec == AtLocked!Spec /\ GpsLocked!Spec

\* What gps_init() and get_gps_data() find out about gps_fd (lines 50 and 696)
\* still holds when they use it, unless agps_init() has given up before: its
\* post without a wait lets two threads in from then on.
PortStable ==
  Surplus = 0 =>
    \A t \in Threads : /\ pc[t] \in {"iEnable", "iOpen"} => gpsFd = "closed"
                       /\ pc[t] = "gRead" => gpsFd # "closed"

-----------------------------------------------------------------------------
(* Liveness.                                                               *)

\* Threads run, and a waiter of a semaphore that is posted again and again gets it.
\* Nothing is assumed of the modem: not that it falls silent under a reader
\* (DataSilence has no fairness), nor that it ever answers well.
Fairness ==
  \A t \in Threads : WF_vars(Proceed(t)) /\ SF_vars(GpsWait(t)) /\ SF_vars(AtWait(t))
FairSpec == Spec /\ Fairness

\* The two waits that no code bounds, both with gps_lock held: a reader stays in its
\* loop (716-828) while the modem sends something every second, or for ever if the
\* port was lost under it; agps_init() asks for the network time until it gets it
\* (577-588).
ReadsOn == \E u \in Threads : <>[](pc[u] = "gRead")
AsksForTime == \E u \in Threads : <>[](pc[u] = "qntp")

\* Every call returns, whatever the modem does (gps_lock is always taken before
\* gsm_at_cmd_lock, never the other way round), unless some thread reads on or asks for
\* the time for ever (init.c 57-151, u_gps.c).
CallsReturn ==
  ReadsOn \/ AsksForTime \/ \A t \in Threads : []<>(pc[t] = "idle")
=============================================================================
