--------------------------- MODULE NetworkManager ---------------------------
(***************************************************************************)
(* The cellular network manager of the library: the thread network_manager *)
(* (4g_monitor.c), the application thread that starts and stops it         *)
(* (init, deinit in init.c and network_monitor_disable in 4g_monitor.c),   *)
(* and the modem, pppd, link events and file descriptors they share.       *)
(*                                                                         *)
(* The two threads communicate through plain global ints: network_status,  *)
(* network_enable_status and nl_socket.  Every read or write of one of     *)
(* them that another thread can race with is a step of its own.            *)
(***************************************************************************)
EXTENDS Integers, Sequences

CONSTANTS
  FlightCycles,   \* flight-mode cycles before a registration is given up (10)
  SignalErrors,   \* failed signal reads that are tolerated (3)
  Retries,        \* failed dials, and failed name lookups, tolerated (1)
  DialTries,      \* attempts that certainly fill the 60 s of one network mode
  Modes,          \* network modes, tried from Modes down to 1 (4)
  DetachPolls,    \* polls of the stop request between two socket closes (10)
  Fds,            \* descriptor numbers; 0 is standard input
  HasGps,         \* FALSE leaves the GPS port out: it never opens
  Reinit,         \* TRUE if the application calls init() while a manager runs
  Restart         \* TRUE if it starts a manager even after a bound socket was lost

ASSUME NMAssumption ==
  /\ FlightCycles \in Nat \ {0}
  /\ SignalErrors \in Nat
  /\ Retries \in Nat
  /\ DialTries \in Nat \ {0}
  /\ Modes \in Nat \ {0}
  /\ DetachPolls \in Nat \ {0}
  /\ Fds \subseteq Nat
  /\ 0 \in Fds
  /\ HasGps \in BOOLEAN /\ Reinit \in BOOLEAN /\ Restart \in BOOLEAN

VARIABLES
  status,      \* network_status: 0 idle, 1 running, -1 stop requested
  netEnable,   \* network_enable_status
  nlSocket,    \* nl_socket
  pc,          \* where the manager thread is; "none" when there is no thread
  loc,         \* the manager's local variables
  cpc,         \* where the application thread is
  sawLink,     \* its CheckLink() result at line 1106
  polls,       \* its detach_count
  simStatus,   \* sim_status_monitor
  power,       \* GPIO 90 and 78: the modem's supply and USB switch are on
  modem,       \* the modem's four USB ports exist
  gps,         \* gps_fd >= 0
  ppp,         \* ppp0 is up and running
  pppd,        \* "none", "running", or "dying" after a signal
  owner,       \* what each descriptor number refers to
  pending      \* link events queued on the socket bound to the link group

appVars == <<netEnable, cpc, sawLink, polls>>
radioVars == <<power, modem, gps>>
linkVars == <<ppp, pppd>>
sockVars == <<nlSocket, owner, pending>>
vars == <<status, netEnable, nlSocket, pc, loc, cpc, sawLink, polls, simStatus,
          power, modem, gps, ppp, pppd, owner, pending>>

Events == {"pppDown", "other"}
\* What the code tells apart: 0, E_GSM_SIM_DETECTED, and every other code.
SimValues == {"ok", "detected", "error"}
Sites == {"on", "reg", "signal", "dial", "poll", "mode"}

\* What a descriptor number refers to: a netlink socket of link_listener(), before
\* or after its bind(), or a file of some other part of the program.
Sockets == {"netlink", "bound"}
Owners == {"free", "other"} \cup Sockets

\* The three places that run gsm_at_port_close(), and where each goes on.
AfterPortClose == [stopModem |-> "stopSocket", recycle |-> "top", quitModem |-> "idle"]

ManagerPc ==
  {"none", "top", "recycle", "stopModem", "quitModem", "modemOn", "onAnswer",
   "gpsInit", "simEnter", "sim", "simRet", "flight", "connect", "linkCheck",
   "netcheck", "setMode", "dialFailed", "ready", "listen", "bind", "bindClose",
   "bindReset", "recv", "blocked", "deaf", "lost", "lostClose", "lostReset", "stopSocket",
   "stopClose", "stopReset", "idle"}
AppPc == {"app", "create", "mark", "checkLink", "request", "linkDown",
          "poll", "dClose", "dReset"}

Locals == [regs : 0..(FlightCycles - 1), sigs : 0..SignalErrors, links : 0..Retries,
           conns : 0..Retries, mode : 0..Modes, tries : 0..(DialTries - 1),
           site : Sites, ret : {"ok", "error"}]
FreshLocals == [regs |-> 0, sigs |-> 0, links |-> 0, conns |-> 0, mode |-> Modes,
                tries |-> 0, site |-> "on", ret |-> "ok"]

TypeOK ==
  /\ status \in {-1, 0, 1}
  /\ netEnable \in {0, 1}
  /\ nlSocket \in Fds \cup {-1}
  /\ pc \in ManagerPc
  /\ loc \in Locals
  /\ cpc \in AppPc
  /\ sawLink \in BOOLEAN
  /\ polls \in 0..(DetachPolls - 1)
  /\ simStatus \in SimValues
  /\ power \in BOOLEAN /\ modem \in BOOLEAN /\ gps \in BOOLEAN
  /\ ppp \in BOOLEAN /\ pppd \in {"none", "running", "dying"}
  /\ owner \in [Fds -> Owners]
  /\ pending \in SUBSET Events

Init ==
  /\ status = 0 /\ netEnable = 0 /\ nlSocket = 0
  /\ pc = "none" /\ loc = FreshLocals
  /\ cpc = "app" /\ sawLink = FALSE /\ polls = 0
  /\ simStatus = "ok"
  /\ power = FALSE /\ modem = FALSE /\ gps = FALSE
  /\ ppp = FALSE /\ pppd = "none"
  /\ owner = [f \in Fds |-> IF f = 0 THEN "other" ELSE "free"]
  /\ pending = {}

-----------------------------------------------------------------------------
(* Helpers.                                                                *)

Goto(l) == pc' = l
KeepLocals == UNCHANGED loc

\* The program's port number at the kernel's link group (nl_pid = getpid(), line
\* 859) is taken: by a bound socket with a descriptor, or by one that was closed
\* while the manager is blocked in it, which stays alive in the kernel.
PortTaken == pc = "blocked" \/ \E f \in Fds : owner[f] = "bound"

\* A link event reaches the queue of the bound socket and is lost if there is none.
Notify(e) == pending' = IF PortTaken THEN pending \cup {e} ELSE pending

\* `ifconfig ppp0 down; killall pppd`.  pppd exits later (PppdExits).
TakeLinkDown ==
  /\ ppp' = FALSE
  /\ pppd' = IF pppd = "running" THEN "dying" ELSE pppd
  /\ IF ppp THEN Notify("pppDown") ELSE UNCHANGED pending

\* The queue goes with the socket.
QueueOnce(events, holder) ==
  pending' = IF holder \/ \E f \in Fds : owner'[f] = "bound" THEN events ELSE {}

\* close(f).
CloseFd(f) ==
  /\ owner' = IF f \in Fds THEN [owner EXCEPT ![f] = "free"] ELSE owner
  /\ QueueOnce(pending, pc = "blocked")

\* Call get_gsm_sim_status_monitor() from call site s, with locals l; and leave
\* the query for label p (the call site and the result are then forgotten).
CallSim(s, l) == Goto("simEnter") /\ loc' = [l EXCEPT !.site = s, !.ret = "ok"]
Leave(p, l) == Goto(p) /\ loc' = [l EXCEPT !.site = "on", !.ret = "ok"]

\* The locals of establish_connection_monitor() die when it returns.
DialOver(l) == [l EXCEPT !.mode = Modes, !.tries = 0]

\* Netlink sockets that nl_socket no longer names: nobody will close them.  A bound
\* one keeps the port number, and no later bind() succeeds.
Leaked == {f \in Fds : owner[f] \in Sockets /\ nlSocket # f}
PortLost == \E f \in Leaked \ {0} : owner[f] = "bound"

OwnsSocket == nlSocket \in Fds /\ owner[nlSocket] \in Sockets

-----------------------------------------------------------------------------
(* The manager thread: the top of the loop and the modem's power.          *)

Top ==
  /\ pc = "top"
  /\ Goto(IF status = -1 THEN "stopModem" ELSE IF modem THEN "recycle" ELSE "modemOn")
  /\ KeepLocals
  /\ UNCHANGED <<status, simStatus, appVars, radioVars, linkVars, sockVars>>

\* Mutant of PortClose: the GPS port is left open.
PortCloseWithoutGpsDeinit ==
  /\ pc \in DOMAIN AfterPortClose
  /\ Goto(AfterPortClose[pc])
  /\ power' = FALSE
  /\ modem' \in {FALSE, modem}
  /\ TakeLinkDown
  /\ KeepLocals
  /\ UNCHANGED <<status, simStatus, appVars, gps, nlSocket, owner>>

\* gsm_at_port_close(): gps_deinit() and gsm_modem_off_monitor(), which waits
\* for the ports to disappear but gives up after 30 s.
PortClose ==
  /\ pc \in DOMAIN AfterPortClose
  /\ Goto(AfterPortClose[pc])
  /\ gps' = FALSE /\ power' = FALSE
  /\ modem' \in {FALSE, modem}
  /\ TakeLinkDown
  /\ KeepLocals
  /\ UNCHANGED <<status, simStatus, appVars, nlSocket, owner>>

\* gsm_modem_on_monitor() up to line 140: nothing to do when the ports have
\* come back meanwhile, otherwise the power sequence and the wait for them.
ModemOn ==
  /\ pc = "modemOn"
  /\ IF modem
       THEN Goto("gpsInit") /\ UNCHANGED <<radioVars, simStatus>>
       ELSE /\ power' = TRUE /\ modem' \in BOOLEAN /\ simStatus' = "error"
            /\ Goto(IF modem' THEN "onAnswer" ELSE "recycle")
            /\ UNCHANGED gps
  /\ KeepLocals
  /\ UNCHANGED <<status, appVars, linkVars, sockVars>>

\* Lines 145-208: the unsolicited CPIN answer.  A PIN the modem does not
\* accept ends the function with an error, anything else reaches line 214.
OnAnswer ==
  /\ pc = "onAnswer"
  /\ \/ /\ modem
        /\ simStatus' \in {"detected", "error"}
        /\ CallSim("on", loc)
     \/ /\ ~modem
        /\ CallSim("on", loc)
        /\ UNCHANGED simStatus
     \/ Goto("recycle") /\ KeepLocals /\ UNCHANGED simStatus
  /\ UNCHANGED <<status, appVars, radioVars, linkVars, sockVars>>

\* gps_init(): it may close the port first (u_gps.c 42-44), and the port opens
\* only if the modem answers.
GpsInit ==
  /\ pc = "gpsInit"
  /\ gps' \in {gps, FALSE, gps \/ (HasGps /\ modem)}
  /\ CallSim("reg", loc)
  /\ UNCHANGED <<status, simStatus, appVars, power, modem, linkVars, sockVars>>

-----------------------------------------------------------------------------
(* get_gsm_sim_status_monitor(), called from six places.                   *)

SimEnter ==
  /\ pc = "simEnter"
  /\ IF modem
       THEN Goto("sim") /\ KeepLocals /\ UNCHANGED simStatus
       ELSE Goto("simRet") /\ simStatus' = "error" /\ loc' = [loc EXCEPT !.ret = "error"]
  /\ UNCHANGED <<status, appVars, radioVars, linkVars, sockVars>>

\* The loop of lines 316-375.  While the ports are gone gsm_at_cmd() fails and
\* the loop spins: only an answering modem ends it.  A refused PIN command
\* leaves sim_status_monitor as it was.
SimPoll ==
  /\ pc = "sim" /\ modem
  /\ Goto("simRet")
  /\ \/ simStatus' \in {"detected", "error"} /\ loc' = [loc EXCEPT !.ret = "ok"]
     \/ UNCHANGED simStatus /\ loc' = [loc EXCEPT !.ret = "error"]
  /\ UNCHANGED <<status, appVars, radioVars, linkVars, sockVars>>

Returned(s) == pc = "simRet" /\ loc.site = s

\* set_gsm_network_mode_monitor(1) from gsm_modem_on_monitor(): the result is
\* dropped, line 395 stores the return code in sim_status_monitor, and line 215
\* checks the ports again.
RetOn ==
  /\ Returned("on")
  /\ simStatus' = loc.ret
  /\ Leave(IF modem THEN "gpsInit" ELSE "recycle", loc)
  /\ UNCHANGED <<status, appVars, radioVars, linkVars, sockVars>>

\* get_gsm_nw_reg_monitor(): a cell id and a LAC, or a flight-mode cycle.
RetReg ==
  /\ Returned("reg")
  /\ \/ simStatus = "detected" /\ modem /\ CallSim("signal", loc)
     \/ Leave("flight", loc)
  /\ UNCHANGED <<status, simStatus, appVars, radioVars, linkVars, sockVars>>

\* Mutants of Flight: the bound is off by one; the loop starts over instead of
\* leaving for the top of network_manager().
FlightOffByOne ==
  /\ pc = "flight"
  /\ IF loc.regs + 1 > FlightCycles
       THEN Goto("top") /\ loc' = [loc EXCEPT !.regs = 0]
       ELSE CallSim("reg", [loc EXCEPT !.regs = @ + 1])
  /\ UNCHANGED <<status, simStatus, appVars, radioVars, linkVars, sockVars>>

Flight ==
  /\ pc = "flight"
  /\ IF loc.regs + 1 = FlightCycles
       THEN Goto("top") /\ loc' = [loc EXCEPT !.regs = 0]
       ELSE CallSim("reg", [loc EXCEPT !.regs = @ + 1])
  /\ UNCHANGED <<status, simStatus, appVars, radioVars, linkVars, sockVars>>

\* The signal loop of lines 985-1013: a failed read is counted (and the count
\* survives a later good read), a weak signal is asked for again, without end.
SignalFailed ==
  /\ Returned("signal")
  /\ IF loc.sigs + 1 > SignalErrors
       THEN Leave("top", [loc EXCEPT !.sigs = 0])
       ELSE CallSim("signal", [loc EXCEPT !.sigs = @ + 1])
  /\ UNCHANGED <<status, simStatus, appVars, radioVars, linkVars, sockVars>>

SignalWeak ==
  /\ Returned("signal") /\ modem
  /\ CallSim("signal", loc)
  /\ UNCHANGED <<status, simStatus, appVars, radioVars, linkVars, sockVars>>

\* A dial starts with network_mode = 4 and a fresh clock.
StartDial(l) == CallSim("dial", DialOver(l))

SignalGood ==
  /\ Returned("signal") /\ modem
  /\ StartDial(loc)
  /\ UNCHANGED <<status, simStatus, appVars, radioVars, linkVars, sockVars>>

-----------------------------------------------------------------------------
(* establish_connection_monitor().                                         *)

RetDial ==
  /\ Returned("dial")
  /\ Leave(IF loc.ret = "ok" /\ simStatus = "detected" THEN "connect" ELSE "dialFailed", loc)
  /\ UNCHANGED <<status, simStatus, appVars, radioVars, linkVars, sockVars>>

\* `pppd call gprs_4g` puts pppd in the background; the link comes up later.
Connect ==
  /\ pc = "connect"
  /\ pppd' = IF ppp THEN pppd ELSE "running"
  /\ Goto("linkCheck") /\ KeepLocals
  /\ UNCHANGED <<status, simStatus, appVars, radioVars, ppp, sockVars>>

LinkCheck ==
  /\ pc = "linkCheck"
  /\ IF ppp THEN Leave("netcheck", DialOver(loc)) ELSE CallSim("poll", loc)
  /\ UNCHANGED <<status, simStatus, appVars, radioVars, linkVars, sockVars>>

\* Line 681 returns the SIM status as the result of the dial: "detected" means
\* try again (or change the mode after 60 s), and a stale 0 means success.
RetPoll ==
  /\ Returned("poll")
  /\ \/ simStatus = "detected" /\ loc.tries + 1 < DialTries
        /\ Leave("connect", [loc EXCEPT !.tries = @ + 1])
     \/ simStatus = "detected" /\ Leave("setMode", loc)
     \/ simStatus = "ok" /\ Leave("netcheck", DialOver(loc))
     \/ simStatus = "error" /\ Leave("dialFailed", loc)
  /\ UNCHANGED <<status, simStatus, appVars, radioVars, linkVars, sockVars>>

\* set_mode: kill pppd unless the link is up, give up below mode 1.
SetMode ==
  /\ pc = "setMode"
  /\ pppd' = IF ~ppp /\ pppd = "running" THEN "dying" ELSE pppd
  /\ IF loc.mode = 0
       THEN Goto("dialFailed") /\ KeepLocals
       ELSE CallSim("mode", [loc EXCEPT !.mode = @ - 1])
  /\ UNCHANGED <<status, simStatus, appVars, radioVars, ppp, sockVars>>

RetMode ==
  /\ Returned("mode")
  /\ simStatus' = loc.ret
  /\ \/ loc.ret = "ok" /\ modem /\ Leave("connect", [loc EXCEPT !.tries = 0])
     \/ Leave("setMode", loc)
  /\ UNCHANGED <<status, appVars, radioVars, linkVars, sockVars>>

\* Mutant of DialFailed: the failed dial is not counted.
DialFailedUncounted ==
  /\ pc = "dialFailed"
  /\ IF loc.conns + 1 > Retries
       THEN Leave("top", DialOver([loc EXCEPT !.conns = 0, !.links = 0]))
       ELSE StartDial(loc)
  /\ UNCHANGED <<status, simStatus, appVars, radioVars, linkVars, sockVars>>

DialFailed ==
  /\ pc = "dialFailed"
  /\ IF loc.conns + 1 > Retries
       THEN Leave("top", DialOver([loc EXCEPT !.conns = 0, !.links = 0]))
       ELSE StartDial([loc EXCEPT !.conns = @ + 1])
  /\ UNCHANGED <<status, simStatus, appVars, radioVars, linkVars, sockVars>>

\* check_network_connection_monitor(), which any interface can satisfy.
NetCheck ==
  /\ pc = "netcheck"
  /\ \/ Goto("ready") /\ KeepLocals
     \/ IF loc.links + 1 > Retries
          THEN Goto("top") /\ loc' = [loc EXCEPT !.conns = 0, !.links = 0]
          ELSE StartDial([loc EXCEPT !.links = @ + 1])
  /\ UNCHANGED <<status, simStatus, appVars, radioVars, linkVars, sockVars>>

-----------------------------------------------------------------------------
(* link_listener() and read_event().                                       *)

\* Mutant of Ready: a stop seen here leaves without gsm_at_port_close().
ReadyWithoutPortClose ==
  /\ pc = "ready"
  /\ Goto(IF status = -1 THEN "stopSocket" ELSE "listen")
  /\ KeepLocals
  /\ UNCHANGED <<status, simStatus, appVars, radioVars, linkVars, sockVars>>

\* The only look at the stop request between the dial and the listener.
Ready ==
  /\ pc = "ready"
  /\ Goto(IF status = -1 THEN "quitModem" ELSE "listen")
  /\ KeepLocals
  /\ UNCHANGED <<status, simStatus, appVars, radioVars, linkVars, sockVars>>

ManagerKeeps == UNCHANGED <<status, loc, simStatus, appVars, radioVars>>

\* Mutant of Listen: the result of socket() is not tested.
ListenUnchecked ==
  /\ pc = "listen"
  /\ \/ \E f \in Fds : /\ owner[f] = "free"
                       /\ owner' = [owner EXCEPT ![f] = "netlink"]
                       /\ nlSocket' = f
     \/ nlSocket' = -1 /\ UNCHANGED owner
  /\ Goto("bind")
  /\ ManagerKeeps
  /\ UNCHANGED <<linkVars, pending>>

\* socket(); a failure returns 0 and the caller's loop tries again.
Listen ==
  /\ pc = "listen"
  /\ \/ \E f \in Fds : /\ owner[f] = "free"
                       /\ owner' = [owner EXCEPT ![f] = "netlink"]
                       /\ nlSocket' = f
        /\ Goto("bind")
     \/ nlSocket' = -1 /\ Goto("listen") /\ UNCHANGED owner
  /\ ManagerKeeps
  /\ UNCHANGED <<linkVars, pending>>

\* bind() through the global nl_socket, which may have been closed meanwhile.  The
\* kernel refuses it while the port number is taken (EADDRINUSE).
SocketBinds ==
  /\ OwnsSocket /\ ~PortTaken
  /\ owner' = [owner EXCEPT ![nlSocket] = "bound"] /\ pending' = {}
  /\ Goto("recv")

\* Mutant of Bind: the error path returns without close().
BindWithoutClose ==
  /\ pc = "bind"
  /\ \/ SocketBinds
     \/ Goto("listen") /\ UNCHANGED <<owner, pending>>
  /\ ManagerKeeps
  /\ UNCHANGED <<linkVars, nlSocket>>

Bind ==
  /\ pc = "bind"
  /\ \/ SocketBinds
     \/ /\ Goto(IF nlSocket > 0 THEN "bindClose" ELSE "listen")
        /\ UNCHANGED <<owner, pending>>
  /\ ManagerKeeps
  /\ UNCHANGED <<linkVars, nlSocket>>

\* recvmsg() on nl_socket, re-read for every message.  A socket that is not bound
\* (nl_socket was reset, and standard input is a lost socket) hears nothing.
Recv ==
  /\ pc = "recv"
  /\ Goto(IF ~OwnsSocket THEN "lost"
          ELSE IF owner[nlSocket] = "bound" THEN "blocked" ELSE "deaf")
  /\ ManagerKeeps
  /\ UNCHANGED <<linkVars, sockVars>>

\* A message: ppp0 going down takes the link down, any other event asks
\* CheckLink().  A receive error counts as a loss too.  (The returns of 0, lines
\* 779 and 817, need a dump or a truncated message: link events are neither.)
LinkEvent(e) ==
  /\ pc = "blocked" /\ e \in pending
  /\ \/ e = "pppDown" /\ ppp' = FALSE
        /\ pppd' = (IF pppd = "running" THEN "dying" ELSE pppd)
        /\ Goto("lost")
     \/ e = "other" /\ Goto(IF ppp THEN "recv" ELSE "lost") /\ UNCHANGED linkVars
     \/ Goto("lost") /\ UNCHANGED linkVars
  /\ ManagerKeeps
  /\ UNCHANGED <<nlSocket, owner>>
  /\ QueueOnce(pending \ {e}, FALSE)

\* The three closes of nl_socket: the test, close(), and the reset to 0 are
\* separate steps (lines 867-872, 880-886 and 916-921).
TestSocket ==
  /\ \/ pc = "lost" /\ Goto(IF nlSocket # 0 THEN "lostClose" ELSE "top")
     \/ pc = "stopSocket" /\ Goto(IF nlSocket > 0 THEN "stopClose" ELSE "idle")
  /\ ManagerKeeps
  /\ UNCHANGED <<linkVars, sockVars>>

CloseSocket ==
  /\ pc \in {"bindClose", "lostClose", "stopClose"}
  /\ Goto(CASE pc = "bindClose" -> "bindReset"
            [] pc = "lostClose" -> "lostReset"
            [] OTHER -> "stopReset")
  /\ CloseFd(nlSocket)
  /\ ManagerKeeps
  /\ UNCHANGED <<linkVars, nlSocket>>

ResetSocket ==
  /\ pc \in {"bindReset", "lostReset", "stopReset"}
  /\ Goto(CASE pc = "bindReset" -> "listen" [] pc = "lostReset" -> "top" [] OTHER -> "idle")
  /\ nlSocket' = 0
  /\ ManagerKeeps
  /\ UNCHANGED <<linkVars, owner, pending>>

\* network_status = 0 and return.
GoIdle ==
  /\ pc = "idle"
  /\ status' = 0
  /\ Goto("none") /\ loc' = FreshLocals
  /\ UNCHANGED <<simStatus, appVars, radioVars, linkVars, sockVars>>

Manager ==
  \/ Top \/ PortClose \/ ModemOn \/ OnAnswer \/ GpsInit
  \/ SimEnter \/ SimPoll \/ RetOn \/ RetReg \/ Flight
  \/ SignalFailed \/ SignalWeak \/ SignalGood
  \/ RetDial \/ Connect \/ LinkCheck \/ RetPoll \/ SetMode \/ RetMode
  \/ DialFailed \/ NetCheck
  \/ Ready \/ Listen \/ Bind \/ Recv \/ (\E e \in Events : LinkEvent(e))
  \/ TestSocket \/ CloseSocket \/ ResetSocket \/ GoIdle

-----------------------------------------------------------------------------
(* The application thread: init(), deinit(), network_monitor_disable().    *)

ManagerUntouched == UNCHANGED <<pc, loc, simStatus, radioVars>>

\* Mutant of StartInit: the thread is created whatever network_enable says.
StartInitUngated(n) ==
  /\ cpc = "app" /\ (status = 0 \/ Reinit)
  /\ netEnable' = n
  /\ cpc' = IF status = 0 THEN "create" ELSE "app"
  /\ ManagerUntouched
  /\ UNCHANGED <<status, sawLink, polls, linkVars, sockVars>>

\* init(network_enable): the gate is stored first, the thread is created at the
\* end, and only if none runs.  An application that pairs init() with deinit(),
\* as the sample application does, is Reinit = FALSE.  Restart = FALSE is a bound:
\* no manager starts once the port number was lost.
StartInit(n) ==
  /\ cpc = "app" /\ (status = 0 \/ Reinit)
  /\ n = 1 => Restart \/ ~PortLost
  /\ netEnable' = n
  /\ cpc' = IF n = 1 /\ status = 0 THEN "create" ELSE "app"
  /\ ManagerUntouched
  /\ UNCHANGED <<status, sawLink, polls, linkVars, sockVars>>

\* pthread_create(), which may fail; network_status is set to 1 only afterwards.
CreateManager ==
  /\ cpc = "create"
  /\ \/ pc' = "top" /\ loc' = FreshLocals /\ cpc' = "mark"
     \/ cpc' = "app" /\ UNCHANGED <<pc, loc>>
  /\ UNCHANGED <<status, netEnable, sawLink, polls, simStatus, radioVars, linkVars, sockVars>>

MarkRunning ==
  /\ cpc = "mark"
  /\ status' = 1
  /\ cpc' = "app"
  /\ ManagerUntouched
  /\ UNCHANGED <<netEnable, sawLink, polls, linkVars, sockVars>>

\* network_monitor_disable(), called by the application or by deinit() when
\* network_enable_status is 1.  It fails at once unless network_status is 1.
StopManager ==
  /\ cpc = "app" /\ status = 1
  /\ cpc' = "checkLink"
  /\ ManagerUntouched
  /\ UNCHANGED <<status, netEnable, sawLink, polls, linkVars, sockVars>>

CheckLinkFirst ==
  /\ cpc = "checkLink"
  /\ sawLink' = ppp
  /\ cpc' = "request"
  /\ ManagerUntouched
  /\ UNCHANGED <<status, netEnable, polls, linkVars, sockVars>>

RequestStop ==
  /\ cpc = "request"
  /\ status' = -1
  /\ polls' = 0
  /\ cpc' = IF sawLink THEN "linkDown" ELSE "poll"
  /\ ManagerUntouched
  /\ UNCHANGED <<netEnable, sawLink, linkVars, sockVars>>

StopLink ==
  /\ cpc = "linkDown"
  /\ TakeLinkDown
  /\ cpc' = "poll"
  /\ ManagerUntouched
  /\ UNCHANGED <<status, netEnable, sawLink, polls, nlSocket, owner>>

\* One turn of the waiting loop.  With the link down at the start it tests
\* nl_socket on every turn, otherwise on every tenth.
Poll ==
  /\ cpc = "poll"
  /\ LET tests == ~sawLink \/ polls + 1 >= DetachPolls
     IN /\ cpc' = CASE status = 0 -> "app"
                    [] status # 0 /\ tests /\ nlSocket > 0 -> "dClose"
                    [] OTHER -> "poll"
        /\ polls' = IF tests \/ status = 0 THEN 0 ELSE polls + 1
  /\ sawLink' = (status # 0 /\ sawLink)
  /\ ManagerUntouched
  /\ UNCHANGED <<status, netEnable, linkVars, sockVars>>

DisableClose ==
  /\ cpc = "dClose"
  /\ CloseFd(nlSocket)
  /\ cpc' = "dReset"
  /\ ManagerUntouched
  /\ UNCHANGED <<status, netEnable, sawLink, polls, linkVars, nlSocket>>

DisableReset ==
  /\ cpc = "dReset"
  /\ nlSocket' = 0
  /\ cpc' = "poll"
  /\ ManagerUntouched
  /\ UNCHANGED <<status, netEnable, sawLink, polls, linkVars, owner, pending>>

Application ==
  \/ \E n \in {0, 1} : StartInit(n)
  \/ CreateManager \/ MarkRunning
  \/ StopManager \/ CheckLinkFirst \/ RequestStop \/ StopLink
  \/ Poll \/ DisableClose \/ DisableReset

-----------------------------------------------------------------------------
(* The modem, pppd, the kernel and the program's other threads.            *)

ThreadsIdle == UNCHANGED <<status, loc, pc, appVars, simStatus>>

ModemDrops ==
  /\ modem
  /\ modem' = FALSE
  /\ ppp' = FALSE
  /\ IF ppp THEN Notify("pppDown") ELSE UNCHANGED pending
  /\ ThreadsIdle
  /\ UNCHANGED <<power, gps, pppd, nlSocket, owner>>

ModemReturns ==
  /\ power /\ ~modem
  /\ modem' = TRUE
  /\ ThreadsIdle
  /\ UNCHANGED <<power, gps, linkVars, sockVars>>

PppUp ==
  /\ pppd = "running" /\ modem /\ ~ppp
  /\ ppp' = TRUE
  /\ Notify("other")
  /\ ThreadsIdle
  /\ UNCHANGED <<radioVars, pppd, nlSocket, owner>>

PppDrops ==
  /\ ppp
  /\ ppp' = FALSE
  /\ Notify("pppDown")
  /\ ThreadsIdle
  /\ UNCHANGED <<radioVars, pppd, nlSocket, owner>>

\* A killed pppd removes ppp0, which is a link event of its own.
PppdExits ==
  /\ pppd = "dying"
  /\ pppd' = "none" /\ ppp' = FALSE
  /\ Notify("other")
  /\ ThreadsIdle
  /\ UNCHANGED <<radioVars, nlSocket, owner>>

OtherLinkEvent ==
  /\ PortTaken /\ "other" \notin pending
  /\ Notify("other")
  /\ ThreadsIdle
  /\ UNCHANGED <<radioVars, linkVars, nlSocket, owner>>

OtherOpens(f) ==
  /\ owner[f] = "free"
  /\ owner' = [owner EXCEPT ![f] = "other"]
  /\ ThreadsIdle
  /\ UNCHANGED <<radioVars, linkVars, nlSocket, pending>>

OtherCloses(f) ==
  /\ f # 0 /\ owner[f] = "other"
  /\ owner' = [owner EXCEPT ![f] = "free"]
  /\ ThreadsIdle
  /\ UNCHANGED <<radioVars, linkVars, nlSocket, pending>>

Environment ==
  \/ ModemDrops \/ ModemReturns \/ PppUp \/ PppDrops \/ PppdExits \/ OtherLinkEvent
  \/ \E f \in Fds : OtherOpens(f) \/ OtherCloses(f)

Next == Manager \/ Application \/ Environment

Spec == Init /\ [][Next]_vars

-----------------------------------------------------------------------------
(* Safety.                                                                 *)

\* A stop that has been answered is complete: once network_status is back to 0
\* and no start is under way, the thread has returned, the GPS port is closed
\* and the modem's supply is off (init.c 163-175, 4g_monitor.c 911-923).  In
\* particular init() never creates a second manager (init.c 555-557).
StoppedIsQuiet ==
  status = 0 /\ cpc # "mark" => pc = "none" /\ ~gps /\ ~power

\* If every init() is paired with a deinit(), the gate of the direct modem
\* interface in 4g.c (network_enable_status = 0) is open only while no manager
\* drives the modem.  init(0) after init(1) would open it under the manager.
GateSound == ~Reinit /\ netEnable = 0 => pc = "none" /\ status = 0

\* While no stop is requested, the socket the manager binds, reads and closes
\* through the global nl_socket is its own, never a descriptor that another
\* thread was given after a close (4g_monitor.c 865-887).
OwnSocket ==
  status # -1 /\ pc \in {"bind", "bindClose", "recv", "blocked", "lost", "lostClose"}
    => OwnsSocket


\* Outside a stop request no socket is leaked, as long as standard input has not
\* been closed (a socket numbered 0 passes for "no socket" at line 880).
NoLeakWhileRunning ==
  [][status # -1 /\ owner[0] = "other" => Leaked' \subseteq Leaked]_vars

-----------------------------------------------------------------------------
(* What the application is promised: ManagerLifecycle.                     *)

Phase == IF status = -1 THEN "stopping" ELSE IF pc # "none" THEN "running" ELSE "idle"

Lifecycle == INSTANCE ManagerLifecycle WITH phase <- Phase, radio <- power \/ gps

\* The two threads and their races on network_status implement the lifecycle:
\* a manager starts only when none runs, a stop request stands until it is
\* answered, and it is answered only with the modem off and the GPS port closed.
LifecycleSpec == Lifecycle!Spec

-----------------------------------------------------------------------------
(* How far a stop request is from its answer.                              *)

\* Where the manager is, the six callers of the SIM query told apart.
Querying == pc \in {"simEnter", "sim", "simRet"}
Place == IF Querying THEN loc.site ELSE pc

\* The stages of a stop, counted down to the answer.  The loops of the manager are
\* within one: registration (19), signal (18) and dialling (17).
StageOf ==
  [none |-> 0, idle |-> 1, stopReset |-> 2, stopClose |-> 3, stopSocket |-> 4,
   stopModem |-> 5, quitModem |-> 5, top |-> 6, recycle |-> 7, lostReset |-> 7,
   lostClose |-> 8, lost |-> 9, blocked |-> 10, deaf |-> 10, recv |-> 11, bindReset |-> 12,
   bindClose |-> 13, bind |-> 14, listen |-> 15, ready |-> 16,
   dial |-> 17, connect |-> 17, linkCheck |-> 17, poll |-> 17, setMode |-> 17,
   mode |-> 17, dialFailed |-> 17, netcheck |-> 17, signal |-> 18,
   reg |-> 19, flight |-> 19, gpsInit |-> 20, on |-> 21, onAnswer |-> 22, modemOn |-> 23]

\* Turns that the loop of the present stage has left.
TurnsLeft ==
  IF StageOf[Place] = 19 THEN FlightCycles - 1 - loc.regs
    ELSE IF StageOf[Place] = 18 THEN SignalErrors - loc.sigs
    ELSE IF StageOf[Place] = 17 THEN (Retries - loc.conns) + (Retries - loc.links)
    ELSE 0

\* Within one dial: the modes below, the part of the present mode, its attempts.
ModesLeft == IF Place \in {"dialFailed", "netcheck"} THEN 0 ELSE loc.mode
Attempting == Place \in {"connect", "linkCheck", "poll"}
Rung ==
  IF Place \in {"dial", "mode"} THEN 3
    ELSE IF Attempting THEN 2
    ELSE IF Place = "setMode" THEN 1 ELSE 0
TriesLeft == IF Attempting THEN DialTries - 1 - loc.tries ELSE 0
StepsLeft ==
  IF pc = "connect" THEN 5
    ELSE IF pc = "linkCheck" THEN 4
    ELSE IF pc = "simEnter" THEN 3
    ELSE IF pc = "sim" THEN 2
    ELSE IF pc = "simRet" THEN 1 ELSE 0

Distance == <<StageOf[Place], TurnsLeft, ModesLeft, Rung, TriesLeft, StepsLeft>>

\* The lexicographic order, in which no sequence of naturals descends for ever.
Below(a, b) ==
  \E i \in 1..6 : a[i] < b[i] /\ \A j \in 1..6 : j < i => a[j] = b[j]

\* The waits that have no bound: a weak signal (985-1013), a listener that gets no
\* socket (1074-1085), and an event that leaves the link up (770).
WaitsOn ==
  SignalWeak \/ pc' = "listen" \/ (pc = "blocked" /\ pc' = "recv")

\* While a stop request stands, every step of the manager, but for those waits,
\* brings the answer nearer: no loop (registration, signal, dial, link check, mode
\* ladder, power cycle) comes back to where it was, and no second manager starts.
StopComesNearer ==
  [][status = -1 /\ <<pc, loc>>' # <<pc, loc>> /\ ~WaitsOn =>
       Distance' \in Seq(Nat) /\ Below(Distance', Distance)]_vars

-----------------------------------------------------------------------------
(* Liveness.                                                               *)

\* The scheduler runs both threads (a call that has begun goes on; whether the
\* application calls at all is its own affair), and a killed pppd exits.
AppCallGoesOn ==
  CreateManager \/ MarkRunning \/ CheckLinkFirst \/ RequestStop \/ StopLink
    \/ Poll \/ DisableClose \/ DisableReset
Scheduled == WF_vars(Manager) /\ WF_vars(AppCallGoesOn) /\ WF_vars(PppdExits)

\* The four waits of the manager that no code bounds and no stop request cuts
\* short are left to the modem and the kernel: the SIM query while the ports are
\* gone (316-375), the weak signal (985-1013), recvmsg() (770), and a listener
\* that gets no bound socket (1074-1085).  The last takes the program's port number
\* to be free again and again: no netlink socket of another part keeps it.
SignalAnswers == SignalGood \/ SignalFailed
SocketMade == Listen /\ pc' = "bind"
SocketBound == Bind /\ pc' = "recv"
DescriptorFreed == \E f \in Fds : OtherCloses(f)
WaitsEnd ==
  /\ WF_vars(ModemReturns) /\ SF_vars(SimPoll)
  /\ SF_vars(SignalAnswers)
  /\ WF_vars(OtherLinkEvent)
  /\ WF_vars(DescriptorFreed) /\ SF_vars(SocketMade) /\ SF_vars(SocketBound)

FairSpec == Spec /\ Scheduled /\ WaitsEnd

=============================================================================
