------------------------- MODULE NetworkManager_proofs -------------------------
(***************************************************************************)
(* Proofs about NetworkManager, for every value of its constants.          *)
(***************************************************************************)
EXTENDS NetworkManager, TLAPS

-----------------------------------------------------------------------------
(* The manager's local variables stay in their ranges.                     *)

\* The site and the result of a SIM query can be stored in any locals.
LEMMA LocalsReturn ==
  ASSUME NEW l \in Locals, NEW s \in Sites, NEW r \in {"ok", "error"}
  PROVE  [l EXCEPT !.site = s, !.ret = r] \in Locals
  BY DEF Locals

LEMMA LocalsResult ==
  ASSUME NEW l \in Locals
  PROVE  [l EXCEPT !.ret = "ok"] \in Locals /\ [l EXCEPT !.ret = "error"] \in Locals
  BY DEF Locals

\* The locals of a thread that has just been created.
LEMMA LocalsFresh == FreshLocals \in Locals
  BY NMAssumption DEF FreshLocals, Locals, Sites

\* The end of a dial resets the network mode and the tries.
LEMMA LocalsDialOver == ASSUME NEW l \in Locals PROVE DialOver(l) \in Locals
<1>1. Modes \in 0..Modes /\ 0 \in 0..(DialTries - 1)
  BY NMAssumption
<1>2. [l EXCEPT !.mode = Modes] \in Locals
  BY <1>1 DEF Locals
<1> QED
  BY <1>1, <1>2 DEF DialOver, Locals

\* Each counter of the manager is reset, or counted up below its limit.
LEMMA LocalsCounters ==
  ASSUME NEW l \in Locals
  PROVE  /\ [l EXCEPT !.regs = 0] \in Locals
         /\ l.regs + 1 # FlightCycles => [l EXCEPT !.regs = @ + 1] \in Locals
         /\ [l EXCEPT !.sigs = 0] \in Locals
         /\ ~(l.sigs + 1 > SignalErrors) => [l EXCEPT !.sigs = @ + 1] \in Locals
         /\ [l EXCEPT !.conns = 0, !.links = 0] \in Locals
         /\ ~(l.conns + 1 > Retries) => [l EXCEPT !.conns = @ + 1] \in Locals
         /\ ~(l.links + 1 > Retries) => [l EXCEPT !.links = @ + 1] \in Locals
         /\ [l EXCEPT !.tries = 0] \in Locals
         /\ l.tries + 1 < DialTries => [l EXCEPT !.tries = @ + 1] \in Locals
         /\ l.mode # 0 => [l EXCEPT !.mode = @ - 1] \in Locals
<1> USE NMAssumption DEF Locals
<1>1. [l EXCEPT !.regs = 0] \in Locals
  OBVIOUS
<1>2. l.regs + 1 # FlightCycles => [l EXCEPT !.regs = @ + 1] \in Locals
  OBVIOUS
<1>3. [l EXCEPT !.sigs = 0] \in Locals
  OBVIOUS
<1>4. ~(l.sigs + 1 > SignalErrors) => [l EXCEPT !.sigs = @ + 1] \in Locals
  OBVIOUS
<1>5. [l EXCEPT !.conns = 0, !.links = 0] \in Locals
  <2>1. [l EXCEPT !.conns = 0] \in Locals
    OBVIOUS
  <2> QED
    BY <2>1
<1>6. ~(l.conns + 1 > Retries) => [l EXCEPT !.conns = @ + 1] \in Locals
  OBVIOUS
<1>7. ~(l.links + 1 > Retries) => [l EXCEPT !.links = @ + 1] \in Locals
  OBVIOUS
<1>8. [l EXCEPT !.tries = 0] \in Locals
  OBVIOUS
<1>9. l.tries + 1 < DialTries => [l EXCEPT !.tries = @ + 1] \in Locals
  OBVIOUS
<1>10. l.mode # 0 => [l EXCEPT !.mode = @ - 1] \in Locals
  OBVIOUS
<1> HIDE DEF Locals
<1> QED
  BY <1>1, <1>2, <1>3, <1>4, <1>5, <1>6, <1>7, <1>8, <1>9, <1>10

\* Entering and leaving the SIM query, from any of its call sites.
LEMMA CallTyped ==
  ASSUME NEW l \in Locals, NEW s \in Sites, CallSim(s, l)
  PROVE  pc' \in ManagerPc /\ loc' \in Locals
  BY LocalsReturn DEF CallSim, Goto, ManagerPc

LEMMA LeaveTyped ==
  ASSUME NEW l \in Locals, NEW p \in ManagerPc, Leave(p, l)
  PROVE  pc' \in ManagerPc /\ loc' \in Locals
  BY LocalsReturn DEF Leave, Goto, Sites

LEMMA StartDialTyped ==
  ASSUME NEW l \in Locals, StartDial(l)
  PROVE  pc' \in ManagerPc /\ loc' \in Locals
  BY CallTyped, LocalsDialOver DEF StartDial, Sites

-----------------------------------------------------------------------------
(* Link events, the link and the descriptor table.                         *)

LEMMA NotifyTyped ==
  ASSUME TypeOK, NEW e \in Events, Notify(e)
  PROVE  pending' \in SUBSET Events
  BY DEF TypeOK, Notify

LEMMA LinkDownTyped ==
  ASSUME TypeOK, TakeLinkDown
  PROVE  ppp' \in BOOLEAN /\ pppd' \in {"none", "running", "dying"} /\ pending' \in SUBSET Events
<1>1. pending' \in SUBSET Events
  BY NotifyTyped DEF TypeOK, TakeLinkDown, Events
<1> QED
  BY <1>1 DEF TypeOK, TakeLinkDown

LEMMA CloseTyped ==
  ASSUME TypeOK, NEW f, CloseFd(f)
  PROVE  owner' \in [Fds -> Owners] /\ pending' \in SUBSET Events
<1>1. owner' \in [Fds -> Owners]
  BY DEF TypeOK, CloseFd, Owners
<1>2. pending' \in SUBSET Events
  BY DEF TypeOK, CloseFd, QueueOnce
<1> QED
  BY <1>1, <1>2

-----------------------------------------------------------------------------
(* Type correctness.                                                       *)

\* The variables keep their types, the retry counters their bounds: the counters
\* of the nested retry loops of network_manager() never pass their limits.
THEOREM TypeCorrect == Spec => []TypeOK
<1>1. Init => TypeOK
  <2> SUFFICES ASSUME Init PROVE TypeOK
    OBVIOUS
  <2>1. loc \in Locals /\ polls \in 0..(DetachPolls - 1) /\ nlSocket \in Fds \cup {-1}
    BY LocalsFresh, NMAssumption DEF Init
  <2>2. owner \in [Fds -> Owners]
    BY DEF Init, Owners
  <2>3. pc \in ManagerPc /\ cpc \in AppPc /\ simStatus \in SimValues
    BY DEF Init, ManagerPc, AppPc, SimValues
  <2> QED
    BY <2>1, <2>2, <2>3 DEF Init, TypeOK
<1>2. TypeOK /\ [Next]_vars => TypeOK'
  <2> SUFFICES ASSUME TypeOK, [Next]_vars PROVE TypeOK'
    OBVIOUS
  <2>1. CASE Top
    BY <2>1 DEF TypeOK, Top, appVars, radioVars, linkVars, sockVars, Goto, KeepLocals,
      ManagerPc
  <2>2. CASE PortClose
    <3>1. pc' \in ManagerPc /\ loc' \in Locals
      BY <2>2 DEF TypeOK, PortClose, Goto, KeepLocals, AfterPortClose, ManagerPc
    <3>2. ppp' \in BOOLEAN /\ pppd' \in {"none", "running", "dying"} /\ pending' \in SUBSET Events
      BY <2>2, LinkDownTyped DEF TypeOK, PortClose
    <3>3. modem' \in BOOLEAN
      BY <2>2 DEF TypeOK, PortClose
    <3> QED
      BY <2>2, <3>1, <3>2, <3>3 DEF TypeOK, PortClose, appVars, radioVars, linkVars,
        sockVars
  <2>3. CASE ModemOn
    <3>1. pc' \in ManagerPc /\ loc' \in Locals
      BY <2>3 DEF TypeOK, ModemOn, Goto, KeepLocals, ManagerPc
    <3>2. modem' \in BOOLEAN /\ power' \in BOOLEAN /\ gps' \in BOOLEAN
      BY <2>3 DEF TypeOK, ModemOn, radioVars
    <3>3. simStatus' \in SimValues
      BY <2>3 DEF TypeOK, ModemOn, SimValues
    <3> QED
      BY <2>3, <3>1, <3>2, <3>3 DEF TypeOK, ModemOn, appVars, radioVars, linkVars,
        sockVars
  <2>4. CASE OnAnswer
    <3>1. pc' \in ManagerPc /\ loc' \in Locals
      BY <2>4, CallTyped DEF TypeOK, OnAnswer, Sites, Goto, KeepLocals, ManagerPc
    <3>2. simStatus' \in SimValues
      BY <2>4 DEF TypeOK, OnAnswer, SimValues
    <3> QED
      BY <2>4, <3>1, <3>2 DEF TypeOK, OnAnswer, appVars, radioVars, linkVars, sockVars
  <2>5. CASE GpsInit
    <3>1. pc' \in ManagerPc /\ loc' \in Locals
      BY <2>5, CallTyped DEF TypeOK, GpsInit, Sites
    <3>2. gps' \in BOOLEAN
      BY <2>5 DEF TypeOK, GpsInit
    <3> QED
      BY <2>5, <3>1, <3>2 DEF TypeOK, GpsInit, appVars, linkVars, sockVars, radioVars
  <2>6. CASE SimEnter
    <3>1. pc' \in ManagerPc /\ loc' \in Locals
      BY <2>6, LocalsResult DEF TypeOK, SimEnter, Goto, KeepLocals, ManagerPc
    <3>2. simStatus' \in SimValues
      BY <2>6 DEF TypeOK, SimEnter, SimValues
    <3> QED
      BY <2>6, <3>1, <3>2 DEF TypeOK, SimEnter, appVars, radioVars, linkVars, sockVars
  <2>7. CASE SimPoll
    <3>1. pc' \in ManagerPc /\ loc' \in Locals
      BY <2>7, LocalsResult DEF TypeOK, SimPoll, Goto, ManagerPc
    <3>2. simStatus' \in SimValues
      BY <2>7 DEF TypeOK, SimPoll, SimValues
    <3> QED
      BY <2>7, <3>1, <3>2 DEF TypeOK, SimPoll, appVars, radioVars, linkVars, sockVars
  <2>8. CASE RetOn
    <3>1. pc' \in ManagerPc /\ loc' \in Locals
      BY <2>8, LeaveTyped DEF TypeOK, RetOn, ManagerPc
    <3>2. simStatus' \in SimValues
      BY <2>8 DEF TypeOK, RetOn, SimValues, Locals
    <3> QED
      BY <2>8, <3>1, <3>2 DEF TypeOK, RetOn, appVars, radioVars, linkVars, sockVars
  <2>9. CASE RetReg
    <3>1. pc' \in ManagerPc /\ loc' \in Locals
      BY <2>9, CallTyped, LeaveTyped DEF TypeOK, RetReg, Sites, ManagerPc
    <3> QED
      BY <2>9, <3>1 DEF TypeOK, RetReg, appVars, radioVars, linkVars, sockVars
  <2>10. CASE Flight
    <3>1. pc' \in ManagerPc /\ loc' \in Locals
      BY <2>10, CallTyped, LocalsCounters DEF TypeOK, Flight, Goto, Sites, ManagerPc
    <3> QED
      BY <2>10, <3>1 DEF TypeOK, Flight, appVars, radioVars, linkVars, sockVars
  <2>11. CASE SignalFailed
    <3>1. pc' \in ManagerPc /\ loc' \in Locals
      BY <2>11, CallTyped, LeaveTyped, LocalsCounters DEF TypeOK, SignalFailed, Sites,
        ManagerPc
    <3> QED
      BY <2>11, <3>1 DEF TypeOK, SignalFailed, appVars, radioVars, linkVars, sockVars
  <2>12. CASE SignalWeak
    <3>1. pc' \in ManagerPc /\ loc' \in Locals
      BY <2>12, CallTyped DEF TypeOK, SignalWeak, Sites
    <3> QED
      BY <2>12, <3>1 DEF TypeOK, SignalWeak, appVars, radioVars, linkVars, sockVars
  <2>13. CASE SignalGood
    <3>1. pc' \in ManagerPc /\ loc' \in Locals
      BY <2>13, StartDialTyped DEF TypeOK, SignalGood
    <3> QED
      BY <2>13, <3>1 DEF TypeOK, SignalGood, appVars, radioVars, linkVars, sockVars
  <2>14. CASE RetDial
    <3>1. pc' \in ManagerPc /\ loc' \in Locals
      BY <2>14, LeaveTyped DEF TypeOK, RetDial, ManagerPc
    <3> QED
      BY <2>14, <3>1 DEF TypeOK, RetDial, appVars, radioVars, linkVars, sockVars
  <2>15. CASE Connect
    BY <2>15 DEF TypeOK, Connect, appVars, radioVars, sockVars, Goto, KeepLocals,
      linkVars, ManagerPc
  <2>16. CASE LinkCheck
    <3>1. pc' \in ManagerPc /\ loc' \in Locals
      BY <2>16, CallTyped, LeaveTyped, LocalsDialOver DEF TypeOK, LinkCheck, Sites,
        ManagerPc
    <3> QED
      BY <2>16, <3>1 DEF TypeOK, LinkCheck, appVars, radioVars, linkVars, sockVars
  <2>17. CASE RetPoll
    <3>1. pc' \in ManagerPc /\ loc' \in Locals
      BY <2>17, LeaveTyped, LocalsDialOver, LocalsCounters DEF TypeOK, RetPoll,
        ManagerPc
    <3> QED
      BY <2>17, <3>1 DEF TypeOK, RetPoll, appVars, radioVars, linkVars, sockVars
  <2>18. CASE SetMode
    <3>1. pc' \in ManagerPc /\ loc' \in Locals
      BY <2>18, CallTyped, LocalsCounters DEF TypeOK, SetMode, Goto, KeepLocals,
        Sites, ManagerPc
    <3>2. pppd' \in {"none", "running", "dying"}
      BY <2>18 DEF TypeOK, SetMode
    <3> QED
      BY <2>18, <3>1, <3>2 DEF TypeOK, SetMode, appVars, radioVars, sockVars, linkVars
  <2>19. CASE RetMode
    <3>1. pc' \in ManagerPc /\ loc' \in Locals
      BY <2>19, LeaveTyped, LocalsCounters DEF TypeOK, RetMode, ManagerPc
    <3>2. simStatus' \in SimValues
      BY <2>19 DEF TypeOK, RetMode, SimValues, Locals
    <3> QED
      BY <2>19, <3>1, <3>2 DEF TypeOK, RetMode, appVars, radioVars, linkVars, sockVars
  <2>20. CASE DialFailed
    <3>1. pc' \in ManagerPc /\ loc' \in Locals
      BY <2>20, LeaveTyped, StartDialTyped, LocalsDialOver, LocalsCounters DEF TypeOK,
        DialFailed, ManagerPc
    <3> QED
      BY <2>20, <3>1 DEF TypeOK, DialFailed, appVars, radioVars, linkVars, sockVars
  <2>21. CASE NetCheck
    <3>1. pc' \in ManagerPc /\ loc' \in Locals
      BY <2>21, StartDialTyped, LocalsCounters DEF TypeOK, NetCheck, Goto, KeepLocals,
        ManagerPc
    <3> QED
      BY <2>21, <3>1 DEF TypeOK, NetCheck, appVars, radioVars, linkVars, sockVars
  <2>22. CASE Ready
    BY <2>22 DEF TypeOK, Ready, appVars, radioVars, linkVars, sockVars, Goto,
      KeepLocals, ManagerPc
  <2>23. CASE Listen
    BY <2>23 DEF TypeOK, Listen, ManagerKeeps, linkVars, Goto, KeepLocals, sockVars,
      appVars, radioVars, ManagerPc, Owners, Sockets
  <2>24. CASE Bind
    <3>1. pc' \in ManagerPc /\ loc' \in Locals
      BY <2>24 DEF TypeOK, Bind, SocketBinds, Goto, ManagerKeeps, ManagerPc
    <3>2. owner' \in [Fds -> Owners] /\ pending' \in SUBSET Events
      BY <2>24 DEF TypeOK, Bind, SocketBinds, Owners, Sockets
    <3> QED
      BY <2>24, <3>1, <3>2 DEF TypeOK, Bind, ManagerKeeps, linkVars, sockVars,
        appVars, radioVars
  <2>25. CASE Recv
    BY <2>25 DEF TypeOK, Recv, ManagerKeeps, OwnsSocket, linkVars, sockVars, Goto,
      KeepLocals, appVars, radioVars, ManagerPc
  <2>26. ASSUME NEW e \in Events, LinkEvent(e) PROVE TypeOK'
    <3>1. pc' \in ManagerPc /\ loc' \in Locals
      BY <2>26 DEF TypeOK, LinkEvent, Goto, ManagerKeeps, ManagerPc
    <3>2. pending' \in SUBSET Events
      BY <2>26 DEF TypeOK, LinkEvent, QueueOnce
    <3>3. ppp' \in BOOLEAN /\ pppd' \in {"none", "running", "dying"}
      BY <2>26 DEF TypeOK, LinkEvent, linkVars
    <3> QED
      BY <2>26, <3>1, <3>2, <3>3 DEF TypeOK, LinkEvent, ManagerKeeps, linkVars,
        sockVars, appVars, radioVars
  <2>27. CASE TestSocket
    BY <2>27 DEF TypeOK, TestSocket, ManagerKeeps, linkVars, sockVars, Goto,
      KeepLocals, appVars, radioVars, ManagerPc
  <2>28. CASE CloseSocket
    <3>1. pc' \in ManagerPc /\ loc' \in Locals
      BY <2>28 DEF TypeOK, CloseSocket, Goto, ManagerKeeps, ManagerPc
    <3>2. owner' \in [Fds -> Owners] /\ pending' \in SUBSET Events
      BY <2>28, CloseTyped DEF TypeOK, CloseSocket
    <3> QED
      BY <2>28, <3>1, <3>2 DEF TypeOK, CloseSocket, ManagerKeeps, linkVars, sockVars,
        appVars, radioVars
  <2>29. CASE ResetSocket
    BY <2>29, NMAssumption DEF TypeOK, ResetSocket, ManagerKeeps, linkVars, Goto,
      KeepLocals, sockVars, appVars, radioVars, ManagerPc
  <2>30. CASE GoIdle
    <3>1. pc' \in ManagerPc /\ loc' \in Locals
      BY <2>30, LocalsFresh DEF TypeOK, GoIdle, Goto, ManagerPc
    <3> QED
      BY <2>30, <3>1 DEF TypeOK, GoIdle, appVars, radioVars, linkVars, sockVars
  <2>31. ASSUME NEW n \in {0, 1}, StartInit(n) PROVE TypeOK'
    BY <2>31 DEF TypeOK, StartInit, ManagerUntouched, linkVars, sockVars, radioVars,
      AppPc
  <2>32. CASE CreateManager
    <3>1. pc' \in ManagerPc /\ loc' \in Locals
      BY <2>32, LocalsFresh DEF TypeOK, CreateManager, ManagerPc
    <3>2. cpc' \in AppPc
      BY <2>32 DEF TypeOK, CreateManager, AppPc
    <3> QED
      BY <2>32, <3>1, <3>2 DEF TypeOK, CreateManager, radioVars, linkVars, sockVars,
        AppPc
  <2>33. CASE MarkRunning
    BY <2>33 DEF TypeOK, MarkRunning, ManagerUntouched, linkVars, sockVars, radioVars,
      AppPc
  <2>34. CASE StopManager
    BY <2>34 DEF TypeOK, StopManager, ManagerUntouched, linkVars, sockVars, radioVars,
      AppPc
  <2>35. CASE CheckLinkFirst
    BY <2>35 DEF TypeOK, CheckLinkFirst, ManagerUntouched, linkVars, sockVars,
      radioVars, AppPc
  <2>36. CASE RequestStop
    BY <2>36, NMAssumption DEF TypeOK, RequestStop, ManagerUntouched, linkVars,
      sockVars, radioVars, AppPc
  <2>37. CASE StopLink
    <3>1. ppp' \in BOOLEAN /\ pppd' \in {"none", "running", "dying"} /\ pending' \in SUBSET Events
      BY <2>37, LinkDownTyped DEF TypeOK, StopLink
    <3> QED
      BY <2>37, <3>1 DEF TypeOK, StopLink, ManagerUntouched, radioVars, linkVars,
        sockVars, AppPc
  <2>38. CASE Poll
    BY <2>38, NMAssumption DEF TypeOK, Poll, ManagerUntouched, linkVars, sockVars,
      radioVars, AppPc
  <2>39. CASE DisableClose
    <3>1. owner' \in [Fds -> Owners] /\ pending' \in SUBSET Events
      BY <2>39, CloseTyped DEF TypeOK, DisableClose
    <3> QED
      BY <2>39, <3>1 DEF TypeOK, DisableClose, ManagerUntouched, linkVars, sockVars,
        radioVars, AppPc
  <2>40. CASE DisableReset
    BY <2>40, NMAssumption DEF TypeOK, DisableReset, ManagerUntouched, linkVars,
      sockVars, radioVars, AppPc
  <2>41. CASE ModemDrops
    <3>1. pending' \in SUBSET Events
      BY <2>41, NotifyTyped DEF TypeOK, ModemDrops, Events
    <3> QED
      BY <2>41, <3>1 DEF TypeOK, ModemDrops, ThreadsIdle, appVars, radioVars,
        linkVars, sockVars
  <2>42. CASE ModemReturns
    BY <2>42 DEF TypeOK, ModemReturns, ThreadsIdle, linkVars, sockVars, appVars,
      radioVars
  <2>43. CASE PppUp
    <3>1. pending' \in SUBSET Events
      BY <2>43, NotifyTyped DEF TypeOK, PppUp, Events
    <3> QED
      BY <2>43, <3>1 DEF TypeOK, PppUp, ThreadsIdle, radioVars, linkVars, sockVars,
        appVars
  <2>44. CASE PppDrops
    <3>1. pending' \in SUBSET Events
      BY <2>44, NotifyTyped DEF TypeOK, PppDrops, Events
    <3> QED
      BY ZenonT(40), <2>44, <3>1 DEF TypeOK, PppDrops, ThreadsIdle, radioVars, linkVars, sockVars,
        appVars
  <2>45. CASE PppdExits
    <3>1. pending' \in SUBSET Events
      BY <2>45, NotifyTyped DEF TypeOK, PppdExits, Events
    <3> QED
      BY <2>45, <3>1 DEF TypeOK, PppdExits, ThreadsIdle, radioVars, linkVars,
        sockVars, appVars
  <2>46. CASE OtherLinkEvent
    <3>1. pending' \in SUBSET Events
      BY <2>46, NotifyTyped DEF TypeOK, OtherLinkEvent, Events
    <3> QED
      BY <2>46, <3>1 DEF TypeOK, OtherLinkEvent, ThreadsIdle, radioVars, linkVars,
        sockVars, appVars
  <2>47. ASSUME NEW f \in Fds, OtherOpens(f) PROVE TypeOK'
    BY <2>47 DEF TypeOK, OtherOpens, ThreadsIdle, radioVars, linkVars, sockVars,
      appVars, Owners
  <2>48. ASSUME NEW f \in Fds, OtherCloses(f) PROVE TypeOK'
    BY <2>48 DEF TypeOK, OtherCloses, ThreadsIdle, radioVars, linkVars, sockVars,
      appVars, Owners
  <2>49. CASE UNCHANGED vars
    BY <2>49 DEF TypeOK, vars
  <2> QED
    BY <2>1, <2>2, <2>3, <2>4, <2>5, <2>6, <2>7, <2>8, <2>9, <2>10, <2>11, <2>12,
      <2>13, <2>14, <2>15, <2>16, <2>17, <2>18, <2>19, <2>20, <2>21, <2>22, <2>23,
      <2>24, <2>25, <2>26, <2>27, <2>28, <2>29, <2>30, <2>31, <2>32, <2>33, <2>34,
      <2>35, <2>36, <2>37, <2>38, <2>39, <2>40, <2>41, <2>42, <2>43, <2>44, <2>45,
      <2>46, <2>47, <2>48, <2>49
    DEF Next, Manager, Application, Environment
<1> QED
  BY <1>1, <1>2, PTL DEF Spec

-----------------------------------------------------------------------------
(* Stopping.                                                               *)

\* The manager is at these labels only after it has seen a stop request.
StopPcs == {"stopModem", "quitModem", "stopSocket", "stopClose", "stopReset", "idle"}

\* Where the application stands determines what it may find in network_status.
AppStatus ==
  /\ cpc \in {"create", "mark"} => status = 0 /\ netEnable = 1
  /\ cpc \in {"checkLink", "request"} => status = 1
  /\ cpc = "app" => status \in {0, 1}
  /\ cpc \in {"linkDown", "poll", "dClose", "dReset"} => status \in {-1, 0}

\* network_status is 0 exactly when there is no thread, but for the window between
\* pthread_create() and the assignment that follows it.
Alive == pc = "none" <=> status = 0 /\ cpc # "mark"

StopSeen == pc \in StopPcs => status = -1

RadioOff ==
  pc \in {"none", "stopSocket", "stopClose", "stopReset", "idle"} => ~gps /\ ~power

GateHeld == ~Reinit /\ pc # "none" => netEnable = 1

\* StoppedIsQuiet is not inductive: it needs to know that the thread exits only
\* after a request (StopSeen) and after gsm_at_port_close() (RadioOff), and that
\* status 0 does not appear under a living thread (Alive, AppStatus).
StopInv == AppStatus /\ Alive /\ StopSeen /\ RadioOff /\ GateHeld

\* A step of the manager that neither ends it nor follows from a stop request.
LEMMA WorkStep ==
  ASSUME TypeOK, StopInv, pc # "none", pc' \in ManagerPc, pc' \notin StopPcs \cup {"none"},
         UNCHANGED <<status, netEnable, cpc>>
  PROVE  StopInv'
  BY DEF StopInv, AppStatus, Alive, StopSeen, RadioOff, GateHeld, StopPcs

\* A step of the manager's surroundings.
LEMMA OutsideStep ==
  ASSUME StopInv, UNCHANGED <<status, netEnable, cpc, pc, gps, power>>
  PROVE  StopInv'
  BY DEF StopInv, AppStatus, Alive, StopSeen, RadioOff, GateHeld

LEMMA StopInvInit == Init => StopInv
  BY DEF Init, StopInv, AppStatus, Alive, StopSeen, RadioOff, GateHeld, StopPcs

LEMMA StopInvManager ==
  ASSUME TypeOK, StopInv, Manager
  PROVE  StopInv'
<1> USE DEF Goto, StopPcs, ManagerPc
<1>1. CASE Top
  BY <1>1 DEF Top, appVars, StopInv, AppStatus, Alive, StopSeen, RadioOff, GateHeld,
    radioVars
<1>2. CASE PortClose
  BY <1>2 DEF PortClose, appVars, AfterPortClose, StopInv, AppStatus, Alive, StopSeen,
    RadioOff, GateHeld
<1>3. CASE ModemOn
  BY <1>3, WorkStep DEF ModemOn, appVars
<1>4. CASE OnAnswer
  BY <1>4, WorkStep DEF OnAnswer, appVars, CallSim
<1>5. CASE GpsInit
  BY <1>5, WorkStep DEF GpsInit, appVars, CallSim
<1>6. CASE SimEnter
  BY <1>6, WorkStep DEF SimEnter, appVars
<1>7. CASE SimPoll
  BY <1>7, WorkStep DEF SimPoll, appVars
<1>8. CASE RetOn
  BY <1>8, WorkStep DEF RetOn, appVars, Returned, Leave
<1>9. CASE RetReg
  BY <1>9, WorkStep DEF RetReg, appVars, Returned, CallSim, Leave
<1>10. CASE Flight
  BY <1>10, WorkStep DEF Flight, appVars, CallSim
<1>11. CASE SignalFailed
  BY <1>11, WorkStep DEF SignalFailed, appVars, Returned, CallSim, Leave
<1>12. CASE SignalWeak
  BY <1>12, WorkStep DEF SignalWeak, appVars, Returned, CallSim
<1>13. CASE SignalGood
  BY <1>13, WorkStep DEF SignalGood, appVars, Returned, StartDial, CallSim
<1>14. CASE RetDial
  BY <1>14, WorkStep DEF RetDial, appVars, Returned, Leave
<1>15. CASE Connect
  BY <1>15, WorkStep DEF Connect, appVars
<1>16. CASE LinkCheck
  BY <1>16, WorkStep DEF LinkCheck, appVars, CallSim, Leave
<1>17. CASE RetPoll
  BY <1>17, WorkStep DEF RetPoll, appVars, Returned, Leave
<1>18. CASE SetMode
  BY <1>18, WorkStep DEF SetMode, appVars, CallSim
<1>19. CASE RetMode
  BY <1>19, WorkStep DEF RetMode, appVars, Returned, Leave
<1>20. CASE DialFailed
  BY <1>20, WorkStep DEF DialFailed, appVars, Leave, StartDial, CallSim
<1>21. CASE NetCheck
  BY <1>21, WorkStep DEF NetCheck, appVars, StartDial, CallSim
<1>22. CASE Ready
  BY <1>22 DEF Ready, appVars, StopInv, AppStatus, Alive, StopSeen, RadioOff,
    GateHeld, radioVars
<1>23. CASE Listen
  BY <1>23, WorkStep DEF Listen, appVars, ManagerKeeps
<1>24. CASE Bind
  BY <1>24, WorkStep DEF Bind, SocketBinds, appVars, ManagerKeeps
<1>25. CASE Recv
  BY <1>25, WorkStep DEF Recv, appVars, ManagerKeeps
<1>26. ASSUME NEW e \in Events, LinkEvent(e) PROVE StopInv'
  BY <1>26, WorkStep DEF LinkEvent, appVars, ManagerKeeps
<1>27. CASE TestSocket
  BY <1>27 DEF TestSocket, appVars, ManagerKeeps, radioVars, StopInv, AppStatus,
    Alive, StopSeen, RadioOff, GateHeld
<1>28. CASE CloseSocket
  BY <1>28 DEF CloseSocket, appVars, ManagerKeeps, radioVars, StopInv, AppStatus,
    Alive, StopSeen, RadioOff, GateHeld
<1>29. CASE ResetSocket
  BY <1>29 DEF ResetSocket, appVars, ManagerKeeps, radioVars, StopInv, AppStatus,
    Alive, StopSeen, RadioOff, GateHeld
<1>30. CASE GoIdle
  BY <1>30 DEF GoIdle, appVars, radioVars, StopInv, AppStatus, Alive, StopSeen,
    RadioOff, GateHeld
<1> QED
  BY <1>1, <1>2, <1>3, <1>4, <1>5, <1>6, <1>7, <1>8, <1>9, <1>10, <1>11, <1>12, <1>13,
    <1>14, <1>15, <1>16, <1>17, <1>18, <1>19, <1>20, <1>21, <1>22, <1>23, <1>24,
    <1>25, <1>26, <1>27, <1>28, <1>29, <1>30 DEF Manager

LEMMA StopInvApplication ==
  ASSUME TypeOK, StopInv, Application
  PROVE  StopInv'
<1> USE DEF ManagerUntouched, radioVars
<1>1. ASSUME NEW n \in {0, 1}, StartInit(n) PROVE StopInv'
  BY <1>1 DEF StartInit, TypeOK, StopInv, AppStatus, Alive, StopSeen, RadioOff,
    GateHeld, StopPcs
<1>2. CASE CreateManager
  BY <1>2 DEF CreateManager, TypeOK, StopInv, AppStatus, Alive, StopSeen, RadioOff,
    GateHeld, StopPcs
<1>3. CASE MarkRunning
  BY <1>3 DEF MarkRunning, TypeOK, StopInv, AppStatus, Alive, StopSeen, RadioOff,
    GateHeld, StopPcs
<1>4. CASE StopManager
  BY <1>4 DEF StopManager, TypeOK, StopInv, AppStatus, Alive, StopSeen, RadioOff,
    GateHeld, StopPcs
<1>5. CASE CheckLinkFirst
  BY <1>5 DEF CheckLinkFirst, TypeOK, StopInv, AppStatus, Alive, StopSeen, RadioOff,
    GateHeld, StopPcs
<1>6. CASE RequestStop
  BY <1>6 DEF RequestStop, TypeOK, StopInv, AppStatus, Alive, StopSeen, RadioOff,
    GateHeld, StopPcs
<1>7. CASE StopLink
  BY <1>7 DEF StopLink, TypeOK, StopInv, AppStatus, Alive, StopSeen, RadioOff,
    GateHeld, StopPcs
<1>8. CASE Poll
  BY <1>8 DEF Poll, TypeOK, StopInv, AppStatus, Alive, StopSeen, RadioOff, GateHeld,
    StopPcs
<1>9. CASE DisableClose
  BY <1>9 DEF DisableClose, TypeOK, StopInv, AppStatus, Alive, StopSeen, RadioOff,
    GateHeld, StopPcs
<1>10. CASE DisableReset
  BY <1>10 DEF DisableReset, TypeOK, StopInv, AppStatus, Alive, StopSeen, RadioOff,
    GateHeld, StopPcs
<1> QED
  BY <1>1, <1>2, <1>3, <1>4, <1>5, <1>6, <1>7, <1>8, <1>9, <1>10 DEF Application

LEMMA EnvironmentKeeps ==
  ASSUME Environment
  PROVE  UNCHANGED <<status, netEnable, cpc, pc, gps, power>>
  BY DEF Environment, ModemDrops, ModemReturns, PppUp, PppDrops, PppdExits,
    OtherLinkEvent, OtherOpens, OtherCloses, ThreadsIdle, appVars, radioVars

\* The strengthened invariant holds in every reachable state.
LEMMA StopInvCorrect == Spec => []StopInv
<1>1. TypeOK /\ StopInv /\ [Next]_vars => StopInv'
  <2> SUFFICES ASSUME TypeOK, StopInv, [Next]_vars PROVE StopInv'
    OBVIOUS
  <2>1. CASE UNCHANGED vars
    BY <2>1, OutsideStep DEF vars
  <2> QED
    BY <2>1, StopInvManager, StopInvApplication, EnvironmentKeeps, OutsideStep DEF Next
<1> QED
  BY <1>1, StopInvInit, TypeCorrect, PTL DEF Spec

\* A stop that has been answered is complete: no thread, GPS port closed, supply off.
THEOREM StopIsComplete == Spec => []StoppedIsQuiet
<1>1. StopInv => StoppedIsQuiet
  BY DEF StopInv, Alive, RadioOff, StoppedIsQuiet
<1> QED
  BY <1>1, StopInvCorrect, PTL

\* Paired init() and deinit() calls keep the direct modem interface shut while a
\* manager runs.
THEOREM GateIsSound == Spec => []GateSound
<1>1. TypeOK /\ StopInv => GateSound
  BY DEF TypeOK, StopInv, GateHeld, Alive, AppStatus, GateSound
<1> QED
  BY <1>1, TypeCorrect, StopInvCorrect, PTL
-----------------------------------------------------------------------------
(* The manager implements ManagerLifecycle.                                *)

\* A step that leaves a live manager alive and its status alone is a Use.
LEMMA UseStep ==
  ASSUME TypeOK, TypeOK', pc # "none", pc' # "none", UNCHANGED status
  PROVE  Lifecycle!Use
  BY DEF TypeOK, Lifecycle!Use, Phase

\* Every step of the two threads is a step of the lifecycle, or none at all.
LEMMA LifecycleStep ==
  ASSUME TypeOK, TypeOK', StopInv, StopInv', [Next]_vars
  PROVE  [Lifecycle!Next]_(Lifecycle!vars)
<1>1. CASE Manager
  <2> USE DEF Goto, CallSim, Leave, Returned
  <2>1. CASE Top \/ ModemOn \/ OnAnswer \/ GpsInit \/ Flight
    BY <2>1, UseStep DEF Top, ModemOn, OnAnswer, GpsInit, Flight, Lifecycle!Next
  <2>0. CASE PortClose
    <3>1. pc \in {"recycle", "stopModem", "quitModem"} /\ pc' \in {"top", "stopSocket", "idle"}
      BY <2>0 DEF PortClose, AfterPortClose
    <3> QED
      BY <2>0, <3>1, UseStep DEF PortClose, Lifecycle!Next
  <2>2. CASE SimEnter \/ SimPoll \/ RetOn \/ RetReg \/ SignalFailed \/ SignalWeak \/ SignalGood
    BY <2>2, UseStep DEF SimEnter, SimPoll, RetOn, RetReg, SignalFailed, SignalWeak,
      SignalGood, StartDial, Lifecycle!Next
  <2>3. CASE RetDial \/ Connect \/ LinkCheck \/ RetPoll
    BY <2>3, UseStep DEF RetDial, Connect, LinkCheck, RetPoll, Lifecycle!Next
  <2>4. CASE SetMode \/ RetMode \/ DialFailed \/ NetCheck
    BY <2>4, UseStep DEF SetMode, RetMode, DialFailed, NetCheck, StartDial, Lifecycle!Next
  <2>5. CASE Ready \/ Listen \/ Bind \/ Recv \/ \E e \in Events : LinkEvent(e)
    BY <2>5, UseStep DEF Ready, Listen, Bind, SocketBinds, Recv, LinkEvent, ManagerKeeps,
      Lifecycle!Next
  <2>6. CASE TestSocket \/ CloseSocket \/ ResetSocket
    BY <2>6, UseStep DEF TestSocket, CloseSocket, ResetSocket, ManagerKeeps, Lifecycle!Next
  <2>7. CASE GoIdle
    BY <2>7 DEF GoIdle, radioVars, StopInv, StopSeen, RadioOff, StopPcs, Phase,
      Lifecycle!Next, Lifecycle!Stopped
  <2> QED
    BY <1>1, <2>1, <2>2, <2>3, <2>4, <2>5, <2>6, <2>7, <2>0 DEF Manager
<1>2. CASE Application
  <2> USE DEF ManagerUntouched, radioVars, Phase, StopInv, Alive, AppStatus
  <2>1. CASE CreateManager
    BY <2>1 DEF CreateManager, Lifecycle!Next, Lifecycle!Start, Lifecycle!vars
  <2>2. CASE MarkRunning
    BY <2>2 DEF MarkRunning, Lifecycle!vars
  <2>3. CASE RequestStop
    BY <2>3 DEF RequestStop, Lifecycle!Next, Lifecycle!RequestStop, Lifecycle!vars
  <2>4. ASSUME NEW n \in {0, 1}, StartInit(n) PROVE UNCHANGED Lifecycle!vars
    BY <2>4 DEF StartInit, Lifecycle!vars
  <2>5. CASE StopManager \/ CheckLinkFirst \/ StopLink \/ Poll \/ DisableClose \/ DisableReset
    BY <2>5 DEF StopManager, CheckLinkFirst, StopLink, Poll, DisableClose, DisableReset,
      Lifecycle!vars
  <2> QED
    BY <1>2, <2>1, <2>2, <2>3, <2>4, <2>5 DEF Application
<1>3. CASE Environment
  BY <1>3, EnvironmentKeeps DEF Phase, Lifecycle!vars
<1>4. CASE UNCHANGED vars
  BY <1>4 DEF vars, Phase, Lifecycle!vars
<1> QED
  BY <1>1, <1>2, <1>3, <1>4 DEF Next

\* The two threads, with their races on network_status, implement the lifecycle.
THEOREM ImplementsLifecycle == Spec => LifecycleSpec
<1>1. Init => Lifecycle!Init
  BY DEF Init, Lifecycle!Init, Phase
<1>2. TypeOK /\ TypeOK' /\ StopInv /\ StopInv' /\ [Next]_vars
        => [Lifecycle!Next]_(Lifecycle!vars)
  BY LifecycleStep
<1> QED
  BY <1>1, <1>2, TypeCorrect, StopInvCorrect, PTL DEF Spec, LifecycleSpec, Lifecycle!Spec

-----------------------------------------------------------------------------
(* What the races on nl_socket cannot do: while no stop is requested, the  *)
(* manager works on its own socket and loses none.                         *)

\* The manager's labels between socket() and the reset of nl_socket to 0.
SocketPcs == {"bind", "bindClose", "bindReset", "recv", "blocked", "deaf",
              "lost", "lostClose", "lostReset"}

\* Elsewhere nl_socket names nothing (0) or the last failed socket() (-1), so the
\* close of lines 916-921 never has anything to close.
SocketIdle == pc \notin SocketPcs => nlSocket \in {0, -1}

\* Between close() and the reset, the number may be in use again, but by others.
SocketClosed == status # -1 /\ pc \in {"bindReset", "lostReset"} => ~OwnsSocket

SockInv == SocketIdle /\ SocketClosed /\ OwnSocket

LEMMA SockInvInit == Init => SockInv
  BY DEF Init, SockInv, SocketIdle, SocketClosed, OwnSocket, SocketPcs

\* A step that stays off the socket.
LEMMA OffSocket ==
  ASSUME SockInv, status' # -1 => status # -1, UNCHANGED <<nlSocket, owner>>,
         pc' = pc \/ (pc \notin SocketPcs /\ pc' \notin SocketPcs)
  PROVE  SockInv'
  BY DEF SockInv, SocketIdle, SocketClosed, OwnSocket, OwnsSocket, SocketPcs

LEMMA OwnsKept == UNCHANGED <<nlSocket, owner>> => OwnsSocket' = OwnsSocket
  BY DEF OwnsSocket

LEMMA SockInvManager ==
  ASSUME TypeOK, StopInv, SockInv, Manager
  PROVE  SockInv'
<1> USE DEF Goto
<1>1. CASE Top
  BY <1>1, OffSocket DEF Top, sockVars, SocketPcs
<1>2. CASE PortClose
  BY <1>2, OffSocket DEF PortClose, AfterPortClose, sockVars, SocketPcs
<1>3. CASE ModemOn
  BY <1>3, OffSocket DEF ModemOn, sockVars, SocketPcs
<1>4. CASE OnAnswer
  BY <1>4, OffSocket DEF OnAnswer, CallSim, sockVars, SocketPcs
<1>5. CASE GpsInit
  BY <1>5, OffSocket DEF GpsInit, CallSim, sockVars, SocketPcs
<1>6. CASE SimEnter
  BY <1>6, OffSocket DEF SimEnter, sockVars, SocketPcs
<1>7. CASE SimPoll
  BY <1>7, OffSocket DEF SimPoll, sockVars, SocketPcs
<1>8. CASE RetOn
  BY <1>8, OffSocket DEF RetOn, Returned, Leave, sockVars, SocketPcs
<1>9. CASE RetReg
  BY <1>9, OffSocket DEF RetReg, Returned, CallSim, Leave, sockVars, SocketPcs
<1>10. CASE Flight
  BY <1>10, OffSocket DEF Flight, CallSim, sockVars, SocketPcs
<1>11. CASE SignalFailed
  BY <1>11, OffSocket DEF SignalFailed, Returned, CallSim, Leave, sockVars, SocketPcs
<1>12. CASE SignalWeak
  BY <1>12, OffSocket DEF SignalWeak, Returned, CallSim, sockVars, SocketPcs
<1>13. CASE SignalGood
  BY <1>13, OffSocket DEF SignalGood, Returned, StartDial, CallSim, sockVars, SocketPcs
<1>14. CASE RetDial
  BY <1>14, OffSocket DEF RetDial, Returned, Leave, sockVars, SocketPcs
<1>15. CASE Connect
  BY <1>15, OffSocket DEF Connect, sockVars, SocketPcs
<1>16. CASE LinkCheck
  BY <1>16, OffSocket DEF LinkCheck, CallSim, Leave, sockVars, SocketPcs
<1>17. CASE RetPoll
  BY <1>17, OffSocket DEF RetPoll, Returned, Leave, sockVars, SocketPcs
<1>18. CASE SetMode
  BY <1>18, OffSocket DEF SetMode, CallSim, sockVars, SocketPcs
<1>19. CASE RetMode
  BY <1>19, OffSocket DEF RetMode, Returned, Leave, sockVars, SocketPcs
<1>20. CASE DialFailed
  BY <1>20, OffSocket DEF DialFailed, Leave, StartDial, CallSim, sockVars, SocketPcs
<1>21. CASE NetCheck
  BY <1>21, OffSocket DEF NetCheck, StartDial, CallSim, sockVars, SocketPcs
<1>22. CASE Ready
  BY <1>22, OffSocket DEF Ready, sockVars, SocketPcs
<1>23. CASE Listen
  BY <1>23 DEF Listen, ManagerKeeps, TypeOK, SockInv, SocketIdle, SocketClosed,
    OwnSocket, OwnsSocket, SocketPcs, Sockets
<1>24. CASE Bind
  <2>1. CASE SocketBinds
    BY <1>24, <2>1 DEF SocketBinds, Bind, ManagerKeeps, TypeOK, SockInv, SocketIdle,
      SocketClosed, OwnSocket, OwnsSocket, SocketPcs, Sockets
  <2>2. CASE UNCHANGED owner
    BY <1>24, <2>2, NMAssumption, OwnsKept DEF Bind, SocketBinds, ManagerKeeps, TypeOK,
      linkVars, SockInv, SocketIdle, SocketClosed, OwnSocket, SocketPcs
  <2> QED
    BY <1>24, <2>1, <2>2 DEF Bind
<1>25. CASE Recv
  BY <1>25, NMAssumption, OwnsKept DEF Recv, ManagerKeeps, TypeOK, linkVars, sockVars,
    SockInv, SocketIdle, SocketClosed, OwnSocket, SocketPcs
<1>26. ASSUME NEW e \in Events, LinkEvent(e) PROVE SockInv'
  BY <1>26 DEF LinkEvent, ManagerKeeps, TypeOK, SockInv, SocketIdle, SocketClosed,
    OwnSocket, OwnsSocket, SocketPcs
<1>27. CASE TestSocket
  BY <1>27, NMAssumption, OwnsKept DEF TestSocket, ManagerKeeps, TypeOK, linkVars,
    sockVars, SockInv, SocketIdle, SocketClosed, OwnSocket, SocketPcs
<1>28. CASE CloseSocket
  BY <1>28, NMAssumption DEF CloseSocket, ManagerKeeps, CloseFd, TypeOK, SockInv,
    SocketIdle, SocketClosed, OwnSocket, OwnsSocket, SocketPcs, Sockets
<1>29. CASE ResetSocket
  BY <1>29 DEF ResetSocket, ManagerKeeps, TypeOK, SockInv, SocketIdle, SocketClosed,
    OwnSocket, OwnsSocket, SocketPcs
<1>30. CASE GoIdle
  BY <1>30, OffSocket DEF GoIdle, sockVars, SocketPcs, SockInv, SocketIdle,
    SocketClosed, OwnSocket, OwnsSocket, SocketPcs
<1> QED
  BY <1>1, <1>2, <1>3, <1>4, <1>5, <1>6, <1>7, <1>8, <1>9, <1>10, <1>11, <1>12, <1>13,
    <1>14, <1>15, <1>16, <1>17, <1>18, <1>19, <1>20, <1>21, <1>22, <1>23, <1>24,
    <1>25, <1>26, <1>27, <1>28, <1>29, <1>30 DEF Manager

LEMMA SockInvApplication ==
  ASSUME TypeOK, StopInv, SockInv, Application
  PROVE  SockInv'
<1> USE DEF ManagerUntouched
<1>1. ASSUME NEW n \in {0, 1}, StartInit(n) PROVE SockInv'
  BY <1>1, OffSocket DEF StartInit, sockVars, StopInv, AppStatus
<1>2. CASE CreateManager
  BY <1>2 DEF CreateManager, sockVars, CloseFd, StopInv, AppStatus, Alive, SockInv,
    SocketIdle, SocketClosed, OwnSocket, OwnsSocket, SocketPcs
<1>3. CASE MarkRunning
  BY <1>3, OffSocket DEF MarkRunning, sockVars, StopInv, AppStatus
<1>4. CASE StopManager
  BY <1>4, OffSocket DEF StopManager, sockVars, StopInv, AppStatus
<1>5. CASE CheckLinkFirst
  BY <1>5, OffSocket DEF CheckLinkFirst, sockVars, StopInv, AppStatus
<1>6. CASE RequestStop
  BY <1>6, OffSocket DEF RequestStop, sockVars, StopInv, AppStatus
<1>7. CASE StopLink
  BY <1>7, OffSocket DEF StopLink, sockVars, StopInv, AppStatus
<1>8. CASE Poll
  BY <1>8, OffSocket DEF Poll, sockVars, StopInv, AppStatus
<1>9. CASE DisableClose
  BY <1>9 DEF DisableClose, sockVars, CloseFd, StopInv, AppStatus, Alive, SockInv,
    SocketIdle, SocketClosed, OwnSocket, OwnsSocket, SocketPcs
<1>10. CASE DisableReset
  BY <1>10 DEF DisableReset, sockVars, CloseFd, StopInv, AppStatus, Alive, SockInv,
    SocketIdle, SocketClosed, OwnSocket, OwnsSocket, SocketPcs
<1> QED
  BY <1>1, <1>2, <1>3, <1>4, <1>5, <1>6, <1>7, <1>8, <1>9, <1>10 DEF Application

\* The program's other threads neither take a socket from the manager nor create one.
LEMMA SockInvEnvironment ==
  ASSUME TypeOK, SockInv, Environment
  PROVE  SockInv'
<1> USE DEF ThreadsIdle
<1>1. ASSUME NEW f \in Fds, OtherOpens(f) \/ OtherCloses(f) PROVE SockInv'
  BY <1>1 DEF OtherOpens, OtherCloses, TypeOK, SockInv, SocketIdle, SocketClosed,
    OwnSocket, OwnsSocket, Sockets
<1>2. CASE ModemDrops \/ ModemReturns \/ PppUp \/ PppDrops \/ PppdExits \/ OtherLinkEvent
  BY <1>2, OffSocket DEF ModemDrops, ModemReturns, PppUp, PppDrops, PppdExits,
    OtherLinkEvent, sockVars
<1> QED
  BY <1>1, <1>2 DEF Environment

LEMMA SockInvCorrect == Spec => []SockInv
<1>1. TypeOK /\ StopInv /\ SockInv /\ [Next]_vars => SockInv'
  <2> SUFFICES ASSUME TypeOK, StopInv, SockInv, [Next]_vars PROVE SockInv'
    OBVIOUS
  <2>1. CASE UNCHANGED vars
    BY <2>1, OffSocket DEF vars
  <2> QED
    BY <2>1, SockInvManager, SockInvApplication, SockInvEnvironment DEF Next
<1> QED
  BY <1>1, SockInvInit, TypeCorrect, StopInvCorrect, PTL DEF Spec

\* While no stop is requested, the manager binds, reads and closes its own socket.
THEOREM SocketIsOwn == Spec => []OwnSocket
<1>1. SockInv => OwnSocket
  BY DEF SockInv
<1> QED
  BY <1>1, SockInvCorrect, PTL

\* A step that neither makes a netlink socket nor forgets one.
LEMMA NoSocketMade ==
  ASSUME nlSocket' = nlSocket \/ ~OwnsSocket,
         \A g \in Fds : owner'[g] \in Sockets => owner[g] \in Sockets
  PROVE  Leaked' \subseteq Leaked
  BY DEF Leaked, OwnsSocket

\* Outside a stop request no step of any thread loses a socket.
LEMMA NoLeakStep ==
  ASSUME TypeOK, StopInv, SockInv, [Next]_vars, status # -1, owner[0] = "other"
  PROVE  Leaked' \subseteq Leaked
<1> SUFFICES ASSUME Leaked' # Leaked PROVE Leaked' \subseteq Leaked
  OBVIOUS
<1>1. CASE Listen
  <2>1. nlSocket \in {0, -1} /\ -1 \notin Fds
    BY <1>1, NMAssumption DEF Listen, SockInv, SocketIdle, SocketPcs
  <2>2. ~OwnsSocket
    BY <2>1 DEF OwnsSocket, Sockets
  <2>3. ASSUME NEW g \in Leaked' PROVE g \in Leaked
    <3>1. g \in Fds /\ owner'[g] \in Sockets /\ nlSocket' # g
      BY <2>3 DEF Leaked
    <3>2. owner[g] \in Sockets
      BY <1>1, <3>1 DEF Listen, TypeOK
    <3> QED
      BY <2>2, <3>1, <3>2 DEF Leaked, OwnsSocket
  <2> QED
    BY <2>3
<1>2. CASE CloseSocket \/ DisableClose
  BY <1>2, NoSocketMade DEF CloseSocket, DisableClose, CloseFd, TypeOK, Sockets
<1>3. CASE ResetSocket
  BY <1>3, NoSocketMade DEF ResetSocket, ManagerKeeps, SockInv, SocketClosed, StopInv,
    StopSeen, StopPcs
<1>4. CASE DisableReset
  <2>1. nlSocket \in {0, -1} /\ -1 \notin Fds
    BY <1>4, NMAssumption DEF DisableReset, SockInv, SocketIdle, SocketPcs, StopInv,
      AppStatus, Alive
  <2>2. ~OwnsSocket
    BY <2>1 DEF OwnsSocket, Sockets
  <2> QED
    BY <1>4, <2>2, NoSocketMade DEF DisableReset
<1>5. ASSUME NEW f \in Fds, OtherOpens(f) \/ OtherCloses(f) PROVE Leaked' \subseteq Leaked
  BY <1>5, NoSocketMade DEF OtherOpens, OtherCloses, TypeOK, Sockets
<1>6. nlSocket' = nlSocket /\ owner' = owner => Leaked' = Leaked
  BY DEF Leaked
<1>7. CASE UNCHANGED vars
  BY <1>7, <1>6 DEF vars
<1>8. Manager => \/ Listen \/ CloseSocket \/ ResetSocket \/ Bind
                 \/ nlSocket' = nlSocket /\ owner' = owner
  BY DEF Manager, Top, PortClose, ModemOn, OnAnswer, GpsInit, SimEnter, SimPoll, RetOn,
    RetReg, Flight, SignalFailed, SignalWeak, SignalGood, RetDial, Connect, LinkCheck,
    RetPoll, SetMode, RetMode, DialFailed, NetCheck, Ready, Recv, LinkEvent,
    TestSocket, GoIdle, sockVars
<1>9. Application => DisableClose \/ DisableReset \/ (nlSocket' = nlSocket /\ owner' = owner)
  BY DEF Application, StartInit, CreateManager, MarkRunning, StopManager, CheckLinkFirst,
    RequestStop, StopLink, Poll, sockVars
<1>10. Environment =>
         (\E f \in Fds : OtherOpens(f) \/ OtherCloses(f)) \/ (nlSocket' = nlSocket /\ owner' = owner)
  BY DEF Environment, ModemDrops, ModemReturns, PppUp, PppDrops, PppdExits,
    OtherLinkEvent, sockVars
<1>11. CASE Bind
  <2>1. \A g \in Fds : owner'[g] \in Sockets => owner[g] \in Sockets
    BY <1>11 DEF Bind, SocketBinds, OwnsSocket, TypeOK
  <2> QED
    BY <1>11, <2>1, NoSocketMade DEF Bind
<1> QED
  BY <1>1, <1>2, <1>3, <1>4, <1>5, <1>6, <1>7, <1>8, <1>9, <1>10, <1>11 DEF Next

\* No socket is leaked while no stop is requested and standard input is open.
THEOREM NoSocketLost == Spec => NoLeakWhileRunning
<1>1. TypeOK /\ StopInv /\ SockInv /\ [Next]_vars
        => [status # -1 /\ owner[0] = "other" => Leaked' \subseteq Leaked]_vars
  BY NoLeakStep
<1> QED
  BY <1>1, TypeCorrect, StopInvCorrect, SockInvCorrect, PTL DEF Spec, NoLeakWhileRunning

-----------------------------------------------------------------------------
(* A stop request comes nearer to its answer.                              *)

Places == (ManagerPc \ {"simEnter", "sim", "simRet"}) \cup Sites

LEMMA StagesTyped == \A p \in Places : StageOf[p] \in 0..23
  BY DEF Places, ManagerPc, Sites, StageOf

\* The distance is a tuple of six naturals, in the state a step leads to.
LEMMA DistanceTyped == ASSUME TypeOK' PROVE Distance' \in Seq(Nat)
<1>1. StageOf[Place'] \in Nat
  <2>1. Place' \in Places
    BY DEF TypeOK, Place, Querying, Places, Locals
  <2> QED BY <2>1, StagesTyped
<1>2. TurnsLeft' \in Nat
  BY NMAssumption DEF TypeOK, Locals, TurnsLeft
<1>3. ModesLeft' \in Nat /\ TriesLeft' \in Nat
  BY NMAssumption DEF TypeOK, Locals, ModesLeft, TriesLeft
<1>4. Rung' \in Nat /\ StepsLeft' \in Nat
  BY DEF Rung, StepsLeft
<1> QED BY <1>1, <1>2, <1>3, <1>4 DEF Distance

Near == Distance' \in Seq(Nat) /\ Below(Distance', Distance)

LEMMA BelowByPart ==
  ASSUME NEW a1, NEW a2, NEW a3, NEW a4, NEW a5, NEW a6,
         NEW b1, NEW b2, NEW b3, NEW b4, NEW b5, NEW b6,
         \/ a1 < b1
         \/ a1 = b1 /\ a2 < b2
         \/ a1 = b1 /\ a2 = b2 /\ a3 < b3
         \/ a1 = b1 /\ a2 = b2 /\ a3 = b3 /\ a4 < b4
         \/ a1 = b1 /\ a2 = b2 /\ a3 = b3 /\ a4 = b4 /\ a5 < b5
         \/ a1 = b1 /\ a2 = b2 /\ a3 = b3 /\ a4 = b4 /\ a5 = b5 /\ a6 < b6
  PROVE  Below(<<a1, a2, a3, a4, a5, a6>>, <<b1, b2, b3, b4, b5, b6>>)
<1> DEFINE a == <<a1, a2, a3, a4, a5, a6>>
           b == <<b1, b2, b3, b4, b5, b6>>
<1>1. /\ a[1] = a1 /\ a[2] = a2 /\ a[3] = a3 /\ a[4] = a4 /\ a[5] = a5 /\ a[6] = a6
      /\ b[1] = b1 /\ b[2] = b2 /\ b[3] = b3 /\ b[4] = b4 /\ b[5] = b5 /\ b[6] = b6
  OBVIOUS
<1> HIDE DEF a, b
<1>2. \A i, j \in 1..6 : j < i =>
        \/ j = 1 \/ (j = 2 /\ i > 2) \/ (j = 3 /\ i > 3) \/ (j = 4 /\ i > 4) \/ (j = 5 /\ i = 6)
  OBVIOUS
<1>3. CASE a1 < b1
  BY <1>1, <1>2, <1>3 DEF Below
<1>4. CASE a1 = b1 /\ a2 < b2
  <2>1. a[2] < b[2] /\ \A j \in 1..6 : j < 2 => a[j] = b[j]
    BY <1>1, <1>2, <1>4
  <2> QED BY <2>1 DEF Below
<1>5. CASE a1 = b1 /\ a2 = b2 /\ a3 < b3
  <2>1. a[3] < b[3] /\ \A j \in 1..6 : j < 3 => a[j] = b[j]
    BY <1>1, <1>2, <1>5
  <2> QED BY <2>1 DEF Below
<1>6. CASE a1 = b1 /\ a2 = b2 /\ a3 = b3 /\ a4 < b4
  <2>1. a[4] < b[4] /\ \A j \in 1..6 : j < 4 => a[j] = b[j]
    BY <1>1, <1>2, <1>6
  <2> QED BY <2>1 DEF Below
<1>7. CASE a1 = b1 /\ a2 = b2 /\ a3 = b3 /\ a4 = b4 /\ a5 < b5
  <2>1. a[5] < b[5] /\ \A j \in 1..6 : j < 5 => a[j] = b[j]
    BY <1>1, <1>2, <1>7
  <2> QED BY <2>1 DEF Below
<1>8. CASE a1 = b1 /\ a2 = b2 /\ a3 = b3 /\ a4 = b4 /\ a5 = b5 /\ a6 < b6
  <2>1. a[6] < b[6] /\ \A j \in 1..6 : j < 6 => a[j] = b[j]
    BY <1>1, <1>2, <1>8
  <2> QED BY <2>1 DEF Below
<1>9. Below(a, b)
  BY <1>3, <1>4, <1>5, <1>6, <1>7, <1>8 DEF a, b
<1> QED BY <1>9 DEF a, b

\* The two ways to come nearer: to a later stage, or by one more turn, mode, rung,
\* try or step of the present one.
LEMMA NextStage ==
  ASSUME TypeOK', StageOf[Place'] < StageOf[Place] PROVE Near
  BY BelowByPart, DistanceTyped DEF Distance, Near

LEMMA SameStage ==
  ASSUME TypeOK', StageOf[Place'] = StageOf[Place],
         \/ TurnsLeft' < TurnsLeft
         \/ TurnsLeft' = TurnsLeft /\ ModesLeft' < ModesLeft
         \/ TurnsLeft' = TurnsLeft /\ ModesLeft' = ModesLeft /\ Rung' < Rung
         \/ /\ TurnsLeft' = TurnsLeft /\ ModesLeft' = ModesLeft /\ Rung' = Rung
            /\ \/ TriesLeft' < TriesLeft
               \/ TriesLeft' = TriesLeft /\ StepsLeft' < StepsLeft
  PROVE  Near
  BY BelowByPart, DistanceTyped DEF Distance, Near

\* What entering and leaving the SIM query does to the place and the counters.
Counters(l, m) ==
  m.regs = l.regs /\ m.sigs = l.sigs /\ m.links = l.links /\ m.conns = l.conns
    /\ m.mode = l.mode /\ m.tries = l.tries

LEMMA CallPlace ==
  ASSUME NEW l \in Locals, NEW s \in Sites, CallSim(s, l)
  PROVE  pc' = "simEnter" /\ Place' = s /\ Counters(l, loc')
  BY DEF CallSim, Goto, Place, Querying, Counters, Locals

LEMMA LeavePlace ==
  ASSUME NEW l \in Locals, NEW p \in ManagerPc \ {"simEnter", "sim", "simRet"}, Leave(p, l)
  PROVE  pc' = p /\ Place' = p /\ Counters(l, loc')
  BY DEF Leave, Goto, Place, Querying, Counters, Locals

LEMMA AtPlace ==
  /\ pc \notin {"simEnter", "sim", "simRet"} => Place = pc
  /\ \A s : Returned(s) => Place = s /\ pc = "simRet"
  /\ pc \in {"simEnter", "sim", "simRet"} => Place = loc.site
  BY DEF Place, Querying, Returned

LEMMA NewPlace ==
  /\ pc' \notin {"simEnter", "sim", "simRet"} => Place' = pc'
  /\ pc' \in {"simEnter", "sim", "simRet"} => Place' = loc'.site
  BY DEF Place, Querying

\* Outside the loops a step of a stopping manager leads to a later stage.
LEMMA WindingDown ==
  ASSUME TypeOK, TypeOK', status = -1, <<pc, loc>>' # <<pc, loc>>, ~WaitsOn,
         \/ Top \/ PortClose \/ ModemOn \/ Ready \/ Listen \/ Bind \/ Recv
         \/ \E e \in Events : LinkEvent(e)
         \/ TestSocket \/ CloseSocket \/ ResetSocket \/ GoIdle
  PROVE  Near
<1> SUFFICES StageOf[Place'] < StageOf[Place]
  BY NextStage
<1> USE AtPlace, NewPlace DEF StageOf, WaitsOn, Goto
<1>1. CASE Top
  BY <1>1 DEF Top
<1>2. CASE PortClose
  BY <1>2 DEF PortClose, AfterPortClose
<1>3. CASE ModemOn
  BY <1>3 DEF ModemOn
<1>4. CASE Ready
  BY <1>4 DEF Ready
<1>5. CASE Listen
  BY <1>5 DEF Listen
<1>6. CASE Bind
  BY <1>6 DEF Bind, SocketBinds
<1>7. CASE Recv
  BY <1>7 DEF Recv
<1>8. ASSUME NEW e \in Events, LinkEvent(e) PROVE StageOf[Place'] < StageOf[Place]
  BY <1>8 DEF LinkEvent
<1>9. CASE TestSocket
  BY <1>9 DEF TestSocket
<1>10. CASE CloseSocket
  <2>1. \/ pc = "bindClose" /\ pc' = "bindReset"
        \/ pc = "lostClose" /\ pc' = "lostReset"
        \/ pc = "stopClose" /\ pc' = "stopReset"
    BY <1>10, Zenon DEF CloseSocket
  <2> QED BY <2>1
<1>11. CASE ResetSocket
  <2>1. \/ pc = "bindReset" /\ pc' = "listen"
        \/ pc = "lostReset" /\ pc' = "top"
        \/ pc = "stopReset" /\ pc' = "idle"
    BY <1>11, Zenon DEF ResetSocket
  <2> QED BY <2>1
<1>12. CASE GoIdle
  BY <1>12 DEF GoIdle
<1> QED
  BY <1>1, <1>2, <1>3, <1>4, <1>5, <1>6, <1>7, <1>8, <1>9, <1>10, <1>11, <1>12

\* The SIM query, the registration and the signal.
LEMMA Registering ==
  ASSUME TypeOK, TypeOK', ~WaitsOn,
         \/ OnAnswer \/ GpsInit \/ SimEnter \/ SimPoll \/ RetOn \/ RetReg \/ Flight
         \/ SignalFailed \/ SignalWeak \/ SignalGood
  PROVE  Near
<1> loc \in Locals /\ loc' \in Locals
  BY DEF TypeOK
<1>1. CASE OnAnswer
  <2>1. Place = "onAnswer" /\ Place' \in {"on", "recycle"}
    BY <1>1, AtPlace, NewPlace, CallPlace DEF OnAnswer, Goto, Sites
  <2> QED BY <2>1, NextStage DEF StageOf
<1>2. CASE GpsInit
  <2>1. Place = "gpsInit" /\ Place' = "reg"
    BY <1>2, AtPlace, CallPlace DEF GpsInit, Sites
  <2> QED BY <2>1, NextStage DEF StageOf
<1>3. CASE SimEnter \/ SimPoll
  <2>1. /\ pc \in {"simEnter", "sim"} /\ pc' \in {"sim", "simRet"} /\ pc' # pc
        /\ Counters(loc, loc') /\ loc'.site = loc.site /\ loc.site \in Sites
    BY <1>3 DEF SimEnter, SimPoll, Goto, KeepLocals, Counters, Locals
  <2>2. Place' = Place /\ Place \in Sites
    BY <2>1, AtPlace, NewPlace
  <2>3. /\ TurnsLeft' = TurnsLeft /\ ModesLeft' = ModesLeft /\ Rung' = Rung
        /\ TriesLeft' = TriesLeft
    BY <2>1, <2>2 DEF TurnsLeft, ModesLeft, Rung, TriesLeft, Attempting, Counters
  <2>4. StepsLeft' < StepsLeft
    BY <2>1 DEF StepsLeft
  <2> QED BY <2>2, <2>3, <2>4, SameStage
<1>4. CASE RetOn
  <2>1. Place = "on" /\ Place' \in {"gpsInit", "recycle"}
    BY <1>4, AtPlace, LeavePlace DEF RetOn, ManagerPc
  <2> QED BY <2>1, NextStage DEF StageOf
<1>5. CASE RetReg
  <2>1. Place = "reg" /\ pc = "simRet"
    BY <1>5, AtPlace DEF RetReg
  <2>2. CASE Place' = "signal"
    BY <2>1, <2>2, NextStage DEF StageOf
  <2>3. CASE Leave("flight", loc)
    <3>1. Place' = "flight" /\ pc' = "flight" /\ Counters(loc, loc')
      BY <2>3, LeavePlace DEF ManagerPc
    <3>2. /\ StageOf[Place'] = StageOf[Place] /\ TurnsLeft' = TurnsLeft
          /\ ModesLeft' = ModesLeft /\ Rung' = Rung /\ TriesLeft' = TriesLeft
      BY <2>1, <3>1 DEF StageOf, TurnsLeft, ModesLeft, Rung, TriesLeft, Attempting, Counters
    <3>3. StepsLeft' < StepsLeft
      BY <2>1, <3>1 DEF StepsLeft
    <3> QED BY <3>2, <3>3, SameStage
  <2> QED BY <1>5, <2>2, <2>3, CallPlace DEF RetReg, Sites
<1>6. CASE Flight
  <2>1. Place = "flight" /\ StageOf[Place] = 19
    BY <1>6, AtPlace DEF Flight, StageOf
  <2>2. CASE loc.regs + 1 = FlightCycles
    <3>1. Place' = "top"
      BY <1>6, <2>2, NewPlace DEF Flight, Goto
    <3> QED BY <2>1, <3>1, NextStage DEF StageOf
  <2>3. CASE loc.regs + 1 # FlightCycles
    <3> DEFINE l == [loc EXCEPT !.regs = @ + 1]
    <3>0. l \in Locals
      BY <2>3, LocalsCounters
    <3>1. l.regs = loc.regs + 1 /\ loc.regs \in Nat
      BY DEF Locals
    <3>2. CallSim("reg", l)
      BY <1>6, <2>3 DEF Flight
    <3> HIDE DEF l
    <3>3. Place' = "reg" /\ loc'.regs = loc.regs + 1
      BY <3>0, <3>1, <3>2, CallPlace DEF Counters, Sites
    <3>4. StageOf[Place'] = 19
      BY <3>3 DEF StageOf
    <3>5. TurnsLeft' < TurnsLeft
      BY <2>1, <3>1, <3>3, <3>4, NMAssumption DEF TurnsLeft
    <3> QED BY <2>1, <3>4, <3>5, SameStage
  <2> QED BY <2>2, <2>3
<1>7. CASE SignalFailed
  <2>1. Place = "signal" /\ StageOf[Place] = 18
    BY <1>7, AtPlace DEF SignalFailed, StageOf
  <2>2. CASE loc.sigs + 1 > SignalErrors
    <3>1. [loc EXCEPT !.sigs = 0] \in Locals
      BY LocalsCounters
    <3>2. Place' = "top"
      BY <1>7, <2>2, <3>1, LeavePlace DEF SignalFailed, ManagerPc
    <3> QED BY <2>1, <3>2, NextStage DEF StageOf
  <2>3. CASE ~(loc.sigs + 1 > SignalErrors)
    <3> DEFINE l == [loc EXCEPT !.sigs = @ + 1]
    <3>0. l \in Locals
      BY <2>3, LocalsCounters
    <3>1. l.sigs = loc.sigs + 1 /\ loc.sigs \in Nat
      BY DEF Locals
    <3>2. CallSim("signal", l)
      BY <1>7, <2>3 DEF SignalFailed
    <3> HIDE DEF l
    <3>3. Place' = "signal" /\ loc'.sigs = loc.sigs + 1
      BY <3>0, <3>1, <3>2, CallPlace DEF Counters, Sites
    <3>4. StageOf[Place'] = 18
      BY <3>3 DEF StageOf
    <3>5. TurnsLeft' < TurnsLeft
      BY <2>1, <3>1, <3>3, <3>4, NMAssumption DEF TurnsLeft
    <3> QED BY <2>1, <3>4, <3>5, SameStage
  <2> QED BY <2>2, <2>3
<1>8. CASE SignalWeak
  BY <1>8 DEF WaitsOn
<1>9. CASE SignalGood
  <2>1. Place = "signal" /\ Place' = "dial"
    BY <1>9, AtPlace, CallPlace, LocalsDialOver DEF SignalGood, StartDial, Sites
  <2> QED BY <2>1, NextStage DEF StageOf
<1> QED BY <1>1, <1>2, <1>3, <1>4, <1>5, <1>6, <1>7, <1>8, <1>9

\* The dial: a step within a turn of the loop, a new try, a lower mode, a new turn.
LEMMA Dialling ==
  ASSUME TypeOK, TypeOK',
         RetDial \/ Connect \/ LinkCheck \/ RetPoll \/ SetMode \/ RetMode
  PROVE  Near
<1> loc \in Locals /\ loc' \in Locals
  BY DEF TypeOK
<1> DEFINE Here == {"dial", "connect", "linkCheck", "poll", "setMode", "mode", "dialFailed",
                    "netcheck"}
<1>0. \A p \in Here : StageOf[p] = 17
  BY DEF StageOf
<1>7. ASSUME Place \in Here, Place' \in Here,
             loc'.conns = loc.conns, loc'.links = loc.links
      PROVE  StageOf[Place'] = StageOf[Place] /\ TurnsLeft' = TurnsLeft
  <2>1. StageOf[Place] = 17 /\ StageOf[Place'] = 17
    BY <1>0, <1>7
  <2> QED BY <1>7, <2>1 DEF TurnsLeft
<1>1. CASE RetDial
  <2>1. /\ Place = "dial" /\ Place' \in {"connect", "dialFailed"} /\ Counters(loc, loc')
    BY <1>1, AtPlace, LeavePlace DEF RetDial, ManagerPc
  <2>2. StageOf[Place'] = StageOf[Place] /\ TurnsLeft' = TurnsLeft
    BY <1>7, <2>1 DEF Counters
  <2>3. (ModesLeft' = ModesLeft \/ ModesLeft' < ModesLeft) /\ Rung' < Rung
    BY <2>1 DEF ModesLeft, Rung, Attempting, Counters, Locals
  <2> QED BY <2>2, <2>3, SameStage
<1>2. CASE Connect
  <2>1. Place = "connect" /\ Place' = "linkCheck" /\ loc' = loc
        /\ pc = "connect" /\ pc' = "linkCheck"
    BY <1>2, AtPlace, NewPlace DEF Connect, Goto, KeepLocals
  <2>2. StageOf[Place'] = StageOf[Place] /\ TurnsLeft' = TurnsLeft
    BY <1>7, <2>1
  <2>3. /\ ModesLeft' = ModesLeft /\ Rung' = Rung /\ TriesLeft' = TriesLeft
        /\ StepsLeft' < StepsLeft
    BY <2>1 DEF ModesLeft, Rung, TriesLeft, StepsLeft, Attempting
  <2> QED BY <2>2, <2>3, SameStage
<1>3. CASE LinkCheck
  <2>1. Place = "linkCheck" /\ pc = "linkCheck"
    BY <1>3, AtPlace DEF LinkCheck
  <2>2. CASE ppp
    <3>1. Place' = "netcheck" /\ Counters(DialOver(loc), loc')
      BY <1>3, <2>2, LeavePlace, LocalsDialOver DEF LinkCheck, ManagerPc
    <3>2. loc'.conns = loc.conns /\ loc'.links = loc.links
      BY <3>1 DEF Counters, DialOver, Locals
    <3>3. (ModesLeft' = ModesLeft \/ ModesLeft' < ModesLeft) /\ Rung' < Rung
      BY <2>1, <3>1 DEF ModesLeft, Rung, Attempting, Locals
    <3> QED BY <1>7, <2>1, <3>1, <3>2, <3>3, SameStage
  <2>3. CASE ~ppp
    <3>1. Place' = "poll" /\ pc' = "simEnter" /\ Counters(loc, loc')
      BY <1>3, <2>3, CallPlace DEF LinkCheck, Sites
    <3>2. StageOf[Place'] = StageOf[Place] /\ TurnsLeft' = TurnsLeft
      BY <1>7, <2>1, <3>1 DEF Counters
    <3>3. /\ ModesLeft' = ModesLeft /\ Rung' = Rung /\ TriesLeft' = TriesLeft
          /\ StepsLeft' < StepsLeft
      BY <2>1, <3>1 DEF ModesLeft, Rung, TriesLeft, StepsLeft, Attempting, Counters
    <3> QED BY <3>2, <3>3, SameStage
  <2> QED BY <2>2, <2>3
<1>4. CASE RetPoll
  <2>1. Place = "poll" /\ pc = "simRet"
    BY <1>4, AtPlace DEF RetPoll
  <2>2. ASSUME loc.tries + 1 < DialTries, Leave("connect", [loc EXCEPT !.tries = @ + 1])
        PROVE  Near
    <3> DEFINE l == [loc EXCEPT !.tries = @ + 1]
    <3>1. /\ l \in Locals /\ l.tries = loc.tries + 1 /\ l.mode = loc.mode
          /\ l.conns = loc.conns /\ l.links = loc.links
      BY <2>2, LocalsCounters DEF Locals
    <3> HIDE DEF l
    <3>2. Leave("connect", l)
      BY <2>2 DEF l
    <3>3. /\ Place' = "connect" /\ loc'.tries = loc.tries + 1 /\ loc'.mode = loc.mode
          /\ loc'.conns = loc.conns /\ loc'.links = loc.links
      BY <3>1, <3>2, LeavePlace DEF Counters, ManagerPc
    <3>4. ModesLeft' = ModesLeft /\ Rung' = Rung /\ TriesLeft' < TriesLeft
      BY <2>1, <3>3, NMAssumption DEF ModesLeft, Rung, TriesLeft, Attempting, Locals
    <3> QED BY <1>7, <2>1, <3>3, <3>4, SameStage
  <2>3. ASSUME NEW p \in {"setMode", "dialFailed"}, Leave(p, loc) PROVE Near
    <3>1. Place' = p /\ Counters(loc, loc')
      BY <2>3, LeavePlace DEF ManagerPc
    <3>2. (ModesLeft' = ModesLeft \/ ModesLeft' < ModesLeft) /\ Rung' < Rung
      BY <2>1, <2>3, <3>1 DEF ModesLeft, Rung, Attempting, Counters, Locals
    <3> QED BY <1>7, <2>1, <3>1, <3>2, SameStage DEF Counters
  <2>4. ASSUME Leave("netcheck", DialOver(loc)) PROVE Near
    <3>1. Place' = "netcheck" /\ Counters(DialOver(loc), loc')
      BY <2>4, LeavePlace, LocalsDialOver DEF ManagerPc
    <3>2. loc'.conns = loc.conns /\ loc'.links = loc.links
      BY <3>1 DEF Counters, DialOver, Locals
    <3>3. (ModesLeft' = ModesLeft \/ ModesLeft' < ModesLeft) /\ Rung' < Rung
      BY <2>1, <3>1 DEF ModesLeft, Rung, Attempting, Locals
    <3> QED BY <1>7, <2>1, <3>1, <3>2, <3>3, SameStage
  <2> QED BY <1>4, <2>2, <2>3, <2>4 DEF RetPoll
<1>5. CASE SetMode
  <2>1. Place = "setMode"
    BY <1>5, AtPlace DEF SetMode
  <2>2. CASE loc.mode = 0
    <3>1. Place' = "dialFailed" /\ loc' = loc
      BY <1>5, <2>2, NewPlace DEF SetMode, Goto, KeepLocals
    <3>2. ModesLeft' = ModesLeft /\ Rung' < Rung
      BY <2>1, <2>2, <3>1 DEF ModesLeft, Rung, Attempting
    <3> QED BY <1>7, <2>1, <3>1, <3>2, SameStage
  <2>3. CASE loc.mode # 0
    <3> DEFINE l == [loc EXCEPT !.mode = @ - 1]
    <3>1. /\ l \in Locals /\ l.mode = loc.mode - 1
          /\ l.conns = loc.conns /\ l.links = loc.links
      BY <2>3, LocalsCounters DEF Locals
    <3>2. CallSim("mode", l)
      BY <1>5, <2>3 DEF SetMode
    <3> HIDE DEF l
    <3>3. /\ Place' = "mode" /\ loc'.mode = loc.mode - 1
          /\ loc'.conns = loc.conns /\ loc'.links = loc.links
      BY <3>1, <3>2, CallPlace DEF Counters, Sites
    <3>4. ModesLeft' < ModesLeft
      BY <2>1, <3>3, NMAssumption DEF ModesLeft, Locals
    <3> QED BY <1>7, <2>1, <3>3, <3>4, SameStage
  <2> QED BY <2>2, <2>3
<1>6. CASE RetMode
  <2>1. Place = "mode"
    BY <1>6, AtPlace DEF RetMode
  <2>2. ASSUME NEW l \in Locals, NEW p \in {"connect", "setMode"}, Leave(p, l),
               l.mode = loc.mode, l.conns = loc.conns, l.links = loc.links
        PROVE  Near
    <3>1. Place' = p /\ Counters(l, loc')
      BY <2>2, LeavePlace DEF ManagerPc
    <3>2. ModesLeft' = ModesLeft /\ Rung' < Rung
      BY <2>1, <2>2, <3>1 DEF ModesLeft, Rung, Attempting, Counters
    <3> QED BY <1>7, <2>1, <2>2, <3>1, <3>2, SameStage DEF Counters
  <2>3. /\ [loc EXCEPT !.tries = 0] \in Locals
        /\ [loc EXCEPT !.tries = 0].mode = loc.mode
        /\ [loc EXCEPT !.tries = 0].conns = loc.conns
        /\ [loc EXCEPT !.tries = 0].links = loc.links
    BY LocalsCounters DEF Locals
  <2> QED BY <1>6, <2>2, <2>3 DEF RetMode
<1> QED BY <1>1, <1>2, <1>3, <1>4, <1>5, <1>6

\* A new turn of the dial loop uses up a failed dial or a failed name lookup.
LEMMA Redialling ==
  ASSUME TypeOK, TypeOK', DialFailed \/ NetCheck
  PROVE  Near
<1> loc \in Locals /\ loc' \in Locals
  BY DEF TypeOK
<1>1. Place \in {"dialFailed", "netcheck"} /\ StageOf[Place] = 17
  BY AtPlace DEF DialFailed, NetCheck, StageOf
<1>2. ASSUME NEW l \in Locals, StartDial(l),
             l.conns + l.links > loc.conns + loc.links
      PROVE  Near
  <2>1. Place' = "dial" /\ Counters(DialOver(l), loc')
    BY <1>2, CallPlace, LocalsDialOver DEF StartDial, Sites
  <2>2. loc'.conns = l.conns /\ loc'.links = l.links
    BY <2>1 DEF Counters, DialOver, Locals
  <2>3. StageOf[Place'] = 17
    BY <2>1 DEF StageOf
  <2>4. TurnsLeft' < TurnsLeft
    BY <1>1, <1>2, <2>2, <2>3, NMAssumption DEF TurnsLeft, Locals
  <2> QED BY <1>1, <2>3, <2>4, SameStage
<1>3. ASSUME Place' \in {"top", "ready"} PROVE Near
  BY <1>1, <1>3, NextStage DEF StageOf
<1>4. CASE DialFailed
  <2>1. CASE loc.conns + 1 > Retries
    <3>1. DialOver([loc EXCEPT !.conns = 0, !.links = 0]) \in Locals
      BY LocalsCounters, LocalsDialOver
    <3>2. Place' = "top"
      BY <1>4, <2>1, <3>1, LeavePlace DEF DialFailed, ManagerPc
    <3> QED BY <1>3, <3>2
  <2>2. CASE ~(loc.conns + 1 > Retries)
    <3> DEFINE l == [loc EXCEPT !.conns = @ + 1]
    <3>0. l \in Locals
      BY <2>2, LocalsCounters
    <3>1. l.conns + l.links > loc.conns + loc.links
      BY DEF Locals
    <3>2. StartDial(l)
      BY <1>4, <2>2 DEF DialFailed
    <3> QED BY <1>2, <3>0, <3>1, <3>2
  <2> QED BY <2>1, <2>2
<1>5. CASE NetCheck
  <2>1. CASE pc' \in {"ready", "top"}
    BY <1>3, <2>1, NewPlace
  <2>2. CASE ~(loc.links + 1 > Retries) /\ StartDial([loc EXCEPT !.links = @ + 1])
    <3> DEFINE l == [loc EXCEPT !.links = @ + 1]
    <3>0. l \in Locals
      BY <2>2, LocalsCounters
    <3>1. l.conns + l.links > loc.conns + loc.links
      BY DEF Locals
    <3> QED BY <1>2, <2>2, <3>0, <3>1
  <2> QED BY <1>5, <2>1, <2>2 DEF NetCheck, Goto
<1> QED BY <1>4, <1>5

\* A step of another thread, or of the modem, leaves the manager where it is: while
\* a stop is under way none creates a manager.
LEMMA OthersWait ==
  ASSUME StopInv, status = -1, [Next]_vars, ~Manager
  PROVE  UNCHANGED <<pc, loc>>
<1>1. CASE Application
  BY <1>1 DEF Application, StartInit, CreateManager, MarkRunning, StopManager,
    CheckLinkFirst, RequestStop, StopLink, Poll, DisableClose, DisableReset,
    ManagerUntouched, StopInv, AppStatus
<1>2. CASE Environment
  BY <1>2 DEF Environment, ModemDrops, ModemReturns, PppUp, PppDrops, PppdExits,
    OtherLinkEvent, OtherOpens, OtherCloses, ThreadsIdle
<1> QED BY <1>1, <1>2 DEF Next, vars

LEMMA NearerStep ==
  ASSUME TypeOK, TypeOK', StopInv, [Next]_vars,
         status = -1, <<pc, loc>>' # <<pc, loc>>, ~WaitsOn
  PROVE  Near
<1>1. Manager
  BY OthersWait
<1> QED BY <1>1, WindingDown, Registering, Dialling, Redialling DEF Manager

\* Whatever the limits of the retry loops: while a stop request stands, every step of
\* the manager other than the three unbounded waits takes it to a later stage, or
\* uses up one more turn, mode or try of its present one (4g_monitor.c 922-1170).
THEOREM StopDraws == Spec => StopComesNearer
<1>1. TypeOK /\ TypeOK' /\ StopInv /\ [Next]_vars =>
        [status = -1 /\ <<pc, loc>>' # <<pc, loc>> /\ ~WaitsOn =>
           Distance' \in Seq(Nat) /\ Below(Distance', Distance)]_vars
  BY NearerStep DEF Near
<1> QED BY <1>1, TypeCorrect, StopInvCorrect, PTL DEF Spec, StopComesNearer
=============================================================================
