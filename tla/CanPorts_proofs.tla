-------------------------- MODULE CanPorts_proofs --------------------------
(***************************************************************************)
(* TypeOK, LockBalanced, OwnDescriptor, Accounted and OthersKept hold for  *)
(* any threads, interfaces in use and descriptor table, and can_lock       *)
(* implements CountedLock.                                                 *)
(*                                                                         *)
(* LockBalanced needs only where each thread is in which call (Shape).     *)
(* The other three hold within the discipline: of two calls at work both   *)
(* are reads, of different interfaces (Alone).  Then the number kept for   *)
(* an interface names that interface's own socket, but for the moments     *)
(* between its close and the change of the global (Live, Kept).            *)
(***************************************************************************)
EXTENDS CanPorts, FiniteSetTheorems, SequenceTheorems, TLAPS

LinkCalls == {"deinit", "init", "fdinit"}
Calls == {"read", "write"} \cup LinkCalls

CloseBacks == {"idle", "answered", "parse", "wake", "stop"}
Backs == CloseBacks \cup Requests \cup {"queued"}

Place ==
  [pc : Labels, op : Calls \cup {"none"}, name : Ifaces \cup {"none"}, fd : Numbers,
   todo : Seq(Ifaces), back : Backs]

Types ==
  /\ file \in [Fds -> Kinds]
  /\ sread \in [Ifaces -> Numbers]
  /\ can_lock \in {0, 1}
  /\ reqst_flag \in {0, 1}
  /\ loc \in [Threads -> Place]
  /\ left \subseteq Fds
  /\ orderly \in BOOLEAN

(* The call a label belongs to, and what is closed on its way. *)
ShapeOf(l) ==
  /\ l.pc # "idle" => l.op \in Calls /\ l.name \in Ifaces
  /\ l.pc \in ReadLabels => l.op = "read"
  /\ l.pc \in WriteLabels => l.op = "write"
  /\ l.pc \in LinkLabels => l.op \in LinkCalls
  /\ l.pc \in CloseLabels <=> l.todo # <<>>
  /\ l.pc \in CloseLabels =>
       /\ l.back = "answered" => l.op = "read"
       /\ l.back = "parse" => l.op = "write"
       /\ l.back \in {"wake", "stop"} => l.op \in LinkCalls
       /\ l.back \in CloseBacks
       /\ l.back # "answered" => l.todo = <<l.name>>

Shape == \A t \in Threads : ShapeOf(loc[t])

Alone ==
  \A t, u \in Threads :
    t # u /\ Busy(t) /\ Busy(u) =>
      /\ loc[t].op = "read" /\ loc[u].op = "read"
      /\ loc[t].name # loc[u].name
      /\ reqst_flag = 0

(* The global of an interface and its socket agree. *)
Stale(t, i) ==
  \/ loc[t].pc = "open" /\ loc[t].name = i
  \/ loc[t].pc = "forget" /\ Head(loc[t].todo) = i
Live(i) == \A t \in Threads : ~Stale(t, i)

Own(n, i) == file[n] \in {i, "raw"}

Kept ==
  /\ \A i \in Ifaces : Live(i) /\ sread[i] \in Fds \ {0} => Own(sread[i], i)
  /\ \A i, j \in Ifaces : Live(i) /\ Live(j) /\ i # j /\ sread[i] = sread[j] => sread[i] <= 0

(* What a call knows of the number it has taken from the global. *)
Reads(t) ==
  LET s == sread[loc[t].name] IN
  /\ loc[t].pc \in {"reopen", "recv"} => loc[t].fd = s
  /\ loc[t].pc \in {"bind", "clear", "load", "recv"} /\ s \in Fds => Own(s, loc[t].name)

Closes(t) ==
  LET s == sread[Head(loc[t].todo)] IN
  loc[t].pc = "shut" => loc[t].fd = s /\ (s > 0 \/ (Answering(t) /\ s # 0))

(* A call's own descriptor. *)
OwnLabels == {"wbind", "wflag", "refuse", "send", "wclose", "nllink"}
Opened == \A t \in Threads : loc[t].pc \in OwnLabels => loc[t].fd \in Fds

Owns(t) ==
  /\ loc[t].pc \in OwnLabels =>
       \A i \in Ifaces : sread[i] = loc[t].fd => loc[t].fd = 0
  /\ loc[t].pc = "wbind" => file[loc[t].fd] = "raw"
  /\ loc[t].pc \in {"wflag", "refuse", "send", "wclose"} => file[loc[t].fd] = loc[t].name
  /\ loc[t].pc = "nllink" => file[loc[t].fd] = "lib"

Sockets == Ifaces \cup {"raw", "lib"}
Known ==
  \A n \in Fds :
    file[n] \in Sockets =>
      \/ n \in left
      \/ \E i \in Ifaces : Live(i) /\ sread[i] = n
      \/ \E t \in Threads : loc[t].pc \in OwnLabels /\ loc[t].fd = n

Answers ==
  \A t \in Threads :
    loc[t].pc = "answered" \/ (loc[t].pc \in CloseLabels /\ Answering(t)) => reqst_flag = 1

Order ==
  /\ Alone /\ Answers /\ Kept /\ Known
  /\ \A t \in Threads : Reads(t) /\ Closes(t) /\ Owns(t)

IInv == Types /\ Shape /\ Opened /\ LockBalanced /\ (orderly => Order)

-----------------------------------------------------------------------------
(* What a step does to the program counters.                               *)

(* Thread t goes to p with the descriptor f, the list d and the return b.  *)
Moves(t, p, f, d, b) ==
  /\ loc' \in [Threads -> Place]
  /\ loc'[t].pc = p /\ loc'[t].fd = f /\ loc'[t].todo = d /\ loc'[t].back = b
  /\ loc'[t].op = loc[t].op /\ loc'[t].name = loc[t].name
  /\ \A u \in Threads : u # t => loc'[u] = loc[u]

Returns(t) ==
  /\ loc' \in [Threads -> Place]
  /\ loc'[t] = Idle
  /\ \A u \in Threads : u # t => loc'[u] = loc[u]

LEMMA IdlePlace == Idle \in Place
BY DEF Idle, Place, Labels, Numbers, Backs, CloseBacks, Calls

LEMMA GotoMoves ==
  ASSUME Types, NEW t \in Threads, NEW p \in Labels, Goto(t, p)
  PROVE  Moves(t, p, loc[t].fd, loc[t].todo, loc[t].back)
BY DEF Types, Place, Goto, Moves

LEMMA FetchMoves ==
  ASSUME Types, NEW t \in Threads, NEW p \in Labels, NEW n \in Numbers,
         loc' = [loc EXCEPT ![t].pc = p, ![t].fd = n]
  PROVE  Moves(t, p, n, loc[t].todo, loc[t].back)
BY DEF Types, Place, Moves

LEMMA CloseMoves ==
  ASSUME Types, NEW t \in Threads, NEW d \in Seq(Ifaces), NEW b \in Backs, CloseRead(t, d, b)
  PROVE  Moves(t, "test", loc[t].fd, d, b)
BY DEF Types, Place, Moves, CloseRead, Labels, CloseLabels

LEMMA ReturnReturns ==
  ASSUME Types, NEW t \in Threads, Return(t)
  PROVE  Returns(t)
BY IdlePlace DEF Types, Return, Returns

LEMMA AdvanceMoves ==
  ASSUME Types, Shape, NEW t \in Threads, loc[t].pc \in CloseLabels, Advance(t)
  PROVE  LET d == Tail(loc[t].todo) IN
         /\ d \in Seq(Ifaces)
         /\ \/ d = <<>> /\ loc[t].back = "idle" /\ Returns(t)
            \/ d = <<>> /\ loc[t].back # "idle"
                 /\ Moves(t, loc[t].back, loc[t].fd, d, loc[t].back)
            \/ d # <<>> /\ Moves(t, "test", loc[t].fd, d, loc[t].back)
<1> DEFINE d == Tail(loc[t].todo)
<1>1. loc[t].todo \in Seq(Ifaces) /\ loc[t].todo # <<>> /\ loc[t].back \in CloseBacks
  BY DEF Types, Place, Shape, ShapeOf
<1>2. d \in Seq(Ifaces)
  BY <1>1
<1> HIDE DEF d
<1>3. CloseBacks \subseteq Labels /\ "test" \in Labels
  BY DEF CloseBacks, Labels, ReadLabels, CloseLabels, WriteLabels, LinkLabels, Requests
<1>4. CASE d = <<>> /\ loc[t].back = "idle"
  BY <1>2, <1>4, IdlePlace DEF d, Advance, Returns, Types
<1>5. CASE d = <<>> /\ loc[t].back # "idle"
  BY ZenonT(40), <1>1, <1>2, <1>3, <1>5 DEF d, Advance, Moves, Types, Place
<1>6. CASE d # <<>>
  BY <1>2, <1>3, <1>6 DEF d, Advance, Moves, Types, Place
<1> QED BY <1>4, <1>5, <1>6 DEF d

LEMMA InterfacesList ==
  /\ Interfaces \in Seq(Ifaces)
  /\ Ifaces # {} => Interfaces # <<>>
<1> DEFINE a == InUse("can0")
           b == InUse("can1")
           c == InUse("can2")
<1>1. /\ a \in Seq(Ifaces) /\ Len(a) = (IF "can0" \in Ifaces THEN 1 ELSE 0)
      /\ b \in Seq(Ifaces) /\ Len(b) = (IF "can1" \in Ifaces THEN 1 ELSE 0)
      /\ c \in Seq(Ifaces) /\ Len(c) = (IF "can2" \in Ifaces THEN 1 ELSE 0)
  BY DEF InUse
<1>2. Ifaces # {} => "can0" \in Ifaces \/ "can1" \in Ifaces \/ "can2" \in Ifaces
  BY CanAssumption
<1>3. Interfaces = a \o b \o c
  BY DEF Interfaces
<1> HIDE DEF a, b, c
<1>4. /\ a \o b \o c \in Seq(Ifaces)
      /\ Len(a \o b \o c) = Len(a) + Len(b) + Len(c)
  <2>1. a \o b \in Seq(Ifaces) /\ Len(a \o b) = Len(a) + Len(b)
    BY <1>1, ConcatProperties
  <2>2. (a \o b) \o c \in Seq(Ifaces) /\ Len((a \o b) \o c) = Len(a \o b) + Len(c)
    BY <1>1, <2>1, ConcatProperties
  <2> QED BY <2>1, <2>2
<1>5. Ifaces # {} => Len(a \o b \o c) # 0
  BY <1>1, <1>2, <1>4
<1> QED BY <1>3, <1>4, <1>5

LEMMA CallWords ==
  /\ {"lock", "test", "rate", "fdrate"} \subseteq Labels
  /\ {"read", "write", "deinit", "init", "fdinit"} \subseteq Calls
  /\ {"deinit", "init", "fdinit"} \subseteq LinkCalls
  /\ {"idle", "parse", "wake", "stop"} \subseteq Backs
  /\ <<>> \in Seq(Ifaces)
  /\ \A i \in Ifaces : <<i>> \in Seq(Ifaces)
BY DEF Labels, Calls, LinkCalls, Backs, CloseBacks, ReadLabels, CloseLabels, WriteLabels,
   LinkLabels, Requests

(* A call takes an idle thread to its first label. *)
Begins(t, p, k, i, d, b) ==
  /\ loc[t].pc = "idle"
  /\ loc' \in [Threads -> Place]
  /\ loc'[t].pc = p /\ loc'[t].op = k /\ loc'[t].name = i /\ loc'[t].fd = -1
  /\ loc'[t].todo = d /\ loc'[t].back = b
  /\ \A u \in Threads : u # t => loc'[u] = loc[u]
  /\ orderly' = (orderly /\ ~Overlaps(t, k, i))
  /\ UNCHANGED <<file, sread, can_lock, reqst_flag, left>>

(* can_init() and its kin close the read socket first, or go to a request. *)
LinkBegins(t, i, k) ==
  \/ \E b \in {"wake", "stop"} : Begins(t, "test", k, i, <<i>>, b)
  \/ \E p \in {"rate", "fdrate"} : Begins(t, p, k, i, <<>>, "idle")

LEMMA CallBegins ==
  ASSUME Types, NEW t \in Threads, Call(t)
  PROVE  \E i \in Ifaces :
           \/ Begins(t, "lock", "read", i, <<>>, "idle")
           \/ Begins(t, "test", "write", i, <<i>>, "parse")
           \/ \E k \in LinkCalls : LinkBegins(t, i, k)
<1>1. ASSUME NEW i \in Ifaces, NEW p \in Labels, NEW k \in Calls, NEW d \in Seq(Ifaces),
             NEW b \in Backs, Begin(t, k, i, p, d, b)
      PROVE  Begins(t, p, k, i, d, b)
  BY <1>1 DEF Begin, Begins, Busy, Idle, Types, Place, Numbers
<1>2. /\ {"lock", "test", "rate", "fdrate"} \subseteq Labels
      /\ {"read", "write", "deinit", "init", "fdinit"} \subseteq Calls
      /\ {"deinit", "init", "fdinit"} \subseteq LinkCalls
      /\ {"idle", "parse", "wake", "stop"} \subseteq Backs
      /\ <<>> \in Seq(Ifaces)
      /\ \A i \in Ifaces : <<i>> \in Seq(Ifaces)
  BY CallWords
<1>3. PICK i \in Ifaces :
        Read(t, i) \/ Write(t, i) \/ Deinit(t, i) \/ CanInit(t, i) \/ FdInit(t, i)
  BY DEF Call
<1> HIDE DEF Begins
<1>c. ASSUME NEW k \in Calls, Closing(t, k, i)
      PROVE  \E b \in {"wake", "stop"} : Begins(t, "test", k, i, <<i>>, b)
  BY <1>1, <1>2, <1>c DEF Closing
<1>d. ASSUME NEW k \in Calls, NEW p \in {"rate", "fdrate"}, Begin(t, k, i, p, <<>>, "idle")
      PROVE  Begins(t, p, k, i, <<>>, "idle")
  BY <1>1, <1>2, <1>d
<1>4. CASE Read(t, i)
  BY <1>1, <1>2, <1>4 DEF Read
<1>5. CASE Write(t, i)
  BY <1>1, <1>2, <1>5 DEF Write
<1>6. CASE Deinit(t, i)
  BY <1>2, <1>c, <1>6 DEF Deinit, LinkBegins
<1>7. CASE CanInit(t, i)
  BY <1>2, <1>c, <1>d, <1>7 DEF CanInit, LinkBegins
<1>8. CASE FdInit(t, i)
  BY <1>2, <1>c, <1>d, <1>8 DEF FdInit, LinkBegins
<1> QED BY <1>3, <1>4, <1>5, <1>6, <1>7, <1>8

Go(t, p) == Moves(t, p, loc[t].fd, loc[t].todo, loc[t].back)

(* The next socket of the list, or the end of it. *)
Goes(t) ==
  LET d == Tail(loc[t].todo) IN
  /\ d \in Seq(Ifaces)
  /\ \/ d = <<>> /\ loc[t].back = "idle" /\ Returns(t)
     \/ d = <<>> /\ loc[t].back # "idle"
          /\ Moves(t, loc[t].back, loc[t].fd, d, loc[t].back)
     \/ d # <<>> /\ Moves(t, "test", loc[t].fd, d, loc[t].back)

LEMMA NumbersInt == Numbers \subseteq Int /\ Fds \subseteq Numbers
BY CanAssumption DEF Numbers

LEMMA GotoGo ==
  ASSUME Types, NEW t \in Threads, NEW p \in Labels, Goto(t, p)
  PROVE  Go(t, p)
BY GotoMoves DEF Go

LEMMA AllLabels ==
  {"check", "reopen", "open", "bind", "clear", "load", "recv", "answered", "post", "fail",
   "test", "shut", "forget", "socket", "wbind", "wflag", "refuse", "send", "wclose",
   "stop", "nllink"} \subseteq Labels
BY DEF Labels, ReadLabels, CloseLabels, WriteLabels, LinkLabels, Requests

(* A thread at work has an interface, and its list names interfaces. *)
LEMMA ThreadPlace ==
  ASSUME Types, Shape, NEW t \in Threads
  PROVE  /\ Busy(t) => loc[t].name \in Ifaces /\ sread[loc[t].name] \in Numbers
                         /\ <<loc[t].name>> \in Seq(Ifaces)
         /\ loc[t].pc \in CloseLabels =>
              Head(loc[t].todo) \in Ifaces /\ sread[Head(loc[t].todo)] \in Numbers
BY DEF Types, Shape, ShapeOf, Place, Busy

LEMMA LockMoves ==
  ASSUME Types, Shape, NEW t \in Threads, Lock(t)
  PROVE  Go(t, "check")
BY GotoGo, ReturnReturns, AllLabels DEF Lock, Abandon

LEMMA CheckMoves ==
  ASSUME Types, Shape, NEW t \in Threads, Check(t)
  PROVE  \E p \in {"reopen", "load"} :
           /\ Moves(t, p, sread[loc[t].name], loc[t].todo, loc[t].back)
           /\ p = "load" => sread[loc[t].name] > 0 /\ reqst_flag = 0
<1> DEFINE s == sread[loc[t].name]
           p == IF s <= 0 \/ reqst_flag = 1 THEN "reopen" ELSE "load"
<1>1. s \in Numbers
  BY ThreadPlace DEF Check, At, Busy
<1>2. p \in {"reopen", "load"} /\ p \in Labels
  BY AllLabels
<1>3. loc' = [loc EXCEPT ![t].pc = p, ![t].fd = s]
  BY DEF Check
<1>4. p = "load" => s > 0 /\ reqst_flag = 0
  <2>1. s \in Int /\ reqst_flag \in {0, 1}
    BY <1>1, NumbersInt DEF Types
  <2>2. p = "load" => ~(s <= 0) /\ reqst_flag # 1
    OBVIOUS
  <2> HIDE DEF p, s
  <2> QED BY <2>1, <2>2
<1> HIDE DEF p
<1> QED BY <1>1, <1>2, <1>3, <1>4, FetchMoves

LEMMA ReopenMoves ==
  ASSUME Types, Shape, NEW t \in Threads, Reopen(t)
  PROVE  Go(t, "open")
BY GotoGo, ReturnReturns, AllLabels DEF Reopen, Abandon

LEMMA OpenMoves ==
  ASSUME Types, Shape, NEW t \in Threads, Open(t)
  PROVE  \E n \in Numbers :
           /\ Socket(n, "raw")
           /\ sread' = [sread EXCEPT ![loc[t].name] = n]
           /\ IF n < 0 THEN Go(t, "load") ELSE Go(t, "bind")
BY GotoGo, AllLabels DEF Open

LEMMA BindMoves ==
  ASSUME Types, Shape, NEW t \in Threads, Bind(t)
  PROVE  \/ Go(t, "load")
         \/ reqst_flag = 0 /\ Go(t, "clear")
BY GotoGo, ReturnReturns, AllLabels DEF Bind, Abandon

LEMMA ClearMoves ==
  ASSUME Types, Shape, NEW t \in Threads, Clear(t)
  PROVE  Go(t, "load")
BY GotoGo, ReturnReturns, AllLabels DEF Clear, Abandon

LEMMA LoadMoves ==
  ASSUME Types, Shape, NEW t \in Threads, Load(t)
  PROVE  Moves(t, "recv", sread[loc[t].name], loc[t].todo, loc[t].back)
BY FetchMoves, AllLabels, ThreadPlace DEF Load, At, Busy

LEMMA RecvMoves ==
  ASSUME Types, Shape, NEW t \in Threads, Recv(t)
  PROVE  \/ Go(t, "fail") \/ Go(t, "post")
         \/ reqst_flag = 1 /\ Moves(t, "test", loc[t].fd, Interfaces, "answered")
BY GotoGo, AllLabels, CloseMoves, InterfacesList DEF Recv, Backs, CloseBacks

LEMMA AnsweredMoves ==
  ASSUME Types, Shape, NEW t \in Threads, Answered(t)
  PROVE  Go(t, "post")
BY GotoGo, ReturnReturns, AllLabels DEF Answered, Abandon

LEMMA PostMoves ==
  ASSUME Types, Shape, NEW t \in Threads, Post(t)
  PROVE  Returns(t)
BY GotoGo, ReturnReturns, AllLabels DEF Post, Abandon

LEMMA FailMoves ==
  ASSUME Types, Shape, NEW t \in Threads, Fail(t)
  PROVE  Moves(t, "test", loc[t].fd, <<loc[t].name>>, "idle")
BY CloseMoves, ThreadPlace DEF Fail, Backs, CloseBacks, At, Busy

LEMMA TestMoves ==
  ASSUME Types, Shape, NEW t \in Threads, Test(t)
  PROVE  LET s == sread[Head(loc[t].todo)] IN
         \/ /\ s > 0 \/ (Answering(t) /\ s # 0)
            /\ Moves(t, "shut", s, loc[t].todo, loc[t].back)
         \/ Goes(t)
BY FetchMoves, AdvanceMoves, AllLabels, ThreadPlace DEF Test, At, Goes, CloseLabels

LEMMA ShutMoves ==
  ASSUME Types, Shape, NEW t \in Threads, Shut(t)
  PROVE  Go(t, "forget")
BY GotoGo, ReturnReturns, AllLabels DEF Shut, Abandon

LEMMA ForgetMoves ==
  ASSUME Types, Shape, NEW t \in Threads, Forget(t)
  PROVE  Goes(t)
BY AdvanceMoves DEF Forget, At, Goes, CloseLabels

LEMMA ParseMoves ==
  ASSUME Types, Shape, NEW t \in Threads, Parse(t)
  PROVE  Go(t, "socket") \/ Returns(t)
BY GotoGo, ReturnReturns, AllLabels DEF Parse, Abandon

LEMMA OpenWriteMoves ==
  ASSUME Types, Shape, NEW t \in Threads, OpenWrite(t)
  PROVE  \E n \in Numbers :
           /\ Socket(n, "raw")
           /\ IF n < 0 THEN Returns(t) ELSE Moves(t, "wbind", n, loc[t].todo, loc[t].back)
BY ReturnReturns, FetchMoves, AllLabels DEF OpenWrite

LEMMA BindWriteMoves ==
  ASSUME Types, Shape, NEW t \in Threads, BindWrite(t)
  PROVE  \/ file' = file /\ Returns(t) /\ left' = left \cup {loc[t].fd}
         \/ file' = Bound(loc[t].fd, loc[t].name) /\ Go(t, "wflag") /\ left' = left
BY GotoGo, ReturnReturns, AllLabels DEF BindWrite, Abandon

LEMMA TestFlagMoves ==
  ASSUME Types, Shape, NEW t \in Threads, TestFlag(t)
  PROVE  Go(t, "send") \/ Go(t, "refuse")
BY GotoGo, ReturnReturns, AllLabels DEF TestFlag, Abandon

LEMMA RefuseMoves ==
  ASSUME Types, Shape, NEW t \in Threads, Refuse(t)
  PROVE  Returns(t) /\ left' = left \cup {loc[t].fd}
BY GotoGo, ReturnReturns, AllLabels DEF Refuse, Abandon

LEMMA SendMoves ==
  ASSUME Types, Shape, NEW t \in Threads, Send(t)
  PROVE  \/ Returns(t) /\ left' = left \cup {loc[t].fd} /\ reqst_flag' = reqst_flag
         \/ Go(t, "wclose") /\ left' = left /\ reqst_flag' = 1
BY GotoGo, ReturnReturns, AllLabels DEF Send, Abandon

LEMMA CloseWriteMoves ==
  ASSUME Types, Shape, NEW t \in Threads, CloseWrite(t)
  PROVE  Returns(t)
BY GotoGo, ReturnReturns, AllLabels DEF CloseWrite, Abandon

(* After a request the call goes on to another, or returns. *)
Continues(t) ==
  \/ Returns(t)
  \/ \E p \in Requests : Moves(t, p, -1, loc[t].todo, "idle")

LEMMA GoOnContinues ==
  ASSUME Types, NEW t \in Threads, NEW r, GoOn(t, r)
  PROVE  Continues(t)
<1>1. PICK p \in {"rate", "fdrate", "start", "idle"} :
        loc' = IF p = "idle" THEN [loc EXCEPT ![t] = Idle]
                 ELSE [loc EXCEPT ![t].pc = p, ![t].fd = -1, ![t].back = "idle"]
  BY DEF GoOn, Sequel
<1>2. CASE p = "idle"
  BY <1>1, <1>2, IdlePlace DEF Types, Continues, Returns
<1>3. CASE p # "idle"
  <2>1. p \in Requests /\ p \in Labels /\ -1 \in Numbers /\ "idle" \in Backs
    BY <1>3 DEF Requests, Labels, LinkLabels, Numbers, Backs, CloseBacks
  <2>2. loc' = [loc EXCEPT ![t].pc = p, ![t].fd = -1, ![t].back = "idle"]
    BY <1>1, <1>3
  <2> QED BY <2>1, <2>2 DEF Types, Place, Continues, Moves
<1> QED BY <1>2, <1>3

LEMMA WakeMoves ==
  ASSUME Types, Shape, NEW t \in Threads, Wake(t)
  PROVE  \E n \in Numbers :
           /\ Socket(n, "lib")
           /\ left' = left \cup ({n} \cap Fds)
           /\ Continues(t) \/ Go(t, "stop")
BY GoOnContinues, GotoGo, AllLabels DEF Wake

LEMMA OpenNetlinkMoves ==
  ASSUME Types, Shape, NEW t \in Threads, OpenNetlink(t)
  PROVE  \E n \in Numbers :
           /\ Socket(n, "lib")
           /\ \/ left' = left \cup ({n} \cap Fds) /\ Continues(t)
              \/ /\ n \in Fds /\ left' = left
                 /\ \E b \in Requests : Moves(t, "nllink", n, loc[t].todo, b)
<1>1. PICK n \in Numbers :
        /\ Socket(n, "lib")
        /\ \/ /\ Return(t) \/ GoOn(t, loc[t].pc)
              /\ left' = left \cup ({n} \cap Fds)
           \/ /\ n \in Fds
              /\ loc' = [loc EXCEPT ![t].pc = "nllink", ![t].fd = n, ![t].back = loc[t].pc]
              /\ left' = left
  BY DEF OpenNetlink
<1>2. Return(t) \/ GoOn(t, loc[t].pc) => Continues(t)
  BY GoOnContinues, ReturnReturns DEF Continues
<1>3. ASSUME loc' = [loc EXCEPT ![t].pc = "nllink", ![t].fd = n, ![t].back = loc[t].pc]
      PROVE  \E b \in Requests : Moves(t, "nllink", n, loc[t].todo, b)
  <2>1. loc[t].pc \in Requests /\ loc[t].pc \in Backs
    BY DEF OpenNetlink, Backs
  <2> QED BY <1>3, <2>1, AllLabels DEF Types, Place, Moves
<1> QED BY <1>1, <1>2, <1>3

LEMMA StartQueuedMoves ==
  ASSUME Types, Shape, NEW t \in Threads, StartQueued(t)
  PROVE  /\ loc[t].pc = "nllink"
         /\ Moves(t, "nllink", loc[t].fd, loc[t].todo, "queued")
         /\ \E n \in Fds : Socket(n, "lib") /\ left' = left \cup {n}
<1>1. "queued" \in Backs
  BY DEF Backs
<1> QED BY <1>1 DEF StartQueued, At, Types, Place, Moves

LEMMA SetLinkMoves ==
  ASSUME Types, Shape, NEW t \in Threads, SetLink(t)
  PROVE  /\ Continues(t)
         /\ \/ file' = Closed(loc[t].fd) /\ left' = left
            \/ file' = file /\ left' = left \cup {loc[t].fd}
BY GoOnContinues DEF SetLink

(* All four stay in their part of the call, or leave it. *)
LinkStep(t) == Wake(t) \/ OpenNetlink(t) \/ StartQueued(t) \/ SetLink(t)

LEMMA LinkMoves ==
  ASSUME Types, Shape, NEW t \in Threads, LinkStep(t)
  PROVE  /\ loc[t].pc \in LinkLabels
         /\ UNCHANGED <<sread, can_lock, reqst_flag, orderly>>
         /\ \/ Returns(t)
            \/ \E p \in Requests \cup {"nllink"}, f \in Numbers, b \in Backs :
                 /\ Moves(t, p, f, loc[t].todo, b)
                 /\ p = "nllink" => f \in Fds \/ (loc[t].pc = "nllink" /\ f = loc[t].fd)
<1>1. loc[t].pc \in LinkLabels /\ UNCHANGED <<sread, can_lock, reqst_flag, orderly>>
  BY DEF LinkStep, Wake, OpenNetlink, StartQueued, SetLink, LinkLabels, Requests, At
<1>2. /\ -1 \in Numbers /\ {"idle", "queued"} \subseteq Backs /\ "stop" \in Requests /\ Requests \subseteq Backs
      /\ loc[t].fd \in Numbers /\ loc[t].back \in Backs /\ Fds \subseteq Numbers
      /\ "nllink" \notin Requests
  BY DEF Numbers, Backs, CloseBacks, Requests, Types, Place
<1>3. Continues(t) => \/ Returns(t)
                      \/ \E p \in Requests : Moves(t, p, -1, loc[t].todo, "idle")
  BY DEF Continues
<1>4. CASE Wake(t)
  <2>1. Continues(t) \/ Moves(t, "stop", loc[t].fd, loc[t].todo, loc[t].back)
    BY <1>4, WakeMoves DEF Go
  <2> QED BY <1>1, <1>2, <1>3, <2>1
<1>5. CASE OpenNetlink(t)
  <2>1. \/ Continues(t)
        \/ \E n \in Fds, b \in Requests : Moves(t, "nllink", n, loc[t].todo, b)
    BY <1>5, OpenNetlinkMoves
  <2> QED BY <1>1, <1>2, <1>3, <2>1
<1>6. CASE SetLink(t)
  BY <1>1, <1>2, <1>3, <1>6, SetLinkMoves
<1>7. CASE StartQueued(t)
  BY <1>1, <1>2, <1>7, StartQueuedMoves
<1> QED BY <1>4, <1>5, <1>6, <1>7 DEF LinkStep

-----------------------------------------------------------------------------
(* Types, Shape and LockBalanced, which hold whatever the calls overlap.   *)

LEMMA FileTypes ==
  ASSUME Types
  PROVE  /\ \A n \in Numbers : Closed(n) \in [Fds -> Kinds]
         /\ \A n \in Numbers, i \in Ifaces : Bound(n, i) \in [Fds -> Kinds]
         /\ \A n \in Numbers, k \in Kinds : Socket(n, k) => file' \in [Fds -> Kinds]
         /\ {"raw", "lib", "file", "free"} \subseteq Kinds
BY DEF Types, Closed, Bound, Socket, Kinds

LEMMA ShapeKeeps ==
  ASSUME Shape, NEW t \in Threads, ShapeOf(loc'[t]),
         \A u \in Threads : u # t => loc'[u] = loc[u]
  PROVE  Shape'
BY DEF Shape

(* The lock stays as it is while its holders do. *)
LEMMA LockKeeps ==
  ASSUME LockBalanced, NEW t \in Threads, can_lock' = can_lock, Holding(t)' <=> Holding(t),
         \A u \in Threads : u # t => loc'[u] = loc[u]
  PROVE  LockBalanced'
<1>1. \A u \in Threads : Holding(u)' <=> Holding(u)
  BY DEF Holding, Answering
<1> QED BY <1>1 DEF LockBalanced

(* Steps within one part of a call, *)
Together(p, q) ==
  \/ {p, q} \subseteq ReadLabels \ {"lock"}
  \/ {p, q} \subseteq CloseLabels
  \/ {p, q} \subseteq WriteLabels

LEMMA TogetherKeeps ==
  ASSUME Shape, NEW t \in Threads, NEW p, NEW f, Together(loc[t].pc, p),
         Moves(t, p, f, loc[t].todo, loc[t].back)
  PROVE  /\ Shape'
         /\ LockBalanced /\ can_lock' = can_lock => LockBalanced'
<1> USE DEF ReadLabels, WriteLabels, CloseLabels, LinkLabels, Requests
<1>1. ShapeOf(loc'[t])
  BY DEF Shape, ShapeOf, Moves, Together
<1>2. Holding(t)' <=> Holding(t)
  BY DEF Holding, Answering, Moves, Together
<1> QED BY <1>1, <1>2, ShapeKeeps, LockKeeps DEF Moves

LEMMA TailOfOne == ASSUME NEW x PROVE Tail(<<x>>) = <<>>
OBVIOUS

LEMMA HeadOfOne == ASSUME NEW x PROVE Head(<<x>>) = x
OBVIOUS

LEMMA LinkKeeps ==
  ASSUME Types, Shape, NEW t \in Threads, LinkStep(t)
  PROVE  /\ Shape'
         /\ LockBalanced => LockBalanced'
<1> USE DEF ReadLabels, WriteLabels, CloseLabels, LinkLabels, Requests
<1>1. /\ loc[t].pc \in LinkLabels /\ can_lock' = can_lock
      /\ \/ Returns(t)
         \/ \E p \in Requests \cup {"nllink"}, f \in Numbers, b \in Backs :
              Moves(t, p, f, loc[t].todo, b)
  BY LinkMoves
<1>2. ShapeOf(loc'[t])
  BY <1>1 DEF Shape, ShapeOf, Moves, Returns, Idle
<1>3. ~Holding(t) /\ ~Holding(t)'
  BY <1>1 DEF Holding, Answering, Moves, Returns, Idle
<1>4. \A u \in Threads : u # t => loc'[u] = loc[u]
  BY <1>1 DEF Moves, Returns
<1> QED BY <1>1, <1>2, <1>3, <1>4, ShapeKeeps, LockKeeps

(* along the list of sockets to close, *)
LEMMA GoesKeeps ==
  ASSUME Types, Shape, NEW t \in Threads, loc[t].pc \in CloseLabels, Goes(t)
  PROVE  /\ Shape'
         /\ LockBalanced /\ can_lock' = can_lock => LockBalanced'
<1> USE DEF ReadLabels, WriteLabels, CloseLabels, LinkLabels, Requests
<1> DEFINE d == Tail(loc[t].todo)
<1>1. /\ loc[t].back \in Backs
      /\ ShapeOf(loc[t])
  BY DEF Types, Place, Shape
<1>2. loc[t].back # "answered" => d = <<>>
  BY <1>1, TailOfOne DEF ShapeOf
<1> HIDE DEF d
<1>3. CASE Returns(t) /\ loc[t].back = "idle"
  <2>1. ShapeOf(loc'[t])
    BY <1>3 DEF Returns, Idle, ShapeOf
  <2>2. ~Holding(t) /\ ~Holding(t)'
    BY <1>3 DEF Returns, Idle, Holding, Answering
  <2> QED BY <1>3, <2>1, <2>2, ShapeKeeps, LockKeeps DEF Returns
<1>4. CASE d = <<>> /\ loc[t].back # "idle" /\ Moves(t, loc[t].back, loc[t].fd, d, loc[t].back)
  <2>1. ShapeOf(loc'[t])
    BY <1>1, <1>4 DEF Moves, ShapeOf, Backs, CloseBacks
  <2>2. Holding(t)' <=> Holding(t)
    BY <1>1, <1>4 DEF Moves, Holding, Answering, Backs, CloseBacks
  <2> QED BY <1>4, <2>1, <2>2, ShapeKeeps, LockKeeps DEF Moves
<1>5. CASE d # <<>> /\ Moves(t, "test", loc[t].fd, d, loc[t].back)
  <2>1. ShapeOf(loc'[t])
    BY <1>1, <1>2, <1>5 DEF Moves, ShapeOf
  <2>2. Holding(t)' <=> Holding(t)
    BY <1>5 DEF Moves, Holding, Answering
  <2> QED BY <1>5, <2>1, <2>2, ShapeKeeps, LockKeeps DEF Moves
<1> QED BY <1>3, <1>4, <1>5 DEF Goes, d

(* and out of a call. *)
LEMMA ReturnKeeps ==
  ASSUME Shape, NEW t \in Threads, Returns(t)
  PROVE  /\ Shape' /\ ~Holding(t)'
         /\ LockBalanced /\ can_lock' = can_lock /\ ~Holding(t) => LockBalanced'
<1> USE DEF ReadLabels, WriteLabels, CloseLabels, LinkLabels, Requests
<1>1. ShapeOf(loc'[t])
  BY DEF Returns, Idle, ShapeOf
<1>2. ~Holding(t)'
  BY DEF Returns, Idle, Holding
<1> QED BY <1>1, <1>2, ShapeKeeps, LockKeeps DEF Returns

LEMMA StepShape ==
  ASSUME Types, Shape, LockBalanced, NEW t \in Threads, Step(t)
  PROVE  Shape' /\ LockBalanced'
<1>1. CASE Lock(t)
  <2>1. ShapeOf(loc'[t]) /\ ~Holding(t) /\ Holding(t)'
    BY <1>1, LockMoves DEF Lock, At, Shape, ShapeOf, Go, Moves, Holding, ReadLabels, WriteLabels,
       CloseLabels, LinkLabels, Requests
  <2>2. \A u \in Threads : u # t => loc'[u] = loc[u] /\ (Holding(u)' <=> Holding(u))
    BY <1>1, LockMoves DEF Go, Moves, Holding, Answering
  <2>3. can_lock = 1 /\ can_lock' = 0
    BY <1>1 DEF Lock, Types
  <2>4. LockBalanced'
    BY <2>1, <2>2, <2>3 DEF LockBalanced
  <2> QED BY <2>1, <2>2, <2>4, ShapeKeeps
<1>2. CASE Check(t)
  BY <1>2, CheckMoves, TogetherKeeps DEF Check, At, Go, Together, ReadLabels
<1>3. CASE Reopen(t)
  BY <1>3, ReopenMoves, TogetherKeeps DEF Reopen, At, Go, Together, ReadLabels
<1>4. CASE Open(t)
  BY <1>4, OpenMoves, TogetherKeeps DEF Open, At, Go, Together, ReadLabels
<1>5. CASE Bind(t)
  BY <1>5, BindMoves, TogetherKeeps DEF Bind, At, Go, Together, ReadLabels
<1>6. CASE Clear(t)
  BY <1>6, ClearMoves, TogetherKeeps DEF Clear, At, Go, Together, ReadLabels
<1>7. CASE Load(t)
  BY <1>7, LoadMoves, TogetherKeeps DEF Load, At, Go, Together, ReadLabels
<1>8. CASE Recv(t)
  <2> USE RecvMoves, TogetherKeeps DEF Recv, At
  <2>1. CASE Go(t, "fail") \/ Go(t, "post")
    BY <1>8, <2>1 DEF Go, Together, ReadLabels
  <2>2. CASE Moves(t, "test", loc[t].fd, Interfaces, "answered")
    <3>1. loc[t].op = "read" /\ loc[t].name \in Ifaces /\ Interfaces # <<>>
      BY <1>8, InterfacesList DEF Shape, ShapeOf, ReadLabels
    <3>2. ShapeOf(loc'[t])
      BY <2>2, <3>1 DEF Moves, ShapeOf, Calls, ReadLabels, WriteLabels, CloseLabels, LinkLabels,
         Requests, CloseBacks
    <3>3. Holding(t)' /\ Holding(t)
      BY <1>8, <2>2 DEF Moves, Holding, Answering, ReadLabels, CloseLabels
    <3> QED BY <1>8, <2>2, <3>2, <3>3, ShapeKeeps, LockKeeps DEF Moves
  <2> QED BY <1>8, <2>1, <2>2
<1>9. CASE Answered(t)
  BY <1>9, AnsweredMoves, TogetherKeeps DEF Answered, At, Go, Together, ReadLabels
<1>10. CASE Post(t)
  <2>1. Shape' /\ Holding(t) /\ ~Holding(t)'
    BY <1>10, PostMoves, ReturnKeeps DEF Post, At, Holding, ReadLabels
  <2>2. \A u \in Threads : u # t => (Holding(u)' <=> Holding(u))
    BY <1>10, PostMoves DEF Returns, Holding, Answering
  <2>3. can_lock = 0 /\ can_lock' = 1
    BY <1>10, <2>1 DEF Post, Types, LockBalanced
  <2> QED BY <2>1, <2>2, <2>3 DEF LockBalanced
<1>11. CASE Fail(t)
  <2>1. Moves(t, "test", loc[t].fd, <<loc[t].name>>, "idle") /\ loc[t].pc = "fail"
    BY <1>11, FailMoves DEF Fail, At
  <2>2. ShapeOf(loc'[t]) /\ Holding(t) /\ ~Holding(t)'
    BY <2>1 DEF Moves, Shape, ShapeOf, Holding, Answering, ReadLabels, WriteLabels, CloseLabels,
       LinkLabels, Requests, CloseBacks
  <2>3. \A u \in Threads : u # t => loc'[u] = loc[u] /\ (Holding(u)' <=> Holding(u))
    BY <2>1 DEF Moves, Holding, Answering
  <2>4. can_lock = 0 /\ can_lock' = 1
    BY <1>11, <2>2 DEF Fail, Types, LockBalanced
  <2>5. LockBalanced'
    BY <2>2, <2>3, <2>4 DEF LockBalanced
  <2> QED BY <2>2, <2>3, <2>5, ShapeKeeps
<1>12. CASE Test(t)
  BY <1>12, TestMoves, TogetherKeeps, GoesKeeps DEF Test, At, Together, CloseLabels
<1>13. CASE Shut(t)
  BY <1>13, ShutMoves, TogetherKeeps DEF Shut, At, Go, Together, CloseLabels
<1>14. CASE Forget(t)
  BY <1>14, ForgetMoves, TogetherKeeps, GoesKeeps DEF Forget, At, Together, CloseLabels
<1>15. CASE Parse(t)
  BY <1>15, ParseMoves, TogetherKeeps, ReturnKeeps
  DEF Parse, At, Go, Together, Holding, ReadLabels, CloseLabels, WriteLabels, LinkLabels
<1>16. CASE OpenWrite(t)
  BY <1>16, OpenWriteMoves, TogetherKeeps, ReturnKeeps
  DEF OpenWrite, At, Go, Together, Holding, ReadLabels, CloseLabels, WriteLabels, LinkLabels
<1>17. CASE BindWrite(t)
  BY <1>17, BindWriteMoves, TogetherKeeps, ReturnKeeps
  DEF BindWrite, At, Go, Together, Holding, ReadLabels, CloseLabels, WriteLabels, LinkLabels
<1>18. CASE TestFlag(t)
  BY <1>18, TestFlagMoves, TogetherKeeps DEF TestFlag, At, Go, Together, WriteLabels
<1>19. CASE Refuse(t)
  BY <1>19, RefuseMoves, TogetherKeeps, ReturnKeeps
  DEF Refuse, At, Go, Together, Holding, ReadLabels, CloseLabels, WriteLabels, LinkLabels
<1>20. CASE Send(t)
  BY <1>20, SendMoves, TogetherKeeps, ReturnKeeps
  DEF Send, At, Go, Together, Holding, ReadLabels, CloseLabels, WriteLabels, LinkLabels
<1>21. CASE CloseWrite(t)
  BY <1>21, CloseWriteMoves, TogetherKeeps, ReturnKeeps
  DEF CloseWrite, At, Go, Together, Holding, ReadLabels, CloseLabels, WriteLabels, LinkLabels
<1>22. CASE LinkStep(t)
  BY <1>22, LinkKeeps
<1> QED
  BY <1>1, <1>2, <1>3, <1>4, <1>5, <1>6, <1>7, <1>8, <1>9, <1>10, <1>11, <1>12, <1>13, <1>14,
        <1>15, <1>16, <1>17, <1>18, <1>19, <1>20, <1>21, <1>22
  DEF Step, ReadStep, CloseStep, WriteStep, LinkStep

LEMMA StepPlaces ==
  ASSUME Types, Shape, NEW t \in Threads, Step(t)
  PROVE  /\ loc' \in [Threads -> Place]
         /\ \A u \in Threads : u # t => loc'[u] = loc[u]
         /\ orderly' = orderly
         /\ Busy(t)
         /\ Busy(t)' => loc'[t].op = loc[t].op /\ loc'[t].name = loc[t].name
<1> USE DEF Moves, Go, Goes, Returns, Busy, Idle
<1>1. CASE Lock(t)
  BY <1>1, LockMoves DEF Lock, At
<1>2. CASE Check(t)
  BY <1>2, CheckMoves DEF Check, At
<1>3. CASE Reopen(t)
  BY <1>3, ReopenMoves DEF Reopen, At
<1>4. CASE Open(t)
  BY <1>4, OpenMoves DEF Open, At
<1>5. CASE Bind(t)
  BY <1>5, BindMoves DEF Bind, At
<1>6. CASE Clear(t)
  BY <1>6, ClearMoves DEF Clear, At
<1>7. CASE Load(t)
  BY <1>7, LoadMoves DEF Load, At
<1>8. CASE Recv(t)
  BY <1>8, RecvMoves DEF Recv, At
<1>9. CASE Answered(t)
  BY <1>9, AnsweredMoves DEF Answered, At
<1>10. CASE Post(t)
  BY <1>10, PostMoves DEF Post, At
<1>11. CASE Fail(t)
  BY <1>11, FailMoves DEF Fail, At
<1>12. CASE Test(t)
  BY <1>12, TestMoves DEF Test, CloseLabels, At
<1>13. CASE Shut(t)
  BY <1>13, ShutMoves DEF Shut, At
<1>14. CASE Forget(t)
  <2>1. Goes(t) /\ Busy(t) /\ orderly' = orderly
    BY <1>14, ForgetMoves DEF Forget, At, Busy
  <2> QED BY <2>1 DEF Goes
<1>15. CASE Parse(t)
  BY <1>15, ParseMoves DEF Parse, At
<1>16. CASE OpenWrite(t)
  <2>1. Busy(t) /\ orderly' = orderly
    BY <1>16 DEF OpenWrite, At, Busy
  <2>2. PICK n \in Numbers :
          IF n < 0 THEN Returns(t) ELSE Moves(t, "wbind", n, loc[t].todo, loc[t].back)
    BY <1>16, OpenWriteMoves
  <2>3. Returns(t) \/ Moves(t, "wbind", n, loc[t].todo, loc[t].back)
    BY <2>2
  <2> QED BY <2>1, <2>3
<1>17. CASE BindWrite(t)
  BY <1>17, BindWriteMoves DEF BindWrite, At
<1>18. CASE TestFlag(t)
  BY <1>18, TestFlagMoves DEF TestFlag, At
<1>19. CASE Refuse(t)
  BY <1>19, RefuseMoves DEF Refuse, At
<1>20. CASE Send(t)
  BY <1>20, SendMoves DEF Send, At
<1>21. CASE CloseWrite(t)
  BY <1>21, CloseWriteMoves DEF CloseWrite, At
<1>22. CASE LinkStep(t)
  BY <1>22, LinkMoves DEF LinkLabels, Requests
<1> QED
  BY <1>1, <1>2, <1>3, <1>4, <1>5, <1>6, <1>7, <1>8, <1>9, <1>10, <1>11, <1>12, <1>13, <1>14,
        <1>15, <1>16, <1>17, <1>18, <1>19, <1>20, <1>21, <1>22
  DEF Step, ReadStep, CloseStep, WriteStep, LinkStep

(* A call's own descriptor is one. *)
LEMMA StepOpened ==
  ASSUME Types, Shape, Opened, NEW t \in Threads, Step(t)
  PROVE  Opened'
<1> SUFFICES loc'[t].pc \in OwnLabels => loc'[t].fd \in Fds
  BY StepPlaces DEF Opened
<1> USE DEF Moves, Go, Goes, Returns, Idle, OwnLabels, Opened
<1>g. loc[t].back \in Backs
  BY DEF Types, Place
<1>1. CASE Lock(t)
  BY <1>1, LockMoves DEF Lock, At
<1>2. CASE Check(t)
  BY <1>2, CheckMoves DEF Check, At
<1>3. CASE Reopen(t)
  BY <1>3, ReopenMoves DEF Reopen, At
<1>4. CASE Open(t)
  BY <1>4, OpenMoves, NumbersInt DEF Open, At, Numbers
<1>5. CASE Bind(t)
  BY <1>5, BindMoves DEF Bind, At
<1>6. CASE Clear(t)
  BY <1>6, ClearMoves DEF Clear, At
<1>7. CASE Load(t)
  BY <1>7, LoadMoves DEF Load, At
<1>8. CASE Recv(t)
  BY <1>8, RecvMoves DEF Recv, At
<1>9. CASE Answered(t)
  BY <1>9, AnsweredMoves DEF Answered, At
<1>10. CASE Post(t)
  BY <1>10, PostMoves DEF Post, At
<1>11. CASE Fail(t)
  BY <1>11, FailMoves DEF Fail, At
<1>12. CASE Test(t)
  BY <1>12, TestMoves, <1>g DEF Test, At, CloseLabels, Backs, CloseBacks, Requests
<1>13. CASE Shut(t)
  BY <1>13, ShutMoves DEF Shut, At
<1>14. CASE Forget(t)
  <2>1. Goes(t)
    BY <1>14, ForgetMoves
  <2> QED BY <2>1, <1>g DEF Backs, CloseBacks, Requests
<1>15. CASE Parse(t)
  BY <1>15, ParseMoves DEF Parse, At
<1>16. CASE OpenWrite(t)
  BY <1>16, OpenWriteMoves, NumbersInt DEF OpenWrite, At, Numbers
<1>17. CASE BindWrite(t)
  BY <1>17, BindWriteMoves DEF BindWrite, At
<1>18. CASE TestFlag(t)
  BY <1>18, TestFlagMoves DEF TestFlag, At
<1>19. CASE Refuse(t)
  BY <1>19, RefuseMoves DEF Refuse, At
<1>20. CASE Send(t)
  BY <1>20, SendMoves DEF Send, At
<1>21. CASE CloseWrite(t)
  BY <1>21, CloseWriteMoves DEF CloseWrite, At
<1>22. CASE LinkStep(t)
  BY <1>22, LinkMoves DEF Requests
<1> QED
  BY <1>1, <1>2, <1>3, <1>4, <1>5, <1>6, <1>7, <1>8, <1>9, <1>10, <1>11, <1>12, <1>13, <1>14,
        <1>15, <1>16, <1>17, <1>18, <1>19, <1>20, <1>21, <1>22
  DEF Step, ReadStep, CloseStep, WriteStep, LinkStep

LEMMA StepData ==
  ASSUME Types, Shape, Opened, LockBalanced, NEW t \in Threads, Step(t)
  PROVE  /\ file' \in [Fds -> Kinds] /\ sread' \in [Ifaces -> Numbers]
         /\ can_lock' \in {0, 1} /\ reqst_flag' \in {0, 1}
         /\ left' \subseteq Fds
<1>t. /\ file \in [Fds -> Kinds] /\ sread \in [Ifaces -> Numbers]
      /\ can_lock \in {0, 1} /\ reqst_flag \in {0, 1} /\ left \subseteq Fds
      /\ loc[t].fd \in Numbers
  BY DEF Types, Place
<1>b. ASSUME loc[t].pc # "idle"
      PROVE  loc[t].name \in Ifaces /\ sread[loc[t].name] \in Numbers
  BY <1>b, ThreadPlace DEF Busy
<1>o. ASSUME loc[t].pc \in OwnLabels
      PROVE  loc[t].fd \in Fds
  BY <1>o DEF Opened
<1>h. ASSUME loc[t].pc \in {"post", "fail"}
      PROVE  can_lock = 0
  BY <1>t, <1>h DEF LockBalanced, Holding, ReadLabels
<1>1. CASE Lock(t)
  BY <1>t, <1>1 DEF Lock, At
<1>2. CASE Check(t)
  BY <1>t, <1>2 DEF Check, At
<1>3. CASE Reopen(t)
  BY <1>t, <1>3, <1>b, FileTypes DEF Reopen, At
<1>4. CASE Open(t)
  BY <1>t, <1>4, <1>b, FileTypes, OpenMoves DEF Open, At
<1>5. CASE Bind(t)
  BY <1>t, <1>5, <1>b, FileTypes DEF Bind, At
<1>6. CASE Clear(t)
  BY <1>t, <1>6, <1>b, FileTypes DEF Clear, At
<1>7. CASE Load(t)
  BY <1>t, <1>7 DEF Load, At
<1>8. CASE Recv(t)
  BY <1>t, <1>8 DEF Recv, At
<1>9. CASE Answered(t)
  BY <1>t, <1>9 DEF Answered, At
<1>10. CASE Post(t)
  BY <1>t, <1>10, <1>h DEF Post, At
<1>11. CASE Fail(t)
  BY <1>t, <1>11, <1>h DEF Fail, At
<1>12. CASE Test(t)
  BY <1>t, <1>12 DEF Test, At
<1>13. CASE Shut(t)
  BY <1>t, <1>13, ThreadPlace, FileTypes DEF Shut, At, CloseLabels
<1>14. CASE Forget(t)
  BY <1>t, <1>14, NumbersInt, ThreadPlace, CanAssumption DEF Forget, At, Numbers
<1>15. CASE Parse(t)
  BY <1>t, <1>15 DEF Parse, At
<1>16. CASE OpenWrite(t)
  BY <1>t, <1>16, FileTypes, OpenWriteMoves DEF OpenWrite, At
<1>17. CASE BindWrite(t)
  BY <1>t, <1>17, <1>b, <1>o, FileTypes, BindWriteMoves DEF BindWrite, At, OwnLabels
<1>18. CASE TestFlag(t)
  BY <1>t, <1>18 DEF TestFlag, At
<1>19. CASE Refuse(t)
  BY <1>t, <1>19, <1>o, RefuseMoves DEF Refuse, At, OwnLabels
<1>20. CASE Send(t)
  BY <1>t, <1>20, <1>o, SendMoves DEF Send, At, OwnLabels
<1>21. CASE CloseWrite(t)
  BY <1>t, <1>21, FileTypes DEF CloseWrite, At
<1>22. CASE Wake(t) \/ OpenNetlink(t) \/ StartQueued(t)
  <2>1. UNCHANGED <<sread, can_lock, reqst_flag>>
    BY <1>22 DEF Wake, OpenNetlink, StartQueued
  <2>2. \E n \in Numbers : Socket(n, "lib") /\ left' \in {left, left \cup ({n} \cap Fds)}
    BY <1>22, WakeMoves, OpenNetlinkMoves, StartQueuedMoves, NumbersInt
  <2> QED BY <1>t, <2>1, <2>2, FileTypes
<1>23. CASE SetLink(t)
  BY <1>t, <1>23, <1>o, FileTypes, SetLinkMoves DEF SetLink, At, OwnLabels
<1> QED
  BY <1>1, <1>2, <1>3, <1>4, <1>5, <1>6, <1>7, <1>8, <1>9, <1>10, <1>11, <1>12, <1>13, <1>14,
        <1>15, <1>16, <1>17, <1>18, <1>19, <1>20, <1>21, <1>22, <1>23
  DEF Step, ReadStep, CloseStep, WriteStep

-----------------------------------------------------------------------------
(* A call that begins.                                                     *)

(* Nothing it does not have yet is at stake. *)
LEMMA CallBase ==
  ASSUME Types, Shape, Opened, LockBalanced, NEW t \in Threads, Call(t)
  PROVE  /\ Types' /\ Shape' /\ Opened' /\ LockBalanced'
         /\ UNCHANGED <<file, sread, can_lock, reqst_flag, left>>
         /\ orderly' => orderly
         /\ loc'[t].pc \in {"lock", "test", "rate", "fdrate"} /\ ~Holding(t) /\ ~Holding(t)'
         /\ loc'[t].pc = "test" => ~Answering(t)'
         /\ loc[t].pc = "idle" /\ \A u \in Threads : u # t => loc'[u] = loc[u]
         /\ orderly' => \A u \in Threads \ {t} :
              Busy(u) => /\ loc'[t].op = "read" /\ loc[u].op = "read"
                         /\ loc[u].name # loc'[t].name /\ reqst_flag = 0
<1>1. PICK i \in Ifaces, p \in Labels, k \in Calls, d \in Seq(Ifaces), b \in Backs :
        /\ Begins(t, p, k, i, d, b)
        /\ \/ p = "lock" /\ k = "read" /\ d = <<>>
           \/ p = "test" /\ k = "write" /\ d = <<i>> /\ b = "parse"
           \/ p = "test" /\ k \in LinkCalls /\ d = <<i>> /\ b \in {"wake", "stop"}
           \/ p \in {"rate", "fdrate"} /\ k \in LinkCalls /\ d = <<>>
  <2> HIDE DEF Begins
  <2> QED BY CallBegins, CallWords DEF LinkBegins, Calls
<1> USE DEF Begins
<1>2. Types' /\ (orderly' => orderly)
  BY <1>1 DEF Types, Overlaps
<1>3. ShapeOf(loc'[t])
  <2>1. /\ loc'[t].pc = p /\ loc'[t].op = k /\ loc'[t].name = i /\ loc'[t].todo = d
        /\ loc'[t].back = b
    BY <1>1
  <2>2. <<i>> # <<>>
    OBVIOUS
  <2> HIDE DEF Begins
  <2> USE DEF ShapeOf, ReadLabels, WriteLabels, CloseLabels, LinkLabels, Requests, Calls,
          CloseBacks
  <2>3. CASE p = "lock" /\ k = "read" /\ d = <<>>
    BY <2>1, <2>3
  <2>4. CASE p = "test" /\ k = "write" /\ d = <<i>> /\ b = "parse"
    BY <2>1, <2>2, <2>4
  <2>5. CASE p = "test" /\ k \in LinkCalls /\ d = <<i>> /\ b \in {"wake", "stop"}
    BY <2>1, <2>2, <2>5
  <2>6. CASE p \in {"rate", "fdrate"} /\ k \in LinkCalls /\ d = <<>>
    BY <2>1, <2>6
  <2> QED BY <1>1, <2>3, <2>4, <2>5, <2>6
<1>4. Opened'
  BY <1>1 DEF Opened, OwnLabels
<1>5. ~Holding(t) /\ ~Holding(t)'
  BY <1>1 DEF Holding, Answering, ReadLabels, CloseLabels
<1>6. orderly' => \A u \in Threads \ {t} :
              Busy(u) => /\ k = "read" /\ loc[u].op = "read"
                         /\ loc[u].name # i /\ reqst_flag = 0
  BY <1>1 DEF Overlaps, Types
<1> QED BY <1>1, <1>2, <1>3, <1>4, <1>5, <1>6, ShapeKeeps, LockKeeps DEF Answering

-----------------------------------------------------------------------------
(* Within the discipline: what follows from Order.                         *)

LEMMA Names ==
  \A i \in Ifaces : i \notin {"free", "file", "raw", "lib"}
BY CanAssumption

(* Another call at work is a read of another interface. *)
LEMMA Peers ==
  ASSUME Types, Shape, Order, NEW t \in Threads, NEW u \in Threads, t # u, Busy(t), Busy(u)
  PROVE  /\ reqst_flag = 0
         /\ loc[u].pc \in (ReadLabels \ {"answered"}) \cup CloseLabels
         /\ loc[u].name # loc[t].name
         /\ ~(loc[u].pc \in CloseLabels /\ Answering(u))
         /\ loc[u].pc \in CloseLabels => loc[u].todo = <<loc[u].name>>
<1>1. loc[t].op = "read" /\ loc[u].op = "read" /\ loc[t].name # loc[u].name /\ reqst_flag = 0
  BY DEF Order, Alone
<1>2. loc[u].pc \in Labels /\ loc[u].pc # "idle" /\ ShapeOf(loc[u])
  BY DEF Types, Place, Busy, Shape
<1>3. loc[u].pc \in ReadLabels \cup CloseLabels
  BY <1>1, <1>2 DEF Labels, ShapeOf, LinkLabels, Requests, LinkCalls
<1>4. loc[u].pc # "answered" /\ ~(loc[u].pc \in CloseLabels /\ Answering(u))
  BY <1>1 DEF Order, Answers
<1> QED BY <1>1, <1>2, <1>3, <1>4 DEF ShapeOf, Answering

(* Nobody has closed the socket a read is about to use, *)
LEMMA NameIsLive ==
  ASSUME Types, Shape, Order, NEW t \in Threads, loc[t].pc \in ReadLabels \ {"open"}
  PROVE  Live(loc[t].name)
<1> SUFFICES ASSUME NEW u \in Threads, Stale(u, loc[t].name) PROVE FALSE
  BY DEF Live
<1>1. loc[u].pc \in {"open", "forget"} /\ u # t
  BY DEF Stale, ReadLabels
<1>2. Busy(t) /\ Busy(u)
  BY <1>1 DEF Busy, ReadLabels
<1>3. loc[u].pc = "forget" => Head(loc[u].todo) = loc[u].name
  BY <1>1, <1>2, Peers DEF CloseLabels
<1> QED BY <1>1, <1>2, <1>3, Peers DEF Stale

(* or one about to be closed. *)
LEMMA HeadIsLive ==
  ASSUME Types, Shape, Order, NEW t \in Threads, loc[t].pc \in {"test", "shut"}
  PROVE  Live(Head(loc[t].todo))
<1> SUFFICES ASSUME NEW u \in Threads, Stale(u, Head(loc[t].todo)) PROVE FALSE
  BY DEF Live
<1>1. loc[u].pc \in {"open", "forget"} /\ u # t
  BY DEF Stale
<1>2. Busy(t) /\ Busy(u)
  BY <1>1 DEF Busy
<1>3. Head(loc[t].todo) = loc[t].name
  BY <1>1, <1>2, Peers DEF CloseLabels
<1>4. loc[u].pc = "forget" => Head(loc[u].todo) = loc[u].name
  BY <1>1, <1>2, Peers DEF CloseLabels
<1> QED BY <1>1, <1>2, <1>3, <1>4, Peers DEF Stale

LEMMA LiveOwns ==
  ASSUME Order, NEW i \in Ifaces, Live(i), sread[i] \in Fds \ {0}
  PROVE  file[sread[i]] \in {i, "raw"} /\ file[sread[i]] \notin {"free", "file", "lib"}
BY Names DEF Order, Kept, Own

(* The writer and the calls that take a link up or down work alone. *)
LEMMA OwnersAlone ==
  ASSUME Types, Shape, Order, NEW t \in Threads,
         \/ loc[t].pc \in WriteLabels \cup LinkLabels \cup {"answered"}
         \/ loc[t].pc \in CloseLabels /\ Answering(t)
  PROVE  \A u \in Threads \ {t} : loc[u].pc = "idle"
<1>1. loc[t].pc # "idle"
  BY DEF WriteLabels, LinkLabels, Requests, CloseLabels
<1>2. ASSUME NEW u \in Threads, u # t, Busy(u) PROVE FALSE
  BY <1>1, <1>2, Peers DEF Busy, ReadLabels, WriteLabels, LinkLabels, Requests,
     CloseLabels
<1> QED BY <1>2 DEF Busy

-----------------------------------------------------------------------------
(* Within the discipline: every step keeps Order.                          *)

LEMMA StepAlone ==
  ASSUME Types, Shape, Order, NEW t \in Threads, Step(t)
  PROVE  Alone'
<1>1. /\ Busy(t) /\ (Busy(t)' => loc'[t].op = loc[t].op /\ loc'[t].name = loc[t].name)
      /\ \A u \in Threads : u # t => loc'[u] = loc[u]
  BY StepPlaces
<1>2. reqst_flag' \in {reqst_flag, 0} \/ loc[t].pc = "send"
  BY DEF Step, ReadStep, CloseStep, WriteStep, Lock, Check, Reopen, Open, Bind, Clear, Load, Recv,
     Answered, Post, Fail, Test, Shut, Forget, Parse, OpenWrite, BindWrite, TestFlag, Refuse,
     Send, CloseWrite, Wake, OpenNetlink, StartQueued, SetLink, At
<1>3. loc[t].pc = "send" => \A u \in Threads \ {t} : loc[u].pc = "idle"
  <2> SUFFICES ASSUME loc[t].pc = "send"
               PROVE  \A u \in Threads \ {t} : loc[u].pc = "idle"
    OBVIOUS
  <2>1. loc[t].pc \in WriteLabels \cup LinkLabels \cup {"answered"}
    BY DEF WriteLabels
  <2> QED BY <2>1, OwnersAlone
<1>4. \A u \in Threads \ {t} : Busy(u) => reqst_flag = 0
  BY <1>1, Peers
<1> QED BY <1>1, <1>2, <1>3, <1>4 DEF Order, Alone, Busy

(* A list goes on, and ends, as it began. *)
LEMMA GoesAnswer ==
  ASSUME NEW t \in Threads, Goes(t), loc[t].back \in Backs,
         loc'[t].pc = "answered" \/ (loc'[t].pc \in CloseLabels /\ loc'[t].back = "answered")
  PROVE  loc[t].back = "answered"
BY DEF Goes, Moves, Returns, Idle, Backs, CloseLabels

LEMMA StepAnswers ==
  ASSUME Types, Shape, Order, NEW t \in Threads, Step(t)
  PROVE  Answers'
<1> DEFINE Late(u) == loc[u].pc = "answered" \/ (loc[u].pc \in CloseLabels /\ Answering(u))
<1>1. \A u \in Threads : Late(u) => reqst_flag = 1
  BY DEF Order, Answers
<1>2. ASSUME NEW u \in Threads, u # t PROVE ~Late(u)'
  <2>1. loc'[u] = loc[u] /\ Busy(t)
    BY <1>2, StepPlaces
  <2>2. Busy(u) => ~Late(u)
    <3>1. Busy(u) => /\ loc[u].pc \in (ReadLabels \ {"answered"}) \cup CloseLabels
                     /\ ~(loc[u].pc \in CloseLabels /\ Answering(u))
      BY <1>2, <2>1, Peers
    <3> QED BY <3>1 DEF ReadLabels, CloseLabels
  <2> QED BY <2>1, <2>2 DEF Busy, CloseLabels, Answering
<1> SUFFICES ASSUME Late(t)' PROVE reqst_flag' = 1
  BY <1>2 DEF Answers
<1> USE DEF Moves, Go, Goes, Returns, Idle, At, Answering, CloseLabels
<1>3. CASE Lock(t)
  BY <1>1, <1>3, LockMoves DEF Lock
<1>4. CASE Check(t)
  BY <1>1, <1>4, CheckMoves DEF Check
<1>5. CASE Reopen(t)
  BY <1>1, <1>5, ReopenMoves DEF Reopen
<1>6. CASE Open(t)
  BY <1>1, <1>6, OpenMoves DEF Open
<1>7. CASE Bind(t)
  BY <1>1, <1>7, BindMoves DEF Bind
<1>8. CASE Clear(t)
  BY <1>1, <1>8, ClearMoves DEF Clear
<1>9. CASE Load(t)
  BY <1>1, <1>9, LoadMoves DEF Load
<1>10. CASE Recv(t)
  BY <1>1, <1>10, RecvMoves DEF Recv
<1>11. CASE Answered(t)
  BY <1>1, <1>11, AnsweredMoves DEF Answered
<1>12. CASE Post(t)
  BY <1>1, <1>12, PostMoves DEF Post
<1>13. CASE Fail(t)
  BY <1>1, <1>13, FailMoves DEF Fail
<1>14. CASE Test(t)
  <2>1. loc[t].pc \in CloseLabels /\ reqst_flag' = reqst_flag
    BY <1>14 DEF Test
  <2>2. CASE Goes(t)
    BY SMTT(30), <1>1, <2>1, <2>2, GoesAnswer
  <2>3. CASE loc'[t].pc = "shut" /\ loc'[t].back = loc[t].back
    BY <1>1, <2>1, <2>3
  <2> QED BY <1>14, <2>2, <2>3, TestMoves
<1>15. CASE Shut(t)
  BY <1>1, <1>15, ShutMoves DEF Shut
<1>16. CASE Forget(t)
  <2>1. loc[t].pc \in CloseLabels /\ reqst_flag' = reqst_flag
    BY <1>16 DEF Forget
  <2>2. Goes(t)
    BY <1>16, ForgetMoves
  <2> QED BY SMTT(30), <1>1, <2>1, <2>2, GoesAnswer
<1>17. CASE Parse(t)
  BY <1>1, <1>17, ParseMoves DEF Parse
<1>18. CASE OpenWrite(t)
  BY <1>1, <1>18, OpenWriteMoves DEF OpenWrite
<1>19. CASE BindWrite(t)
  BY <1>1, <1>19, BindWriteMoves DEF BindWrite
<1>20. CASE TestFlag(t)
  BY <1>1, <1>20, TestFlagMoves DEF TestFlag
<1>21. CASE Refuse(t)
  BY <1>1, <1>21, RefuseMoves DEF Refuse
<1>22. CASE Send(t)
  BY <1>1, <1>22, SendMoves DEF Send
<1>23. CASE CloseWrite(t)
  BY <1>1, <1>23, CloseWriteMoves DEF CloseWrite
<1>24. CASE LinkStep(t)
  BY <1>1, <1>24, LinkMoves DEF Requests
<1> QED
  BY <1>3, <1>4, <1>5, <1>6, <1>7, <1>8, <1>9, <1>10, <1>11, <1>12, <1>13, <1>14, <1>15, <1>16,
        <1>17, <1>18, <1>19, <1>20, <1>21, <1>22, <1>23, <1>24
  DEF Step, ReadStep, CloseStep, WriteStep, LinkStep

(* No step but Reopen and Shut makes a global stale, and those only their own. *)
LEMMA StepLive ==
  ASSUME Types, Shape, Order, NEW t \in Threads, Step(t), NEW i \in Ifaces
  PROVE  /\ Live(i) /\ ~Live(i)' => \/ loc[t].pc = "reopen" /\ i = loc[t].name
                                    \/ loc[t].pc = "shut" /\ i = Head(loc[t].todo)
         /\ Live(i)' /\ ~Live(i) => \/ loc[t].pc = "open" /\ i = loc[t].name
                                    \/ loc[t].pc = "forget" /\ i = Head(loc[t].todo)
<1>1. \A u \in Threads : u # t => (Stale(u, i)' <=> Stale(u, i))
  BY StepPlaces DEF Stale
<1> SUFFICES /\ Stale(t, i)' /\ ~Stale(t, i) => \/ loc[t].pc = "reopen" /\ i = loc[t].name
                                                \/ loc[t].pc = "shut" /\ i = Head(loc[t].todo)
             /\ ~Stale(t, i)' /\ Stale(t, i) => \/ loc[t].pc = "open" /\ i = loc[t].name
                                                \/ loc[t].pc = "forget" /\ i = Head(loc[t].todo)
  BY <1>1 DEF Live
<1> USE DEF Stale, Moves, Go, Returns, Idle, At
<1>2. loc[t].back \in Backs
  BY DEF Types, Place
<1>3. CASE Lock(t)
  BY <1>3, LockMoves DEF Lock
<1>4. CASE Check(t)
  BY <1>4, CheckMoves DEF Check
<1>5. CASE Reopen(t)
  <2>1. Go(t, "open") /\ loc[t].pc = "reopen"
    BY <1>5, ReopenMoves DEF Reopen
  <2> QED BY <1>5, <2>1
<1>6. CASE Open(t)
  <2>1. Go(t, "load") \/ Go(t, "bind")
    BY <1>6, OpenMoves
  <2>2. loc[t].pc = "open"
    BY <1>6 DEF Open
  <2> QED BY <1>6, <2>1, <2>2
<1>7. CASE Bind(t)
  BY <1>7, BindMoves DEF Bind
<1>8. CASE Clear(t)
  BY <1>8, ClearMoves DEF Clear
<1>9. CASE Load(t)
  BY <1>9, LoadMoves DEF Load
<1>10. CASE Recv(t)
  BY <1>10, RecvMoves DEF Recv
<1>11. CASE Answered(t)
  BY <1>11, AnsweredMoves DEF Answered
<1>12. CASE Post(t)
  BY <1>12, PostMoves DEF Post
<1>13. CASE Fail(t)
  BY <1>13, FailMoves DEF Fail
<1>14. CASE Test(t)
  <2>1. ~Stale(t, i)'
    BY <1>2, <1>14, TestMoves DEF Goes, Backs, CloseBacks, Requests
  <2> QED BY <1>14, <2>1 DEF Test
<1>15. CASE Shut(t)
  BY <1>15, ShutMoves DEF Shut
<1>16. CASE Forget(t)
  <2>1. ~Stale(t, i)'
    BY <1>2, <1>16, ForgetMoves DEF Goes, Backs, CloseBacks, Requests
  <2> QED BY <1>16, <2>1 DEF Forget
<1>17. CASE Parse(t)
  BY <1>17, ParseMoves DEF Parse
<1>18. CASE OpenWrite(t)
  BY SMTT(30), <1>18, OpenWriteMoves DEF OpenWrite
<1>19. CASE BindWrite(t)
  BY <1>19, BindWriteMoves DEF BindWrite
<1>20. CASE TestFlag(t)
  BY <1>20, TestFlagMoves DEF TestFlag
<1>21. CASE Refuse(t)
  BY <1>21, RefuseMoves DEF Refuse
<1>22. CASE Send(t)
  BY <1>22, SendMoves DEF Send
<1>23. CASE CloseWrite(t)
  BY <1>23, CloseWriteMoves DEF CloseWrite
<1>24. CASE LinkStep(t)
  <2>1. loc[t].pc \in LinkLabels /\ loc'[t].pc \notin {"open", "forget"}
    BY <1>24, LinkMoves DEF Requests
  <2> QED BY <1>24, <2>1 DEF LinkLabels, Requests
<1> QED
  BY <1>3, <1>4, <1>5, <1>6, <1>7, <1>8, <1>9, <1>10, <1>11, <1>12, <1>13, <1>14, <1>15, <1>16,
        <1>17, <1>18, <1>19, <1>20, <1>21, <1>22, <1>23, <1>24
  DEF Step, ReadStep, CloseStep, WriteStep, LinkStep

(* A step that changes no global keeps Kept if it leaves the sockets of    *)
(* the globals alone, or binds them to their interface.                    *)
LEMMA KeptFrame ==
  ASSUME Order, sread' = sread,
         \A i \in Ifaces : Live(i)' => Live(i),
         \A i \in Ifaces :
           Live(i)' /\ sread[i] \in Fds \ {0} => file'[sread[i]] \in {file[sread[i]], i}
  PROVE  Kept'
BY DEF Order, Kept, Own

LEMMA StepKept ==
  ASSUME Types, Shape, Opened, Order, NEW t \in Threads, Step(t)
  PROVE  Kept'
<1> USE DEF At
<1>s. /\ sread \in [Ifaces -> Numbers] /\ file \in [Fds -> Kinds]
      /\ Fds \subseteq Numbers /\ Numbers \subseteq Int
  BY NumbersInt DEF Types
<1>l. loc[t].pc \notin {"open", "forget"} => \A i \in Ifaces : Live(i)' => Live(i)
  BY StepLive
<1>k. \A i, j \in Ifaces : Live(i) /\ Live(j) /\ i # j /\ sread[i] = sread[j] => sread[i] <= 0
  BY DEF Order, Kept
<1>z. \A n \in Fds \ {0} : ~(n <= 0)
  BY CanAssumption
<1>o. loc[t].pc \in OwnLabels =>
        loc[t].fd \in Fds /\ \A i \in Ifaces : sread[i] = loc[t].fd => loc[t].fd = 0
  BY DEF Opened, Order, Owns
<1>r. loc[t].pc \in ReadLabels => loc[t].name \in Ifaces
  BY DEF Shape, ShapeOf, ReadLabels
<1>1. ASSUME file' = file, sread' = sread, loc[t].pc \notin {"open", "forget"}
      PROVE  Kept'
  BY <1>1, <1>l, KeptFrame
(* Closing the socket of an interface that becomes stale. *)
<1>2. ASSUME NEW i \in Ifaces, Live(i), ~Live(i)', file' = Closed(sread[i]), sread' = sread,
             loc[t].pc \notin {"open", "forget"}
      PROVE  Kept'
  <2>1. \A j \in Ifaces :
          Live(j)' /\ sread[j] \in Fds \ {0} => sread[j] # sread[i]
    BY <1>2, <1>l, <1>k, <1>z
  <2>2. \A j \in Ifaces :
          Live(j)' /\ sread[j] \in Fds \ {0} => file'[sread[j]] = file[sread[j]]
    BY <1>2, <1>s, <2>1 DEF Closed
  <2> QED BY <1>2, <1>l, <2>2, KeptFrame
(* Closing or binding a descriptor of the call's own. *)
<1>3. ASSUME loc[t].pc \in OwnLabels, sread' = sread,
             file' \in {Closed(loc[t].fd), Bound(loc[t].fd, loc[t].name)}
      PROVE  Kept'
  <2>1. \A j \in Ifaces : sread[j] \in Fds \ {0} => sread[j] # loc[t].fd
    BY <1>3, <1>o
  <2>2. \A j \in Ifaces : sread[j] \in Fds \ {0} => file'[sread[j]] = file[sread[j]]
    BY <1>3, <1>s, <2>1 DEF Closed, Bound
  <2>3. loc[t].pc \notin {"open", "forget"}
    BY <1>3 DEF OwnLabels
  <2> QED BY <1>3, <1>l, <2>2, <2>3, KeptFrame
(* Binding the socket of the call's interface. *)
<1>4. ASSUME loc[t].pc \in {"bind", "clear"}, sread' = sread,
             file' = Bound(sread[loc[t].name], loc[t].name)
      PROVE  Kept'
  <2> DEFINE i == loc[t].name
  <2>1. i \in Ifaces /\ Live(i)
    BY <1>4, <1>r, NameIsLive DEF ReadLabels
  <2> HIDE DEF i
  <2>2. \A j \in Ifaces :
          Live(j)' /\ sread[j] \in Fds \ {0} => j = i \/ sread[j] # sread[i]
    BY <1>4, <1>l, <1>k, <1>z, <2>1
  <2>3. \A j \in Ifaces :
          Live(j)' /\ sread[j] \in Fds \ {0} => file'[sread[j]] \in {file[sread[j]], j}
    BY <1>4, <1>s, <2>2 DEF Bound, i
  <2> QED BY <1>4, <1>l, <2>3, KeptFrame
(* A new descriptor is the number of no open socket. *)
<1>5. ASSUME NEW n \in Numbers, NEW k, Socket(n, k), sread' = sread,
             loc[t].pc \notin {"open", "forget"}
      PROVE  Kept'
  <2>1. file' = file \/ (file[n] = "free" /\ file' = [file EXCEPT ![n] = k])
    BY <1>5 DEF Socket, Free
  <2>2. \A j \in Ifaces :
          Live(j) /\ sread[j] \in Fds \ {0} => file'[sread[j]] = file[sread[j]]
    BY <1>s, <2>1, LiveOwns
  <2> QED BY <1>5, <1>l, <2>2, KeptFrame
<1>10. CASE Reopen(t)
  <2>1. loc[t].pc = "reopen" /\ sread' = sread /\ file' = Closed(sread[loc[t].name])
    BY <1>10 DEF Reopen, Order, Reads
  <2>2. Live(loc[t].name) /\ loc[t].name \in Ifaces
    BY <2>1, <1>r, NameIsLive DEF ReadLabels
  <2>3. ~Live(loc[t].name)'
    BY <1>10, <2>1, ReopenMoves DEF Go, Moves, Live, Stale
  <2> HIDE DEF Live
  <2>4. PICK i \in Ifaces : i = loc[t].name /\ i = loc'[t].name
    BY <1>10, <2>2, ReopenMoves DEF Go, Moves
  <2> QED BY <2>1, <2>2, <2>3, <2>4, <1>2
<1>11. CASE Shut(t)
  <2> DEFINE i == Head(loc[t].todo)
  <2>1. loc[t].pc = "shut" /\ sread' = sread /\ file' = Closed(sread[i])
    BY <1>11 DEF Shut, Order, Closes
  <2>2. Live(i) /\ i \in Ifaces
    BY <2>1, HeadIsLive, ThreadPlace DEF CloseLabels
  <2>3. loc'[t].pc = "forget" /\ Head(loc'[t].todo) = i
    BY <1>11, <2>1, ShutMoves DEF Go, Moves
  <2> HIDE DEF i
  <2>4. PICK j \in Ifaces : i = j /\ Live(j) /\ file' = Closed(sread[j])
    BY <2>1, <2>2
  <2>5. ~Live(j)'
    BY <2>3, <2>4 DEF Live, Stale
  <2> QED BY <2>1, <2>2, <2>4, <2>5, <1>2
<1>12. CASE Open(t)
  <2> DEFINE i == loc[t].name
  <2>1. PICK n \in Numbers :
          Socket(n, "raw") /\ sread' = [sread EXCEPT ![i] = n] /\ loc[t].pc = "open"
    BY <1>12, OpenMoves DEF Open
  <2>2. i \in Ifaces
    BY <2>1, <1>r DEF ReadLabels
  <2> HIDE DEF i
  <2>3. ASSUME NEW j \in Ifaces, j # i, Live(j)'
        PROVE  /\ Live(j) /\ sread'[j] = sread[j]
               /\ sread[j] \in Fds \ {0} => Own(sread[j], j)' /\ sread[j] # n
    <3>1. Live(j)
      BY <2>1, <2>3, StepLive DEF i
    <3>2. \/ n = -1 /\ file' = file
          \/ n \in Fds /\ file[n] = "free" /\ file' = [file EXCEPT ![n] = "raw"]
      BY <2>1 DEF Socket, Free
    <3>3. sread[j] \in Fds \ {0} => Own(sread[j], j) /\ file[sread[j]] # "free"
      BY <3>1, LiveOwns DEF Own
    <3>4. -1 \notin Fds
      BY CanAssumption
    <3> QED BY <2>1, <2>2, <2>3, <3>1, <3>2, <3>3, <3>4, <1>s DEF Own
  <2>4. sread'[i] = n /\ (n \in Fds => file'[n] = "raw")
    BY <2>1, <2>2, <1>s, CanAssumption DEF Socket, Own, Free
  <2>5. \A m \in Numbers : m <= 0 \/ m \in Fds \ {0}
    BY CanAssumption DEF Numbers
  <2>6. ASSUME NEW j \in Ifaces, Live(j)', sread'[j] \in Fds \ {0}
        PROVE  Own(sread[j], j)'
    <3>1. CASE j = i
      BY <2>4, <2>6, <3>1 DEF Own
    <3>2. CASE j # i
      BY <2>3, <2>6, <3>2
    <3> QED BY <3>1, <3>2
  <2>7. ASSUME NEW j \in Ifaces, NEW h \in Ifaces, Live(j)', Live(h)', j # h,
               sread'[j] = sread'[h]
        PROVE  sread'[j] <= 0
    <3>1. sread'[i] <= 0 \/ sread'[i] \in Fds \ {0}
      BY <2>4, <2>5
    <3>2. CASE j # i /\ h # i
      BY <2>3, <2>7, <3>2, <1>k
    <3>3. CASE j = i
      <4>1. sread[h] = n /\ (sread[h] \in Fds \ {0} => sread[h] # n)
        BY <2>3, <2>4, <2>7, <3>3
      <4> QED BY <2>4, <3>1, <3>3, <4>1
    <3>4. CASE h = i
      <4>1. sread[j] = n /\ (sread[j] \in Fds \ {0} => sread[j] # n)
        BY <2>3, <2>4, <2>7, <3>4
      <4> QED BY <2>4, <2>7, <3>1, <3>4, <4>1
    <3> QED BY <3>2, <3>3, <3>4
  <2> QED BY <2>6, <2>7 DEF Kept
<1>13. CASE Forget(t)
  <2> DEFINE i == Head(loc[t].todo)
  <2>1. PICK m \in {-1, 0} :
          file' = file /\ sread' = [sread EXCEPT ![i] = m] /\ loc[t].pc = "forget"
    BY <1>13 DEF Forget
  <2>2. i \in Ifaces
    BY <2>1, ThreadPlace DEF CloseLabels
  <2> HIDE DEF i
  <2>3. \A j \in Ifaces : j # i /\ Live(j)' => Live(j) /\ sread'[j] = sread[j]
    BY <2>1, <2>2, StepLive, <1>s DEF i
  <2>4. sread'[i] = m /\ m <= 0 /\ m \notin Fds \ {0}
    BY <2>1, <2>2, <1>s, CanAssumption
  <2> QED BY <2>1, <2>2, <2>3, <2>4, <1>k, <1>s DEF Kept, Own, Order
<1>14. CASE Bind(t)
  BY <1>14, <1>1, <1>4 DEF Bind
<1>15. CASE Clear(t)
  BY <1>15, <1>1, <1>4 DEF Clear
<1>16. CASE Lock(t)
  BY <1>16, <1>1 DEF Lock
<1>17. CASE Check(t)
  BY <1>17, <1>1 DEF Check
<1>18. CASE Load(t)
  BY <1>18, <1>1 DEF Load
<1>19. CASE Recv(t)
  BY <1>19, <1>1 DEF Recv
<1>20. CASE Answered(t)
  BY <1>20, <1>1 DEF Answered
<1>21. CASE Post(t)
  BY <1>21, <1>1 DEF Post
<1>22. CASE Fail(t)
  BY <1>22, <1>1 DEF Fail
<1>23. CASE Test(t)
  BY <1>23, <1>1 DEF Test
<1>24. CASE Parse(t)
  BY <1>24, <1>1 DEF Parse
<1>25. CASE TestFlag(t)
  BY <1>25, <1>1 DEF TestFlag
<1>26. CASE Refuse(t)
  BY <1>26, <1>1 DEF Refuse
<1>27. CASE Send(t)
  BY <1>27, <1>1 DEF Send
<1>28. CASE OpenWrite(t)
  BY <1>28, <1>5 DEF OpenWrite
<1>29. CASE BindWrite(t)
  BY <1>29, <1>1, <1>3, BindWriteMoves DEF BindWrite, OwnLabels
<1>30. CASE CloseWrite(t)
  BY <1>30, <1>1, <1>3, CloseWriteMoves DEF CloseWrite, OwnLabels
<1>31. CASE Wake(t) \/ OpenNetlink(t) \/ StartQueued(t)
  <2>1. loc[t].pc \notin {"open", "forget"} /\ sread' = sread
    BY <1>31 DEF Wake, OpenNetlink, StartQueued, Requests
  <2>2. \E n \in Numbers : Socket(n, "lib")
    BY <1>31, NumbersInt DEF Wake, OpenNetlink, StartQueued
  <2> QED BY <1>5, <2>1, <2>2
<1>32. CASE SetLink(t)
  BY <1>32, <1>1, <1>3, SetLinkMoves DEF SetLink, OwnLabels
<1> QED
  BY <1>10, <1>11, <1>12, <1>13, <1>14, <1>15, <1>16, <1>17, <1>18, <1>19, <1>20, <1>21, <1>22,
        <1>23, <1>24, <1>25, <1>26, <1>27, <1>28, <1>29, <1>30, <1>31, <1>32
  DEF Step, ReadStep, CloseStep, WriteStep

(* Another thread keeps what it knows: a step changes neither its global    *)
(* nor the socket behind it.                                                *)
LEMMA StepOthers ==
  ASSUME Types, Shape, Opened, LockBalanced, Order, NEW t \in Threads, Step(t),
         NEW u \in Threads, u # t
  PROVE  (Reads(u) /\ Closes(u) /\ Owns(u))'
<1>1. loc'[u] = loc[u] /\ Busy(t)
  BY StepPlaces
<1>2. CASE loc[u].pc = "idle"
  BY <1>1, <1>2 DEF Reads, Closes, Owns, OwnLabels
<1> SUFFICES ASSUME Busy(u) PROVE (Reads(u) /\ Closes(u) /\ Owns(u))'
  BY <1>2 DEF Busy
<1>3. /\ loc[u].pc \in (ReadLabels \ {"answered"}) \cup CloseLabels
      /\ loc[u].name # loc[t].name
      /\ loc[u].pc \in CloseLabels => Head(loc[u].todo) = loc[u].name
      /\ loc[t].pc \in (ReadLabels \ {"answered"}) \cup CloseLabels
      /\ loc[t].pc \in CloseLabels => Head(loc[t].todo) = loc[t].name
      /\ loc[u].name \in Ifaces /\ loc[t].name \in Ifaces
  BY <1>1, Peers, ThreadPlace
<1>4. Reads(u) /\ Closes(u)
  BY DEF Order
<1> DEFINE i == loc[u].name
           s == sread[i]
<1>5. sread'[i] = s
  <2>1. CASE sread' = sread
    BY <2>1
  <2>2. CASE \E n \in Numbers : sread' = [sread EXCEPT ![loc[t].name] = n]
    BY <1>3, <2>2 DEF Types
  <2>3. CASE Forget(t)
    BY <1>3, <2>3 DEF Forget, At, CloseLabels, Types
  <2> QED
    BY <2>1, <2>2, <2>3 DEF Step, ReadStep, CloseStep, WriteStep, Lock, Check, Reopen, Open, Bind,
       Clear, Load, Recv, Answered, Post, Fail, Test, Shut, Parse, OpenWrite, BindWrite,
       TestFlag, Refuse, Send, CloseWrite, Wake, OpenNetlink, StartQueued, SetLink
<1>6. ASSUME loc[u].pc \in {"bind", "clear", "load", "recv"}, s \in Fds
      PROVE  file'[s] \in {i, "raw"}
  <2>1. /\ loc[t].pc \notin {"reopen", "open", "bind", "clear"}
        /\ loc[t].pc \notin OwnLabels \cup WriteLabels \cup LinkLabels
    BY <1>3, <1>6 DEF LockBalanced, Holding, ReadLabels, CloseLabels, OwnLabels, WriteLabels,
       LinkLabels, Requests
  <2>2. Own(s, i)
    BY <1>4, <1>6 DEF Reads
  <2>3. CASE Shut(t)
    <3> DEFINE h == loc[t].name
               r == sread[h]
    <3>1. loc[t].pc = "shut" /\ Head(loc[t].todo) = h /\ h \in Ifaces /\ h # i
      BY <1>3, <2>3 DEF Shut, At, CloseLabels
    <3>2. file' = Closed(r) /\ (r > 0 \/ (Answering(t) /\ r # 0))
      BY <2>3, <3>1 DEF Shut, Order, Closes
    <3>3. ~Answering(t)
      BY <1>1, <3>1, Peers DEF CloseLabels
    <3>4. Live(h) /\ Live(i)
      BY <1>6, <3>1, HeadIsLive, NameIsLive DEF ReadLabels
    <3>5. r \in Int /\ s \in Int
      BY <1>3, NumbersInt DEF Types
    <3>6. r = s => r <= 0
      BY <1>3, <3>1, <3>4 DEF Order, Kept
    <3> HIDE DEF r, s
    <3>7. r # s
      BY <3>2, <3>3, <3>5, <3>6
    <3> QED BY <1>6, <2>2, <3>2, <3>7 DEF Closed, Own, Types
  <2>4. CASE file' = file
    BY <2>2, <2>4 DEF Own
  <2> QED
    BY <2>1, <2>3, <2>4 DEF Step, ReadStep, CloseStep, WriteStep, Lock, Check, Reopen, Open, Bind,
       Clear, Load, Recv, Answered, Post, Fail, Test, Forget, Parse, OpenWrite, BindWrite,
       TestFlag, Refuse, Send, CloseWrite, Wake, OpenNetlink, StartQueued, SetLink, At,
       OwnLabels, WriteLabels, LinkLabels
<1>7. loc[u].pc \notin OwnLabels
  BY <1>3 DEF OwnLabels, ReadLabels, CloseLabels
<1>8. Reads(u)'
  BY <1>1, <1>4, <1>5, <1>6 DEF Reads, Own
<1>9. Closes(u)'
  BY <1>1, <1>3, <1>4, <1>5 DEF Closes, Answering, CloseLabels
<1>10. Owns(u)'
  BY <1>1, <1>7 DEF Owns, OwnLabels
<1> QED BY <1>8, <1>9, <1>10

(* The thread itself knows what the step has shown it. *)
LEMMA StepReads ==
  ASSUME Types, Shape, Order, NEW t \in Threads, Step(t)
  PROVE  (Reads(t) /\ Closes(t))'
<1> USE DEF Moves, Go, Returns, Idle, At
<1>s. sread \in [Ifaces -> Numbers] /\ file \in [Fds -> Kinds]
  BY DEF Types
<1>g. loc[t].back \in Backs
  BY DEF Types, Place
<1>1. CASE Lock(t)
  BY <1>1, LockMoves DEF Lock, Reads, Closes
<1>2. CASE Check(t)
  <2> DEFINE i == loc[t].name
             s == sread[i]
  <2>1. PICK p \in {"reopen", "load"} :
          /\ loc'[t].pc = p /\ loc'[t].fd = s /\ loc'[t].name = i
          /\ p = "load" => s > 0
    BY <1>2, CheckMoves
  <2>2. sread' = sread /\ file' = file /\ loc[t].pc = "check"
    BY <1>2 DEF Check
  <2>3. i \in Ifaces /\ Live(i)
    BY <2>2, NameIsLive, ThreadPlace DEF ReadLabels, Busy
  <2>4. s > 0 /\ s \in Fds => Own(s, i)
    <3>1. s > 0 /\ s \in Fds => s \in Fds \ {0}
      BY CanAssumption
    <3> QED BY <2>3, <3>1, LiveOwns DEF Own
  <2> QED BY <2>1, <2>2, <2>4 DEF Reads, Closes, Own
<1>3. CASE Reopen(t)
  BY <1>3, ReopenMoves DEF Reopen, Reads, Closes
<1>4. CASE Open(t)
  <2> DEFINE i == loc[t].name
  <2>1. PICK n \in Numbers :
          /\ Socket(n, "raw") /\ sread' = [sread EXCEPT ![i] = n]
          /\ loc'[t].pc \in {"load", "bind"} /\ loc'[t].name = i
    BY <1>4, OpenMoves
  <2>2. i \in Ifaces
    BY <1>4, ThreadPlace DEF Open, Busy
  <2>3. sread'[i] = n /\ (n \in Fds => file'[n] = "raw")
    BY <1>s, <2>1, <2>2, CanAssumption DEF Socket, Free
  <2> QED BY <2>1, <2>3 DEF Reads, Closes, Own
<1>5. CASE Bind(t)
  <2>1. Reads(t)
    BY DEF Order
  <2> QED BY <1>s, <1>5, <2>1, BindMoves DEF Bind, Reads, Closes, Own, Bound
<1>6. CASE Clear(t)
  <2>1. Reads(t)
    BY DEF Order
  <2> QED BY <1>s, <1>6, <2>1, ClearMoves DEF Clear, Reads, Closes, Own, Bound
<1>7. CASE Load(t)
  <2>1. Reads(t)
    BY DEF Order
  <2> QED BY <1>7, <2>1, LoadMoves DEF Load, Reads, Closes, Own
<1>8. CASE Recv(t)
  BY <1>8, RecvMoves DEF Recv, Reads, Closes
<1>9. CASE Answered(t)
  BY <1>9, AnsweredMoves DEF Answered, Reads, Closes
<1>10. CASE Post(t)
  BY <1>10, PostMoves DEF Post, Reads, Closes
<1>11. CASE Fail(t)
  BY <1>11, FailMoves DEF Fail, Reads, Closes
<1>12. CASE Test(t)
  <2> DEFINE s == sread[Head(loc[t].todo)]
  <2>1. sread' = sread
    BY <1>12 DEF Test
  <2>2. CASE Goes(t)
    BY SMTT(30), <1>g, <2>2 DEF Goes, Reads, Closes, Backs, CloseBacks, Requests
  <2>3. CASE /\ s > 0 \/ (Answering(t) /\ s # 0)
             /\ Moves(t, "shut", s, loc[t].todo, loc[t].back)
    BY <2>1, <2>3 DEF Reads, Closes, Answering
  <2> QED BY <1>12, <2>2, <2>3, TestMoves
<1>13. CASE Shut(t)
  BY <1>13, ShutMoves DEF Shut, Reads, Closes
<1>14. CASE Forget(t)
  <2>1. Goes(t)
    BY <1>14, ForgetMoves
  <2> QED BY SMTT(30), <1>g, <2>1 DEF Goes, Reads, Closes, Backs, CloseBacks, Requests
<1>15. CASE Parse(t)
  BY <1>15, ParseMoves DEF Parse, Reads, Closes
<1>16. CASE OpenWrite(t)
  BY <1>16, OpenWriteMoves DEF OpenWrite, Reads, Closes
<1>17. CASE BindWrite(t)
  BY <1>17, BindWriteMoves DEF BindWrite, Reads, Closes
<1>18. CASE TestFlag(t)
  BY <1>18, TestFlagMoves DEF TestFlag, Reads, Closes
<1>19. CASE Refuse(t)
  BY <1>19, RefuseMoves DEF Refuse, Reads, Closes
<1>20. CASE Send(t)
  BY <1>20, SendMoves DEF Send, Reads, Closes
<1>21. CASE CloseWrite(t)
  BY <1>21, CloseWriteMoves DEF CloseWrite, Reads, Closes
<1>22. CASE LinkStep(t)
  BY <1>22, LinkMoves DEF Requests, Reads, Closes
<1> QED
  BY <1>1, <1>2, <1>3, <1>4, <1>5, <1>6, <1>7, <1>8, <1>9, <1>10, <1>11, <1>12, <1>13, <1>14,
        <1>15, <1>16, <1>17, <1>18, <1>19, <1>20, <1>21, <1>22
  DEF Step, ReadStep, CloseStep, WriteStep, LinkStep

LEMMA StepOwns ==
  ASSUME Types, Shape, Opened, Order, NEW t \in Threads, Step(t)
  PROVE  Owns(t)'
<1> USE DEF Moves, Go, Returns, Idle, At
<1>g. loc[t].back \in Backs /\ file \in [Fds -> Kinds]
  BY DEF Types, Place
<1>o. Owns(t) /\ (loc[t].pc \in OwnLabels => loc[t].fd \in Fds)
  BY DEF Order, Opened
(* A new descriptor is nobody's global: no other thread is at work. *)
<1>n. ASSUME NEW n \in Fds, NEW k, Socket(n, k), sread' = sread,
             loc[t].pc \in WriteLabels \cup LinkLabels
      PROVE  /\ file'[n] = k
             /\ \A i \in Ifaces : sread'[i] = n => n = 0
  <2>1. file[n] = "free" /\ file' = [file EXCEPT ![n] = k]
    BY <1>n, CanAssumption DEF Socket, Free
  <2>2. \A i \in Ifaces : Live(i)
    <3>1. \A u \in Threads \ {t} : loc[u].pc = "idle"
      BY <1>n, OwnersAlone
    <3>2. loc[t].pc \notin {"open", "forget"}
      BY <1>n DEF WriteLabels, LinkLabels, Requests
    <3> QED BY <3>1, <3>2 DEF Live, Stale
  <2> QED BY <1>n, <1>g, <2>1, <2>2, LiveOwns
<1>1. CASE Lock(t)
  BY <1>1, LockMoves DEF Lock, Owns, OwnLabels
<1>2. CASE Check(t)
  BY <1>2, CheckMoves DEF Check, Owns, OwnLabels
<1>3. CASE Reopen(t)
  BY <1>3, ReopenMoves DEF Reopen, Owns, OwnLabels
<1>4. CASE Open(t)
  BY <1>4, OpenMoves DEF Open, Owns, OwnLabels
<1>5. CASE Bind(t)
  BY <1>5, BindMoves DEF Bind, Owns, OwnLabels
<1>6. CASE Clear(t)
  BY <1>6, ClearMoves DEF Clear, Owns, OwnLabels
<1>7. CASE Load(t)
  BY <1>7, LoadMoves DEF Load, Owns, OwnLabels
<1>8. CASE Recv(t)
  BY <1>8, RecvMoves DEF Recv, Owns, OwnLabels
<1>9. CASE Answered(t)
  BY <1>9, AnsweredMoves DEF Answered, Owns, OwnLabels
<1>10. CASE Post(t)
  BY <1>10, PostMoves DEF Post, Owns, OwnLabels
<1>11. CASE Fail(t)
  BY <1>11, FailMoves DEF Fail, Owns, OwnLabels
<1>12. CASE Test(t)
  <2>1. CASE Goes(t)
    BY <1>g, <2>1 DEF Goes, Owns, OwnLabels, Backs, CloseBacks, Requests
  <2>2. CASE loc'[t].pc = "shut"
    BY <2>2 DEF Owns, OwnLabels
  <2> QED BY <1>12, <2>1, <2>2, TestMoves
<1>13. CASE Shut(t)
  BY <1>13, ShutMoves DEF Shut, Owns, OwnLabels
<1>14. CASE Forget(t)
  <2>1. Goes(t)
    BY <1>14, ForgetMoves
  <2> QED BY <1>g, <2>1 DEF Goes, Owns, OwnLabels, Backs, CloseBacks, Requests
<1>15. CASE Parse(t)
  BY <1>15, ParseMoves DEF Parse, Owns, OwnLabels
<1>16. CASE OpenWrite(t)
  <2>1. PICK n \in Numbers :
          /\ Socket(n, "raw")
          /\ IF n < 0 THEN Returns(t) ELSE Moves(t, "wbind", n, loc[t].todo, loc[t].back)
    BY <1>16, OpenWriteMoves
  <2>2. sread' = sread /\ loc[t].pc \in WriteLabels \cup LinkLabels
    BY <1>16 DEF OpenWrite, WriteLabels
  <2>3. CASE n < 0
    BY <2>1, <2>3 DEF Owns, OwnLabels
  <2>4. CASE ~(n < 0)
    <3>1. n \in Fds
      BY <2>4 DEF Numbers
    <3>2. loc'[t].pc = "wbind" /\ loc'[t].fd = n
      BY <2>1, <2>4
    <3>3. file'[n] = "raw" /\ \A i \in Ifaces : sread'[i] = n => n = 0
      BY <1>n, <2>1, <2>2, <3>1
    <3> QED BY <3>2, <3>3 DEF Owns
  <2> QED BY <2>3, <2>4
<1>17. CASE BindWrite(t)
  <2>1. sread' = sread /\ loc[t].pc = "wbind"
    BY <1>17 DEF BindWrite
  <2>2. CASE Returns(t)
    BY <2>2 DEF Owns, OwnLabels
  <2>3. CASE file' = Bound(loc[t].fd, loc[t].name) /\ Go(t, "wflag")
    <3>1. file'[loc[t].fd] = loc[t].name
      BY <1>g, <1>o, <2>1, <2>3 DEF Bound, Owns, OwnLabels
    <3> QED BY <1>o, <2>1, <2>3, <3>1 DEF Owns, OwnLabels
  <2> QED BY <1>17, <2>2, <2>3, BindWriteMoves
<1>18. CASE TestFlag(t)
  BY <1>18, <1>o, TestFlagMoves DEF TestFlag, Owns, OwnLabels
<1>19. CASE Refuse(t)
  BY <1>19, RefuseMoves DEF Refuse, Owns, OwnLabels
<1>20. CASE Send(t)
  BY <1>20, <1>o, SendMoves DEF Send, Owns, OwnLabels
<1>21. CASE CloseWrite(t)
  BY <1>21, CloseWriteMoves DEF CloseWrite, Owns, OwnLabels
<1>22. CASE OpenNetlink(t)
  <2>1. PICK n \in Numbers :
          /\ Socket(n, "lib")
          /\ \/ Continues(t)
             \/ n \in Fds /\ \E b \in Requests : Moves(t, "nllink", n, loc[t].todo, b)
    BY <1>22, OpenNetlinkMoves
  <2>2. sread' = sread /\ loc[t].pc \in WriteLabels \cup LinkLabels
    BY <1>22 DEF OpenNetlink, LinkLabels
  <2>3. CASE Continues(t)
    BY <2>3 DEF Continues, Requests, Owns, OwnLabels
  <2>4. CASE n \in Fds /\ loc'[t].pc = "nllink" /\ loc'[t].fd = n
    <3>1. file'[n] = "lib" /\ \A i \in Ifaces : sread'[i] = n => n = 0
      BY <1>n, <2>1, <2>2, <2>4
    <3> QED BY <2>4, <3>1 DEF Owns
  <2> QED BY <2>1, <2>3, <2>4
<1>23. CASE Wake(t) \/ SetLink(t)
  <2>1. Continues(t) \/ loc'[t].pc = "stop"
    BY <1>23, WakeMoves, SetLinkMoves
  <2> QED BY <2>1 DEF Continues, Requests, Owns, OwnLabels
<1>24. CASE StartQueued(t)
  <2>1. PICK n \in Fds : Socket(n, "lib")
    BY <1>24 DEF StartQueued
  <2>2. loc[t].pc = "nllink" /\ loc'[t].pc = "nllink" /\ loc'[t].fd = loc[t].fd
    BY <1>24, StartQueuedMoves
  <2>3. file[loc[t].fd] = "lib" /\ loc[t].fd \in Fds
    BY <1>o, <2>2 DEF Owns, OwnLabels
  <2>4. file[n] = "free" /\ file' = [file EXCEPT ![n] = "lib"]
    BY <2>1, CanAssumption DEF Socket, Free
  <2>5. file'[loc[t].fd] = "lib"
    BY <1>g, <2>3, <2>4
  <2>6. sread' = sread
    BY <1>24 DEF StartQueued
  <2> QED BY <1>o, <2>2, <2>5, <2>6 DEF Owns, OwnLabels
<1> QED
  BY <1>1, <1>2, <1>3, <1>4, <1>5, <1>6, <1>7, <1>8, <1>9, <1>10, <1>11, <1>12, <1>13, <1>14,
        <1>15, <1>16, <1>17, <1>18, <1>19, <1>20, <1>21, <1>22, <1>23, <1>24
  DEF Step, ReadStep, CloseStep, WriteStep

(* A socket is known by its number in left, in a global that is not stale, *)
(* or in the call that owns it.                                            *)
KnownAs(n) ==
  \/ n \in left
  \/ \E i \in Ifaces : Live(i) /\ sread[i] = n
  \/ \E t \in Threads : loc[t].pc \in OwnLabels /\ loc[t].fd = n

LEMMA StepKnown ==
  ASSUME Types, Shape, Opened, Order, NEW t \in Threads, Step(t)
  PROVE  Known'
<1> SUFFICES ASSUME NEW n \in Fds, file'[n] \in Sockets
             PROVE  KnownAs(n)'
  BY DEF Known, KnownAs, Sockets
<1> USE DEF At
<1>s. /\ sread \in [Ifaces -> Numbers] /\ file \in [Fds -> Kinds]
      /\ loc' \in [Threads -> Place] /\ \A u \in Threads : u # t => loc'[u] = loc[u]
  BY StepPlaces DEF Types
<1>k. file[n] \in Sockets => KnownAs(n)
  BY DEF Order, Known, KnownAs
<1>f. "free" \notin Sockets /\ "file" \notin Sockets
  BY Names DEF Sockets
<1>l. n \in left => n \in left'
  <2>1. CASE Reopen(t)
    <3>1. PICK m \in {loc[t].fd, sread[loc[t].name]} :
            file' = Closed(m) /\ left' = left \ {m}
      BY <2>1 DEF Reopen
    <3>2. m # n
      BY <1>f, <1>s, <3>1 DEF Closed
    <3> QED BY <3>1, <3>2
  <2>2. CASE left \subseteq left'
    BY <2>2
  <2> QED
    BY <2>1, <2>2
    DEF Step, ReadStep, CloseStep, WriteStep, Lock, Check, Open, Bind, Clear, Load, Recv,
        Answered, Post, Fail, Test, Shut, Forget, Parse, OpenWrite, BindWrite, TestFlag, Refuse,
        Send, CloseWrite, Wake, OpenNetlink, StartQueued, SetLink, Abandon
(* What is known stays so: by the thread's own descriptor while it keeps    *)
(* it, by a global while nobody closes its socket or changes it.            *)
<1>1. ASSUME KnownAs(n),
             \/ ~(loc[t].pc \in OwnLabels /\ loc[t].fd = n)
             \/ loc'[t].pc \in OwnLabels /\ loc'[t].fd = n
             \/ n \in left',
             \A i \in Ifaces : Live(i) /\ sread[i] = n => Live(i)' /\ sread'[i] = n
      PROVE  KnownAs(n)'
  <2>1. CASE n \in left
    BY <1>l, <2>1 DEF KnownAs
  <2>2. CASE \E i \in Ifaces : Live(i) /\ sread[i] = n
    BY <1>1, <2>2 DEF KnownAs
  <2>3. CASE \E u \in Threads : loc[u].pc \in OwnLabels /\ loc[u].fd = n
    BY <1>1, <1>s, <2>3 DEF KnownAs
  <2> QED BY <1>1, <2>1, <2>2, <2>3 DEF KnownAs
<1>2. ASSUME KnownAs(n), sread' = sread, loc[t].pc \notin {"reopen", "shut"},
             \/ ~(loc[t].pc \in OwnLabels /\ loc[t].fd = n)
             \/ loc'[t].pc \in OwnLabels /\ loc'[t].fd = n
             \/ n \in left'
      PROVE  KnownAs(n)'
  BY <1>1, <1>2, StepLive
<1>b. loc[t].pc \in {"reopen", "open", "bind", "clear"} => loc[t].name \in Ifaces
  BY ThreadPlace DEF Busy
<1>10. CASE Lock(t)
  BY <1>k, <1>2, <1>10 DEF Lock, OwnLabels
<1>11. CASE Check(t)
  BY <1>k, <1>2, <1>11 DEF Check, OwnLabels
<1>12. CASE Reopen(t)
  <2>1. loc[t].pc = "reopen" /\ sread' = sread /\ file' = Closed(sread[loc[t].name])
    BY <1>12 DEF Reopen, Order, Reads
  <2>2. sread[loc[t].name] # n /\ file[n] = file'[n]
    BY <1>f, <1>s, <2>1 DEF Closed
  <2> QED BY <1>k, <1>1, <2>1, <2>2, StepLive DEF OwnLabels
<1>13. CASE Open(t)
  <2>1. PICK m \in Numbers :
          /\ Socket(m, "raw") /\ sread' = [sread EXCEPT ![loc[t].name] = m]
          /\ loc[t].pc = "open"
    BY <1>13, OpenMoves DEF Open
  <2>2. PICK i \in Ifaces : i = loc[t].name
    BY <1>b, <2>1
  <2>3. CASE m = n
    <3>1. sread'[i] = n
      BY <1>s, <2>1, <2>2, <2>3
    <3>2. Live(i)'
      <4>1. loc'[t].pc \in {"load", "bind"}
        BY <1>13, OpenMoves DEF Go, Moves
      <4>2. ASSUME NEW u \in Threads, u # t, Stale(u, i) PROVE FALSE
        <5>1. Busy(u) /\ Busy(t) /\ loc[u].pc \in {"open", "forget"}
          BY <2>1, <4>2 DEF Busy, Stale
        <5> QED BY <2>2, <4>2, <5>1, Peers, HeadOfOne DEF Stale, CloseLabels
      <4> QED BY <1>s, <4>1, <4>2 DEF Live, Stale
    <3> QED BY <3>1, <3>2 DEF KnownAs
  <2>4. CASE m # n
    <3>1. file[n] = file'[n]
      BY <1>s, <2>1, <2>4 DEF Socket
    <3>2. ASSUME NEW j \in Ifaces, Live(j), sread[j] = n
          PROVE  Live(j)' /\ sread'[j] = n
      <4>1. Stale(t, i)
        BY <2>1, <2>2 DEF Stale
      <4>2. j # i
        BY <3>2, <4>1 DEF Live
      <4> QED BY <1>s, <2>1, <2>2, <3>2, <4>2, StepLive
    <3> QED BY <1>k, <1>1, <2>1, <3>1, <3>2 DEF OwnLabels
  <2> QED BY <2>3, <2>4
<1>14. CASE Bind(t)
  <2> DEFINE i == loc[t].name
  <2>1. loc[t].pc = "bind" /\ sread' = sread /\ file' \in {file, Bound(sread[i], i)}
    BY <1>14 DEF Bind
  <2>2. i \in Ifaces /\ Live(i)
    BY <1>b, <2>1, NameIsLive DEF ReadLabels
  <2>3. file'[n] = file[n] \/ sread[i] = n
    BY <1>s, <2>1 DEF Bound
  <2>4. KnownAs(n)
    BY <1>k, <2>2, <2>3 DEF KnownAs
  <2> QED BY <1>2, <2>1, <2>4 DEF OwnLabels
<1>15. CASE Clear(t)
  <2> DEFINE i == loc[t].name
  <2>1. loc[t].pc = "clear" /\ sread' = sread /\ file' \in {file, Bound(sread[i], i)}
    BY <1>15 DEF Clear
  <2>2. i \in Ifaces /\ Live(i)
    BY <1>b, <2>1, NameIsLive DEF ReadLabels
  <2>3. file'[n] = file[n] \/ sread[i] = n
    BY <1>s, <2>1 DEF Bound
  <2>4. KnownAs(n)
    BY <1>k, <2>2, <2>3 DEF KnownAs
  <2> QED BY <1>2, <2>1, <2>4 DEF OwnLabels
<1>16. CASE Load(t)
  BY <1>k, <1>2, <1>16 DEF Load, OwnLabels
<1>17. CASE Recv(t)
  BY <1>k, <1>2, <1>17 DEF Recv, OwnLabels
<1>18. CASE Answered(t)
  BY <1>k, <1>2, <1>18 DEF Answered, OwnLabels
<1>19. CASE Post(t)
  BY <1>k, <1>2, <1>19 DEF Post, OwnLabels
<1>20. CASE Fail(t)
  BY <1>k, <1>2, <1>20 DEF Fail, OwnLabels
<1>21. CASE Test(t)
  BY <1>k, <1>2, <1>21 DEF Test, OwnLabels
<1>22. CASE Shut(t)
  <2>1. loc[t].pc = "shut" /\ sread' = sread /\ file' = Closed(sread[Head(loc[t].todo)])
    BY <1>22 DEF Shut, Order, Closes
  <2>2. sread[Head(loc[t].todo)] # n /\ file[n] = file'[n]
    BY <1>f, <1>s, <2>1 DEF Closed
  <2> QED BY <1>k, <1>1, <2>1, <2>2, StepLive DEF OwnLabels
<1>23. CASE Forget(t)
  <2> DEFINE h == Head(loc[t].todo)
  <2>1. /\ file' = file /\ loc[t].pc = "forget" /\ h \in Ifaces
        /\ \E m \in {-1, 0} : sread' = [sread EXCEPT ![h] = m]
    BY <1>23, ThreadPlace DEF Forget, CloseLabels
  <2>2. ASSUME NEW j \in Ifaces, Live(j), sread[j] = n
        PROVE  Live(j)' /\ sread'[j] = n
    <3>1. Stale(t, h) /\ j # h
      BY <2>1, <2>2 DEF Live, Stale
    <3> QED BY <1>s, <2>1, <2>2, <3>1, StepLive
  <2> QED BY <1>k, <1>1, <2>1, <2>2 DEF OwnLabels
<1>24. CASE Parse(t)
  BY <1>k, <1>2, <1>24 DEF Parse, OwnLabels
<1>25. CASE OpenWrite(t)
  <2>1. PICK m \in Numbers :
          /\ Socket(m, "raw")
          /\ IF m < 0 THEN Returns(t) ELSE Moves(t, "wbind", m, loc[t].todo, loc[t].back)
    BY <1>25, OpenWriteMoves
  <2>2. sread' = sread /\ loc[t].pc = "socket"
    BY <1>25 DEF OpenWrite
  <2>3. CASE m = n
    <3>1. ~(m < 0)
      BY <2>3, CanAssumption
    <3> QED BY <2>1, <2>3, <3>1 DEF KnownAs, Moves, OwnLabels
  <2>4. CASE m # n
    <3>1. file[n] = file'[n]
      BY <1>s, <2>1, <2>4 DEF Socket
    <3> QED BY <1>k, <1>2, <2>2, <3>1 DEF OwnLabels
  <2> QED BY <2>3, <2>4
<1>26. CASE BindWrite(t)
  <2>1. sread' = sread /\ loc[t].pc = "wbind"
    BY <1>26 DEF BindWrite
  <2>2. CASE file' = file /\ left' = left \cup {loc[t].fd}
    BY <1>k, <1>2, <2>1, <2>2
  <2>3. CASE file' = Bound(loc[t].fd, loc[t].name) /\ Go(t, "wflag")
    <3>1. CASE loc[t].fd = n
      BY <2>3, <3>1 DEF KnownAs, Go, Moves, OwnLabels
    <3>2. CASE loc[t].fd # n
      <4>1. file[n] = file'[n]
        BY <1>s, <2>3, <3>2 DEF Bound
      <4> QED BY <1>k, <1>2, <2>1, <3>2, <4>1
    <3> QED BY <3>1, <3>2
  <2> QED BY <1>26, <2>2, <2>3, BindWriteMoves
<1>27. CASE TestFlag(t)
  BY <1>k, <1>2, <1>27, TestFlagMoves DEF TestFlag, Go, Moves, OwnLabels
<1>28. CASE Refuse(t)
  BY <1>k, <1>2, <1>28, RefuseMoves DEF Refuse, Go, Moves, OwnLabels
<1>29. CASE Send(t)
  BY <1>k, <1>2, <1>29, SendMoves DEF Send, Go, Moves, OwnLabels
<1>30. CASE CloseWrite(t)
  <2>1. sread' = sread /\ loc[t].pc = "wclose" /\ file' = Closed(loc[t].fd)
    BY <1>30 DEF CloseWrite
  <2>2. loc[t].fd # n /\ file[n] = file'[n]
    BY <1>f, <1>s, <2>1 DEF Closed
  <2> QED BY <1>k, <1>2, <2>1, <2>2
<1>31. CASE Wake(t) \/ OpenNetlink(t)
  <2>1. PICK m \in Numbers :
          /\ Socket(m, "lib")
          /\ \/ left' = left \cup ({m} \cap Fds)
             \/ \E b \in Requests : Moves(t, "nllink", m, loc[t].todo, b)
    BY <1>31, WakeMoves, OpenNetlinkMoves
  <2>2. sread' = sread /\ loc[t].pc \in {"wake"} \cup Requests
    BY <1>31 DEF Wake, OpenNetlink
  <2>3. CASE m = n
    <3>1. CASE left' = left \cup ({m} \cap Fds)
      BY <2>3, <3>1 DEF KnownAs
    <3>2. CASE \E b \in Requests : Moves(t, "nllink", m, loc[t].todo, b)
      BY <2>3, <3>2 DEF KnownAs, Moves, OwnLabels
    <3> QED BY <2>1, <3>1, <3>2
  <2>4. CASE m # n
    <3>1. file[n] = file'[n]
      BY <1>s, <2>1, <2>4 DEF Socket
    <3> QED BY <1>k, <1>2, <2>2, <3>1 DEF OwnLabels, Requests
  <2> QED BY <2>3, <2>4
<1>33. CASE StartQueued(t)
  <2>1. PICK m \in Fds : Socket(m, "lib") /\ left' = left \cup {m}
    BY <1>33 DEF StartQueued
  <2>2. /\ sread' = sread /\ loc[t].pc = "nllink"
        /\ loc'[t].pc = "nllink" /\ loc'[t].fd = loc[t].fd
    BY <1>33, StartQueuedMoves DEF StartQueued
  <2>3. CASE m = n
    BY <2>1, <2>3 DEF KnownAs
  <2>4. CASE m # n
    <3>1. file[n] = file'[n]
      BY <1>s, <2>1, <2>4 DEF Socket
    <3> QED BY <1>k, <1>2, <2>2, <3>1
  <2> QED BY <2>3, <2>4
<1>32. CASE SetLink(t)
  <2>1. sread' = sread /\ loc[t].pc = "nllink"
    BY <1>32 DEF SetLink
  <2>2. CASE file' = Closed(loc[t].fd)
    <3>1. loc[t].fd # n /\ file[n] = file'[n]
      BY <1>f, <1>s, <2>2 DEF Closed
    <3> QED BY <1>k, <1>2, <2>1, <3>1
  <2>3. CASE file' = file /\ left' = left \cup {loc[t].fd}
    BY <1>k, <1>2, <2>1, <2>3
  <2> QED BY <1>32, <2>2, <2>3, SetLinkMoves
<1> QED
  BY <1>10, <1>11, <1>12, <1>13, <1>14, <1>15, <1>16, <1>17, <1>18, <1>19, <1>20, <1>21, <1>22,
        <1>23, <1>24, <1>25, <1>26, <1>27, <1>28, <1>29, <1>30, <1>31, <1>32, <1>33
  DEF Step, ReadStep, CloseStep, WriteStep

LEMMA StepOrder ==
  ASSUME Types, Shape, Opened, LockBalanced, Order, NEW t \in Threads, Step(t)
  PROVE  Order'
<1>1. Alone' /\ Answers' /\ Kept' /\ Known'
  BY StepAlone, StepAnswers, StepKept, StepKnown
<1>2. \A u \in Threads : (Reads(u) /\ Closes(u) /\ Owns(u))'
  BY StepOthers, StepReads, StepOwns
<1> QED BY <1>1, <1>2 DEF Order

LEMMA StepIInv ==
  ASSUME IInv, NEW t \in Threads, Step(t)
  PROVE  IInv'
<1> USE DEF IInv
<1>1. Shape' /\ LockBalanced' /\ Opened' /\ (orderly' = orderly)
  BY StepShape, StepOpened, StepPlaces
<1>2. Types'
  BY <1>1, StepData, StepPlaces DEF Types
<1>3. orderly' => Order'
  BY <1>1, StepOrder
<1> QED BY <1>1, <1>2, <1>3

LEMMA CallIInv ==
  ASSUME IInv, NEW t \in Threads, Call(t)
  PROVE  IInv'
<1> USE DEF IInv
<1>1. /\ Types' /\ Shape' /\ Opened' /\ LockBalanced'
      /\ UNCHANGED <<file, sread, can_lock, reqst_flag, left>>
      /\ orderly' => orderly
      /\ loc'[t].pc \in {"lock", "test", "rate", "fdrate"}
      /\ loc'[t].pc = "test" => ~Answering(t)'
      /\ loc[t].pc = "idle" /\ \A u \in Threads : u # t => loc'[u] = loc[u]
      /\ orderly' => \A u \in Threads \ {t} :
           Busy(u) => /\ loc'[t].op = "read" /\ loc[u].op = "read"
                      /\ loc[u].name # loc'[t].name /\ reqst_flag = 0
  BY CallBase
<1> SUFFICES ASSUME orderly' PROVE Order'
  BY <1>1
<1>2. Order
  BY <1>1
<1>3. \A i \in Ifaces : Live(i)' <=> Live(i)
  BY <1>1 DEF Live, Stale
<1>4. Alone'
  BY <1>1, <1>2 DEF Order, Alone, Busy
<1>5. Answers'
  BY <1>1, <1>2 DEF Order, Answers, Answering, CloseLabels
<1>6. Kept'
  BY <1>1, <1>2, <1>3 DEF Order, Kept, Own
<1>7. Known'
  BY <1>1, <1>2, <1>3 DEF Order, Known, OwnLabels
<1>8. ASSUME NEW u \in Threads PROVE (Reads(u) /\ Closes(u) /\ Owns(u))'
  <2>1. CASE u = t
    BY <1>1, <2>1 DEF Reads, Closes, Owns, OwnLabels
  <2>2. CASE u # t
    BY <1>1, <1>2, <2>2 DEF Order, Reads, Closes, Owns, Own, Answering
  <2> QED BY <2>1, <2>2
<1> QED BY <1>4, <1>5, <1>6, <1>7, <1>8 DEF Order

(* The files of the rest of the program are none of the calls'. *)
LEMMA OtherIInv ==
  ASSUME IInv, OtherOpens \/ \E n \in Fds : OtherCloses(n)
  PROVE  IInv'
<1> USE DEF IInv
<1>1. /\ UNCHANGED <<sread, can_lock, reqst_flag, loc, left>>
      /\ orderly /\ orderly' \in BOOLEAN
  BY DEF OtherOpens, OtherCloses
<1>2. PICK m \in Fds, k \in {"free", "file"} :
        /\ file[m] \in {"free", "file"}
        /\ file' = [file EXCEPT ![m] = k] \/ file' = file
  BY CanAssumption DEF OtherOpens, OtherCloses, Socket, Free
<1>3. file \in [Fds -> Kinds] /\ k \in Kinds
  BY DEF Types, Kinds
<1>4. Types'
  BY <1>1, <1>2, <1>3 DEF Types
<1>5. Shape' /\ Opened' /\ LockBalanced'
  BY <1>1 DEF Shape, ShapeOf, Opened, LockBalanced, Holding, Answering
<1>6. \A n \in Fds : file'[n] = file[n] \/ {file[n], file'[n]} \subseteq {"free", "file"}
  BY <1>2, <1>3
<1>7. \A i \in Ifaces : Live(i)' <=> Live(i)
  BY <1>1 DEF Live, Stale
<1>8. Order
  BY <1>1
<1>9. Alone' /\ Answers'
  BY <1>1, <1>8 DEF Order, Alone, Answers, Busy, Answering
<1>10. Kept'
  BY <1>1, <1>6, <1>7, <1>8, Names DEF Order, Kept, Own
<1>11. Known'
  BY <1>1, <1>6, <1>7, <1>8, Names DEF Order, Known, Sockets
<1>12. ASSUME NEW t \in Threads PROVE (Reads(t) /\ Closes(t) /\ Owns(t))'
  <2>1. Reads(t) /\ Closes(t) /\ Owns(t) /\ (loc[t].pc \in OwnLabels => loc[t].fd \in Fds)
    BY <1>8 DEF Order, Opened
  <2>2. loc[t].pc # "idle" => loc[t].name \in Ifaces
    BY DEF Shape, ShapeOf
  <2>3. Reads(t)' /\ Closes(t)'
    BY <1>1, <1>6, <2>1, <2>2, Names DEF Reads, Closes, Own, Answering
  <2>4. Owns(t)'
    BY <1>1, <1>6, <2>1, <2>2, Names DEF Owns, OwnLabels
  <2> QED BY <2>3, <2>4
<1> QED BY <1>4, <1>5, <1>9, <1>10, <1>11, <1>12 DEF Order

-----------------------------------------------------------------------------
(* The theorems.                                                           *)

LEMMA InitIInv == Init => IInv
<1> SUFFICES ASSUME Init PROVE IInv
  OBVIOUS
<1> USE DEF Init, Idle
<1>1. Types
  BY IdlePlace, CanAssumption DEF Types, Kinds, Numbers
<1>2. Shape /\ Opened
  BY DEF Shape, ShapeOf, Opened, ReadLabels, WriteLabels, CloseLabels, LinkLabels, Requests,
     OwnLabels
<1>3. LockBalanced
  BY DEF LockBalanced, Holding, ReadLabels, CloseLabels
<1>4. Alone /\ Answers
  BY DEF Alone, Answers, Busy, CloseLabels
<1>5. Kept /\ Known
  BY Names DEF Kept, Known, Sockets
<1>6. \A t \in Threads : Reads(t) /\ Closes(t) /\ Owns(t)
  BY DEF Reads, Closes, Owns, OwnLabels
<1> QED BY <1>1, <1>2, <1>3, <1>4, <1>5, <1>6 DEF IInv, Order

LEMMA NextIInv == IInv /\ [Next]_vars => IInv'
<1> SUFFICES ASSUME IInv, [Next]_vars PROVE IInv'
  OBVIOUS
<1>1. CASE \E t \in Threads : Call(t) \/ Step(t)
  BY <1>1, CallIInv, StepIInv
<1>2. CASE OtherOpens \/ \E n \in Fds : OtherCloses(n)
  BY <1>2, OtherIInv
<1>3. CASE UNCHANGED vars
  <2>1. Types' /\ Shape' /\ Opened' /\ LockBalanced'
    BY <1>3 DEF vars, IInv, Types, Shape, ShapeOf, Opened, LockBalanced, Holding, Answering
  <2>2. Order => Order'
    BY <1>3 DEF vars, Order, Alone, Answers, Kept, Known, Reads, Closes, Owns, Own, Live, Stale,
       Busy, Answering
  <2> QED BY <1>3, <2>1, <2>2 DEF vars, IInv
<1> QED BY <1>1, <1>2, <1>3 DEF Next

LEMMA Invariant == Spec => []IInv
BY InitIInv, NextIInv, PTL DEF Spec

(* Every variable stays in its set, in particular the lock at 0 or 1: no   *)
(* path of can_read() posts it twice (can_comm.c 787-1168).                *)
THEOREM TypeCorrect == Spec => []TypeOK
<1>1. IInv => TypeOK
  BY DEF IInv, Types, TypeOK, Place, Shape, ShapeOf
<1> QED BY <1>1, Invariant, PTL

(* can_lock excludes the readers and is never lost, however many threads   *)
(* read and however their calls overlap with others.                       *)
THEOREM LockIsBalanced == Spec => []LockBalanced
<1>1. IInv => LockBalanced
  BY DEF IInv
<1> QED BY <1>1, Invariant, PTL

(* Within the discipline a call reads, binds, writes and closes only its   *)
(* own socket, for any number of threads and any descriptor table, but for *)
(* the number 0 that the first can_read() of an interface closes (1052).   *)
THEOREM DescriptorIsOwn == Spec => []OwnDescriptor
<1>1. ASSUME IInv, orderly, NEW t \in Threads
      PROVE  LET n == loc[t].fd
                 SocketOf(m, i) == m \in Fds \ {0} => file[m] \in {i, "raw"}
             IN
             /\ At(t, "reopen") =>
                  \A m \in {n, sread[loc[t].name]} : SocketOf(m, loc[t].name)
             /\ At(t, "shut") =>
                  \A m \in {n, sread[Head(loc[t].todo)]} : SocketOf(m, Head(loc[t].todo))
  <2>1. Types /\ Shape /\ Order /\ Reads(t) /\ Closes(t)
    BY <1>1 DEF IInv, Order
  <2>2. ASSUME loc[t].pc = "reopen"
        PROVE  /\ loc[t].fd = sread[loc[t].name]
               /\ loc[t].name \in Ifaces /\ Live(loc[t].name)
    BY <2>1, <2>2, NameIsLive, ThreadPlace DEF Reads, ReadLabels, Busy
  <2>3. ASSUME loc[t].pc = "shut"
        PROVE  /\ loc[t].fd = sread[Head(loc[t].todo)]
               /\ Head(loc[t].todo) \in Ifaces /\ Live(Head(loc[t].todo))
    BY <2>1, <2>3, HeadIsLive, ThreadPlace DEF Closes, CloseLabels
  <2> QED BY <2>1, <2>2, <2>3, LiveOwns DEF At
<1>2. ASSUME IInv, orderly, NEW t \in Threads
      PROVE  LET n == loc[t].fd IN
             /\ At(t, "recv") /\ n \in Fds => file[n] \in {loc[t].name, "raw"}
             /\ loc[t].pc = "wbind" => file[n] = "raw"
             /\ loc[t].pc \in {"wflag", "refuse", "send", "wclose"} => file[n] = loc[t].name
             /\ loc[t].pc = "nllink" => file[n] = "lib"
  BY <1>2 DEF IInv, Order, Reads, Owns, Own, At
<1>3. IInv => OwnDescriptor
  BY <1>1, <1>2 DEF OwnDescriptor
<1> QED BY <1>3, Invariant, PTL

(* Within the discipline no read socket is lost, and another descriptor    *)
(* only where a call leaves its own open: a failed can_write(), a failed   *)
(* open_nl_sock(), can_fd_init() and the wakeup file of can_deinit().      *)
THEOREM SocketsAccounted == Spec => []Accounted
<1>1. IInv => Accounted
  BY DEF IInv, Order, Accounted, Known, Sockets, OwnLabels, WriteLabels, LinkLabels
<1> QED BY <1>1, Invariant, PTL

(* A step of a call leaves the files of the rest of the program open, but  *)
(* for standard input.                                                     *)
LEMMA StepLeavesFiles ==
  ASSUME Types, Shape, Opened, Order, NEW t \in Threads, Step(t),
         NEW n \in Fds \ {0}, file[n] = "file"
  PROVE  file'[n] = "file"
<1> USE DEF At
<1>s. file \in [Fds -> Kinds] /\ \A i \in Ifaces : Live(i) => sread[i] # n
  BY LiveOwns DEF Types
<1>c. \A m \in Numbers : m # n => Closed(m)[n] = "file"
  BY <1>s DEF Closed
<1>b. \A m \in Numbers : \A i \in Ifaces : Bound(m, i)[n] = "file"
  BY <1>s, Names DEF Bound
<1>k. \A m \in Numbers, k \in Kinds : Socket(m, k) => file'[n] = "file"
  BY <1>s DEF Socket, Free
<1>t. Busy(t) => loc[t].name \in Ifaces /\ sread[loc[t].name] \in Numbers
  BY ThreadPlace
<1>o. /\ loc[t].fd \in Numbers
      /\ loc[t].pc \in {"wclose", "nllink"} => loc[t].fd # n
  <2>1. Owns(t)
    BY DEF Order
  <2>2. loc[t].pc = "wclose" => file[loc[t].fd] \in Ifaces
    BY <1>t, <2>1 DEF Owns, Busy
  <2>3. loc[t].pc = "nllink" => file[loc[t].fd] = "lib"
    BY <2>1 DEF Owns
  <2> QED BY <2>2, <2>3, Names DEF Types, Place
<1>1. CASE Reopen(t)
  <2>1. loc[t].pc = "reopen" /\ file' = Closed(sread[loc[t].name])
    BY <1>1 DEF Reopen, Order, Reads
  <2>2. loc[t].name \in Ifaces /\ sread[loc[t].name] \in Numbers /\ Live(loc[t].name)
    BY <1>t, <2>1, NameIsLive DEF Busy, ReadLabels
  <2> QED BY <1>s, <1>c, <2>1, <2>2
<1>2. CASE Shut(t)
  <2> DEFINE i == Head(loc[t].todo)
  <2>1. loc[t].pc = "shut" /\ file' = Closed(sread[i])
    BY <1>2 DEF Shut, Order, Closes
  <2>2. i \in Ifaces /\ sread[i] \in Numbers /\ Live(i)
    BY <2>1, HeadIsLive, ThreadPlace DEF CloseLabels
  <2> QED BY <1>s, <1>c, <2>1, <2>2
<1>3. CASE Bind(t) \/ Clear(t)
  BY <1>b, <1>t, <1>3 DEF Bind, Clear, Busy
<1>4. CASE BindWrite(t)
  BY <1>b, <1>t, <1>o, <1>4 DEF BindWrite, Busy
<1>5. CASE CloseWrite(t) \/ SetLink(t)
  BY <1>c, <1>o, <1>5 DEF CloseWrite, SetLink
<1>6. CASE Open(t) \/ OpenWrite(t) \/ Wake(t) \/ OpenNetlink(t) \/ StartQueued(t)
  BY <1>k, <1>6, FileTypes, NumbersInt DEF Open, OpenWrite, Wake, OpenNetlink, StartQueued, Kinds
<1>7. CASE file' = file
  BY <1>7
<1> QED
  BY <1>1, <1>2, <1>3, <1>4, <1>5, <1>6, <1>7
  DEF Step, ReadStep, CloseStep, WriteStep, Lock, Check, Load, Recv, Answered, Post, Fail, Test,
      Forget, Parse, TestFlag, Refuse, Send

(* Within the discipline the calls close no file of the rest of the        *)
(* program but standard input.                                             *)
THEOREM OtherFilesKept == Spec => OthersKept
<1>1. ASSUME IInv, [Next]_vars, orderly, NEW n \in Fds \ {0}, file[n] = "file",
             file'[n] # "file"
      PROVE  OtherCloses(n)
  <2>1. Order /\ Types /\ Shape /\ Opened
    BY <1>1 DEF IInv
  <2>2. ~(\E t \in Threads : Call(t) \/ Step(t))
    BY <1>1, <2>1, CallBegins, StepLeavesFiles DEF Begins, LinkBegins
  <2>3. ~OtherOpens
    BY <1>1, <2>1 DEF OtherOpens, Socket, Free, Types
  <2>4. file' # file
    BY <1>1
  <2>5. PICK m \in Fds : OtherCloses(m)
    BY <1>1, <2>2, <2>3, <2>4 DEF Next, vars
  <2>6. m = n
    BY <1>1, <2>1, <2>5 DEF OtherCloses, Types
  <2> QED BY <2>5, <2>6
<1>2. IInv /\ [Next]_vars =>
        [orderly => \A n \in Fds \ {0} :
           file[n] = "file" /\ file'[n] # "file" => OtherCloses(n)]_vars
  BY <1>1
<1> QED BY <1>2, Invariant, PTL DEF Spec, OthersKept

-----------------------------------------------------------------------------
(* can_lock implements CountedLock, with no discipline assumed.            *)

(* The lock is free or one reader has it: nothing is lost, nothing in      *)
(* excess.                                                                 *)
LEMMA OneReader ==
  ASSUME Types, LockBalanced
  PROVE  /\ can_lock + Cardinality(Readers) - 1 = 0
         /\ Cardinality(Readers) \in {0, 1}
         /\ Cardinality(Readers) = 0 <=> Readers = {}
<1>1. IsFiniteSet({}) /\ Cardinality({}) = 0
  BY FS_EmptySet
<1>2. CASE can_lock = 1
  <2>1. Readers = {}
    BY <1>2 DEF LockBalanced, Readers
  <2> QED BY <1>1, <1>2, <2>1
<1>3. CASE can_lock = 0
  <2>1. PICK t \in Threads : Holding(t)
    BY <1>3 DEF LockBalanced
  <2>2. Readers = {t}
    BY <2>1 DEF LockBalanced, Readers
  <2>3. Cardinality({t}) = 1
    BY FS_Singleton
  <2> QED BY <1>3, <2>2, <2>3
<1> QED BY <1>2, <1>3 DEF Types

(* A step moves one thread, which can only come in where nobody is. *)
LEMMA LockNext ==
  IInv /\ IInv' /\ [Next]_vars => [CanLocked!Next]_(CanLocked!vars)
<1> SUFFICES ASSUME IInv, IInv', [Next]_vars
             PROVE  [CanLocked!Next]_(CanLocked!vars)
  OBVIOUS
<1> DEFINE surplus == can_lock + Cardinality(Readers) - 1
<1>1. /\ surplus = 0 /\ Cardinality(Readers) \in {0, 1}
      /\ Cardinality(Readers) = 0 <=> Readers = {}
  BY OneReader DEF IInv
<1>2. surplus' = 0
  <2>1. Types' /\ LockBalanced'
    BY DEF IInv
  <2>2. CASE can_lock' = 1
    <3>1. Readers' = {}
      BY <2>1, <2>2 DEF LockBalanced, Readers
    <3> QED BY <2>2, <3>1, FS_EmptySet
  <2>3. CASE can_lock' = 0
    <3>1. PICK t \in Threads : Holding(t)'
      BY <2>1, <2>3 DEF LockBalanced
    <3>2. Readers' = {t}
      BY <2>1, <3>1 DEF LockBalanced, Readers
    <3>3. Cardinality({t}) = 1
      BY FS_Singleton
    <3> QED BY <2>3, <3>2, <3>3
  <2>4. can_lock' \in {0, 1}
    BY <2>1 DEF Types
  <2> HIDE DEF surplus
  <2> QED BY <2>2, <2>3, <2>4
<1>3. ASSUME Readers' = Readers PROVE UNCHANGED CanLocked!vars
  BY <1>1, <1>2, <1>3 DEF CanLocked!vars
<1>4. ASSUME NEW t \in Threads, Call(t) \/ Step(t)
      PROVE  [CanLocked!Next]_(CanLocked!vars)
  <2>1. \A u \in Threads : u # t => loc'[u] = loc[u]
    BY <1>4, CallBegins, StepPlaces DEF Begins, LinkBegins, IInv
  <2>2. \A u \in Threads : u # t => (Holding(u)' <=> Holding(u))
    BY <2>1 DEF Holding, Answering
  <2>3. CASE Holding(t)' <=> Holding(t)
    BY <1>3, <2>2, <2>3 DEF Readers
  <2>4. CASE ~Holding(t) /\ Holding(t)'
    <3>1. t \notin Readers /\ Readers' = Readers \cup {t}
      BY <2>2, <2>4 DEF Readers
    <3>2. Readers = {}
      BY <2>2, <2>4 DEF Readers, IInv, LockBalanced
    <3>3. Cardinality(Readers) <= surplus
      BY <1>1, <3>2
    <3>4. CanLocked!Cardinality(Readers) <= surplus
      BY <3>3, Zenon DEF Cardinality, CanLocked!Cardinality
    <3> QED BY <1>1, <1>2, <3>1, <3>4 DEF CanLocked!Enter, CanLocked!Next
  <2>5. CASE Holding(t) /\ ~Holding(t)'
    <3>1. t \in Readers /\ Readers' = Readers \ {t}
      BY <2>2, <2>5 DEF Readers
    <3> QED BY <1>1, <1>2, <3>1 DEF CanLocked!Leave, CanLocked!Next
  <2> QED BY <2>3, <2>4, <2>5
<1>5. CASE OtherOpens \/ (\E n \in Fds : OtherCloses(n)) \/ UNCHANGED vars
  <2>1. loc' = loc
    BY <1>5 DEF OtherOpens, OtherCloses, vars
  <2> QED BY <1>3, <2>1 DEF Readers, Holding, Answering
<1> QED BY <1>4, <1>5 DEF Next

(* can_read() brackets its work with can_lock as CountedLock says, for any *)
(* threads and any overlap of calls: the failure path gives the lock back  *)
(* early and once (1108-1110), the answer to a request and a good frame    *)
(* once at the end (1163).                                                 *)
THEOREM ImplementsLock == Spec => CanLockSpec
<1>1. Init => CanLocked!Init
  <2>1. ASSUME Init PROVE Readers = {}
    BY <2>1 DEF Init, Idle, Readers, Holding, ReadLabels, CloseLabels
  <2>2. Cardinality({}) = 0
    BY FS_EmptySet
  <2> QED BY <2>1, <2>2 DEF Init, CanLocked!Init
<1> QED BY <1>1, LockNext, Invariant, PTL DEF Spec, CanLockSpec, CanLocked!Spec
=============================================================================
