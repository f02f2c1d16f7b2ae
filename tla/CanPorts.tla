------------------------------ MODULE CanPorts ------------------------------
(***************************************************************************)
(* The CAN sockets of can_comm.c.  One global per interface (sread_can0,   *)
(* ...) keeps the number of the socket its reader left open; 0 and -1 both *)
(* stand for "none".  can_read() holds can_lock until it has its frame,    *)
(* but closes its socket after a failure, and can_write() and can_deinit() *)
(* close it, without the lock.  reqst_flag is 1 between a request that was *)
(* sent and its answer.  Any thread calls any function.                    *)
(*                                                                         *)
(* A step is one access to the globals, the lock or the descriptor table;  *)
(* a global that is tested and then passed to close() may be read once or  *)
(* twice.  Abstracted: frames and filters, and the state of the interfaces *)
(* themselves, which is the kernel's (every request to it may fail); the   *)
(* sockets CheckLink() and set_qlen() close again on every path.  Left     *)
(* out: a library whose semaphore could not be made, and can_read() of a   *)
(* name that is no interface, which reads from an uninitialised number.    *)
(***************************************************************************)
EXTENDS Integers, Sequences, FiniteSets

CONSTANTS
  Threads,    \* threads that call the library
  Ifaces,     \* the CAN interfaces in use
  Fds         \* the numbers of the descriptor table

ASSUMPTION CanAssumption ==
  /\ Ifaces \subseteq {"can0", "can1", "can2"}
  /\ Fds \subseteq Nat
  /\ 0 \in Fds

VARIABLES
  file,       \* what each number names
  sread,      \* sread_can0, sread_can1, sread_can2
  can_lock,   \* the semaphore
  reqst_flag,
  loc,        \* each thread: where it is, and its call's own variables
  left,       \* numbers that a call returned without closing (history)
  orderly     \* whether the calls have kept the discipline below (history)

vars == <<file, sread, can_lock, reqst_flag, loc, left, orderly>>

Numbers == Fds \cup {-1}

InUse(i) == IF i \in Ifaces THEN <<i>> ELSE <<>>
Interfaces == InUse("can0") \o InUse("can1") \o InUse("can2")

(* "file": anything that is not of this module, standard input included;   *)
(* "raw": a CAN socket not bound yet; "lib": a netlink socket, or the      *)
(* wakeup file that can_deinit() reads.                                    *)
Kinds == Ifaces \cup {"free", "file", "raw", "lib"}

ReadLabels == {"lock", "check", "reopen", "open", "bind", "clear", "load", "recv", "answered",
               "post", "fail"}
CloseLabels == {"test", "shut", "forget"}
WriteLabels == {"parse", "socket", "wbind", "wflag", "refuse", "send", "wclose"}
Requests == {"stop", "rate", "fdrate", "start"}
LinkLabels == {"wake", "nllink"} \cup Requests

Labels == {"idle"} \cup ReadLabels \cup CloseLabels \cup WriteLabels \cup LinkLabels

TypeOK ==
  /\ file \in [Fds -> Kinds]
  /\ sread \in [Ifaces -> Numbers]
  /\ can_lock \in {0, 1}
  /\ reqst_flag \in {0, 1}
  /\ \A t \in Threads :
       /\ loc[t].pc \in Labels
       /\ loc[t].fd \in Numbers
       /\ loc[t].pc \in CloseLabels <=> loc[t].todo # <<>>
  /\ left \subseteq Fds
  /\ orderly \in BOOLEAN

Idle == [pc |-> "idle", op |-> "none", name |-> "none", fd |-> -1, todo |-> <<>>,
         back |-> "idle"]

Init ==
  /\ file = [n \in Fds |-> IF n = 0 THEN "file" ELSE "free"]
  /\ sread = [i \in Ifaces |-> 0]
  /\ can_lock = 1
  /\ reqst_flag = 0
  /\ loc = [t \in Threads |-> Idle]
  /\ left = {}
  /\ orderly = TRUE

----------------------------------------------------------------------------
(* Descriptors *)

Free == {n \in Fds : file[n] = "free"}

(* socket() gives the lowest free number, or fails. *)
Socket(n, kind) ==
  \/ /\ n \in Free
     /\ \A m \in Free : n <= m
     /\ file' = [file EXCEPT ![n] = kind]
  \/ /\ n = -1
     /\ UNCHANGED file

Closed(n) == IF n \in Fds THEN [file EXCEPT ![n] = "free"] ELSE file

(* bind() works on a CAN socket only, whatever it was bound to before. *)
Bound(n, i) ==
  IF n \in Fds /\ file[n] \in Ifaces \cup {"raw"} THEN [file EXCEPT ![n] = i] ELSE file

----------------------------------------------------------------------------
(* Calls.  The discipline: calls overlap only as reads of different        *)
(* interfaces while no request is open.  Bound of the model: calls that    *)
(* break it overlap once; from then on calls come one at a time, and the   *)
(* rest of the program does nothing.                                       *)

Busy(t) == loc[t].pc # "idle"

Overlaps(t, op, i) ==
  \E u \in Threads \ {t} :
    /\ Busy(u)
    /\ ~(op = "read" /\ loc[u].op = "read" /\ loc[u].name # i /\ reqst_flag = 0)

MayCall == orderly \/ \A u \in Threads : ~Busy(u)

Goto(t, label) == loc' = [loc EXCEPT ![t].pc = label]

Return(t) == loc' = [loc EXCEPT ![t] = Idle]

(* Close the read sockets of a list of interfaces, then go on. *)
CloseRead(t, list, back) ==
  loc' = [loc EXCEPT ![t].pc = "test", ![t].todo = list, ![t].back = back]

Begin(t, op, i, label, list, back) ==
  /\ ~Busy(t)
  /\ MayCall
  /\ loc' = [loc EXCEPT ![t] = [Idle EXCEPT !.pc = label, !.op = op, !.name = i,
                                            !.todo = list, !.back = back]]
  /\ orderly' = (orderly /\ ~Overlaps(t, op, i))
  /\ UNCHANGED <<file, sread, can_lock, reqst_flag, left>>

Read(t, i) == Begin(t, "read", i, "lock", <<>>, "idle")

Write(t, i) == Begin(t, "write", i, "test", <<i>>, "parse")

(* can_deinit() closes the read socket, looks into the wakeup file of      *)
(* can0 and can1, and takes the link down.                                 *)
Closing(t, op, i) ==
  Begin(t, op, i, "test", <<i>>, IF i = "can2" THEN "stop" ELSE "wake")

Deinit(t, i) == Closing(t, "deinit", i)

(* can_init() deinitialises a link that is up.                             *)
CanInit(t, i) ==
  /\ i # "can2"
  /\ Closing(t, "init", i) \/ Begin(t, "init", i, "rate", <<>>, "idle")

(* So does can_fd_init(), which opens a netlink socket of its own.         *)
FdInit(t, i) ==
  /\ i = "can2"
  /\ Closing(t, "fdinit", i) \/ Begin(t, "fdinit", i, "fdrate", <<>>, "idle")

Call(t) ==
  \E i \in Ifaces :
    Read(t, i) \/ Write(t, i) \/ Deinit(t, i) \/ CanInit(t, i) \/ FdInit(t, i)

----------------------------------------------------------------------------
(* can_read() *)

At(t, label) == loc[t].pc = label

Lock(t) ==
  /\ At(t, "lock")
  /\ can_lock > 0
  /\ can_lock' = can_lock - 1
  /\ Goto(t, "check")
  /\ UNCHANGED <<file, sread, reqst_flag, left, orderly>>

Check(t) ==
  LET s == sread[loc[t].name] IN
  /\ At(t, "check")
  /\ loc' = [loc EXCEPT ![t].pc = IF s <= 0 \/ reqst_flag = 1 THEN "reopen" ELSE "load",
                        ![t].fd = s]
  /\ UNCHANGED <<file, sread, can_lock, reqst_flag, left, orderly>>

(* Mutant of Reopen: the old socket is not closed.                         *)
ReopenOverwrites(t) ==
  /\ At(t, "reopen")
  /\ Goto(t, "open")
  /\ UNCHANGED <<file, sread, can_lock, reqst_flag, left, orderly>>

(* What stands for "no socket" is closed as well, 0 included, whoever has it. *)
Reopen(t) ==
  /\ At(t, "reopen")
  /\ \E n \in {loc[t].fd, sread[loc[t].name]} :
       file' = Closed(n) /\ left' = left \ {n}
  /\ Goto(t, "open")
  /\ UNCHANGED <<sread, can_lock, reqst_flag, orderly>>

Open(t) ==
  /\ At(t, "open")
  /\ \E n \in Numbers :
       /\ Socket(n, "raw")
       /\ sread' = [sread EXCEPT ![loc[t].name] = n]
       /\ Goto(t, IF n < 0 THEN "load" ELSE "bind")
  /\ UNCHANGED <<can_lock, reqst_flag, left, orderly>>

(* read_init() goes back before the bind if CAN FD frames are refused, and *)
(* can_read() does not look at its result.                                 *)
Bind(t) ==
  /\ At(t, "bind")
  /\ \/ Goto(t, "load") /\ UNCHANGED file
     \/ /\ reqst_flag = 1
        /\ file' = Bound(sread[loc[t].name], loc[t].name)
        /\ Goto(t, "load")
     \/ reqst_flag = 0 /\ Goto(t, "clear") /\ UNCHANGED file
  /\ UNCHANGED <<sread, can_lock, reqst_flag, left, orderly>>

(* With no request open it closes the request once more. *)
Clear(t) ==
  /\ At(t, "clear")
  /\ reqst_flag' = 0
  /\ file' \in {file, Bound(sread[loc[t].name], loc[t].name)}
  /\ Goto(t, "load")
  /\ UNCHANGED <<sread, can_lock, left, orderly>>

Load(t) ==
  /\ At(t, "load")
  /\ loc' = [loc EXCEPT ![t].pc = "recv", ![t].fd = sread[loc[t].name]]
  /\ UNCHANGED <<file, sread, can_lock, reqst_flag, left, orderly>>

(* A frame or the timeout of five seconds.  An answer to a request closes  *)
(* the read sockets of all interfaces.                                     *)
Recv(t) ==
  LET n == loc[t].fd IN
  /\ At(t, "recv")
  /\ \/ Goto(t, "fail")
     \/ /\ n \in Fds
        /\ file[n] \notin {"free", "raw"}
        /\ IF reqst_flag = 1
             THEN CloseRead(t, Interfaces, "answered")
             ELSE Goto(t, "post")
  /\ UNCHANGED <<file, sread, can_lock, reqst_flag, left, orderly>>

Answered(t) ==
  /\ At(t, "answered")
  /\ reqst_flag' = 0
  /\ Goto(t, "post")
  /\ UNCHANGED <<file, sread, can_lock, left, orderly>>

Post(t) ==
  /\ At(t, "post")
  /\ can_lock' = can_lock + 1
  /\ Return(t)
  /\ UNCHANGED <<file, sread, reqst_flag, left, orderly>>

(* Mutant of Fail: the lock is given back once more at the end.            *)
FailTwice(t) ==
  /\ At(t, "fail")
  /\ can_lock' = can_lock + 1
  /\ CloseRead(t, <<loc[t].name>>, "post")
  /\ UNCHANGED <<file, sread, reqst_flag, left, orderly>>

(* Mutant of Fail: the lock is not given back.                             *)
FailHeld(t) ==
  /\ At(t, "fail")
  /\ CloseRead(t, <<loc[t].name>>, "idle")
  /\ UNCHANGED <<file, sread, can_lock, reqst_flag, left, orderly>>

(* After a failure the lock is given back first. *)
Fail(t) ==
  /\ At(t, "fail")
  /\ can_lock' = can_lock + 1
  /\ CloseRead(t, <<loc[t].name>>, "idle")
  /\ UNCHANGED <<file, sread, reqst_flag, left, orderly>>

----------------------------------------------------------------------------
(* Closing read sockets.  With an answer at hand any number but 0 counts   *)
(* as a socket, and "none" becomes -1; elsewhere it is 0.                  *)

Answering(t) == loc[t].back = "answered"

Advance(t) ==
  LET rest == Tail(loc[t].todo) IN
  loc' = IF rest = <<>> /\ loc[t].back = "idle"
           THEN [loc EXCEPT ![t] = Idle]
           ELSE [loc EXCEPT ![t].pc = IF rest = <<>> THEN loc[t].back ELSE "test",
                            ![t].todo = rest]

Test(t) ==
  LET s == sread[Head(loc[t].todo)] IN
  /\ At(t, "test")
  /\ IF s > 0 \/ (Answering(t) /\ s # 0)
       THEN loc' = [loc EXCEPT ![t].pc = "shut", ![t].fd = s]
       ELSE Advance(t)
  /\ UNCHANGED <<file, sread, can_lock, reqst_flag, left, orderly>>

Shut(t) ==
  /\ At(t, "shut")
  /\ \E n \in {loc[t].fd, sread[Head(loc[t].todo)]} : file' = Closed(n)
  /\ Goto(t, "forget")
  /\ UNCHANGED <<sread, can_lock, reqst_flag, left, orderly>>

(* Mutant of Forget: the global keeps the closed number.                   *)
ForgetNothing(t) ==
  /\ At(t, "forget")
  /\ Advance(t)
  /\ UNCHANGED <<file, sread, can_lock, reqst_flag, left, orderly>>

Forget(t) ==
  /\ At(t, "forget")
  /\ sread' = [sread EXCEPT ![Head(loc[t].todo)] = IF Answering(t) THEN -1 ELSE 0]
  /\ Advance(t)
  /\ UNCHANGED <<file, can_lock, reqst_flag, left, orderly>>

----------------------------------------------------------------------------
(* can_write() *)

(* A return that leaves the call's own descriptor open. *)
Abandon(t) ==
  /\ left' = left \cup {loc[t].fd}
  /\ Return(t)

Parse(t) ==
  /\ At(t, "parse")
  /\ Goto(t, "socket") \/ Return(t)
  /\ UNCHANGED <<file, sread, can_lock, reqst_flag, left, orderly>>

OpenWrite(t) ==
  /\ At(t, "socket")
  /\ \E n \in Numbers :
       /\ Socket(n, "raw")
       /\ IF n < 0 THEN Return(t)
                   ELSE loc' = [loc EXCEPT ![t].pc = "wbind", ![t].fd = n]
  /\ UNCHANGED <<sread, can_lock, reqst_flag, left, orderly>>

(* An unknown interface, one without CAN FD, or a refused bind. *)
BindWrite(t) ==
  /\ At(t, "wbind")
  /\ \/ Abandon(t) /\ UNCHANGED file
     \/ /\ file' = Bound(loc[t].fd, loc[t].name)
        /\ Goto(t, "wflag")
        /\ UNCHANGED left
  /\ UNCHANGED <<sread, can_lock, reqst_flag, orderly>>

TestFlag(t) ==
  /\ At(t, "wflag")
  /\ Goto(t, IF reqst_flag = 0 THEN "send" ELSE "refuse")
  /\ UNCHANGED <<file, sread, can_lock, reqst_flag, left, orderly>>

(* An open request refuses the next one, and is closed by it. *)
Refuse(t) ==
  /\ At(t, "refuse")
  /\ reqst_flag' = 0
  /\ Abandon(t)
  /\ UNCHANGED <<file, sread, can_lock, orderly>>

Send(t) ==
  /\ At(t, "send")
  /\ \/ Abandon(t) /\ UNCHANGED reqst_flag
     \/ reqst_flag' = 1 /\ Goto(t, "wclose") /\ UNCHANGED left
  /\ UNCHANGED <<file, sread, can_lock, orderly>>

CloseWrite(t) ==
  /\ At(t, "wclose")
  /\ file' = Closed(loc[t].fd)
  /\ Return(t)
  /\ UNCHANGED <<sread, can_lock, reqst_flag, left, orderly>>

----------------------------------------------------------------------------
(* can_deinit(), can_init(), can_fd_init() after the close: requests to    *)
(* the kernel, each through a netlink socket of its own.                   *)

(* What may follow a request: can_init() and can_fd_init() go on from      *)
(* can_deinit() whatever it returns, but not with a bit rate they do not   *)
(* know, and can_fd_init() starts the link whatever came before.           *)
Sequel(request, op) ==
  CASE request = "stop" /\ op = "init" -> {"rate"}
    [] request = "stop" /\ op = "fdinit" -> {"fdrate", "idle"}
    [] request = "rate" -> {"start", "idle"}
    [] request \in {"fdrate", "queued"} -> {"start"}
    [] OTHER -> {"idle"}

GoOn(t, request) ==
  \E p \in Sequel(request, loc[t].op) :
    loc' = IF p = "idle" THEN [loc EXCEPT ![t] = Idle]
             ELSE [loc EXCEPT ![t].pc = p, ![t].fd = -1, ![t].back = "idle"]

(* The file is never closed; an interface that may wake the device up is   *)
(* not stopped, nor one whose file cannot be opened.                       *)
Wake(t) ==
  /\ At(t, "wake")
  /\ \E n \in Numbers :
       /\ Socket(n, "lib")
       /\ left' = left \cup ({n} \cap Fds)
       /\ \/ GoOn(t, "stop")
          \/ n \in Fds /\ Goto(t, "stop")
  /\ UNCHANGED <<sread, can_lock, reqst_flag, orderly>>

(* open_nl_sock(), which does not close a socket it cannot bind.           *)
OpenNetlink(t) ==
  LET request == loc[t].pc IN
  /\ request \in Requests
  /\ \E n \in Numbers :
       /\ Socket(n, "lib")
       /\ \/ /\ IF request = "rate" THEN Return(t) ELSE GoOn(t, request)
             /\ left' = left \cup ({n} \cap Fds)
          \/ /\ n \in Fds
             /\ loc' = [loc EXCEPT ![t].pc = "nllink", ![t].fd = n, ![t].back = request]
             /\ UNCHANGED left
  /\ UNCHANGED <<sread, can_lock, reqst_flag, orderly>>

(* With a queue length to set can_fd_init() starts the link once before it *)
(* closes its socket, and that start may lose a socket of its own.         *)
StartQueued(t) ==
  /\ At(t, "nllink")
  /\ loc[t].back = "fdrate"
  /\ \E n \in Fds : Socket(n, "lib") /\ left' = left \cup {n}
  /\ loc' = [loc EXCEPT ![t].back = "queued"]
  /\ UNCHANGED <<sread, can_lock, reqst_flag, orderly>>

(* set_link() closes its socket; can_fd_init() closes its own only if the  *)
(* bit rate was accepted and a queue length was asked for.                 *)
SetLink(t) ==
  /\ At(t, "nllink")
  /\ \/ file' = Closed(loc[t].fd) /\ UNCHANGED left
     \/ loc[t].back = "fdrate" /\ left' = left \cup {loc[t].fd} /\ UNCHANGED file
  /\ GoOn(t, loc[t].back)
  /\ UNCHANGED <<sread, can_lock, reqst_flag, orderly>>

----------------------------------------------------------------------------
ReadStep(t) ==
  \/ Lock(t) \/ Check(t) \/ Reopen(t) \/ Open(t) \/ Bind(t) \/ Clear(t) \/ Load(t)
  \/ Recv(t) \/ Answered(t) \/ Post(t) \/ Fail(t)

CloseStep(t) == Test(t) \/ Shut(t) \/ Forget(t)

WriteStep(t) ==
  \/ Parse(t) \/ OpenWrite(t) \/ BindWrite(t) \/ TestFlag(t) \/ Refuse(t) \/ Send(t)
  \/ CloseWrite(t)

Step(t) ==
  \/ ReadStep(t) \/ CloseStep(t) \/ WriteStep(t)
  \/ Wake(t) \/ OpenNetlink(t) \/ StartQueued(t) \/ SetLink(t)

(* The rest of the program opens and closes files of its own.  Being given *)
(* the number 0 is outside the discipline too: see Reopen.                 *)
OtherOpens ==
  /\ orderly
  /\ \E n \in Fds : Socket(n, "file") /\ orderly' = (orderly /\ n # 0)
  /\ UNCHANGED <<sread, can_lock, reqst_flag, loc, left>>

OtherCloses(n) ==
  /\ orderly
  /\ n # 0
  /\ file[n] = "file"
  /\ file' = [file EXCEPT ![n] = "free"]
  /\ UNCHANGED <<sread, can_lock, reqst_flag, loc, left, orderly>>

Next ==
  \/ \E t \in Threads : Call(t) \/ Step(t)
  \/ OtherOpens
  \/ \E n \in Fds : OtherCloses(n)

Spec == Init /\ [][Next]_vars

----------------------------------------------------------------------------
(* Properties *)

Holding(t) ==
  \/ loc[t].pc \in ReadLabels \ {"lock"}
  \/ loc[t].pc \in CloseLabels /\ Answering(t)

(* can_lock excludes and is never lost: free exactly when no reader is     *)
(* between its wait and its post, on every path of can_read().             *)
LockBalanced ==
  /\ can_lock = 1 <=> \A t \in Threads : ~Holding(t)
  /\ \A t, u \in Threads : Holding(t) /\ Holding(u) => t = u

(* As the readers count on it: whatever path a read takes, after a failure *)
(* or an answer too, it comes in alone by a wait that found the lock free  *)
(* and gives it back once, by a post of its own (lines 1047-1164).         *)
Readers == {t \in Threads : Holding(t)}
CanLocked == INSTANCE CountedLock
               WITH inside <- Readers, surplus <- can_lock + Cardinality(Readers) - 1,
                    MayOverpost <- FALSE
CanLockSpec == CanLocked!Spec

(* Within the discipline a call reads, binds, writes and closes only the   *)
(* socket it opened or found for its own interface (1049-1161), although   *)
(* numbers are reused and kept in globals over calls, failures and         *)
(* deinitialisations.  Number 0 is left out of the two closes: can_read()  *)
(* of an interface without a socket closes 0 whoever has it (1052), the    *)
(* socket of another interface included.                                   *)
OwnDescriptor ==
  orderly => \A t \in Threads :
    LET n == loc[t].fd
        SocketOf(m, i) == m \in Fds \ {0} => file[m] \in {i, "raw"}
    IN
    /\ At(t, "recv") /\ n \in Fds => file[n] \in {loc[t].name, "raw"}
    /\ At(t, "reopen") =>
         \A m \in {n, sread[loc[t].name]} : SocketOf(m, loc[t].name)
    /\ At(t, "shut") =>
         \A m \in {n, sread[Head(loc[t].todo)]} : SocketOf(m, Head(loc[t].todo))
    /\ loc[t].pc = "wbind" => file[n] = "raw"
    /\ loc[t].pc \in {"wflag", "refuse", "send", "wclose"} => file[n] = loc[t].name
    /\ loc[t].pc = "nllink" => file[n] = "lib"

(* Within the discipline the library loses a descriptor only where a call  *)
(* returns without closing its own: a can_write() that fails after its     *)
(* socket() (965-1028), an open_nl_sock() that fails after its own (231-   *)
(* 247), can_fd_init() (627-672) and the wakeup file that can_deinit()     *)
(* opens (755, 767).  No read socket is lost.                              *)
Accounted ==
  orderly => \A n \in Fds :
    file[n] \in Ifaces \cup {"raw", "lib"} =>
      \/ n \in left
      \/ \E i \in Ifaces : sread[i] = n
      \/ \E t \in Threads : loc[t].pc \in WriteLabels \cup LinkLabels /\ loc[t].fd = n

(* Within the discipline no file of the rest of the program is closed;     *)
(* standard input is, by the first read.                                   *)
OthersKept ==
  [][orderly => \A n \in Fds \ {0} :
       file[n] = "file" /\ file'[n] # "file" => OtherCloses(n)]_vars

=============================================================================
