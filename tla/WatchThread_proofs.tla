-------------------------- MODULE WatchThread_proofs --------------------------
(***************************************************************************)
(* OneWatcher and FlagHonest hold for any set of threads.  Neither is      *)
(* inductive alone: that a start finds the flag at 0 says nothing of a     *)
(* thread which has not set it yet.  StartInv adds what the order of the   *)
(* calls guarantees: before the next enable a flag of 0 means that no      *)
(* thread is on its way, and a dead thread keeps the flag away from 0.     *)
(***************************************************************************)
EXTENDS WatchThread, TLAPS

Active(t) == Starting(t) \/ Watching(t)

One == \A t, u \in Threads : Active(t) /\ Active(u) => t = u

Honest ==
  /\ flag = 1 => \E t \in Threads : Watching(t) \/ pc[t] = "dead"
  /\ flag = 0 => \A t \in Threads : ~Watching(t)

(* Between the test of the flag and pthread_create() nothing is alive. *)
Creating ==
  app = "create" => /\ flag = 0
                    /\ due = "disable"
                    /\ \A t \in Threads : ~Active(t)

(* A thread that died of a short read blocks the flag and is alone. *)
Blocked ==
  \A t \in Threads : pc[t] = "dead" =>
    /\ flag # 0
    /\ \A u \in Threads : ~Active(u) /\ (pc[u] = "dead" => u = t)

(* A stop leaves no thread on its way behind a flag of 0. *)
Stopped == due = "enable" /\ flag = 0 => \A t \in Threads : ~Active(t)

StartInv == inTurn => One /\ Honest /\ Creating /\ Blocked /\ Stopped

IInv == TypeOK /\ StartInv

----------------------------------------------------------------------------
(* What a step of one thread does to its own label and to no other.        *)
LEMMA GotoMoves ==
  ASSUME TypeOK, NEW t \in Threads, NEW label \in Labels, Goto(t, label)
  PROVE  /\ pc' \in [Threads -> Labels]
         /\ pc'[t] = label
         /\ \A u \in Threads : u # t => pc'[u] = pc[u]
  BY DEF TypeOK, Goto

(* The variables of the watch keep their types: no call decrements the     *)
(* flag or leaves another value than the code's three.                     *)
LEMMA TypeStep == TypeOK /\ [Next]_vars => TypeOK'
<1> SUFFICES ASSUME TypeOK, [Next]_vars PROVE TypeOK'
  OBVIOUS
<1>1. CASE Application
  BY <1>1 DEF Application, Enable, Create, Disable, Return, AskStatus, Probe,
     SleepClears, Call, Goto, TypeOK, Labels, Seen, calls
<1>2. ASSUME NEW t \in Threads, Step(t) PROVE TypeOK'
  BY <1>2 DEF Step, Open, Mark, Test, Wait, Reset, Clear, Close, Goto, TypeOK,
     Labels, Seen, calls
<1>3. CASE UNCHANGED vars
  BY <1>3 DEF vars, TypeOK, Seen
<1> QED BY <1>1, <1>2, <1>3 DEF Next

LEMMA StartApplication == IInv /\ Application => StartInv'
<1> SUFFICES ASSUME TypeOK, StartInv, Application, inTurn'
             PROVE  (One /\ Honest /\ Creating /\ Blocked /\ Stopped)'
  BY DEF IInv, StartInv
<1> USE DEF Active, Starting, Watching
<1>1. inTurn /\ One /\ Honest /\ Creating /\ Blocked /\ Stopped
  BY DEF Application, Enable, Create, Disable, Return, AskStatus, Probe,
     SleepClears, Call, calls, StartInv, TypeOK
<1>2. CASE Enable
  <2>1. due = "enable" /\ due' = "disable" /\ flag' = flag /\ pc' = pc
    BY <1>2 DEF Enable, Call, TypeOK
  <2>2. app' = "create" => flag = 0
    BY <1>2 DEF Enable
  <2> QED BY <1>1, <2>1, <2>2 DEF One, Honest, Creating, Blocked, Stopped
<1>3. CASE Create
  <2>1. flag = 0 /\ due = "disable" /\ app' = "idle" /\ flag' = flag /\ due' = due
    BY <1>1, <1>3 DEF Create, Creating, calls
  <2>2. \A t \in Threads : ~Active(t) /\ pc[t] # "dead"
    BY <1>1, <2>1, <1>3 DEF Create, Creating, Blocked
  <2>3. CASE UNCHANGED pc
    BY <2>1, <2>2, <2>3 DEF One, Honest, Creating, Blocked, Stopped
  <2>4. ASSUME NEW t \in Threads, Goto(t, "open")
        PROVE  (One /\ Honest /\ Creating /\ Blocked /\ Stopped)'
    <3>1. pc'[t] = "open" /\ \A u \in Threads : u # t => pc'[u] = pc[u]
      BY <2>4, GotoMoves DEF Labels
    <3> QED BY <2>1, <2>2, <3>1 DEF One, Honest, Creating, Blocked, Stopped
  <2> QED BY <1>3, <2>3, <2>4 DEF Create
<1>4. CASE Disable
  BY <1>1, <1>4 DEF Disable, One, Honest, Creating, Blocked, Stopped
<1>5. CASE Return \/ AskStatus \/ Probe \/ SleepClears
  BY <1>1, <1>5 DEF Return, AskStatus, Probe, SleepClears, calls, One, Honest,
     Creating, Blocked, Stopped
<1> QED BY <1>2, <1>3, <1>4, <1>5 DEF Application

LEMMA StartThread ==
  ASSUME NEW t \in Threads PROVE IInv /\ Step(t) => StartInv'
<1> SUFFICES ASSUME TypeOK, StartInv, Step(t), inTurn'
             PROVE  (One /\ Honest /\ Creating /\ Blocked /\ Stopped)'
  BY DEF IInv, StartInv
<1> USE DEF Active, Starting, Watching
<1>1. /\ inTurn /\ One /\ Honest /\ Creating /\ Blocked /\ Stopped
      /\ app' = app /\ due' = due
  BY DEF Step, Open, Mark, Test, Wait, Reset, Clear, Close, calls, StartInv
<1>2. \A u \in Threads : u # t => pc'[u] = pc[u]
  BY DEF Step, Open, Mark, Test, Wait, Reset, Clear, Close, Goto, TypeOK
<1>3. CASE Open(t)
  <2>1. pc[t] = "open" /\ pc'[t] \in {"mark", "none"} /\ flag' = flag
    BY <1>3 DEF Open, Goto, TypeOK
  <2> QED BY <1>1, <1>2, <2>1 DEF One, Honest, Creating, Blocked, Stopped
<1>4. CASE Mark(t)
  <2>1. pc[t] = "mark" /\ pc'[t] = "test" /\ flag' = 1
    BY <1>4 DEF Mark, Goto, TypeOK
  <2> QED BY <1>1, <1>2, <2>1 DEF One, Honest, Creating, Blocked, Stopped
<1>5. CASE Test(t)
  <2>1. pc[t] = "test" /\ pc'[t] \in {"reset", "wait"} /\ flag' = flag
    BY <1>5 DEF Test, Goto, TypeOK
  <2> QED BY <1>1, <1>2, <2>1 DEF One, Honest, Creating, Blocked, Stopped
<1>6. CASE Wait(t)
  <2>1. pc[t] = "wait" /\ pc'[t] \in {"test", "dead"} /\ flag' = flag
    BY <1>6 DEF Wait, Goto, TypeOK
  <2>2. flag # 0
    BY <1>1, <2>1 DEF Honest
  <2>3. \A u \in Threads : pc[u] # "dead"
    BY <1>1, <2>1 DEF Blocked
  <2>4. \A u \in Threads : u # t => ~Active(u)
    BY <1>1, <2>1 DEF One
  <2> QED BY <1>1, <1>2, <2>1, <2>2, <2>3, <2>4
      DEF One, Honest, Creating, Blocked, Stopped
<1>7. CASE Reset(t)
  <2>1. pc[t] = "reset" /\ pc'[t] = "clear" /\ flag' = 0
    BY <1>7 DEF Reset, Goto, TypeOK
  <2> QED BY <1>1, <1>2, <2>1 DEF One, Honest, Creating, Blocked, Stopped
<1>8. CASE Clear(t) \/ Close(t)
  <2>1. /\ pc[t] \in {"clear", "close"} /\ pc'[t] \in {"close", "none"}
        /\ flag' = flag
    BY <1>8 DEF Clear, Close, Goto, TypeOK
  <2> QED BY <1>1, <1>2, <2>1 DEF One, Honest, Creating, Blocked, Stopped
<1> QED BY <1>3, <1>4, <1>5, <1>6, <1>7, <1>8 DEF Step

LEMMA Inductive == Spec => []IInv
<1>1. Init => IInv
  BY DEF Init, IInv, TypeOK, StartInv, One, Honest, Creating, Blocked, Stopped,
     Active, Starting, Watching, Labels, Seen
<1>2. IInv /\ [Next]_vars => IInv'
  <2> SUFFICES ASSUME IInv, [Next]_vars PROVE IInv'
    OBVIOUS
  <2>1. TypeOK'
    BY TypeStep DEF IInv
  <2>2. CASE UNCHANGED vars
    BY <2>1, <2>2 DEF vars, IInv, StartInv, One, Honest, Creating, Blocked,
       Stopped, Active, Starting, Watching
  <2> QED BY <2>1, <2>2, StartApplication, StartThread DEF IInv, Next
<1> QED BY <1>1, <1>2, PTL DEF Spec

----------------------------------------------------------------------------
(* The flag, the threads' labels and the application's stay in their sets,  *)
(* called in turn or not (thread_def.c 259-547).                           *)
THEOREM TypeCorrect == Spec => []TypeOK
BY Inductive, PTL DEF IInv

(* If enable and disable are called in turn, one thread at most is on its  *)
(* way to its loop, in it, or dead with its device open.                   *)
THEOREM WatcherIsAlone == Spec => []OneWatcher
<1>1. IInv => OneWatcher
  BY DEF IInv, StartInv, One, Blocked, OneWatcher, Active
<1> QED BY <1>1, Inductive, PTL

(* ... the flag that the next start will test is right about the threads.  *)
THEOREM FlagIsHonest == Spec => []FlagHonest
<1>1. IInv => FlagHonest
  BY DEF IInv, StartInv, Honest, FlagHonest
<1> QED BY <1>1, Inductive, PTL

----------------------------------------------------------------------------
(* The steps a watcher that finds the flag at -1 still has in front of it. *)
ToReset(t) ==
  IF pc[t] = "wait" THEN 3 ELSE IF pc[t] = "test" THEN 2 ELSE 1

(* A stop that has met a thread in its loop is not taken back before the   *)
(* thread has gone, whatever else is called in turn: every step leaves the *)
(* thread and its stop alone, or brings it nearer to its reset, or ends it. *)
StopStays(t) ==
  flag = -1 /\ Watching(t) /\ inTurn' =>
    \/ /\ flag' = -1 /\ Watching(t)'
       /\ pc'[t] = pc[t] \/ ToReset(t)' < ToReset(t)
    \/ pc'[t] \in {"clear", "dead"}

LEMMA StopStep ==
  ASSUME IInv, [Next]_vars, NEW t \in Threads PROVE StopStays(t)
<1> SUFFICES ASSUME flag = -1, Watching(t), inTurn'
             PROVE  \/ /\ flag' = -1 /\ Watching(t)'
                       /\ pc'[t] = pc[t] \/ ToReset(t)' < ToReset(t)
                    \/ pc'[t] \in {"clear", "dead"}
  BY DEF StopStays
<1>1. CASE Application
  <2>1. flag' = -1
    BY <1>1 DEF Application, Enable, Create, Disable, Return, AskStatus, Probe,
       SleepClears, calls
  <2>2. pc'[t] = pc[t]
    BY <1>1 DEF Application, Enable, Create, Disable, Return, AskStatus, Probe,
       SleepClears, Goto, Watching, IInv, TypeOK, calls
  <2> QED BY <2>1, <2>2 DEF Watching
<1>2. ASSUME NEW u \in Threads, Step(u), u # t
      PROVE  flag' = -1 /\ pc'[t] = pc[t]
  <2>1. inTurn
    BY <1>2 DEF Step, Open, Mark, Test, Wait, Reset, Clear, Close, calls
  <2>2. pc[u] # "mark" /\ pc[u] # "reset"
    BY <1>2, <2>1 DEF IInv, StartInv, One, Active, Starting, Watching
  <2> QED BY <1>2, <2>2 DEF Step, Open, Mark, Test, Wait, Reset, Clear, Close,
          Goto, IInv, TypeOK
<1>3. CASE Step(t)
  <2>1. pc[t] = "test" => pc'[t] = "reset" /\ flag' = -1
    BY <1>3 DEF Step, Open, Mark, Test, Wait, Reset, Clear, Close, Goto, IInv, TypeOK
  <2>2. pc[t] = "wait" => pc'[t] = "dead" \/ (pc'[t] = "test" /\ flag' = -1)
    BY <1>3 DEF Step, Open, Mark, Test, Wait, Reset, Clear, Close, Goto, IInv, TypeOK
  <2>3. pc[t] = "reset" => pc'[t] = "clear"
    BY <1>3 DEF Step, Open, Mark, Test, Wait, Reset, Clear, Close, Goto, IInv, TypeOK
  <2> QED BY <2>1, <2>2, <2>3 DEF Watching, ToReset
<1>4. CASE UNCHANGED vars
  BY <1>4 DEF vars, Watching
<1> QED BY <1>1, <1>2, <1>3, <1>4 DEF Next, Watching

(* Of StopObeyed, all but the fairness: a stop that met a thread in its    *)
(* loop stays until that thread has left it, which is after three of its   *)
(* own steps at most.                                                      *)
THEOREM StopIsKept == Spec => [][\A t \in Threads : StopStays(t)]_vars
<1>1. IInv /\ [Next]_vars => \A t \in Threads : StopStays(t)
  BY StopStep
<1> QED BY <1>1, Inductive, PTL DEF Spec
=============================================================================
