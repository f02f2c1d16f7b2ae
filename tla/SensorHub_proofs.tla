--------------------------- MODULE SensorHub_proofs ---------------------------
(***************************************************************************)
(* TypeOK, ReadSafe, DeinitHonest, InitRecovers and OwnDevice hold for any *)
(* set of threads, any calls of each, any first device and any number of   *)
(* failures.  The invariant has one part about each thread (At) and one    *)
(* about each sensor (Kept), under the order the calls are made in; a step *)
(* touches one thread and one sensor (Local), so each action is looked at  *)
(* for that pair only.                                                     *)
(***************************************************************************)
EXTENDS SensorHub, TLAPS

(* Only the magnetometer's number starts at 0. *)
Zero == \A s \in Sensors : number[s] = "zero" => s = "mag"

(* The labels that only the gyroscope's calls have. *)
Sites == \A t \in Threads : pc[t] \in GyroPcs \cup {"dRegs"} => on[t] = "gyro"

(* A sensor's lock is 0 while a thread reads it, and one thread reads it at a time. *)
Inside(t) == pc[t] \in {"rOpen", "walk"}
Locked ==
  \A t \in Threads : Inside(t) =>
    /\ lock[on[t]] = 0
    /\ \A u \in Threads : Inside(u) /\ on[u] = on[t] => u = t

(* What orderly stands for: only reads meet on a sensor. *)
Alone ==
  \A t, u \in Threads :
    t # u /\ pc[t] # "idle" /\ pc[u] # "idle" /\ on[t] = on[u] => pc[t] \in ReadPcs

(* What holds where a thread is. *)
At(t) ==
  /\ pc[t] \in InitPcs \cup DeinitPcs => said[on[t]] = "nothing"
  /\ pc[t] \in GyroPcs => said[on[t]] \in {"nothing", "up"}
  /\ pc[t] \in {"build", "enable", "regs", "onBuffer"} => axes[on[t]] = "all"
  /\ pc[t] \in {"enable", "regs"} => channels[on[t]] = "live" /\ sized
  /\ pc[t] = "axes" => /\ number[on[t]] \in {"own", "wrong"}
                       /\ on[t] = "mag" /\ clean[t] => number[on[t]] = "own"
  /\ pc[t] = "failed" /\ clean[t] => on[t] # "mag" /\ number[on[t]] = "wrong"
  /\ pc[t] = "dRegs" => axes[on[t]] = "none" /\ ~buffer[on[t]]

(* What holds of a sensor, whoever is at work: an enabled buffer has all its axes, *)
(* and the two answers mean what they say.                                         *)
Kept(s) ==
  /\ buffer[s] => axes[s] = "all"
  /\ said[s] = "up" => channels[s] = "live" /\ sized
  /\ said[s] = "down" => axes[s] = "none" /\ ~buffer[s]

Ordered == Alone /\ (\A t \in Threads : At(t)) /\ (\A s \in Sensors : Kept(s))

IInv == TypeOK /\ Zero /\ Sites /\ Locked /\ (orderly => Ordered)

(* What a step of t leaves alone. *)
Local(t) ==
  /\ pc[t] # "idle" /\ (pc[t] \in ReadPcs => pc'[t] \in ReadPcs \cup {"idle"})
  /\ pc'[t] # "idle" => on'[t] = on[t]
  /\ \A u \in Threads : u # t => pc'[u] = pc[u] /\ on'[u] = on[u] /\ clean'[u] = clean[u]
  /\ \A r \in Sensors : r # on[t] =>
       /\ axes'[r] = axes[r] /\ channels'[r] = channels[r]
       /\ said'[r] = said[r] /\ number'[r] = number[r]
       /\ buffer'[r] => buffer[r]
  /\ sized => sized'
  /\ orderly' = orderly

-----------------------------------------------------------------------------

(* A step that is local keeps the parts about the other threads and sensors. *)
LEMMA Others ==
  ASSUME TypeOK, Ordered, NEW t \in Threads, Local(t), At(t)',
         NEW s \in Sensors, s = on[t], Kept(s)'
  PROVE  Ordered'
<1>1. Alone'
  BY DEF Ordered, Alone, Local
<1>2. ASSUME NEW u \in Threads PROVE At(u)'
  <2>1. CASE u = t
    BY <2>1
  <2>2. CASE u # t /\ pc[u] \in {"idle"} \cup ReadPcs
    BY <2>2 DEF Local, At, InitPcs, DeinitPcs, GyroPcs, ReadPcs
  <2>3. CASE u # t /\ pc[u] \notin {"idle"} \cup ReadPcs
    <3>1. on[u] # on[t] /\ on[u] \in Sensors
      BY <2>3 DEF Ordered, Alone, Local, TypeOK
    <3>2. /\ pc'[u] = pc[u] /\ on'[u] = on[u] /\ clean'[u] = clean[u]
          /\ axes'[on[u]] = axes[on[u]] /\ channels'[on[u]] = channels[on[u]]
          /\ said'[on[u]] = said[on[u]] /\ number'[on[u]] = number[on[u]]
          /\ buffer'[on[u]] => buffer[on[u]]
          /\ sized => sized'
      BY <2>3, <3>1 DEF Local
    <3>3. At(u)
      BY DEF Ordered
    <3> QED BY <3>2, <3>3 DEF At
  <2> QED BY <2>1, <2>2, <2>3
<1>3. ASSUME NEW r \in Sensors PROVE Kept(r)'
  <2>1. CASE r = on[t]
    BY <2>1 DEF Kept
  <2>2. CASE r # on[t]
    BY <2>2 DEF Ordered, Local, Kept
  <2> QED BY <2>1, <2>2
<1> QED BY <1>1, <1>2, <1>3 DEF Ordered

-----------------------------------------------------------------------------
(* The types, and which steps are local.                                   *)

LEMMA Lookups ==
  /\ DOMAIN AfterLook = {"look", "offLook", "onLook"}
  /\ AfterLook["look"] = "axes" /\ AfterLook["offLook"] = "off"
  /\ AfterLook["onLook"] = "onAxes"
  BY DEF AfterLook

LEMMA Entries ==
  /\ DOMAIN Entry = {"init", "deinit", "read", "gyro_disable", "gyro_enable"}
  /\ Entry["init"] = "look" /\ Entry["deinit"] = "dStart" /\ Entry["read"] = "rWait"
  /\ Entry["gyro_disable"] = "offLook" /\ Entry["gyro_enable"] = "onLook"
  BY DEF Entry

(* A failure is counted within the bound. *)
LEMMA FailsCounted == faults \in 0..MaxFaults /\ Fails => faults' \in 0..MaxFaults
  BY SensorAssumption DEF Fails

LEMMA LocalInit ==
  ASSUME TypeOK, NEW t \in Threads,
         Look(t) \/ InitAxes(t) \/ InitBuild(t) \/ InitEnable(t) \/ InitRegs(t) \/ InitFailed(t)
  PROVE  Local(t)
<1> USE DEF TypeOK, Local, Goto, Fine, Fault, Fails, kernelVars, procVars, callVars, histVars,
        Sensors, ReadPcs
<1>1. CASE Look(t)
  BY <1>1, Lookups DEF Look
<1>2. CASE InitAxes(t)
  BY <1>2 DEF InitAxes, SetAxes
<1>3. CASE InitBuild(t)
  BY <1>3 DEF InitBuild
<1>4. CASE InitEnable(t)
  BY <1>4 DEF InitEnable, SetBuffer
<1>5. CASE InitRegs(t)
  BY <1>5 DEF InitRegs, Answer, Idle
<1>6. CASE InitFailed(t)
  BY <1>6 DEF InitFailed, Answer, Idle, Freed
<1> QED BY <1>1, <1>2, <1>3, <1>4, <1>5, <1>6

LEMMA LocalDeinit ==
  ASSUME TypeOK, Zero, NEW t \in Threads,
         \/ DeinitStart(t) \/ DeinitBuffer(t) \/ MagDeinitBuffer(t) \/ DeinitAxes(t)
         \/ GyroDeinitRegs(t) /\ on[t] = "gyro"
  PROVE  Local(t)
<1> USE DEF TypeOK, Local, Goto, Fine, Fault, Fails, kernelVars, procVars, callVars, histVars,
        Sensors, ReadPcs, DeinitEnds, Answer, Idle, Freed
<1>1. CASE DeinitStart(t)
  BY <1>1 DEF DeinitStart
<1>2. CASE DeinitBuffer(t)
  BY <1>2 DEF DeinitBuffer, SetBuffer, Dev, Zero
<1>3. CASE MagDeinitBuffer(t)
  BY <1>3 DEF MagDeinitBuffer, SetBuffer
<1>4. CASE DeinitAxes(t)
  BY <1>4 DEF DeinitAxes, SetAxes
<1>5. CASE GyroDeinitRegs(t) /\ on[t] = "gyro"
  BY <1>5 DEF GyroDeinitRegs
<1> QED BY <1>1, <1>2, <1>3, <1>4, <1>5

LEMMA LocalGyro ==
  ASSUME TypeOK, Zero, NEW t \in Threads, on[t] = "gyro",
         GyroOff(t) \/ GyroAxes(t) \/ GyroOnBuffer(t)
  PROVE  Local(t)
<1> USE DEF TypeOK, Local, Goto, Fine, Fault, Fails, kernelVars, procVars, callVars, histVars,
        Sensors, ReadPcs, Leave, Answer, Idle
<1>1. CASE GyroOff(t)
  BY <1>1 DEF GyroOff, SetBuffer, Dev, Zero
<1>2. CASE GyroAxes(t)
  BY <1>2 DEF GyroAxes, SetAxes
<1>3. CASE GyroOnBuffer(t)
  BY <1>3 DEF GyroOnBuffer, SetBuffer
<1> QED BY <1>1, <1>2, <1>3

LEMMA LocalRead ==
  ASSUME TypeOK, NEW t \in Threads,
         ReadWait(t) \/ ReadOpen(t) \/ ReadNothing(t) \/ ReadWalk(t)
  PROVE  Local(t)
  BY DEF TypeOK, Local, Goto, kernelVars, procVars, callVars, histVars, ReadPcs, Idle,
     ReadWait, ReadOpen, ReadNothing, ReadWalk, ReadEnd

(* The types in five parts, each kept by every action of a thread. *)
KernelType == axes \in [Sensors -> {"none", "some", "all"}] /\ buffer \in [Sensors -> BOOLEAN]
NumberType == number \in [Sensors -> {"unset", "own", "wrong", "zero"}]
ChannelType == channels \in [Sensors -> {"empty", "live", "freed"}]
PlaceType ==
  /\ pc \in [Threads -> {"idle"} \cup ReadPcs \cup InitPcs \cup DeinitPcs \cup GyroPcs]
  /\ on \in [Threads -> Sensors] /\ nested \in [Threads -> BOOLEAN]
HistoryType ==
  /\ said \in [Sensors -> {"nothing", "up", "down", "gaveUp"}]
  /\ clean \in [Threads -> BOOLEAN] /\ orderly \in BOOLEAN /\ faults \in 0..MaxFaults
OtherType == sized \in BOOLEAN /\ accOk \in BOOLEAN

LEMMA TypeParts ==
  TypeOK <=> /\ KernelType /\ NumberType /\ ChannelType /\ PlaceType /\ HistoryType
             /\ OtherType /\ lock \in [Sensors -> {0, 1}]
  BY DEF TypeOK, KernelType, NumberType, ChannelType, PlaceType, HistoryType, OtherType

LEMMA AnswerType ==
  ASSUME TypeOK, NEW t \in Threads, NEW word \in {"nothing", "up", "down", "gaveUp"},
         Answer(t, word)
  PROVE  said' \in [Sensors -> {"nothing", "up", "down", "gaveUp"}] /\ clean' \in [Threads -> BOOLEAN]
  BY DEF TypeOK, Answer

LEMMA FreedType == ASSUME TypeOK, NEW s \in Sensors, Freed(s) PROVE ChannelType'
  BY DEF TypeOK, Freed, ChannelType

LEMMA TypeKernel == ASSUME TypeOK, NEW t \in Threads, Step(t) PROVE KernelType'
<1> USE DEF KernelType, TypeOK, SetAxes, SetBuffer, Partly
<1>1. CASE InitAxes(t)
  BY <1>1 DEF InitAxes
<1>2. CASE InitEnable(t)
  BY <1>2 DEF InitEnable
<1>3. CASE DeinitBuffer(t) \/ MagDeinitBuffer(t)
  BY <1>3 DEF DeinitBuffer, MagDeinitBuffer
<1>4. CASE DeinitAxes(t)
  BY <1>4 DEF DeinitAxes
<1>5. CASE GyroOff(t) \/ GyroOnBuffer(t)
  BY <1>5 DEF GyroOff, GyroOnBuffer
<1>6. CASE GyroAxes(t)
  BY <1>6 DEF GyroAxes
<1>7. CASE UNCHANGED kernelVars
  BY <1>7 DEF kernelVars
<1> QED BY <1>1, <1>2, <1>3, <1>4, <1>5, <1>6, <1>7 DEF Step, Look, InitBuild, InitRegs,
       InitFailed, DeinitStart, GyroDeinitRegs, ReadWait, ReadOpen, ReadNothing, ReadWalk, ReadEnd

LEMMA TypeNumber == ASSUME TypeOK, NEW t \in Threads, Step(t) PROVE NumberType'
<1> USE DEF NumberType, TypeOK
<1>1. CASE Look(t)
  BY <1>1 DEF Look
<1>2. CASE DeinitAxes(t)
  BY <1>2 DEF DeinitAxes
<1>3. CASE GyroDeinitRegs(t)
  BY <1>3 DEF GyroDeinitRegs
<1>4. CASE UNCHANGED number
  BY <1>4
<1> QED BY <1>1, <1>2, <1>3, <1>4 DEF Step, InitAxes, InitBuild, InitEnable, InitRegs, InitFailed,
       DeinitStart, DeinitBuffer, MagDeinitBuffer, GyroOff, GyroAxes, GyroOnBuffer, ReadWait,
       ReadOpen, ReadNothing, ReadWalk, ReadEnd, procVars

LEMMA TypeChannels == ASSUME TypeOK, NEW t \in Threads, Step(t) PROVE ChannelType'
<1> USE DEF ChannelType, TypeOK, DeinitEnds
<1>1. CASE InitBuild(t)
  BY <1>1 DEF InitBuild, Unbuilt
<1>2. CASE InitFailed(t)
  BY <1>2, FreedType DEF InitFailed
<1>3. CASE DeinitBuffer(t) \/ MagDeinitBuffer(t)
  <2>1. UNCHANGED channels \/ Freed(on[t])
    BY <1>3 DEF DeinitBuffer, MagDeinitBuffer
  <2> QED BY <2>1, FreedType
<1>4. CASE DeinitAxes(t)
  <2>1. UNCHANGED channels \/ Freed(on[t])
    BY <1>4 DEF DeinitAxes
  <2> QED BY <2>1, FreedType
<1>5. CASE GyroDeinitRegs(t)
  BY <1>5, FreedType DEF GyroDeinitRegs
<1>6. CASE UNCHANGED channels
  BY <1>6
<1> QED BY <1>1, <1>2, <1>3, <1>4, <1>5, <1>6 DEF Step, Look, InitAxes, InitEnable, InitRegs,
       DeinitStart, GyroOff, GyroAxes, GyroOnBuffer, ReadWait, ReadOpen, ReadNothing, ReadWalk,
       ReadEnd, procVars

LEMMA TypePlace == ASSUME TypeOK, NEW t \in Threads, Step(t) PROVE PlaceType'
<1> USE DEF PlaceType, TypeOK, Goto, callVars, Answer, Idle, DeinitEnds, Leave
<1>1. CASE Look(t)
  BY <1>1, Lookups DEF Look, InitPcs, GyroPcs
<1>2. CASE InitAxes(t) \/ InitBuild(t) \/ InitEnable(t)
  BY ZenonT(40), <1>2 DEF InitAxes, InitBuild, InitEnable, InitPcs
<1>3. CASE InitRegs(t)
  BY ZenonT(40), <1>3 DEF InitRegs, InitPcs, DeinitPcs, Sensors
<1>4. CASE InitFailed(t)
  BY <1>4 DEF InitFailed, Sensors
<1>5. CASE DeinitStart(t)
  BY <1>5 DEF DeinitStart, InitPcs, DeinitPcs
<1>6. CASE DeinitBuffer(t) \/ MagDeinitBuffer(t)
  BY ZenonT(40), <1>6 DEF DeinitBuffer, MagDeinitBuffer, DeinitPcs, Sensors
<1>7. CASE DeinitAxes(t) \/ GyroDeinitRegs(t)
  BY <1>7 DEF DeinitAxes, GyroDeinitRegs, DeinitPcs, Sensors
<1>8. CASE GyroOff(t) \/ GyroAxes(t) \/ GyroOnBuffer(t)
  BY ZenonT(40), <1>8 DEF GyroOff, GyroAxes, GyroOnBuffer, GyroPcs, Sensors
<1>9. CASE ReadWait(t) \/ ReadOpen(t) \/ ReadNothing(t) \/ ReadWalk(t)
  BY <1>9 DEF ReadWait, ReadOpen, ReadNothing, ReadWalk, ReadEnd, ReadPcs, Sensors
<1> QED BY <1>1, <1>2, <1>3, <1>4, <1>5, <1>6, <1>7, <1>8, <1>9 DEF Step

LEMMA TypeHistory == ASSUME TypeOK, NEW t \in Threads, Step(t) PROVE HistoryType'
<1> USE FailsCounted DEF HistoryType, TypeOK, Answer, Fine, Fault, histVars, DeinitEnds, Leave
<1>1. CASE Look(t) \/ InitAxes(t) \/ InitBuild(t) \/ InitEnable(t)
  BY <1>1 DEF Look, InitAxes, InitBuild, InitEnable
<1>2. CASE InitRegs(t) \/ InitFailed(t)
  BY ZenonT(40), <1>2 DEF InitRegs, InitFailed
<1>3. CASE DeinitStart(t)
  BY <1>3 DEF DeinitStart
<1> HIDE DEF Answer
<1>4. CASE DeinitBuffer(t) \/ MagDeinitBuffer(t)
  <2>1. orderly' = orderly /\ faults' \in 0..MaxFaults
    BY <1>4 DEF DeinitBuffer, MagDeinitBuffer
  <2>2. CASE Answer(t, "nothing")
    BY <2>1, <2>2, AnswerType
  <2>4. CASE said' = said /\ clean' \in [Threads -> BOOLEAN]
    BY <2>1, <2>4
  <2> QED BY <1>4, <2>2, <2>4 DEF DeinitBuffer, MagDeinitBuffer
<1>5. CASE DeinitAxes(t) \/ GyroDeinitRegs(t)
  <2>1. orderly' = orderly /\ faults' \in 0..MaxFaults
    BY <1>5 DEF DeinitAxes, GyroDeinitRegs
  <2>2. \/ \E word \in {"nothing", "down"} : Answer(t, word)
        \/ UNCHANGED <<said, clean>>
    BY <1>5 DEF DeinitAxes, GyroDeinitRegs
  <2> QED BY <2>1, <2>2, AnswerType
<1>6. CASE GyroOff(t) \/ GyroAxes(t) \/ GyroOnBuffer(t)
  <2>1. orderly' = orderly /\ faults' \in 0..MaxFaults
    BY <1>6 DEF GyroOff, GyroAxes, GyroOnBuffer
  <2>2. Answer(t, said["gyro"]) \/ UNCHANGED <<said, clean>>
    BY <1>6 DEF GyroOff, GyroAxes, GyroOnBuffer
  <2> QED BY <2>1, <2>2, AnswerType DEF Sensors
<1>7. CASE ReadWait(t) \/ ReadOpen(t) \/ ReadNothing(t) \/ ReadWalk(t)
  BY <1>7 DEF ReadWait, ReadOpen, ReadNothing, ReadWalk, ReadEnd
<1> QED BY <1>1, <1>2, <1>3, <1>4, <1>5, <1>6, <1>7 DEF Step

LEMMA TypeOther == ASSUME TypeOK, NEW t \in Threads, Step(t) PROVE OtherType'
<1> USE DEF OtherType, TypeOK, procVars
<1>1. CASE Look(t) \/ InitAxes(t) \/ InitBuild(t) \/ InitEnable(t) \/ InitRegs(t) \/ InitFailed(t)
  BY <1>1 DEF Look, InitAxes, InitBuild, InitEnable, InitRegs, InitFailed
<1>2. CASE \/ DeinitStart(t) \/ DeinitBuffer(t) \/ MagDeinitBuffer(t) \/ DeinitAxes(t)
           \/ GyroDeinitRegs(t)
  BY <1>2 DEF DeinitStart, DeinitBuffer, MagDeinitBuffer, DeinitAxes, GyroDeinitRegs, Sensors
<1>3. CASE GyroOff(t) \/ GyroAxes(t) \/ GyroOnBuffer(t)
  BY <1>3 DEF GyroOff, GyroAxes, GyroOnBuffer
<1>4. CASE ReadWait(t) \/ ReadOpen(t) \/ ReadNothing(t) \/ ReadWalk(t)
  BY <1>4 DEF ReadWait, ReadOpen, ReadNothing, ReadWalk, ReadEnd
<1> QED BY <1>1, <1>2, <1>3, <1>4 DEF Step

(* A read that ends finds its lock at 0. *)
LEMMA TypeLock ==
  ASSUME TypeOK, Locked, NEW t \in Threads, Step(t) PROVE lock' \in [Sensors -> {0, 1}]
<1> USE DEF TypeOK
<1>1. CASE ReadWait(t)
  BY <1>1 DEF ReadWait
<1>2. CASE ReadNothing(t) \/ ReadWalk(t)
  <2>1. lock[on[t]] = 0 /\ lock' = [lock EXCEPT ![on[t]] = lock[on[t]] + 1]
    BY <1>2 DEF ReadNothing, ReadWalk, ReadEnd, Locked, Inside
  <2> QED BY <2>1
<1>3. CASE UNCHANGED lock
  BY <1>3
<1> QED BY <1>1, <1>2, <1>3 DEF Step, Look, InitAxes, InitBuild, InitEnable, InitRegs, InitFailed,
       DeinitStart, DeinitBuffer, MagDeinitBuffer, DeinitAxes, GyroDeinitRegs, GyroOff, GyroAxes,
       GyroOnBuffer, ReadOpen, procVars

LEMMA TypeCall == ASSUME TypeOK, NEW t \in Threads, Call(t) PROVE TypeOK'
<1> PICK s \in Sensors, op \in DOMAIN Entry :
       /\ on' = [on EXCEPT ![t] = s] /\ Goto(t, Entry[op])
       /\ said' = [said EXCEPT ![s] = IF op \in Keeping(s) THEN @ ELSE "nothing"]
  BY DEF Call
<1>1. orderly' \in BOOLEAN /\ UNCHANGED <<kernelVars, procVars, nested, clean, faults>>
  BY DEF Call
<1>2. Entry[op] \in ReadPcs \cup InitPcs \cup DeinitPcs \cup GyroPcs
  BY Entries DEF ReadPcs, InitPcs, DeinitPcs, GyroPcs
<1> QED BY <1>1, <1>2 DEF TypeOK, Goto, kernelVars, procVars

LEMMA TypeRestart == TypeOK /\ Restart => TypeOK'
<1> SUFFICES ASSUME TypeOK, Restart PROVE TypeOK'
  OBVIOUS
<1>1. KernelType' /\ ChannelType' /\ OtherType' /\ lock' \in [Sensors -> {0, 1}]
  BY DEF TypeOK, Restart, kernelVars, KernelType, ChannelType, OtherType
<1>2. NumberType'
  BY DEF Restart, FirstNumber, NumberType
<1>3. PlaceType' /\ HistoryType'
  BY DEF TypeOK, Restart, PlaceType, HistoryType, Sensors
<1> QED BY <1>1, <1>2, <1>3 DEF TypeOK, KernelType, NumberType, ChannelType, PlaceType,
       HistoryType, OtherType

-----------------------------------------------------------------------------
(* The parts that do not depend on the order of the calls.                 *)

LEMMA AlwaysCall ==
  ASSUME TypeOK, Zero, Sites, Locked, NEW t \in Threads, Call(t)
  PROVE  (Zero /\ Sites /\ Locked)'
<1> PICK s \in Sensors, op \in DOMAIN Entry :
       <<s, op>> \in Ops[t] /\ on' = [on EXCEPT ![t] = s] /\ Goto(t, Entry[op])
  BY DEF Call
<1>1. <<s, op>> \in Calls
  BY SensorAssumption
<1>2. op \in {"gyro_disable", "gyro_enable"} => s = "gyro"
  BY <1>1 DEF Calls
<1>3. pc'[t] = Entry[op] /\ on'[t] = s
  BY DEF TypeOK, Goto
<1>4. \A u \in Threads : u # t => pc'[u] = pc[u] /\ on'[u] = on[u]
  BY DEF TypeOK, Goto
<1>5. number' = number /\ lock' = lock
  BY DEF Call, procVars
<1>6. Sites'
  BY <1>2, <1>3, <1>4, Entries DEF Sites, GyroPcs
<1>7. Locked'
  BY <1>3, <1>4, <1>5, Entries DEF Locked, Inside
<1> QED BY <1>5, <1>6, <1>7 DEF Zero

(* Steps that are no reads keep clear of the locks. *)
LEMMA AlwaysInit ==
  ASSUME TypeOK, Zero, Sites, Locked, NEW t \in Threads, Local(t),
         Look(t) \/ InitAxes(t) \/ InitBuild(t) \/ InitEnable(t) \/ InitRegs(t) \/ InitFailed(t)
  PROVE  (Zero /\ Sites /\ Locked)'
<1> USE DEF TypeOK, Goto
<1>1. lock' = lock
  BY DEF Look, InitAxes, InitBuild, InitEnable, InitRegs, InitFailed, procVars
<1>2. Zero'
  <2>1. \/ number' = number
        \/ \E n \in {"own", "wrong"} : number' = [number EXCEPT ![on[t]] = n]
    BY DEF Look, InitAxes, InitBuild, InitEnable, InitRegs, InitFailed, procVars
  <2> QED BY <2>1 DEF Zero
<1>3. \/ pc'[t] \in {"idle", "axes", "build", "enable", "regs", "failed", "dBuffer"}
      \/ on[t] = "gyro" /\ pc'[t] \in {"off", "onAxes"}
  <2>1. CASE Look(t)
    BY <2>1, Lookups DEF Look, Sites, GyroPcs
  <2>2. CASE InitAxes(t) \/ InitBuild(t) \/ InitEnable(t)
    BY <2>2 DEF InitAxes, InitBuild, InitEnable
  <2>3. CASE InitRegs(t) \/ InitFailed(t)
    BY <2>3 DEF InitRegs, InitFailed, Answer, Idle
  <2> QED BY <2>1, <2>2, <2>3
<1>4. Sites'
  BY <1>3 DEF Sites, Local, GyroPcs
<1>5. Locked'
  BY <1>1, <1>3 DEF Locked, Inside, Local
<1> QED BY <1>2, <1>4, <1>5

LEMMA AlwaysDeinit ==
  ASSUME TypeOK, Zero, Sites, Locked, NEW t \in Threads, Local(t),
         \/ DeinitStart(t) \/ DeinitBuffer(t) \/ MagDeinitBuffer(t) \/ DeinitAxes(t)
         \/ GyroDeinitRegs(t)
  PROVE  (Zero /\ Sites /\ Locked)'
<1> USE DEF TypeOK, Goto
<1>1. lock' = lock
  BY DEF DeinitStart, DeinitBuffer, MagDeinitBuffer, DeinitAxes, GyroDeinitRegs, procVars
<1>2. Zero'
  <2>1. number' = number \/ \E r \in Sensors : number' = [number EXCEPT ![r] = "unset"]
    BY DEF DeinitStart, DeinitBuffer, MagDeinitBuffer, DeinitAxes, GyroDeinitRegs, procVars,
       Sensors
  <2> QED BY <2>1 DEF Zero
<1>3. \/ pc'[t] \in {"idle", "look", "dBuffer", "dAxes", "dAxesErr"}
      \/ pc'[t] = "dRegs" /\ on[t] = "gyro"
  <2> USE DEF DeinitEnds, Answer, Idle
  <2>1. CASE DeinitStart(t)
    BY <2>1 DEF DeinitStart
  <2>2. CASE DeinitBuffer(t) \/ MagDeinitBuffer(t)
    BY ZenonT(40), <2>2 DEF DeinitBuffer, MagDeinitBuffer
  <2>3. CASE DeinitAxes(t)
    BY <2>3 DEF DeinitAxes
  <2>4. CASE GyroDeinitRegs(t)
    BY <2>4 DEF GyroDeinitRegs
  <2> QED BY <2>1, <2>2, <2>3, <2>4
<1>4. Sites'
  BY <1>3 DEF Sites, Local, GyroPcs
<1>5. Locked'
  BY <1>1, <1>3 DEF Locked, Inside, Local
<1> QED BY <1>2, <1>4, <1>5

LEMMA AlwaysGyro ==
  ASSUME TypeOK, Zero, Sites, Locked, NEW t \in Threads, Local(t),
         GyroOff(t) \/ GyroAxes(t) \/ GyroOnBuffer(t)
  PROVE  (Zero /\ Sites /\ Locked)'
<1>1. /\ lock' = lock /\ number' = number
      /\ pc[t] \in GyroPcs /\ pc'[t] \in GyroPcs \cup {"idle"}
  BY DEF TypeOK, Goto, procVars, Leave, Answer, Idle, GyroPcs, GyroOff, GyroAxes, GyroOnBuffer
<1>2. Sites'
  BY <1>1 DEF Sites, Local, GyroPcs
<1>3. Locked'
  BY <1>1 DEF Locked, Inside, Local, GyroPcs
<1> QED BY <1>1, <1>2, <1>3 DEF Zero

LEMMA AlwaysRead ==
  ASSUME TypeOK, Zero, Sites, Locked, NEW t \in Threads, Local(t),
         ReadWait(t) \/ ReadOpen(t) \/ ReadNothing(t) \/ ReadWalk(t)
  PROVE  (Zero /\ Sites /\ Locked)'
<1> USE DEF TypeOK, Goto, procVars, callVars
<1>1. number' = number /\ pc'[t] \in {"rOpen", "walk", "idle"}
  BY DEF ReadWait, ReadOpen, ReadNothing, ReadWalk, ReadEnd, Idle
<1>2. Sites'
  BY <1>1 DEF Sites, Local, GyroPcs
<1>3. CASE ReadWait(t)
  <2>1. lock[on[t]] > 0 /\ lock' = [lock EXCEPT ![on[t]] = lock[on[t]] - 1]
    BY <1>3 DEF ReadWait
  <2>4. lock[on[t]] = 1
    BY <2>1
  <2>3. /\ pc'[t] = "rOpen" /\ on'[t] = on[t] /\ lock'[on[t]] = 0
        /\ \A r \in Sensors : r # on[t] => lock'[r] = lock[r]
    BY <1>3, <2>4, <2>1 DEF ReadWait
  <2>2. \A u \in Threads : Inside(u) => on[u] # on[t]
    BY <2>4 DEF Locked
  <2> QED BY <1>1, <1>2, <2>2, <2>3 DEF Locked, Inside, Local, Zero
<1>4. CASE ReadOpen(t)
  BY <1>1, <1>2, <1>4 DEF ReadOpen, Locked, Inside, Local, Zero
<1>5. CASE ReadNothing(t) \/ ReadWalk(t)
  <2>1. /\ Inside(t) /\ pc'[t] = "idle"
        /\ \A r \in Sensors : r # on[t] => lock'[r] = lock[r]
    BY <1>5 DEF ReadNothing, ReadWalk, ReadEnd, Idle, Inside
  <2>2. \A u \in Threads : u # t /\ Inside(u) => on[u] # on[t]
    BY <2>1 DEF Locked
  <2> QED BY <1>1, <1>2, <2>1, <2>2 DEF Locked, Inside, Local, Zero
<1> QED BY <1>3, <1>4, <1>5

-----------------------------------------------------------------------------
(* Each action, for the thread that takes it and the sensor it is on.      *)

(* What t knows when it is alone on s. *)
Mine(t, s) ==
  /\ TypeOK /\ Zero /\ Sites
  /\ t \in Threads /\ s \in Sensors /\ s = on[t]
  /\ At(t) /\ Kept(s)

LEMMA AtLook ==
  ASSUME NEW t, NEW s, Mine(t, s), Look(t) PROVE At(t)' /\ Kept(s)'
<1> USE DEF Mine, TypeOK, Goto, kernelVars, callVars
<1>1. UNCHANGED <<axes, buffer, channels, sized, said, on>>
  BY DEF Look
<1>2. Kept(s)'
  BY <1>1 DEF Kept
<1>3. \/ pc[t] = "look" /\ pc'[t] = "axes"
      \/ pc[t] = "offLook" /\ pc'[t] = "off"
      \/ pc[t] = "onLook" /\ pc'[t] = "onAxes"
  <2>1. pc[t] \in DOMAIN AfterLook /\ pc' = [pc EXCEPT ![t] = AfterLook[pc[t]]]
    BY DEF Look
  <2>2. pc[t] \in {"look", "offLook", "onLook"} /\ pc'[t] = AfterLook[pc[t]]
    BY <2>1, Lookups
  <2> QED BY <2>2, Lookups
<1>4. number'[s] \in {"own", "wrong"}
  BY DEF Look, Zero
<1>5. s = "mag" /\ clean'[t] => number'[s] = "own"
  BY DEF Look, Fault, Fine
<1> QED BY <1>1, <1>2, <1>3, <1>4, <1>5 DEF At, InitPcs, DeinitPcs, GyroPcs

LEMMA AtInitAxes ==
  ASSUME NEW t, NEW s, Mine(t, s), InitAxes(t) PROVE At(t)' /\ Kept(s)'
<1> USE DEF Mine, TypeOK, Goto, procVars, callVars
<1>1. pc[t] = "axes" /\ UNCHANGED <<buffer, number, channels, sized, said, on>>
  BY DEF InitAxes
<1>2. said[s] = "nothing" /\ number[s] \in {"own", "wrong"}
  BY <1>1 DEF At, InitPcs
<1>3. CASE pc'[t] = "build" /\ axes'[s] = "all"
  BY <1>1, <1>2, <1>3 DEF At, Kept, InitPcs, DeinitPcs, GyroPcs
<1>4. CASE pc'[t] = "failed" /\ axes' = axes /\ clean' = clean /\ number[s] = "wrong" /\ (clean[t] => s # "mag")
  BY <1>1, <1>2, <1>4 DEF At, Kept, InitPcs, DeinitPcs, GyroPcs
<1>5. CASE /\ pc'[t] = "failed" /\ ~clean'[t]
           /\ axes'[s] = axes[s] \/ ~buffer[s]
  BY <1>1, <1>2, <1>5 DEF At, Kept, InitPcs, DeinitPcs, GyroPcs
<1>6. CASE Dev(s) = s /\ (axes[s] = "all" \/ AxesWritable(s)) /\ SetAxes(s, "all") /\ Goto(t, "build")
  BY <1>3, <1>6 DEF SetAxes
<1>7. CASE /\ ~(Dev(s) = s /\ (axes[s] = "all" \/ AxesWritable(s)))
           /\ Goto(t, "failed") /\ UNCHANGED axes /\ Fine
  <2>1. number[s] = "wrong"
    BY <1>2, <1>7 DEF Dev, AxesWritable, Kept
  <2>2. clean[t] => s # "mag"
    BY <1>1, <2>1 DEF At
  <2> QED BY <1>4, <1>7, <2>1, <2>2 DEF Fine
<1>8. CASE \E a \in Partly(s) : SetAxes(s, a) /\ Goto(t, "failed") /\ Fault(t)
  BY <1>5, <1>8 DEF SetAxes, Partly, AxesWritable, Fault
<1> QED BY <1>6, <1>7, <1>8 DEF InitAxes

LEMMA AtInitBuild ==
  ASSUME NEW t, NEW s, Mine(t, s), InitBuild(t) PROVE At(t)' /\ Kept(s)'
<1> USE DEF Mine, TypeOK, Goto, kernelVars, callVars
<1>1. /\ pc[t] = "build" /\ UNCHANGED <<axes, buffer, number, said, on>>
      /\ sized => sized'
  BY DEF InitBuild
<1>2. said[s] = "nothing" /\ axes[s] = "all"
  BY <1>1 DEF At, InitPcs
<1>3. \/ pc'[t] = "enable" /\ channels'[s] = "live" /\ sized'
      \/ pc'[t] = "failed" /\ ~clean'[t]
  BY DEF InitBuild, Fault
<1> QED BY <1>1, <1>2, <1>3 DEF At, Kept, InitPcs, DeinitPcs, GyroPcs

LEMMA AtInitEnable ==
  ASSUME NEW t, NEW s, Mine(t, s), InitEnable(t) PROVE At(t)' /\ Kept(s)'
<1> USE DEF Mine, TypeOK, Goto, procVars, callVars
<1>1. pc[t] = "enable" /\ UNCHANGED <<axes, number, channels, sized, said, on>>
  BY DEF InitEnable
<1>2. said[s] = "nothing" /\ axes[s] = "all" /\ channels[s] = "live" /\ sized
  BY <1>1 DEF At, InitPcs
<1>3. \/ pc'[t] = "regs"
      \/ pc'[t] = "failed" /\ ~clean'[t]
  BY DEF InitEnable, Fault
<1> QED BY <1>1, <1>2, <1>3 DEF At, Kept, InitPcs, DeinitPcs, GyroPcs

LEMMA AtInitRegs ==
  ASSUME NEW t, NEW s, Mine(t, s), InitRegs(t) PROVE At(t)' /\ Kept(s)'
<1> USE DEF Mine, TypeOK, Goto, kernelVars, callVars
<1>1. pc[t] = "regs" /\ UNCHANGED <<axes, buffer, number, channels, sized>>
  BY DEF InitRegs
<1>2. said[s] = "nothing" /\ axes[s] = "all" /\ channels[s] = "live" /\ sized
  BY <1>1 DEF At, InitPcs
<1>3. \/ pc'[t] = "dBuffer" /\ on'[t] = s /\ said' = said
      \/ pc'[t] = "failed" /\ ~clean'[t] /\ on'[t] = s /\ said' = said
      \/ pc'[t] = "idle" /\ said'[s] = "up"
  BY DEF InitRegs, Fault, Answer, Idle
<1> QED BY <1>1, <1>2, <1>3 DEF At, Kept, InitPcs, DeinitPcs, GyroPcs

LEMMA AtInitFailed ==
  ASSUME NEW t, NEW s, Mine(t, s), InitFailed(t) PROVE At(t)' /\ Kept(s)'
<1> USE DEF Mine, TypeOK, Goto, kernelVars
<1>1. UNCHANGED <<axes, buffer>>
  BY DEF InitFailed
<1>2. pc'[t] = "idle" /\ said'[s] \in {"nothing", "gaveUp"}
  BY DEF InitFailed, Answer, Idle
<1> QED BY <1>1, <1>2 DEF At, Kept, InitPcs, DeinitPcs, GyroPcs

LEMMA AtDeinitStart ==
  ASSUME NEW t, NEW s, Mine(t, s), DeinitStart(t) PROVE At(t)' /\ Kept(s)'
<1> USE DEF Mine, TypeOK, Goto, kernelVars, procVars, histVars
<1>1. pc[t] = "dStart" /\ UNCHANGED <<axes, buffer, number, channels, sized, said, on>>
  BY DEF DeinitStart
<1>2. said[s] = "nothing" /\ pc'[t] \in {"look", "dBuffer"}
  BY <1>1 DEF At, DeinitPcs, DeinitStart
<1> QED BY <1>1, <1>2 DEF At, Kept, InitPcs, DeinitPcs, GyroPcs

LEMMA AtDeinitBuffer ==
  ASSUME NEW t, NEW s, Mine(t, s), DeinitBuffer(t) \/ MagDeinitBuffer(t)
  PROVE  At(t)' /\ Kept(s)'
<1> USE DEF Mine, TypeOK, Goto
<1>1. pc[t] = "dBuffer" /\ axes' = axes
  BY DEF DeinitBuffer, MagDeinitBuffer
<1>2. said[s] = "nothing"
  BY <1>1 DEF At, DeinitPcs
<1>3. buffer'[s] => buffer[s]
  BY DEF DeinitBuffer, MagDeinitBuffer, SetBuffer
<1>4. \/ pc'[t] \in {"dAxes", "dAxesErr"} /\ on' = on /\ said' = said
      \/ pc'[t] = "idle" /\ said'[s] = "nothing"
  <2>1. CASE DeinitEnds(t, "nothing")
    BY <2>1 DEF DeinitEnds, Answer, Idle
  <2>2. CASE on' = on /\ said' = said
    BY ZenonT(40), <2>2 DEF DeinitBuffer, MagDeinitBuffer, DeinitEnds, Answer, Idle
  <2> QED BY <2>1, <2>2 DEF DeinitBuffer, MagDeinitBuffer
<1> QED BY <1>1, <1>2, <1>3, <1>4 DEF At, Kept, InitPcs, DeinitPcs, GyroPcs

(* What is written to the axes without a failure needs a disabled buffer. *)
LEMMA AtDeinitAxes ==
  ASSUME NEW t, NEW s, Mine(t, s), DeinitAxes(t) PROVE At(t)' /\ Kept(s)'
<1> USE DEF Mine, TypeOK, Goto
<1>1. pc[t] \in {"dAxes", "dAxesErr"} /\ buffer' = buffer
  BY DEF DeinitAxes
<1>2. said[s] = "nothing"
  BY <1>1 DEF At, DeinitPcs
<1>3. CASE AxesCanGo(s) /\ SetAxes(s, "none")
  <2>1. axes'[s] = "none" /\ ~buffer[s]
    BY <1>3 DEF SetAxes, AxesCanGo, AxesWritable, Kept
  <2>2. \/ pc'[t] = "dRegs" /\ on' = on /\ said' = said
        \/ pc'[t] = "idle" /\ said'[s] \in {"down", "nothing"}
    BY DEF DeinitAxes, DeinitEnds, Answer, Idle
  <2> QED BY <1>1, <1>2, <2>1, <2>2 DEF At, Kept, InitPcs, DeinitPcs, GyroPcs
<1>4. CASE DeinitEnds(t, "nothing") /\ (UNCHANGED axes \/ \E a \in Partly(s) : SetAxes(s, a))
  <2>1. axes'[s] = axes[s] \/ ~buffer[s]
    BY <1>4 DEF SetAxes, Partly, AxesWritable
  <2>2. pc'[t] = "idle" /\ said'[s] = "nothing"
    BY <1>4 DEF DeinitEnds, Answer, Idle
  <2> QED BY <1>1, <2>1, <2>2 DEF At, Kept, InitPcs, DeinitPcs, GyroPcs
<1> QED BY <1>3, <1>4 DEF DeinitAxes

LEMMA AtGyroDeinitRegs ==
  ASSUME NEW t, NEW s, Mine(t, s), GyroDeinitRegs(t) PROVE At(t)' /\ Kept(s)'
<1> USE DEF Mine, TypeOK, Goto, kernelVars
<1>1. pc[t] = "dRegs" /\ UNCHANGED <<axes, buffer>>
  BY DEF GyroDeinitRegs
<1>2. axes[s] = "none" /\ ~buffer[s]
  BY <1>1 DEF At
<1>3. pc'[t] = "idle" /\ said'[s] = "down"
  BY DEF GyroDeinitRegs, DeinitEnds, Answer, Idle
<1> QED BY <1>1, <1>2, <1>3 DEF At, Kept, InitPcs, DeinitPcs, GyroPcs

LEMMA AtGyro ==
  ASSUME NEW t, NEW s, Mine(t, s), GyroOff(t) \/ GyroAxes(t) \/ GyroOnBuffer(t)
  PROVE  At(t)' /\ Kept(s)'
<1>1. /\ pc \in [Threads -> {"idle"} \cup ReadPcs \cup InitPcs \cup DeinitPcs \cup GyroPcs]
      /\ on \in [Threads -> Sensors] /\ said \in [Sensors -> {"nothing", "up", "down", "gaveUp"}]
      /\ axes \in [Sensors -> {"none", "some", "all"}] /\ buffer \in [Sensors -> BOOLEAN]
      /\ t \in Threads /\ s \in Sensors /\ s = on[t]
  BY DEF Mine, TypeOK
<1>2. pc[t] \in GyroPcs /\ UNCHANGED <<channels, sized>>
  BY DEF GyroOff, GyroAxes, GyroOnBuffer, GyroPcs, procVars
<1>3. s = "gyro" /\ said[s] \in {"nothing", "up"} /\ (buffer[s] => axes[s] = "all")
      /\ (said[s] = "up" => channels[s] = "live" /\ sized)
  BY <1>1, <1>2 DEF Mine, Sites, At, Kept
<1>4. said'[s] = said[s]
  <2>1. said' = said \/ Leave(t)
    BY DEF GyroOff, GyroAxes, GyroOnBuffer
  <2> QED BY <1>1, <1>3, <2>1 DEF Leave, Answer
<1>5. /\ pc'[t] \in {"idle", "offAxes", "onBuffer"}
      /\ pc'[t] # "idle" => on'[t] = s
  <2>1. \/ on' = on /\ (Goto(t, "offAxes") \/ Goto(t, "onBuffer"))
        \/ Leave(t)
    BY DEF GyroOff, GyroAxes, GyroOnBuffer
  <2> QED BY <1>1, <2>1 DEF Leave, Answer, Idle, Goto
<1>6. /\ buffer'[s] => axes'[s] = "all"
      /\ pc'[t] = "onBuffer" => axes'[s] = "all"
  <2> USE DEF Leave, Answer, Idle, Goto
  <2>1. CASE GyroOff(t)
    BY <1>1, <1>3, <2>1 DEF GyroOff, SetBuffer
  <2>2. CASE GyroAxes(t)
    BY <1>1, <1>3, <2>2 DEF GyroAxes, SetAxes, Partly, AxesWritable
  <2>3. CASE GyroOnBuffer(t)
    <3>1. pc[t] = "onBuffer" /\ axes' = axes
      BY <2>3 DEF GyroOnBuffer
    <3> QED BY <1>1, <3>1 DEF Mine, At
  <2> QED BY <2>1, <2>2, <2>3
<1>7. At(t)'
  BY <1>3, <1>4, <1>5, <1>6 DEF At, InitPcs, DeinitPcs, GyroPcs
<1>8. Kept(s)'
  BY <1>2, <1>3, <1>4, <1>6 DEF Kept
<1> QED BY <1>7, <1>8

LEMMA AtRead ==
  ASSUME NEW t, NEW s, Mine(t, s),
         ReadWait(t) \/ ReadOpen(t) \/ ReadNothing(t) \/ ReadWalk(t)
  PROVE  At(t)' /\ Kept(s)'
<1> USE DEF Mine, TypeOK, Goto, Idle, ReadWait, ReadOpen, ReadNothing, ReadWalk, ReadEnd
<1>1. UNCHANGED <<axes, buffer, channels, sized, said>>
  BY DEF kernelVars, procVars, histVars
<1>2. pc'[t] \in {"idle", "rOpen", "walk"}
  OBVIOUS
<1> QED BY <1>1, <1>2 DEF At, Kept, InitPcs, DeinitPcs, GyroPcs

-----------------------------------------------------------------------------
(* The invariant.                                                          *)

LEMMA InvStep == ASSUME IInv, NEW t \in Threads, Step(t) PROVE IInv'
<1> USE DEF IInv
<1>1. TypeOK'
  BY TypeParts, TypeKernel, TypeNumber, TypeChannels, TypePlace, TypeHistory, TypeOther, TypeLock
     DEF TypeOK, KernelType, NumberType, ChannelType, PlaceType, HistoryType, OtherType
<1>2. CASE \/ Look(t) \/ InitAxes(t) \/ InitBuild(t) \/ InitEnable(t) \/ InitRegs(t)
           \/ InitFailed(t)
  <2>1. Local(t) /\ (Zero /\ Sites /\ Locked)'
    BY <1>2, LocalInit, AlwaysInit
  <2>2. ASSUME orderly PROVE Ordered'
    <3>1. Mine(t, on[t])
      BY <2>2 DEF Mine, Ordered, TypeOK
    <3>2. At(t)' /\ \A s \in Sensors : s = on[t] => Kept(s)'
      BY <1>2, <3>1, AtLook, AtInitAxes, AtInitBuild, AtInitEnable, AtInitRegs, AtInitFailed
    <3> QED BY <2>1, <2>2, <3>1, <3>2, Others DEF Mine
  <2> QED BY <1>1, <2>1, <2>2 DEF Local
<1>3. CASE \/ DeinitStart(t) \/ DeinitBuffer(t) \/ MagDeinitBuffer(t) \/ DeinitAxes(t)
           \/ GyroDeinitRegs(t)
  <2>1. GyroDeinitRegs(t) => on[t] = "gyro"
    BY DEF GyroDeinitRegs, Sites
  <2>2. Local(t) /\ (Zero /\ Sites /\ Locked)'
    BY <1>3, <2>1, LocalDeinit, AlwaysDeinit
  <2>3. ASSUME orderly PROVE Ordered'
    <3>1. Mine(t, on[t])
      BY <2>3 DEF Mine, Ordered, TypeOK
    <3>2. At(t)' /\ \A s \in Sensors : s = on[t] => Kept(s)'
      BY <1>3, <3>1, AtDeinitStart, AtDeinitBuffer, AtDeinitAxes, AtGyroDeinitRegs
    <3> QED BY <2>2, <2>3, <3>1, <3>2, Others DEF Mine
  <2> QED BY <1>1, <2>2, <2>3 DEF Local
<1>4. CASE GyroOff(t) \/ GyroAxes(t) \/ GyroOnBuffer(t)
  <2>1. on[t] = "gyro"
    BY <1>4 DEF GyroOff, GyroAxes, GyroOnBuffer, Sites, GyroPcs
  <2>2. Local(t) /\ (Zero /\ Sites /\ Locked)'
    BY <1>4, <2>1, LocalGyro, AlwaysGyro
  <2>3. ASSUME orderly PROVE Ordered'
    <3>1. Mine(t, on[t])
      BY <2>3 DEF Mine, Ordered, TypeOK
    <3>2. At(t)' /\ \A s \in Sensors : s = on[t] => Kept(s)'
      BY <1>4, <3>1, AtGyro
    <3> QED BY <2>2, <2>3, <3>1, <3>2, Others DEF Mine
  <2> QED BY <1>1, <2>2, <2>3 DEF Local
<1>5. CASE ReadWait(t) \/ ReadOpen(t) \/ ReadNothing(t) \/ ReadWalk(t)
  <2>1. Local(t) /\ (Zero /\ Sites /\ Locked)'
    BY <1>5, LocalRead, AlwaysRead
  <2>2. ASSUME orderly PROVE Ordered'
    <3>1. Mine(t, on[t])
      BY <2>2 DEF Mine, Ordered, TypeOK
    <3>2. At(t)' /\ \A s \in Sensors : s = on[t] => Kept(s)'
      BY <1>5, <3>1, AtRead
    <3> QED BY <2>1, <2>2, <3>1, <3>2, Others DEF Mine
  <2> QED BY <1>1, <2>1, <2>2 DEF Local
<1> QED BY <1>2, <1>3, <1>4, <1>5 DEF Step

(* A call finds the sensor free, but for reads, and takes back what was answered. *)
LEMMA InvCall == ASSUME IInv, NEW t \in Threads, Call(t) PROVE IInv'
<1>1. TypeOK' /\ (Zero /\ Sites /\ Locked)'
  BY TypeCall, AlwaysCall DEF IInv
<1>2. ASSUME orderly' PROVE Ordered'
  <2>1. orderly /\ Ordered /\ TypeOK
    BY DEF Call, IInv
  <2> PICK s \in Sensors, op \in DOMAIN Entry :
         /\ on' = [on EXCEPT ![t] = s] /\ Goto(t, Entry[op])
         /\ said' = [said EXCEPT ![s] = IF op \in Keeping(s) THEN @ ELSE "nothing"]
         /\ orderly' = \A u \in Threads : on[u] = s /\ pc[u] # "idle" =>
                                            op = "read" /\ pc[u] \in ReadPcs
    BY DEF Call
  <2>2. \A u \in Threads : on[u] = s /\ pc[u] # "idle" => op = "read" /\ pc[u] \in ReadPcs
    BY <1>2
  <2>3. pc[t] = "idle" /\ UNCHANGED <<axes, buffer, channels, sized, number, clean>>
    BY DEF Call, kernelVars, procVars
  <2>4. /\ on'[t] = s /\ pc'[t] = Entry[op]
        /\ \A u \in Threads : u # t => pc'[u] = pc[u] /\ on'[u] = on[u]
    BY <2>1 DEF TypeOK, Goto
  <2>5. /\ said'[s] = (IF op \in Keeping(s) THEN said[s] ELSE "nothing")
        /\ \A r \in Sensors : r # s => said'[r] = said[r]
    BY <2>1 DEF TypeOK
  <2>6. Alone'
    BY <2>1, <2>2, <2>4, Entries DEF Ordered, Alone, ReadPcs
  <2>7. At(t)'
    BY <2>4, <2>5, Entries DEF At, Keeping, InitPcs, DeinitPcs, GyroPcs
  <2>8. ASSUME NEW u \in Threads, u # t PROVE At(u)'
    <3>1. CASE pc[u] \in {"idle"} \cup ReadPcs
      BY <2>4, <2>8, <3>1 DEF At, InitPcs, DeinitPcs, GyroPcs, ReadPcs
    <3>2. CASE pc[u] \notin {"idle"} \cup ReadPcs
      <4>1. on[u] # s /\ on[u] \in Sensors
        BY <2>1, <2>2, <3>2 DEF TypeOK
      <4>2. said'[on[u]] = said[on[u]] /\ At(u)
        BY <2>1, <2>5, <4>1 DEF Ordered
      <4> QED BY <2>3, <2>4, <2>8, <4>2 DEF At
    <3> QED BY <3>1, <3>2
  <2>9. ASSUME NEW r \in Sensors PROVE Kept(r)'
    <3>1. said'[r] \in {said[r], "nothing"} /\ Kept(r)
      BY <2>1, <2>5 DEF Ordered
    <3> QED BY <2>3, <3>1 DEF Kept
  <2> QED BY <2>6, <2>7, <2>8, <2>9 DEF Ordered
<1> QED BY <1>1, <1>2 DEF IInv

(* A restart forgets the answers and keeps the kernel's side. *)
LEMMA InvRestart == IInv /\ Restart => IInv'
<1> SUFFICES ASSUME IInv, Restart PROVE IInv'
  OBVIOUS
<1>1. TypeOK'
  BY TypeRestart DEF IInv
<1>2. \A t \in Threads : pc'[t] = "idle"
  BY DEF Restart
<1>3. (Zero /\ Sites /\ Locked)'
  BY <1>2 DEF Restart, FirstNumber, Zero, Sites, Locked, Inside, GyroPcs
<1>4. orderly' => Ordered'
  BY <1>2 DEF IInv, Ordered, Alone, At, Kept, Restart, kernelVars, InitPcs, DeinitPcs, GyroPcs
<1> QED BY <1>1, <1>3, <1>4 DEF IInv

LEMMA InvInit == Init => IInv
<1> SUFFICES ASSUME Init PROVE IInv
  OBVIOUS
<1>1. TypeOK
  <2>1. KernelType /\ ChannelType /\ OtherType /\ lock \in [Sensors -> {0, 1}]
    BY DEF Init, KernelType, ChannelType, OtherType
  <2>2. NumberType
    BY DEF Init, FirstNumber, NumberType
  <2>3. PlaceType /\ HistoryType
    BY SensorAssumption DEF Init, PlaceType, HistoryType, Sensors
  <2> QED BY <2>1, <2>2, <2>3, TypeParts
<1>2. Zero /\ Sites /\ Locked
  BY DEF Init, FirstNumber, Zero, Sites, Locked, Inside, GyroPcs
<1>3. Ordered
  BY DEF Init, Ordered, Alone, At, Kept, InitPcs, DeinitPcs, GyroPcs
<1> QED BY <1>1, <1>2, <1>3 DEF IInv

LEMMA InvStutter == IInv /\ UNCHANGED vars => IInv'
<1> SUFFICES ASSUME IInv, UNCHANGED vars PROVE IInv'
  OBVIOUS
<1> USE DEF vars, kernelVars, procVars, callVars, histVars
<1>1. TypeOK'
  BY DEF IInv, TypeOK
<1>2. (Zero /\ Sites /\ Locked)'
  BY DEF IInv, Zero, Sites, Locked, Inside
<1>3. orderly' => Ordered'
  BY DEF IInv, Ordered, Alone, At, Kept
<1> QED BY <1>1, <1>2, <1>3 DEF IInv

LEMMA Invariant == Spec => []IInv
<1>1. IInv /\ [Next]_vars => IInv'
  BY InvStep, InvCall, InvRestart, InvStutter DEF Next
<1> QED BY <1>1, InvInit, PTL DEF Spec

(* The buffer of another sensor's device is written through a number of 0 only. *)
LEMMA BufferOfOwn ==
  ASSUME IInv, NEW t \in Threads, Step(t), NEW s \in Sensors, s # on[t],
         ~(on[t] = "mag" /\ number["mag"] = "zero")
  PROVE  buffer'[s] = buffer[s]
<1> USE DEF IInv, TypeOK, SetBuffer
<1>1. number[on[t]] # "zero"
  BY DEF Zero
<1>2. Dev(on[t]) \in {on[t], "nowhere"}
  BY <1>1 DEF Dev
<1>3. CASE InitEnable(t)
  BY <1>3 DEF InitEnable
<1>4. CASE DeinitBuffer(t)
  BY <1>2, <1>4 DEF DeinitBuffer
<1>5. CASE MagDeinitBuffer(t)
  BY <1>2, <1>5 DEF MagDeinitBuffer, Sensors
<1>6. CASE GyroOff(t) \/ GyroOnBuffer(t)
  <2>1. on[t] = "gyro"
    BY <1>6 DEF GyroOff, GyroOnBuffer, Sites, GyroPcs
  <2> QED BY <1>2, <1>6, <2>1 DEF GyroOff, GyroOnBuffer
<1>7. CASE buffer' = buffer
  BY <1>7
<1> QED BY <1>3, <1>4, <1>5, <1>6, <1>7 DEF Step, Look, InitAxes, InitBuild, InitRegs, InitFailed,
       DeinitStart, DeinitAxes, GyroDeinitRegs, GyroAxes, ReadWait, ReadOpen, ReadNothing,
       ReadWalk, ReadEnd, kernelVars

(* Every step of a thread is local. *)
LEMMA StepLocal == ASSUME IInv, NEW t \in Threads, Step(t) PROVE Local(t)
<1>1. GyroDeinitRegs(t) => on[t] = "gyro"
  BY DEF IInv, GyroDeinitRegs, Sites
<1>2. GyroOff(t) \/ GyroAxes(t) \/ GyroOnBuffer(t) => on[t] = "gyro"
  BY DEF IInv, GyroOff, GyroAxes, GyroOnBuffer, Sites, GyroPcs
<1> QED BY <1>1, <1>2, LocalInit, LocalDeinit, LocalGyro, LocalRead DEF IInv, Step

-----------------------------------------------------------------------------
(* The theorems.                                                           *)

(* In particular the lock of each reader is 0 or 1 whatever fails. *)
THEOREM TypeCorrect == Spec => []TypeOK
<1>1. IInv => TypeOK
  BY DEF IInv
<1> QED BY <1>1, Invariant, PTL

(* For any threads, calls and failures, a read after a good init walks live channels *)
(* with a scan size, and alone (acc_ism330dlc.c 388-490 and its two siblings).       *)
THEOREM ReadsAreSafe == Spec => []ReadSafe
<1>1. IInv => ReadSafe
  BY DEF IInv, Ordered, Kept, Locked, Inside, TypeOK, ReadSafe
<1> QED BY <1>1, Invariant, PTL

(* For any threads, calls and failures, a deinit that returned 0 has switched the   *)
(* kernel's side off.                                                                *)
THEOREM DeinitIsHonest == Spec => []DeinitHonest
<1>1. IInv => DeinitHonest
  BY DEF IInv, Ordered, Kept, DeinitHonest
<1> QED BY <1>1, Invariant, PTL

(* For any history, an init fails only through a failure of its own or a wrong       *)
(* number kept from an earlier lookup.                                               *)
THEOREM InitsRecover == Spec => []InitRecovers
<1>1. IInv => InitRecovers
  BY DEF IInv, Ordered, At, InitRecovers
<1> QED BY <1>1, Invariant, PTL

(* For any threads and calls, a call changes no other sensor's device, except for    *)
(* the magnetometer's with its first number.                                         *)
THEOREM DevicesAreOwn == Spec => OwnDevice
<1> DEFINE Own == \A t \in Threads, s \in Sensors :
       pc'[t] # pc[t] /\ s # on[t] /\ ~(on[t] = "mag" /\ number["mag"] = "zero") =>
         axes'[s] = axes[s] /\ buffer'[s] = buffer[s]
<1>1. IInv /\ [Next]_vars => [Own]_vars
  <2> SUFFICES ASSUME IInv, Next PROVE Own
    OBVIOUS
  <2>1. ASSUME NEW u \in Threads, Step(u) PROVE Own
    <3>1. Local(u)
      BY <2>1, StepLocal
    <3>2. \A t \in Threads : pc'[t] # pc[t] => t = u
      BY <3>1 DEF Local
    <3>3. \A s \in Sensors : s # on[u] => axes'[s] = axes[s]
      BY <3>1 DEF Local
    <3> QED BY <2>1, <3>2, <3>3, BufferOfOwn
  <2>2. ASSUME NEW u \in Threads, Call(u) PROVE Own
    BY <2>2 DEF Call, kernelVars
  <2>3. CASE Restart
    BY <2>3 DEF Restart, kernelVars
  <2> QED BY <2>1, <2>2, <2>3 DEF Next
<1> QED BY <1>1, Invariant, PTL DEF Spec, OwnDevice
=============================================================================
