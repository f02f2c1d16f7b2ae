-------------------------- MODULE BootSlots_proofs --------------------------
(***************************************************************************)
(* Proofs that the boot order keeps naming each slot once and that the     *)
(* attempts of a slot are counted across power cuts, for any slots, any    *)
(* number of attempts and any number of faults.                            *)
(***************************************************************************)
EXTENDS BootSlots, WellFoundedInduction, TLAPS

\* The part of the type invariant that the count needs.
Counters ==
  /\ savedLeft \in [Slots -> 0..Attempts] /\ left \in [Slots -> 0..Attempts]
  /\ starts \in [Slots -> Nat] /\ failed \in Nat /\ cur \in Slots

\* What the script's copy is while it runs: the saved one, that less the attempt
\* being made, or full.
Copied ==
  /\ pc = "script" => left = savedLeft
  /\ pc = "save" => savedLeft[cur] > 0 /\ left = [savedLeft EXCEPT ![cur] = @ - 1]
  /\ pc = "refill" => left = Full

\* About to start a kernel: the attempt has been taken off, or a save has failed.
Reserved == pc = "load" => starts[cur] + savedLeft[cur] + 1 <= Attempts + failed

CountInv == Counters /\ Copied /\ Reserved /\ AttemptsBounded

LEMMA AttemptsType == Attempts \in Nat
  BY BootAssumption DEF BootAssumption

LEMMA CountInit == ASSUME Init PROVE CountInv
<1>1. Counters BY AttemptsType DEF Init, Counters, Full, None
<1>2. AttemptsBounded
  <2>1. SUFFICES ASSUME NEW s \in Slots PROVE starts[s] + savedLeft[s] <= Attempts + failed
    BY DEF AttemptsBounded
  <2>2. starts[s] = 0 /\ savedLeft[s] = Attempts /\ failed = 0 BY DEF Init, Full, None
  <2> QED BY <2>2, AttemptsType
<1> QED BY <1>1, <1>2 DEF Init, CountInv, Copied, Reserved

LEMMA CountNext == ASSUME CountInv, [Next]_vars PROVE CountInv'
<1> USE AttemptsType DEF CountInv
<1>1. CASE PowerOn
  BY <1>1 DEF PowerOn, saved, Counters, Copied, Reserved, AttemptsBounded
<1>2. ASSUME NEW s \in Slots, Pick(s) PROVE CountInv'
  <2>1. left[s] > 0 /\ left = savedLeft
    BY <1>2 DEF Pick, FirstWithAttempts, Copied
  <2>2. Counters' BY <1>2, <2>1 DEF Pick, saved, Counters
  <2>3. (Copied /\ Reserved)'
    BY <1>2, <2>1 DEF Pick, saved, Counters, Copied, Reserved
  <2>4. AttemptsBounded' BY <1>2 DEF Pick, saved, AttemptsBounded
  <2> QED BY <2>2, <2>3, <2>4
<1>3. CASE Refill
  <2>1. Counters' BY <1>3 DEF Refill, saved, Full, Counters
  <2> QED BY <1>3, <2>1 DEF Refill, saved, Full, Copied, Reserved, AttemptsBounded
<1>4. ASSUME pc = "save", savedLeft' = left, UNCHANGED <<left, cur, starts, failed>>,
             pc' \in {"load", "off"}
      PROVE CountInv'
  <2>1. Counters' BY <1>4 DEF Counters
  <2>2. \A s \in Slots : left[s] <= savedLeft[s] BY <1>4 DEF Counters, Copied
  <2>3. AttemptsBounded' BY <1>4, <2>2 DEF Counters, AttemptsBounded
  <2>4. Reserved' BY <1>4 DEF Counters, Copied, Reserved, AttemptsBounded
  <2> QED BY <1>4, <2>1, <2>3, <2>4 DEF Copied
<1>5. ASSUME pc = "refill", savedLeft' = left, starts' = None, UNCHANGED <<left, cur, failed>>,
             pc' = "off"
      PROVE CountInv'
  <2>1. Counters' BY <1>5 DEF Counters, None
  <2>2. AttemptsBounded' BY <1>5 DEF Counters, Copied, AttemptsBounded, None, Full
  <2> QED BY <1>5, <2>1, <2>2 DEF Copied, Reserved
<1>6. CASE SaveEnv
  BY <1>4, <1>5, <1>6 DEF SaveEnv, SavesRam, AfterSave, ram
<1>7. CASE SaveFails
  <2>1. Counters' BY <1>7 DEF SaveFails, saved, ram, Counters
  <2>2. AttemptsBounded' BY <1>7 DEF SaveFails, saved, Counters, AttemptsBounded
  <2>3. Reserved'
    BY <1>7 DEF SaveFails, AfterSave, saved, Counters, AttemptsBounded, Reserved
  <2> QED BY <1>7, <2>1, <2>2, <2>3 DEF SaveFails, AfterSave, Copied
<1>8. ASSUME NEW s \in Slots, StartKernel(s) PROVE CountInv'
  <2>1. Counters' BY <1>8 DEF StartKernel, saved, ram, Counters
  <2>2. AttemptsBounded'
    BY <1>8 DEF StartKernel, saved, Counters, Reserved, AttemptsBounded
  <2> QED BY <1>8, <2>1, <2>2 DEF StartKernel, Copied, Reserved
<1>9. CASE PowerOff
  <2>1. CASE UNCHANGED <<saved, starts>>
    BY <1>9, <2>1 DEF PowerOff, saved, ram, Counters, Copied, Reserved, AttemptsBounded
  <2>2. CASE pc \in {"save", "refill"} /\ SavesRam
             /\ starts' = IF pc = "refill" THEN None ELSE starts
    BY <1>4, <1>5, <1>9, <2>2 DEF PowerOff, SavesRam, ram
  <2> QED BY <1>9, <2>1, <2>2 DEF PowerOff
<1>10. CASE TornSave
  <2>1. Counters' BY <1>10 DEF TornSave, ram, Counters, Full, None
  <2>2. AttemptsBounded' BY <1>10 DEF TornSave, Counters, AttemptsBounded, Full, None
  <2> QED BY <1>10, <2>1, <2>2 DEF TornSave, Copied, Reserved
<1>11. ASSUME NEW s \in Slots, InstallBegins(s) PROVE CountInv'
  <2>1. Counters' BY <1>11 DEF InstallBegins, ram, Counters
  <2>2. AttemptsBounded' BY <1>11 DEF InstallBegins, Counters, AttemptsBounded
  <2> QED BY <1>11, <2>1, <2>2 DEF InstallBegins, Copied, Reserved
<1>12. ASSUME NEW s \in Slots, InstallEnds(s) PROVE CountInv'
  <2>1. Counters' BY <1>12 DEF InstallEnds, ram, Counters
  <2>2. AttemptsBounded' BY SMTT(30), <1>12 DEF InstallEnds, Counters, AttemptsBounded
  <2> QED BY <1>12, <2>1, <2>2 DEF InstallEnds, Copied, Reserved
<1>13. CASE UNCHANGED vars
  BY <1>13 DEF vars, Counters, Copied, Reserved, AttemptsBounded
<1> QED
  BY <1>1, <1>2, <1>3, <1>6, <1>7, <1>8, <1>9, <1>10, <1>11, <1>12, <1>13
  DEF Next, Script

-----------------------------------------------------------------------------
\* The type invariant.

\* Moving a slot to the front of an order leaves an order.
LEMMA MovedToFront ==
  ASSUME NEW o, IsOrder(o), NEW s \in Slots, NEW k \in 1..Len(o), o[k] = s
  PROVE  IsOrder([i \in 1..Len(o) |-> IF i = 1 THEN s ELSE o[IF i <= k THEN i - 1 ELSE i]])
<1> DEFINE n == Len(o)
           from(i) == IF i = 1 THEN k ELSE IF i <= k THEN i - 1 ELSE i
           m == [i \in 1..n |-> o[from(i)]]
<1>0. o \in Seq(Slots)
  BY DEF IsOrder
<1>1. n \in Nat /\ (\A i \in 1..n : o[i] \in Slots) /\ k \in 1..n
  BY <1>0
<1>2. \A i \in 1..n : from(i) \in 1..n
  BY <1>1
<1>3. \A i, j \in 1..n : from(i) = from(j) => i = j
  BY <1>1
<1>4. \A j \in 1..n : \E i \in 1..n : from(i) = j
  <2> TAKE j \in 1..n
  <2>1. CASE j = k BY <1>1, <2>1
  <2>2. CASE j < k
    <3>1. j + 1 \in 1..n /\ from(j + 1) = j BY <1>1, <2>2
    <3> QED BY <3>1
  <2>3. CASE j > k
    <3>1. from(j) = j BY <1>1, <2>3
    <3> QED BY <3>1
  <2> QED BY <1>1, <2>1, <2>2, <2>3
<1>5. m = [i \in 1..n |-> IF i = 1 THEN s ELSE o[IF i <= k THEN i - 1 ELSE i]]
  OBVIOUS
<1> HIDE DEF from
<1>6. m \in Seq(Slots) /\ Len(m) = n /\ \A i \in 1..n : m[i] = o[from(i)]
  <2> DEFINE len == n
  <2>1. \A i \in 1..len : o[from(i)] \in Slots
    BY <1>1, <1>2
  <2>2. len \in Nat
    BY <1>1
  <2> HIDE DEF len
  <2>3. [i \in 1..len |-> o[from(i)]] \in Seq(Slots)
    BY <2>1, <2>2
  <2>4. Len([i \in 1..len |-> o[from(i)]]) = len
    BY <2>2
  <2> QED BY <2>3, <2>4 DEF len
<1> HIDE DEF m, n
<1>7. IsOrder(m)
  <2>0. \A i, j \in 1..n : o[i] = o[j] => i = j
    BY DEF IsOrder, n
  <2>1. ASSUME NEW i \in 1..n, NEW j \in 1..n, m[i] = m[j] PROVE i = j
    <3>1. o[from(i)] = o[from(j)] /\ from(i) \in 1..n /\ from(j) \in 1..n
      BY <1>2, <1>6, <2>1
    <3>2. from(i) = from(j)
      BY <2>0, <3>1
    <3> QED BY <1>3, <3>2
  <2>2. ASSUME NEW t \in Slots PROVE \E i \in 1..n : m[i] = t
    <3>1. PICK j \in 1..n : o[j] = t
      BY DEF IsOrder, n
    <3> QED BY <1>4, <1>6, <3>1
  <2> QED BY <1>6, <2>1, <2>2 DEF IsOrder
<1> QED BY <1>5, <1>7 DEF n

\* What the count does not need.
Rest ==
  /\ IsOrder(savedOrder) /\ IsOrder(order)
  /\ pc \in Pcs /\ target \subseteq Slots
  /\ torn \in 0..MaxFaults /\ failed \in 0..MaxFaults

LEMMA RestNext == ASSUME CountInv, Rest, [Next]_vars PROVE Rest'
<1> USE BootAssumption DEF BootAssumption
<1>1. CASE PowerOn \/ Refill \/ (\E s \in Slots : Pick(s))
  BY <1>1 DEF PowerOn, Refill, Pick, saved, Rest, Pcs
<1>2. CASE SaveEnv \/ SaveFails
  BY <1>2 DEF SaveEnv, SaveFails, SavesRam, AfterSave, saved, ram, Rest, Pcs
<1>3. CASE PowerOff \/ TornSave
  BY <1>3 DEF PowerOff, TornSave, SavesRam, saved, ram, Rest, Pcs
<1>4. ASSUME NEW s \in Slots, StartKernel(s) \/ InstallBegins(s) PROVE Rest'
  BY <1>4 DEF StartKernel, InstallBegins, saved, ram, Rest, Pcs
<1>5. ASSUME NEW s \in Slots, InstallEnds(s) PROVE Rest'
  <2>1. IsOrder(savedOrder')
    BY <1>5, MovedToFront DEF InstallEnds, Rest
  <2> QED BY <1>5, <2>1 DEF InstallEnds, ram, Rest
<1>6. CASE UNCHANGED vars
  BY <1>6 DEF vars, Rest
<1> QED BY <1>1, <1>2, <1>3, <1>4, <1>5, <1>6 DEF Next, Script

LEMMA Invariant == Spec => [](CountInv /\ Rest)
<1>1. Init => CountInv /\ Rest
  BY CountInit, BootAssumption DEF BootAssumption, Init, Rest, Pcs
<1>2. CountInv /\ Rest /\ [Next]_vars => (CountInv /\ Rest)'
  BY CountNext, RestNext
<1> QED BY <1>1, <1>2, PTL DEF Spec

-----------------------------------------------------------------------------
\* What the script picks.

\* A nonempty set of numbers has a least one.
LEMMA Least == ASSUME NEW T, T \subseteq Nat, T # {}
               PROVE  \E m \in T : \A k \in T : m <= k
<1>1. PICK m \in T : \A k \in T : <<k, m>> \notin OpToRel(<, Nat)
  BY WFMin, NatLessThanWellFounded, Zenon
<1>2. \A k \in Nat : k \in T => ~(k < m)
  BY <1>1, Zenon DEF OpToRel
<1>3. ASSUME NEW k \in T PROVE m <= k
  <2>1. k \in Nat /\ m \in Nat
    OBVIOUS
  <2> QED BY <1>2, <2>1
<1> QED BY <1>3

\* The first place of the order whose slot has attempts left is a choice.
LEMMA SomeFirst ==
  ASSUME Counters, IsOrder(order), NEW s \in Slots, left[s] > 0
  PROVE  \E u \in Slots : FirstWithAttempts(u)
<1> DEFINE T == {i \in 1..Len(order) : left[order[i]] > 0}
<1>1. order \in Seq(Slots) /\ \E i \in 1..Len(order) : order[i] = s
  BY DEF IsOrder
<1>2. T # {} /\ T \subseteq Nat
  BY <1>1
<1>3. PICK m \in T : \A k \in T : m <= k
  BY <1>2, Least
<1>4. m \in 1..Len(order) /\ left[order[m]] > 0 /\ order[m] \in Slots
  BY <1>1, <1>3
<1>5. ASSUME NEW j \in 1..(m - 1) PROVE left[order[j]] = 0
  <2>1. j \in 1..Len(order) /\ j < m
    BY <1>1, <1>4
  <2>2. j \notin T
    BY <1>3, <1>4, <2>1
  <2>3. ~(left[order[j]] > 0)
    BY <2>1, <2>2
  <2>4. order[j] \in Slots
    BY <1>1, <2>1
  <2>5. left[order[j]] \in 0..Attempts
    BY <2>4 DEF Counters
  <2> QED BY <2>3, <2>5, AttemptsType
<1> QED BY <1>4, <1>5 DEF FirstWithAttempts

\* And the only one.
LEMMA OneFirst ==
  ASSUME IsOrder(order), NEW s \in Slots, NEW u \in Slots,
         FirstWithAttempts(s), FirstWithAttempts(u)
  PROVE  s = u
<1>1. PICK i \in 1..Len(order) : /\ order[i] = s /\ left[s] > 0
                                 /\ \A j \in 1..(i - 1) : left[order[j]] = 0
  BY DEF FirstWithAttempts
<1>2. PICK k \in 1..Len(order) : /\ order[k] = u /\ left[u] > 0
                                 /\ \A j \in 1..(k - 1) : left[order[j]] = 0
  BY DEF FirstWithAttempts
<1>3. i \in Nat /\ k \in Nat /\ 1 <= i /\ 1 <= k
  <2>1. order \in Seq(Slots)
    BY DEF IsOrder
  <2> QED BY <2>1
<1>4. ~(i < k)
  <2>1. i < k => i \in 1..(k - 1)
    BY <1>3
  <2> QED BY <1>1, <1>2, <2>1
<1>5. ~(k < i)
  <2>1. k < i => k \in 1..(i - 1)
    BY <1>3
  <2> QED BY <1>1, <1>2, <2>1
<1>6. i = k
  BY <1>3, <1>4, <1>5
<1> QED BY <1>1, <1>2, <1>6

-----------------------------------------------------------------------------
\* The theorems.

\* BOOT_ORDER names each slot exactly once, on the eMMC and in the script, through
\* every update and torn save, and no slot ever has more attempts than it is given
\* (boot.sh 4-53): no update drops a slot from the order.
THEOREM TypeCorrect == Spec => []TypeOK
<1>1. CountInv /\ Rest => TypeOK
  BY DEF CountInv, Counters, Rest, TypeOK
<1> QED BY <1>1, Invariant, PTL

\* Between two refills a slot is started at most Attempts times, power cuts or not,
\* plus once per save whose error was not looked at (boot.sh 38-45).
THEOREM AttemptsAreCounted == Spec => []AttemptsBounded
<1>1. CountInv => AttemptsBounded
  BY DEF CountInv
<1> QED BY <1>1, Invariant, PTL

\* The loop over BOOT_ORDER (boot.sh 7-33) overlooks nobody: as long as any slot has
\* an attempt left, exactly one is picked, and the attempts are given back only once
\* those of every slot are spent, whatever order the updates have left.  It is the
\* part of EverySlotTried that needs no fairness.
NobodyOverlooked ==
  pc = "script" =>
    /\ (\E s \in Slots : left[s] > 0) <=> \E u \in Slots : FirstWithAttempts(u)
    /\ \A s, u \in Slots : FirstWithAttempts(s) /\ FirstWithAttempts(u) => s = u

\* No slot with attempts is passed over, and two are never picked, for any slots.
THEOREM PicksOne == Spec => []NobodyOverlooked
<1>1. CountInv /\ Rest => NobodyOverlooked
  BY SomeFirst, OneFirst DEF CountInv, Rest, NobodyOverlooked, FirstWithAttempts
<1> QED BY <1>1, Invariant, PTL
=============================================================================
