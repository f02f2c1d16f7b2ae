--------------------------- MODULE GpsPort_proofs ---------------------------
(***************************************************************************)
(* TypeOK, AtPortOwned, GpsLockKept and PortStable hold for any number of  *)
(* threads, both semaphores implement CountedLock, and no threads wait for *)
(* them in a circle.  The two locks are counted: a step moves one thread,  *)
(* so the set of a lock's holders gains or loses at most that thread       *)
(* (HoldersMove, AtHoldersMove).  Control relates the two program counters *)
(* of a thread; Budget is what keeps gps_lock below LockCap.               *)
(***************************************************************************)
EXTENDS GpsPort, FiniteSetTheorems, TLAPS

Types ==
  /\ gpsLock \in Nat /\ atLock \in Nat
  /\ gpsFd \in {"closed", "open", "hung"}
  /\ modem \in BOOLEAN /\ session \in BOOLEAN
  /\ pc \in [Threads -> Pcs] /\ at \in [Threads -> AtSteps]
  /\ ans \in [Threads -> Answers] /\ ret \in [Threads -> Returns]
  /\ tries \in [Threads -> 0..LinkTests]

(* A thread is in a command exactly where a command is made, and           *)
(* gps_deinit() returns to agps_init() only from within.                   *)
Deinits == {"dWait", "dClose", "dQuery", "dEnd", "dPost"}
Control ==
  \A t \in Threads : /\ at[t] # "none" <=> pc[t] \in AtPcs
                     /\ ret[t] = "aLink" => pc[t] \in Deinits

(* The threads whose agps_init() may still give up. *)
GiveUps == {t \in Threads : pc[t] \in {"aQuery", "aLink", "aGive"} \/ ret[t] = "aLink"}
Budget == Surplus + Cardinality(GiveUps) < LockCap

IInv == Types /\ Control /\ AtPortOwned /\ GpsLockKept /\ PortStable /\ Budget

-----------------------------------------------------------------------------
(* Counting.                                                               *)

(* Sets that differ in one thread differ by one in size. *)
LEMMA OneMore ==
  ASSUME NEW A, NEW B, NEW t, IsFiniteSet(A), t \notin A, B = A \cup {t}
  PROVE  IsFiniteSet(B) /\ Cardinality(A) \in Nat /\ Cardinality(B) = Cardinality(A) + 1
BY FS_AddElement, FS_CardinalityType

LEMMA HoldersFinite ==
  /\ IsFiniteSet(Holders) /\ Cardinality(Holders) \in Nat
  /\ IsFiniteSet(AtHolders) /\ Cardinality(AtHolders) \in Nat
  /\ IsFiniteSet(GiveUps) /\ Cardinality(GiveUps) \in Nat
  /\ Cardinality(GiveUps) <= Cardinality(Threads)
  /\ Cardinality(Threads) \in Nat
<1>1. IsFiniteSet(Threads)
  BY GpsAssumption
<1>2. /\ Holders \in SUBSET Threads /\ AtHolders \in SUBSET Threads
      /\ GiveUps \in SUBSET Threads
  BY DEF Holders, AtHolders, GiveUps
<1> HIDE DEF Holders, AtHolders, GiveUps
<1> QED BY <1>1, <1>2, FS_Subset, FS_CardinalityType

(* What a step of one thread does to the holders of gps_lock. *)
LEMMA HoldersMove ==
  ASSUME pc \in [Threads -> Pcs], NEW t \in Threads, NEW l,
         pc' = [pc EXCEPT ![t] = l]
  PROVE  /\ (pc[t] \in GpsPcs <=> l \in GpsPcs) => Holders' = Holders
         /\ pc[t] \notin GpsPcs /\ l \in GpsPcs
              => Cardinality(Holders') = Cardinality(Holders) + 1
         /\ pc[t] \in GpsPcs /\ l \notin GpsPcs
              => Cardinality(Holders') = Cardinality(Holders) - 1
<1>1. ASSUME pc[t] \in GpsPcs <=> l \in GpsPcs
      PROVE  Holders' = Holders
  BY <1>1 DEF Holders
<1>2. ASSUME pc[t] \notin GpsPcs, l \in GpsPcs
      PROVE  Cardinality(Holders') = Cardinality(Holders) + 1
  <2>1. t \notin Holders /\ Holders' = Holders \cup {t}
    BY <1>2 DEF Holders
  <2> QED BY <2>1, OneMore, HoldersFinite
<1>3. ASSUME pc[t] \in GpsPcs, l \notin GpsPcs
      PROVE  Cardinality(Holders') = Cardinality(Holders) - 1
  <2>1. t \notin Holders' /\ Holders = Holders' \cup {t} /\ Holders' \subseteq Holders
    BY <1>3 DEF Holders
  <2>2. IsFiniteSet(Holders')
    BY <2>1, HoldersFinite, FS_Subset
  <2>3. Cardinality(Holders') \in Nat /\ Cardinality(Holders) = Cardinality(Holders') + 1
    BY <2>1, <2>2, OneMore
  <2> QED BY <2>3
<1> QED BY <1>1, <1>2, <1>3

(* And to the holders of gsm_at_cmd_lock. *)
AtHeld == {"open", "talk", "post"}

LEMMA AtHoldersMove ==
  ASSUME at \in [Threads -> AtSteps], NEW t \in Threads, NEW s,
         at' = [at EXCEPT ![t] = s]
  PROVE  /\ (at[t] \in AtHeld <=> s \in AtHeld) => AtHolders' = AtHolders
         /\ at[t] \notin AtHeld /\ s \in AtHeld
              => Cardinality(AtHolders') = Cardinality(AtHolders) + 1
         /\ at[t] \in AtHeld /\ s \notin AtHeld
              => Cardinality(AtHolders') = Cardinality(AtHolders) - 1
<1>1. ASSUME at[t] \in AtHeld <=> s \in AtHeld
      PROVE  AtHolders' = AtHolders
  BY <1>1 DEF AtHolders, AtHeld
<1>2. ASSUME at[t] \notin AtHeld, s \in AtHeld
      PROVE  Cardinality(AtHolders') = Cardinality(AtHolders) + 1
  <2>1. t \notin AtHolders /\ AtHolders' = AtHolders \cup {t}
    BY <1>2 DEF AtHolders, AtHeld
  <2> QED BY <2>1, OneMore, HoldersFinite
<1>3. ASSUME at[t] \in AtHeld, s \notin AtHeld
      PROVE  Cardinality(AtHolders') = Cardinality(AtHolders) - 1
  <2>1. t \notin AtHolders' /\ AtHolders = AtHolders' \cup {t} /\ AtHolders' \subseteq AtHolders
    BY <1>3 DEF AtHolders, AtHeld
  <2>2. IsFiniteSet(AtHolders')
    BY <2>1, HoldersFinite, FS_Subset
  <2>3. /\ Cardinality(AtHolders') \in Nat
        /\ Cardinality(AtHolders) = Cardinality(AtHolders') + 1
    BY <2>1, <2>2, OneMore
  <2> QED BY <2>3
<1> QED BY <1>1, <1>2, <1>3

(* A call of agps_init() adds one thread that may give up, a step that     *)
(* gives up takes one away, and every other step adds none.                *)
GivesUp(t) == pc[t] \in {"aQuery", "aLink", "aGive"} \/ ret[t] = "aLink"

LEMMA GiveUpsMove ==
  ASSUME Types, NEW t \in Threads, NEW l, NEW r,
         pc' = [pc EXCEPT ![t] = l], ret' = [ret EXCEPT ![t] = r]
  PROVE  /\ (GivesUp(t)' => GivesUp(t)) => Cardinality(GiveUps') <= Cardinality(GiveUps)
         /\ GivesUp(t) /\ ~GivesUp(t)' => Cardinality(GiveUps') = Cardinality(GiveUps) - 1
         /\ Cardinality(GiveUps') <= Cardinality(Threads)
<1>1. GiveUps' \subseteq Threads
  BY DEF GiveUps
<1>2. Cardinality(GiveUps') <= Cardinality(Threads) /\ IsFiniteSet(GiveUps')
  BY <1>1, GpsAssumption, FS_Subset
<1>3. ASSUME GivesUp(t)' => GivesUp(t)
      PROVE  Cardinality(GiveUps') <= Cardinality(GiveUps)
  <2>1. GiveUps' \subseteq GiveUps
    BY <1>3 DEF GiveUps, GivesUp, Types
  <2> QED BY <2>1, HoldersFinite, FS_Subset
<1>4. ASSUME GivesUp(t), ~GivesUp(t)'
      PROVE  Cardinality(GiveUps') = Cardinality(GiveUps) - 1
  <2>1. t \notin GiveUps' /\ GiveUps = GiveUps' \cup {t}
    BY <1>4 DEF GiveUps, GivesUp, Types
  <2>2. Cardinality(GiveUps') \in Nat /\ Cardinality(GiveUps) = Cardinality(GiveUps') + 1
    BY <2>1, <1>2, OneMore
  <2> QED BY <2>2
<1> QED BY <1>2, <1>3, <1>4

-----------------------------------------------------------------------------
(* Types and Control.                                                      *)

LEMMA Labels ==
  /\ AtPcs \subseteq Pcs /\ GpsPcs \subseteq Pcs
  /\ {"relist", "qntp", "xtratime"} \subseteq DOMAIN Script
  /\ \A l \in DOMAIN Script :
       Script[l] \in GpsPcs /\ l \in AtPcs \cap GpsPcs /\ l \notin Deinits
  /\ \A l \in DOMAIN SmsScript :
       SmsScript[l] \in AtPcs \ GpsPcs /\ l \in AtPcs \ GpsPcs /\ l \notin Deinits
  /\ \A l \in DOMAIN AfterWait :
       /\ AfterWait[l] \in GpsPcs /\ l \notin AtPcs \cup GpsPcs
       /\ l \in Deinits => AfterWait[l] \in Deinits
BY DEF AtPcs, GpsPcs, Pcs, Script, SmsScript, AfterWait, Deinits

LEMMA Silent ==
  \A l \in {"idle", "iTest", "iOpen", "iPost", "dClose", "dPost", "gCheck", "gTest", "gRead",
           "gPost", "aLink", "aGive", "aPost", "xtra", "xtraPort"} : l \notin AtPcs
BY DEF AtPcs, Script, SmsScript

(* Goto() keeps the two program counters of a thread together. *)
LEMMA GotoControl ==
  ASSUME Types, Control, NEW t \in Threads, NEW l \in Pcs, Goto(t, l),
         ret' \in [Threads -> Returns],
         \A u \in Threads \ {t} : ret'[u] = ret[u],
         ret'[t] = "aLink" => l \in Deinits
  PROVE  /\ pc' \in [Threads -> Pcs] /\ at' \in [Threads -> AtSteps]
         /\ ans' \in [Threads -> Answers]
         /\ Control'
BY DEF Types, Control, Goto, AtSteps, Answers


(* The same for the steps that leave ret alone. *)
LEMMA GotoKeeps ==
  ASSUME Types, Control, NEW t \in Threads, NEW l \in Pcs, Goto(t, l), ret' = ret,
         pc[t] \in Deinits => l \in Deinits
  PROVE  /\ pc' \in [Threads -> Pcs] /\ at' \in [Threads -> AtSteps]
         /\ ans' \in [Threads -> Answers]
         /\ Control'
<1>1. ret[t] = "aLink" => l \in Deinits
  BY DEF Control
<1> QED BY <1>1, GotoControl DEF Types

LEMMA StepTypes ==
  ASSUME Types, Control, NEW t \in Threads, Step(t)
  PROVE  Types' /\ Control'
<1> USE GpsAssumption DEF Types
<1>1. CASE AtCommand(t)
  <2> USE <1>1 DEF Control, AtGoto, portVars, AtSteps
  <2>1. CASE AtCheck(t)
    BY <2>1 DEF AtCheck
  <2>2. CASE AtWait(t)
    BY <2>2 DEF AtWait
  <2>3. CASE AtOpen(t)
    BY <2>3 DEF AtOpen
  <2>4. CASE AtTalk(t)
    BY <2>4 DEF AtTalk, Answers
  <2>5. CASE AtPost(t)
    BY <2>5 DEF AtPost
  <2> QED BY <1>1, <2>1, <2>2, <2>3, <2>4, <2>5 DEF AtCommand
<1>2. CASE InitQueried(t)
  BY <1>2, Labels, GotoControl DEF InitQueried, KeepLocks, portVars, Answered, Deinits, Returns, Pcs
<1>3. CASE GpsWait(t)
  BY <1>3, GotoKeeps, Labels DEF GpsWait, portVars
<1>4. CASE InitTest(t)
  BY <1>4, GotoKeeps DEF InitTest, KeepLocks, portVars, Answered, Deinits, Pcs, GpsPcs
<1>5. CASE InitEnabled(t)
  BY <1>5, GotoKeeps DEF InitEnabled, KeepLocks, portVars, Answered, Deinits, Pcs, GpsPcs
<1>6. CASE InitOpen(t)
  BY <1>6, GotoKeeps DEF InitOpen, KeepLocks, portVars, Answered, Deinits, Pcs, GpsPcs
<1>7. CASE GpsPost(t)
  BY <1>7, Labels, GotoControl DEF GpsPost, KeepLocks, portVars, Answered, Deinits, Returns, Pcs
<1>8. CASE DeinitClose(t)
  BY <1>8, GotoKeeps DEF DeinitClose, KeepLocks, portVars, Answered, Deinits, Pcs, GpsPcs
<1>9. CASE DeinitQueried(t)
  BY <1>9, GotoKeeps DEF DeinitQueried, KeepLocks, portVars, Answered, Deinits, Pcs, GpsPcs
<1>10. CASE DeinitEnded(t)
  BY <1>10, GotoKeeps DEF DeinitEnded, KeepLocks, portVars, Answered, Deinits, Pcs, GpsPcs
<1>11. CASE DataCheck(t)
  BY <1>11, GotoKeeps DEF DataCheck, KeepLocks, portVars, Answered, Deinits, Pcs, GpsPcs
<1>12. CASE DataTest(t)
  BY <1>12, GotoKeeps DEF DataTest, KeepLocks, portVars, Answered, Deinits, Pcs, GpsPcs
<1>13. CASE DataSilence(t)
  BY <1>13, GotoKeeps DEF DataSilence, KeepLocks, portVars, Answered, Deinits, Pcs, GpsPcs
<1>14. CASE CmdReturned(t)
  BY <1>14, GotoKeeps DEF CmdReturned, KeepLocks, portVars, Answered, Deinits, Pcs, GpsPcs
<1>15. CASE SmsReady(t)
  <2>1. "idle" \in Pcs
    BY DEF Pcs
  <2> QED BY <1>15, <2>1, GotoKeeps, Labels DEF SmsReady, KeepLocks, portVars
<1>16. CASE AgpsQueried(t)
  <2>1. CASE Goto(t, "dWait") /\ ret' = [ret EXCEPT ![t] = "aLink"]
    BY <1>16, <2>1, GotoControl DEF AgpsQueried, KeepLocks, portVars, Deinits, Returns, Pcs
  <2>2. CASE Goto(t, "aLink") /\ ret' = ret
    BY <1>16, <2>2, GotoKeeps DEF AgpsQueried, KeepLocks, portVars, Answered, Deinits, Pcs
  <2> QED BY <1>16, <2>1, <2>2 DEF AgpsQueried
<1>17. CASE AgpsLink(t)
  <2>1. tries' \in [Threads -> 0..LinkTests]
    BY <1>17 DEF AgpsLink, KeepLocks, portVars
  <2>2. \E l \in {"aGive", "aWait", "aQuery"} : Goto(t, l)
    BY <1>17 DEF AgpsLink
  <2>3. {"aGive", "aWait", "aQuery"} \subseteq Pcs
    BY DEF Pcs, AtPcs
  <2> QED BY <1>17, <2>1, <2>2, <2>3, GotoKeeps DEF AgpsLink, KeepLocks, portVars, Deinits
<1>18. CASE AgpsGive(t)
  BY <1>18, GotoKeeps DEF AgpsGive, KeepLocks, portVars, Answered, Deinits, Pcs, GpsPcs
<1>19. CASE AgpsAnswered(t)
  <2>1. {"xtra", "qntp", "aPost"} \subseteq Pcs
    BY DEF Pcs, GpsPcs, AtPcs, Script
  <2> QED BY <1>19, <2>1, GotoKeeps, Labels DEF AgpsAnswered, KeepLocks, portVars
<1>20. CASE XtraOpen(t)
  <2>1. {"xtraPort", "relist"} \subseteq Pcs
    BY Labels DEF Pcs, GpsPcs
  <2> QED BY <1>20, <2>1, GotoKeeps DEF XtraOpen, KeepLocks, portVars, Deinits
<1>21. CASE XtraDone(t)
  BY <1>21, Labels, GotoKeeps DEF XtraDone, KeepLocks, portVars, Deinits
<1> QED
  BY <1>1, <1>2, <1>3, <1>4, <1>5, <1>6, <1>7, <1>8, <1>9, <1>10, <1>11, <1>12, <1>13, <1>14,
        <1>15, <1>16, <1>17, <1>18, <1>19, <1>20, <1>21 DEF Step, Proceed

-----------------------------------------------------------------------------
(* gsm_at_cmd_lock.                                                        *)

(* Goto() is used by threads that are not between the wait and the post,   *)
(* and leaves them outside.                                                *)
LEMMA GotoAtHolders ==
  ASSUME Types, NEW t \in Threads, at[t] \notin AtHeld, NEW l, Goto(t, l)
  PROVE  AtHolders' = AtHolders
<1>1. PICK s \in {"check", "none"} : at' = [at EXCEPT ![t] = s]
  BY DEF Goto
<1>2. s \notin AtHeld
  BY DEF AtHeld
<1> QED BY <1>1, <1>2, AtHoldersMove DEF Types

LEMMA StepAtPort ==
  ASSUME Types, Control, AtPortOwned, NEW t \in Threads, Step(t)
  PROVE  AtPortOwned'
<1> USE HoldersFinite DEF Types, AtPortOwned, AtSurplus
<1>1. CASE AtCommand(t)
  <2> USE AtHoldersMove DEF AtGoto, AtHeld
  <2>1. CASE AtCheck(t)
    <3>1. PICK s \in {"wait", "done"} : at' = [at EXCEPT ![t] = s]
      BY <2>1 DEF AtCheck
    <3>2. AtHolders' = AtHolders
      BY <2>1, <3>1 DEF AtCheck
    <3> QED BY <2>1, <3>2 DEF AtCheck
  <2>2. CASE AtWait(t)
    <3>1. at[t] = "wait" /\ at' = [at EXCEPT ![t] = "open"]
      BY <2>2 DEF AtWait
    <3>2. Cardinality(AtHolders') = Cardinality(AtHolders) + 1
      BY <3>1
    <3> QED BY <2>2, <3>2 DEF AtWait
  <2>3. CASE AtOpen(t)
    BY <2>3 DEF AtOpen
  <2>4. CASE AtTalk(t)
    BY <2>4 DEF AtTalk
  <2>5. CASE AtPost(t)
    <3>1. at[t] = "post" /\ at' = [at EXCEPT ![t] = "done"]
      BY <2>5 DEF AtPost
    <3>2. at[t] \in AtHeld /\ "done" \notin AtHeld
      BY <3>1
    <3> HIDE DEF AtHeld, AtPortOwned, AtSurplus
    <3>3. Cardinality(AtHolders') = Cardinality(AtHolders) - 1
      BY <3>1, <3>2
    <3> QED BY <2>5, <3>3 DEF AtPost, AtPortOwned, AtSurplus
  <2> QED BY <1>1, <2>1, <2>2, <2>3, <2>4, <2>5 DEF AtCommand
<1> USE GotoAtHolders DEF KeepLocks, Answered, AtHeld
<1>2. CASE InitQueried(t)
  <2>1. at[t] \in {"none", "done"}
    BY <1>2, Labels DEF InitQueried, Control, AtPcs
  <2> QED BY <1>2, <2>1 DEF InitQueried
<1>3. CASE GpsWait(t)
  <2>1. at[t] \in {"none", "done"}
    BY <1>3, Labels DEF GpsWait, Control, AtPcs
  <2> QED BY <1>3, <2>1 DEF GpsWait
<1>4. CASE InitTest(t)
  <2>1. at[t] \in {"none", "done"}
    BY <1>4, Silent DEF InitTest, Control
  <2> QED BY <1>4, <2>1 DEF InitTest
<1>5. CASE InitEnabled(t)
  <2>1. at[t] \in {"none", "done"}
    BY <1>5, Labels DEF InitEnabled, Control, AtPcs
  <2> QED BY <1>5, <2>1 DEF InitEnabled
<1>6. CASE InitOpen(t)
  <2>1. at[t] \in {"none", "done"}
    BY <1>6, Silent DEF InitOpen, Control
  <2> QED BY <1>6, <2>1 DEF InitOpen
<1>7. CASE GpsPost(t)
  <2>1. at[t] \in {"none", "done"}
    BY <1>7, Silent DEF GpsPost, Control
  <2> QED BY <1>7, <2>1 DEF GpsPost
<1>8. CASE DeinitClose(t)
  <2>1. at[t] \in {"none", "done"}
    BY <1>8, Silent DEF DeinitClose, Control
  <2> QED BY <1>8, <2>1 DEF DeinitClose
<1>9. CASE DeinitQueried(t)
  <2>1. at[t] \in {"none", "done"}
    BY <1>9, Labels DEF DeinitQueried, Control, AtPcs
  <2> QED BY <1>9, <2>1 DEF DeinitQueried
<1>10. CASE DeinitEnded(t)
  <2>1. at[t] \in {"none", "done"}
    BY <1>10, Labels DEF DeinitEnded, Control, AtPcs
  <2> QED BY <1>10, <2>1 DEF DeinitEnded
<1>11. CASE DataCheck(t)
  <2>1. at[t] \in {"none", "done"}
    BY <1>11, Silent DEF DataCheck, Control
  <2> QED BY <1>11, <2>1 DEF DataCheck
<1>12. CASE DataTest(t)
  <2>1. at[t] \in {"none", "done"}
    BY <1>12, Silent DEF DataTest, Control
  <2> QED BY <1>12, <2>1 DEF DataTest
<1>13. CASE DataSilence(t)
  <2>1. at[t] \in {"none", "done"}
    BY <1>13, Silent DEF DataSilence, Control
  <2> QED BY <1>13, <2>1 DEF DataSilence
<1>14. CASE CmdReturned(t)
  <2>1. at[t] \in {"none", "done"}
    BY <1>14, Labels DEF CmdReturned, Control, AtPcs
  <2> QED BY <1>14, <2>1 DEF CmdReturned
<1>15. CASE SmsReady(t)
  <2>1. at[t] \in {"none", "done"}
    BY <1>15, Labels DEF SmsReady, Control, AtPcs
  <2> QED BY <1>15, <2>1 DEF SmsReady
<1>16. CASE AgpsQueried(t)
  <2>1. at[t] \in {"none", "done"}
    BY <1>16, Labels DEF AgpsQueried, Control, AtPcs
  <2> QED BY <1>16, <2>1 DEF AgpsQueried
<1>17. CASE AgpsLink(t)
  <2>1. at[t] \in {"none", "done"}
    BY <1>17, Silent DEF AgpsLink, Control
  <2> QED BY <1>17, <2>1 DEF AgpsLink
<1>18. CASE AgpsGive(t)
  <2>1. at[t] \in {"none", "done"}
    BY <1>18, Silent DEF AgpsGive, Control
  <2> QED BY <1>18, <2>1 DEF AgpsGive
<1>19. CASE AgpsAnswered(t)
  <2>1. at[t] \in {"none", "done"}
    BY <1>19, Labels DEF AgpsAnswered, Control, AtPcs
  <2> QED BY <1>19, <2>1 DEF AgpsAnswered
<1>20. CASE XtraOpen(t)
  <2>1. at[t] \in {"none", "done"}
    BY <1>20, Silent DEF XtraOpen, Control
  <2> QED BY <1>20, <2>1 DEF XtraOpen
<1>21. CASE XtraDone(t)
  <2>1. at[t] \in {"none", "done"}
    BY <1>21, Silent DEF XtraDone, Control
  <2> QED BY <1>21, <2>1 DEF XtraDone
<1> QED
  BY <1>1, <1>2, <1>3, <1>4, <1>5, <1>6, <1>7, <1>8, <1>9, <1>10, <1>11, <1>12, <1>13, <1>14,
        <1>15, <1>16, <1>17, <1>18, <1>19, <1>20, <1>21 DEF Step, Proceed

-----------------------------------------------------------------------------
(* gps_lock.                                                               *)

LEMMA Outside ==
  \A l \in {"idle", "iQuery", "iWait", "dWait", "gCheck", "gWait", "aQuery", "aLink", "aGive",
           "aWait", "cmd", "sInit", "sSend"} : l \notin GpsPcs
BY DEF GpsPcs, Script

LEMMA Inside ==
  \A l \in {"iTest", "iEnable", "iOpen", "iPost", "dClose", "dQuery", "dEnd", "dPost", "gTest",
           "gRead", "gPost", "xtra", "xtraPort", "relist", "aPost"} : l \in GpsPcs
BY DEF GpsPcs, Script

(* A step that takes no lock and gives none back, on one side of it. *)
LEMMA OneSide ==
  ASSUME Types, NEW t \in Threads, NEW l, Goto(t, l), gpsLock' = gpsLock,
         pc[t] \in GpsPcs <=> l \in GpsPcs
  PROVE  Surplus' = Surplus
<1>1. Holders' = Holders
  BY HoldersMove DEF Goto, Types
<1> QED BY <1>1 DEF Surplus

(* Only agps_init() giving up posts what nobody has waited for. *)
LEMMA StepSurplus ==
  ASSUME Types, Control, NEW t \in Threads, Step(t)
  PROVE  Surplus' = Surplus + (IF AgpsGive(t) THEN 1 ELSE 0)
<1> USE HoldersFinite, Outside, Inside, OneSide
<1> DEFINE Same == Surplus' = Surplus /\ ~AgpsGive(t)
<1>1. ASSUME AtCommand(t) PROVE Same
  <2>1. pc' = pc /\ gpsLock' = gpsLock
    BY <1>1 DEF AtCommand, AtCheck, AtWait, AtOpen, AtTalk, AtPost, AtGoto
  <2>2. at[t] # "none"
    BY <1>1 DEF AtCommand, AtCheck, AtWait, AtOpen, AtTalk, AtPost
  <2>3. pc[t] # "aGive"
    BY <2>2, Silent DEF Control
  <2> QED BY <2>1, <2>3 DEF Surplus, Holders, AgpsGive
<1>2. ASSUME GpsWait(t) PROVE Same
  <2>1. pc' = [pc EXCEPT ![t] = AfterWait[pc[t]]]
    BY <1>2 DEF GpsWait, Goto
  <2>2. pc[t] \notin GpsPcs /\ AfterWait[pc[t]] \in GpsPcs /\ pc[t] # "aGive"
    BY <1>2, Labels DEF GpsWait, AfterWait
  <2>3. Cardinality(Holders') = Cardinality(Holders) + 1
    BY <2>1, <2>2, HoldersMove DEF Types
  <2> QED BY <1>2, <2>2, <2>3 DEF GpsWait, Surplus, Types, AgpsGive
<1>3. ASSUME GpsPost(t) PROVE Same
  <2>1. PICK l \in Returns : pc' = [pc EXCEPT ![t] = l]
    BY <1>3 DEF GpsPost, Goto, Types, Returns
  <2>2. pc[t] \in GpsPcs /\ l \notin GpsPcs /\ pc[t] # "aGive"
    BY <1>3 DEF GpsPost, Returns
  <2>3. Cardinality(Holders') = Cardinality(Holders) - 1
    BY <2>1, <2>2, HoldersMove DEF Types
  <2> QED BY <1>3, <2>2, <2>3 DEF GpsPost, Surplus, Types, AgpsGive
<1>4. ASSUME AgpsGive(t) PROVE Surplus' = Surplus + 1
  <2>1. pc' = [pc EXCEPT ![t] = "idle"] /\ pc[t] \notin GpsPcs /\ "idle" \notin GpsPcs
    BY <1>4 DEF AgpsGive, Goto
  <2>2. Holders' = Holders
    BY <2>1, HoldersMove DEF Types
  <2> QED BY <1>4, <2>2 DEF AgpsGive, Surplus, Types
<1>5. ASSUME InitQueried(t) PROVE Same
  BY <1>5 DEF InitQueried, KeepLocks, Answered, AgpsGive
<1>6. ASSUME InitTest(t) PROVE Same
  BY <1>6 DEF InitTest, KeepLocks, Answered, AgpsGive
<1>7. ASSUME InitEnabled(t) PROVE Same
  BY <1>7 DEF InitEnabled, KeepLocks, Answered, AgpsGive
<1>8. ASSUME InitOpen(t) PROVE Same
  BY <1>8 DEF InitOpen, KeepLocks, Answered, AgpsGive
<1>9. ASSUME DeinitClose(t) PROVE Same
  BY <1>9 DEF DeinitClose, KeepLocks, Answered, AgpsGive
<1>10. ASSUME DeinitQueried(t) PROVE Same
  BY <1>10 DEF DeinitQueried, KeepLocks, Answered, AgpsGive
<1>11. ASSUME DeinitEnded(t) PROVE Same
  BY <1>11 DEF DeinitEnded, KeepLocks, Answered, AgpsGive
<1>12. ASSUME DataCheck(t) PROVE Same
  BY <1>12 DEF DataCheck, KeepLocks, Answered, AgpsGive
<1>13. ASSUME DataTest(t) PROVE Same
  BY <1>13 DEF DataTest, KeepLocks, Answered, AgpsGive
<1>14. ASSUME DataSilence(t) PROVE Same
  BY <1>14 DEF DataSilence, KeepLocks, Answered, AgpsGive
<1>15. ASSUME CmdReturned(t) PROVE Same
  BY <1>15 DEF CmdReturned, KeepLocks, Answered, AgpsGive
<1>16. ASSUME SmsReady(t) PROVE Same
  <2>1. PICK l \in {"idle", "sSend"} : Goto(t, l)
    BY <1>16 DEF SmsReady, SmsScript
  <2>2. pc[t] \notin GpsPcs /\ pc[t] # "aGive"
    BY <1>16 DEF SmsReady, SmsScript
  <2> QED BY <1>16, <2>1, <2>2 DEF SmsReady, KeepLocks, AgpsGive
<1>17. ASSUME AgpsQueried(t) PROVE Same
  BY <1>17 DEF AgpsQueried, KeepLocks, Answered, AgpsGive
<1>18. ASSUME AgpsLink(t) PROVE Same
  BY <1>18 DEF AgpsLink, KeepLocks, Answered, AgpsGive
<1>19. ASSUME AgpsAnswered(t) PROVE Same
  BY <1>19, Labels DEF AgpsAnswered, KeepLocks, Answered, AgpsGive
<1>20. ASSUME XtraOpen(t) PROVE Same
  BY <1>20 DEF XtraOpen, KeepLocks, Answered, AgpsGive
<1>21. ASSUME XtraDone(t) PROVE Same
  BY <1>21 DEF XtraDone, KeepLocks, Answered, AgpsGive
<1>22. Surplus \in Int
  BY DEF Surplus, Types
<1>23. Same \/ AgpsGive(t)
  BY <1>1, <1>2, <1>3, <1>4, <1>5, <1>6, <1>7, <1>8, <1>9, <1>10, <1>11, <1>12, <1>13, <1>14,
        <1>15, <1>16, <1>17, <1>18, <1>19, <1>20, <1>21 DEF Step, Proceed
<1> QED BY <1>4, <1>22, <1>23

(* A thread does not come to an agps_init() that may give up by a step. *)
LEMMA StepGivesUp ==
  ASSUME Types, Control, NEW t \in Threads, Step(t), ~AgpsGive(t)
  PROVE  Cardinality(GiveUps') <= Cardinality(GiveUps)
<1> DEFINE Quiet == \A u \in Threads : GivesUp(u)' => GivesUp(u)
<1>1. CASE AtCommand(t)
  <2>1. pc' = pc /\ ret' = ret
    BY <1>1 DEF AtCommand, AtCheck, AtWait, AtOpen, AtTalk, AtPost, AtGoto
  <2>2. GiveUps' = GiveUps
    BY <2>1 DEF GiveUps
  <2> QED BY <2>2, HoldersFinite
<1>2. ASSUME InitQueried(t) PROVE Quiet
  BY <1>2 DEF InitQueried, Goto, Answered, GivesUp, Types
<1>3. ASSUME GpsWait(t) PROVE Quiet
  BY <1>3 DEF GpsWait, AfterWait, Goto, Answered, GivesUp, Types
<1>4. ASSUME InitTest(t) PROVE Quiet
  BY <1>4 DEF InitTest, Goto, Answered, GivesUp, Types
<1>5. ASSUME InitEnabled(t) PROVE Quiet
  BY <1>5 DEF InitEnabled, Goto, Answered, GivesUp, Types
<1>6. ASSUME InitOpen(t) PROVE Quiet
  BY <1>6 DEF InitOpen, Goto, Answered, GivesUp, Types
<1>7. ASSUME GpsPost(t) PROVE Quiet
  BY <1>7 DEF GpsPost, Goto, GivesUp, Types, Returns
<1>8. ASSUME DeinitClose(t) PROVE Quiet
  BY <1>8 DEF DeinitClose, Goto, Answered, GivesUp, Types
<1>9. ASSUME DeinitQueried(t) PROVE Quiet
  BY <1>9 DEF DeinitQueried, Goto, Answered, GivesUp, Types
<1>10. ASSUME DeinitEnded(t) PROVE Quiet
  BY <1>10 DEF DeinitEnded, Goto, Answered, GivesUp, Types
<1>11. ASSUME DataCheck(t) PROVE Quiet
  BY <1>11 DEF DataCheck, Goto, Answered, GivesUp, Types
<1>12. ASSUME DataTest(t) PROVE Quiet
  BY <1>12 DEF DataTest, Goto, Answered, GivesUp, Types
<1>13. ASSUME DataSilence(t) PROVE Quiet
  BY <1>13 DEF DataSilence, Goto, Answered, GivesUp, Types
<1>14. ASSUME CmdReturned(t) PROVE Quiet
  BY <1>14 DEF CmdReturned, Goto, Answered, GivesUp, Types
<1>15. ASSUME SmsReady(t) PROVE Quiet
  BY <1>15 DEF SmsReady, SmsScript, Goto, Answered, GivesUp, Types
<1>16. ASSUME AgpsQueried(t) PROVE Quiet
  BY <1>16 DEF AgpsQueried, Goto, Answered, GivesUp, Types
<1>17. ASSUME AgpsLink(t) PROVE Quiet
  BY <1>17 DEF AgpsLink, Goto, Answered, GivesUp, Types
<1>18. ASSUME AgpsAnswered(t) PROVE Quiet
  BY <1>18 DEF AgpsAnswered, Script, Goto, Answered, GivesUp, Types
<1>19. ASSUME XtraOpen(t) PROVE Quiet
  BY <1>19 DEF XtraOpen, Goto, Answered, GivesUp, Types
<1>20. ASSUME XtraDone(t) PROVE Quiet
  BY <1>20 DEF XtraDone, Goto, Answered, GivesUp, Types
<1>30. Quiet \/ AtCommand(t)
  BY <1>2, <1>3, <1>4, <1>5, <1>6, <1>7, <1>8, <1>9, <1>10, <1>11, <1>12, <1>13, <1>14, <1>15,
        <1>16, <1>17, <1>18, <1>19, <1>20 DEF Step, Proceed
<1>31. ASSUME Quiet PROVE Cardinality(GiveUps') <= Cardinality(GiveUps)
  <2>1. GiveUps' \subseteq GiveUps
    BY <1>31 DEF GivesUp, GiveUps
  <2> QED BY <2>1, HoldersFinite, FS_Subset
<1> QED BY <1>1, <1>30, <1>31

(* With no surplus gps_lock has at most one holder. *)
LEMMA OneHolder ==
  ASSUME Types, Surplus = 0, NEW t \in Holders, NEW u \in Holders
  PROVE  t = u
<1> SUFFICES ASSUME t # u PROVE FALSE
  OBVIOUS
<1>1. IsFiniteSet({}) /\ Cardinality({}) = 0
  BY FS_EmptySet
<1>2. IsFiniteSet({t}) /\ Cardinality({t}) = 1
  BY <1>1, OneMore
<1>3. IsFiniteSet({t, u}) /\ Cardinality({t, u}) = 2
  <2>1. {t, u} = {t} \cup {u} /\ u \notin {t}
    OBVIOUS
  <2> QED BY <1>2, <2>1, OneMore
<1>4. {t, u} \in SUBSET Holders
  OBVIOUS
<1>5. 2 <= Cardinality(Holders)
  BY <1>3, <1>4, HoldersFinite, FS_Subset
<1> QED BY <1>5, HoldersFinite DEF Types, Surplus

Uses == {"iEnable", "iOpen", "gRead"}

LEMMA StepPort ==
  ASSUME Types, Control, GpsLockKept, PortStable, NEW t \in Threads, Step(t)
  PROVE  PortStable'
<1> SUFFICES ASSUME Surplus' = 0,
                    NEW u \in Threads
             PROVE  /\ pc'[u] \in {"iEnable", "iOpen"} => gpsFd' = "closed"
                    /\ pc'[u] = "gRead" => gpsFd' # "closed"
  BY DEF PortStable
<1>1. Surplus = 0
  BY StepSurplus, HoldersFinite DEF GpsLockKept, Surplus, Types
<1>2. /\ pc[u] \in {"iEnable", "iOpen"} => gpsFd = "closed"
      /\ pc[u] = "gRead" => gpsFd # "closed"
  BY <1>1 DEF PortStable
<1>3. pc[u] \in Uses /\ pc[t] \in GpsPcs => u = t
  BY <1>1, OneHolder, Inside DEF Uses, Holders
<1> DEFINE Calm == /\ gpsFd' = gpsFd
                   /\ pc'[u] \in Uses => pc[u] = pc'[u]
<1> USE DEF Types, portVars, Goto, Answered, Uses
<1>4. ASSUME AtCommand(t) PROVE Calm
  BY <1>4 DEF AtCommand, AtCheck, AtWait, AtOpen, AtTalk, AtPost, AtGoto
<1>5. CASE InitTest(t)
  BY <1>5, <1>2 DEF InitTest
<1>6. CASE InitEnabled(t)
  <2>1. pc[t] \in GpsPcs
    BY <1>6, Inside DEF InitEnabled
  <2> QED BY <1>6, <2>1, <1>2, <1>3 DEF InitEnabled
<1>7. CASE InitOpen(t)
  <2>1. pc[t] \in GpsPcs
    BY <1>7, Inside DEF InitOpen
  <2> QED BY <1>7, <2>1, <1>2, <1>3 DEF InitOpen
<1>8. CASE DeinitClose(t)
  <2>1. pc[t] \in GpsPcs
    BY <1>8, Inside DEF DeinitClose
  <2> QED BY <1>8, <2>1, <1>2, <1>3 DEF DeinitClose
<1>9. CASE DataTest(t)
  BY <1>9, <1>2 DEF DataTest
<1>10. ASSUME InitQueried(t) PROVE Calm
  BY <1>10 DEF InitQueried
<1>11. ASSUME GpsWait(t) PROVE Calm
  BY <1>11 DEF GpsWait, AfterWait
<1>12. ASSUME GpsPost(t) PROVE Calm
  BY <1>12 DEF GpsPost, Returns
<1>13. ASSUME DeinitQueried(t) PROVE Calm
  BY <1>13 DEF DeinitQueried
<1>14. ASSUME DeinitEnded(t) PROVE Calm
  BY <1>14 DEF DeinitEnded
<1>15. ASSUME DataCheck(t) PROVE Calm
  BY <1>15 DEF DataCheck
<1>16. ASSUME DataSilence(t) PROVE Calm
  BY <1>16 DEF DataSilence
<1>17. ASSUME CmdReturned(t) PROVE Calm
  BY <1>17 DEF CmdReturned
<1>18. ASSUME SmsReady(t) PROVE Calm
  BY <1>18 DEF SmsReady, SmsScript
<1>19. ASSUME AgpsQueried(t) PROVE Calm
  BY <1>19 DEF AgpsQueried
<1>20. ASSUME AgpsLink(t) PROVE Calm
  BY <1>20 DEF AgpsLink
<1>21. ASSUME AgpsGive(t) PROVE Calm
  BY <1>21 DEF AgpsGive
<1>22. ASSUME AgpsAnswered(t) PROVE Calm
  BY <1>22 DEF AgpsAnswered, Script
<1>23. ASSUME XtraOpen(t) PROVE Calm
  BY <1>23 DEF XtraOpen
<1>24. ASSUME XtraDone(t) PROVE Calm
  BY <1>24 DEF XtraDone
<1>25. CASE Calm
  BY <1>2, <1>25
<1> QED
  BY <1>4, <1>5, <1>6, <1>7, <1>8, <1>9, <1>10, <1>11, <1>12, <1>13, <1>14, <1>15, <1>16, <1>17,
        <1>18, <1>19, <1>20, <1>21, <1>22, <1>23, <1>24, <1>25 DEF Step, Proceed

-----------------------------------------------------------------------------
(* The invariant.                                                          *)

LEMMA InitIInv == Init => IInv
<1> SUFFICES ASSUME Init PROVE IInv
  OBVIOUS
<1> USE GpsAssumption DEF Init
<1>1. Types
  <2>1. "idle" \in Pcs /\ "none" \in AtSteps /\ "unwritten" \in Answers /\ "idle" \in Returns
    BY DEF Pcs, AtSteps, Answers, Returns
  <2>2. 0 \in 0..LinkTests
    OBVIOUS
  <2> QED BY <2>1, <2>2 DEF Types
<1>2. Control
  BY Silent DEF Control
<1>3. Holders = {} /\ AtHolders = {} /\ GiveUps = {}
  BY Outside DEF Holders, AtHolders, GiveUps
<1>4. Cardinality({}) = 0
  BY FS_EmptySet
<1>5. Surplus = 0
  BY <1>3, <1>4 DEF Surplus
<1>6. AtPortOwned /\ GpsLockKept /\ Budget
  BY <1>3, <1>4, <1>5 DEF AtPortOwned, AtSurplus, GpsLockKept, Budget
<1>7. PortStable
  BY DEF PortStable
<1> QED BY <1>1, <1>2, <1>6, <1>7 DEF IInv

(* Nothing but the program counters moves when a thread calls. *)
LEMMA CallIInv ==
  ASSUME IInv, NEW t \in Threads, Call(t)
  PROVE  IInv'
<1> USE DEF IInv
<1>1. PICK op \in Ops : /\ op = "agps_init" => Surplus + 1 + Cardinality(Threads) <= LockCap
                        /\ Goto(t, Entry[op])
  BY DEF Call
<1> DEFINE l == Entry[op]
<1>2. /\ pc[t] = "idle" /\ op \in Calls
      /\ UNCHANGED <<gpsLock, atLock, gpsFd, session, modem, ret, tries>>
  BY GpsAssumption DEF Call, KeepLocks, portVars
<1>3. /\ l \in {"iQuery", "dWait", "gCheck", "cmd", "sInit", "aQuery"}
      /\ l = "aQuery" <=> op = "agps_init"
  BY <1>2 DEF Calls, Entry
<1>0. Goto(t, l)
  BY <1>1
<1>4. l \in Pcs /\ l \notin GpsPcs /\ at[t] = "none"
  BY <1>2, <1>3, Outside, Silent DEF Pcs, AtPcs, SmsScript, Control
<1> HIDE DEF l
<1>5. Types' /\ Control'
  BY <1>0, <1>2, <1>4, GotoKeeps DEF Types, Deinits
<1>6. AtPortOwned'
  BY <1>0, <1>2, <1>4, GotoAtHolders DEF AtHeld, AtPortOwned, AtSurplus
<1>7. Surplus' = Surplus
  BY <1>0, <1>2, <1>4, Outside, OneSide
<1>8. Budget'
  <2>1. CASE op = "agps_init"
    <3>1. pc' = [pc EXCEPT ![t] = l] /\ ret' = [ret EXCEPT ![t] = ret[t]]
      BY <1>0, <1>2 DEF Goto, Types
    <3>2. Cardinality(GiveUps') <= Cardinality(Threads)
      BY <3>1, GiveUpsMove
    <3>3. /\ Cardinality(GiveUps') \in Nat /\ Cardinality(Threads) \in Nat
          /\ Surplus \in Int /\ LockCap \in Int
      <4>1. IsFiniteSet(GiveUps')
        BY FS_Subset, GpsAssumption DEF GiveUps
      <4> QED BY <4>1, FS_CardinalityType, HoldersFinite, GpsAssumption DEF Surplus, Types
    <3> QED BY <1>1, <1>7, <2>1, <3>2, <3>3 DEF Budget
  <2>2. CASE op # "agps_init"
    <3>1. GiveUps' = GiveUps
      BY <1>0, <1>2, <1>3, <2>2 DEF GiveUps, Goto, Types
    <3> QED BY <1>7, <3>1 DEF Budget
  <2> QED BY <2>1, <2>2
<1>9. GpsLockKept' /\ PortStable'
  BY <1>0, <1>2, <1>3, <1>7 DEF GpsLockKept, PortStable, Goto, Types
<1> QED BY <1>5, <1>6, <1>8, <1>9

LEMMA StepIInv ==
  ASSUME IInv, NEW t \in Threads, Step(t)
  PROVE  IInv'
<1> USE DEF IInv
<1>1. Types' /\ Control'
  BY StepTypes
<1>2. AtPortOwned' /\ PortStable'
  BY StepAtPort, StepPort
<1>3. Surplus \in Int /\ Cardinality(GiveUps) \in Nat /\ LockCap \in Int
  BY HoldersFinite, GpsAssumption DEF Surplus, Types
<1>4. GpsLockKept'
  BY <1>3, StepSurplus DEF GpsLockKept
<1>5. IsFiniteSet(GiveUps') /\ Cardinality(GiveUps') \in Nat
  BY FS_Subset, FS_CardinalityType, GpsAssumption DEF GiveUps
<1>6. CASE AgpsGive(t)
  <2>1. pc' = [pc EXCEPT ![t] = "idle"] /\ ret' = [ret EXCEPT ![t] = ret[t]]
    BY <1>6 DEF AgpsGive, Goto, Types
  <2>2. GivesUp(t) /\ ~GivesUp(t)'
    BY <1>6, <2>1 DEF AgpsGive, GivesUp, Control, Deinits, Types
  <2>3. Cardinality(GiveUps') = Cardinality(GiveUps) - 1
    BY <2>1, <2>2, GiveUpsMove
  <2>4. Surplus' = Surplus + 1
    BY <1>6, StepSurplus
  <2>5. Budget'
    BY <1>3, <2>3, <2>4 DEF Budget
  <2> QED BY <1>1, <1>2, <1>4, <2>5
<1>7. CASE ~AgpsGive(t)
  <2>1. Cardinality(GiveUps') <= Cardinality(GiveUps)
    BY <1>7, StepGivesUp
  <2>2. Surplus' = Surplus
    BY <1>3, <1>7, StepSurplus
  <2>3. Budget'
    BY <1>3, <1>5, <2>1, <2>2 DEF Budget
  <2> QED BY <1>1, <1>2, <1>4, <2>3
<1> QED BY <1>6, <1>7

LEMMA NextIInv == IInv /\ [Next]_vars => IInv'
<1> SUFFICES ASSUME IInv, [Next]_vars PROVE IInv'
  OBVIOUS
<1>1. ASSUME ThreadsIdle, gpsFd' = gpsFd \/ (gpsFd = "open" /\ gpsFd' = "hung"),
             modem' \in BOOLEAN, session' \in BOOLEAN
      PROVE  IInv'
  <2>1. Holders' = Holders /\ AtHolders' = AtHolders /\ GiveUps' = GiveUps
    BY <1>1 DEF ThreadsIdle, Holders, AtHolders, GiveUps
  <2>2. Surplus' = Surplus
    BY <1>1, <2>1 DEF Surplus, ThreadsIdle
  <2>3. Types' /\ Control'
    BY <1>1 DEF IInv, Types, Control, ThreadsIdle
  <2>4. AtPortOwned' /\ GpsLockKept' /\ Budget'
    BY <1>1, <2>1, <2>2 DEF IInv, AtPortOwned, AtSurplus, GpsLockKept, Budget, ThreadsIdle
  <2>5. PortStable'
    BY <1>1, <2>2 DEF IInv, PortStable, ThreadsIdle
  <2> QED BY <2>3, <2>4, <2>5 DEF IInv
<1>2. CASE \E t \in Threads : Call(t) \/ Step(t)
  BY <1>2, CallIInv, StepIInv
<1>3. CASE ModemComes \/ ModemGoes
  BY <1>1, <1>3 DEF ModemComes, ModemGoes, portVars, IInv, Types
<1>4. CASE UNCHANGED vars
  BY <1>1, <1>4 DEF vars, portVars, ThreadsIdle, IInv, Types
<1> QED BY <1>2, <1>3, <1>4 DEF Next

LEMMA Invariant == Spec => []IInv
BY InitIInv, NextIInv, PTL DEF Spec

-----------------------------------------------------------------------------
(* The theorems.                                                           *)

(* Every variable stays in its set for any number of threads; gps_lock     *)
(* stays below the cap because the posts without a wait are counted.       *)
THEOREM TypeCorrect == Spec => []TypeOK
<1>1. ASSUME IInv PROVE TypeOK
  <2>1. gpsLock <= LockCap
    BY <1>1, HoldersFinite, GpsAssumption DEF IInv, Budget, Surplus, Types
  <2>2. atLock \in {0, 1}
    BY <1>1, HoldersFinite DEF IInv, AtPortOwned, AtSurplus, Types
  <2> QED BY <1>1, <2>1, <2>2, GpsAssumption DEF IInv, Types, TypeOK
<1> QED BY <1>1, Invariant, PTL

(* gsm_at_cmd() excludes: with any number of threads at most one is        *)
(* between its sem_wait() and its sem_post(), on the error paths as well   *)
(* (init.c 57-151, 215-381).                                               *)
THEOREM AtPortHasOneOwner == Spec => [](AtPortOwned /\ \A t, u \in AtHolders : t = u)
<1>1. ASSUME IInv, NEW t \in AtHolders, NEW u \in AtHolders, t # u PROVE FALSE
  <2>1. IsFiniteSet({}) /\ Cardinality({}) = 0
    BY FS_EmptySet
  <2>2. IsFiniteSet({t}) /\ Cardinality({t}) = 1
    BY <2>1, OneMore
  <2>3. {t, u} = {t} \cup {u} /\ u \notin {t}
    BY <1>1
  <2>4. IsFiniteSet({t, u}) /\ Cardinality({t, u}) = 2
    BY <2>2, <2>3, OneMore
  <2>5. 2 <= Cardinality(AtHolders)
    BY <2>4, HoldersFinite, FS_Subset
  <2> QED BY <1>1, <2>5, HoldersFinite DEF IInv, AtPortOwned, AtSurplus, Types
<1>2. IInv => AtPortOwned /\ \A t, u \in AtHolders : t = u
  BY <1>1 DEF IInv
<1> QED BY <1>2, Invariant, PTL

(* No path of u_gps.c keeps gps_lock: it is free or some thread holds it.  *)
THEOREM GpsLockIsKept == Spec => []GpsLockKept
BY Invariant, PTL DEF IInv

(* gps_fd is as gps_init() and get_gps_data() found it when they use it    *)
(* (u_gps.c 50-80, 696-828), for any number of threads and whenever the    *)
(* modem goes, until agps_init() first posts a lock it has not taken.      *)
THEOREM PortIsStable == Spec => []PortStable
BY Invariant, PTL DEF IInv

-----------------------------------------------------------------------------
(* The two semaphores implement CountedLock.                               *)

(* A step moves no program counter but its thread's. *)
LEMMA OthersStay ==
  ASSUME Types, NEW t \in Threads, Call(t) \/ Step(t)
  PROVE  \A u \in Threads \ {t} : pc'[u] = pc[u] /\ at'[u] = at[u]
<1> USE DEF Types, Goto
<1>1. CASE AtCommand(t)
  BY <1>1 DEF AtCommand, AtCheck, AtWait, AtOpen, AtTalk, AtPost, AtGoto
<1>2. CASE Call(t)
  BY <1>2 DEF Call
<1>3. CASE InitQueried(t) \/ GpsWait(t) \/ InitTest(t) \/ InitEnabled(t) \/ InitOpen(t)
  BY <1>3 DEF InitQueried, GpsWait, InitTest, InitEnabled, InitOpen
<1>4. CASE GpsPost(t) \/ DeinitClose(t) \/ DeinitQueried(t) \/ DeinitEnded(t)
  BY <1>4 DEF GpsPost, DeinitClose, DeinitQueried, DeinitEnded
<1>5. CASE DataCheck(t) \/ DataTest(t) \/ DataSilence(t) \/ CmdReturned(t) \/ SmsReady(t)
  BY <1>5 DEF DataCheck, DataTest, DataSilence, CmdReturned, SmsReady
<1>6. CASE AgpsQueried(t) \/ AgpsLink(t) \/ AgpsGive(t)
  BY <1>6 DEF AgpsQueried, AgpsLink, AgpsGive
<1>7. CASE AgpsAnswered(t) \/ XtraOpen(t) \/ XtraDone(t)
  BY <1>7 DEF AgpsAnswered, XtraOpen, XtraDone
<1> QED BY <1>1, <1>2, <1>3, <1>4, <1>5, <1>6, <1>7 DEF Step, Proceed

(* A thread comes into the AT port only by a wait that finds the lock      *)
(* free: the count of the lock and its holders stays one, and the lock is  *)
(* no less than 0 afterwards.                                              *)
LEMMA AtLockStep ==
  ASSUME IInv, IInv', NEW t \in Threads,
         \A u \in Threads \ {t} : at'[u] = at[u]
  PROVE  [AtLocked!Next]_(AtLocked!vars)
<1>1. AtSurplus = 0 /\ AtSurplus' = 0
  BY DEF IInv, AtPortOwned
<1>2. /\ IsFiniteSet(AtHolders) /\ Cardinality(AtHolders) \in Nat
      /\ IsFiniteSet(AtHolders')
  BY HoldersFinite, FS_Subset, GpsAssumption DEF AtHolders
<1>3. CASE AtHolders' = AtHolders
  BY <1>1, <1>3 DEF AtLocked!vars
<1>4. CASE t \notin AtHolders /\ AtHolders' = AtHolders \cup {t}
  <2>1. Cardinality(AtHolders') = Cardinality(AtHolders) + 1
    BY <1>2, <1>4, OneMore
  <2>2. Cardinality(AtHolders) <= AtSurplus
    BY <1>1, <1>2, <2>1 DEF AtSurplus, IInv, Types
  <2>3. AtLocked!Cardinality(AtHolders) <= AtSurplus
    BY <2>2, Zenon DEF Cardinality, AtLocked!Cardinality
  <2> QED BY <1>1, <1>4, <2>3 DEF AtLocked!Enter, AtLocked!Next
<1>5. CASE t \in AtHolders /\ AtHolders' = AtHolders \ {t}
  BY <1>1, <1>5 DEF AtLocked!Leave, AtLocked!Next
<1> QED BY <1>3, <1>4, <1>5 DEF AtHolders

(* The same for gps_lock, but for the post of a thread that gives up. *)
LEMMA GpsLockStep ==
  ASSUME IInv, IInv', NEW t \in Threads, Call(t) \/ Step(t)
  PROVE  [GpsLocked!Next]_(GpsLocked!vars)
<1>1. \A u \in Threads \ {t} : pc'[u] = pc[u]
  BY OthersStay DEF IInv
<1>2. /\ IsFiniteSet(Holders) /\ Cardinality(Holders) \in Nat
      /\ IsFiniteSet(Holders') /\ Surplus \in Int
  BY HoldersFinite, FS_Subset, GpsAssumption DEF Holders, Surplus, IInv, Types
<1>3. CASE AgpsGive(t)
  <2>1. pc' = [pc EXCEPT ![t] = "idle"] /\ pc[t] \notin GpsPcs /\ "idle" \notin GpsPcs
    BY <1>3, Outside DEF AgpsGive, Goto
  <2>2. Holders' = Holders
    BY <2>1, HoldersMove DEF IInv, Types
  <2>3. Step(t)
    BY <1>3 DEF Step, Proceed
  <2>4. Surplus' = Surplus + 1
    BY <1>3, <2>3, StepSurplus DEF IInv
  <2> QED BY <2>2, <2>4 DEF GpsLocked!Overpost, GpsLocked!Next
<1>4. ASSUME ~AgpsGive(t) PROVE Surplus' = Surplus
  <2>1. CASE Step(t)
    BY <1>2, <1>4, <2>1, StepSurplus DEF IInv
  <2>2. CASE Call(t)
    <3>1. PICK op \in Ops : Goto(t, Entry[op])
      BY <2>2 DEF Call
    <3>2. op \in Calls /\ pc[t] = "idle" /\ gpsLock' = gpsLock
      BY <2>2, GpsAssumption DEF Call, KeepLocks
    <3>3. Entry[op] \notin GpsPcs /\ pc[t] \notin GpsPcs
      BY <3>2, Outside DEF Calls, Entry
    <3> QED BY <3>1, <3>2, <3>3, OneSide DEF IInv
  <2> QED BY <2>1, <2>2
<1>5. CASE Holders' = Holders
  BY <1>3, <1>4, <1>5 DEF GpsLocked!vars
<1>6. CASE t \notin Holders /\ Holders' = Holders \cup {t} /\ ~AgpsGive(t)
  <2>1. Cardinality(Holders') = Cardinality(Holders) + 1
    BY <1>2, <1>6, OneMore
  <2>2. Cardinality(Holders) <= Surplus
    BY <1>2, <1>4, <1>6, <2>1 DEF Surplus, IInv, Types
  <2>3. GpsLocked!Cardinality(Holders) <= Surplus
    BY <2>2, Zenon DEF Cardinality, GpsLocked!Cardinality
  <2> QED BY <1>4, <1>6, <2>3 DEF GpsLocked!Enter, GpsLocked!Next
<1>7. CASE t \in Holders /\ Holders' = Holders \ {t} /\ ~AgpsGive(t)
  BY <1>4, <1>7 DEF GpsLocked!Leave, GpsLocked!Next
<1>8. Holders' = Holders \/ (t \notin Holders /\ Holders' = Holders \cup {t})
        \/ (t \in Holders /\ Holders' = Holders \ {t})
  BY <1>1 DEF Holders
<1> QED BY <1>3, <1>5, <1>6, <1>7, <1>8

LEMMA LocksNext ==
  IInv /\ IInv' /\ [Next]_vars
    => [AtLocked!Next]_(AtLocked!vars) /\ [GpsLocked!Next]_(GpsLocked!vars)
<1> SUFFICES ASSUME IInv, IInv', [Next]_vars
             PROVE  [AtLocked!Next]_(AtLocked!vars) /\ [GpsLocked!Next]_(GpsLocked!vars)
  OBVIOUS
<1>1. ASSUME NEW t \in Threads, Call(t) \/ Step(t)
      PROVE  [AtLocked!Next]_(AtLocked!vars) /\ [GpsLocked!Next]_(GpsLocked!vars)
  <2>1. \A u \in Threads \ {t} : at'[u] = at[u]
    BY <1>1, OthersStay DEF IInv
  <2> QED BY <1>1, <2>1, AtLockStep, GpsLockStep
<1>2. CASE ModemComes \/ ModemGoes \/ UNCHANGED vars
  <2>1. UNCHANGED <<gpsLock, atLock, pc, at>>
    BY <1>2 DEF ModemComes, ModemGoes, ThreadsIdle, vars
  <2> QED BY <2>1 DEF AtLocked!vars, GpsLocked!vars, AtSurplus, Surplus, AtHolders, Holders
<1> QED BY <1>1, <1>2 DEF Next

LEMMA LocksInit == Init => AtLocked!Init /\ GpsLocked!Init
<1> SUFFICES ASSUME Init PROVE AtLocked!Init /\ GpsLocked!Init
  OBVIOUS
<1>1. Holders = {} /\ AtHolders = {}
  BY Outside DEF Init, Holders, AtHolders
<1>2. Cardinality({}) = 0
  BY FS_EmptySet
<1> QED BY <1>1, <1>2 DEF Init, AtLocked!Init, GpsLocked!Init, AtSurplus, Surplus

(* Both semaphores keep what CountedLock promises, for any number of       *)
(* threads in any of the six calls: a thread comes in alone and by a wait  *)
(* that found the lock free, and goes out by a post of its own, whatever   *)
(* error return or nested command it is on; each post of agps_init() from  *)
(* outside (u_gps.c 469-477) lets one thread more in, and nothing else     *)
(* does.                                                                   *)
THEOREM ImplementsLocks == Spec => LocksSpec
<1>1. Spec => AtLocked!Spec
  BY LocksInit, LocksNext, Invariant, PTL DEF Spec, AtLocked!Spec
<1>2. Spec => GpsLocked!Spec
  BY LocksInit, LocksNext, Invariant, PTL DEF Spec, GpsLocked!Spec
<1> QED BY <1>1, <1>2 DEF LocksSpec

-----------------------------------------------------------------------------
(* Nobody waits in a circle.                                               *)

Blocked(t) ==
  \/ at[t] = "wait" /\ atLock = 0
  \/ pc[t] \in DOMAIN AfterWait /\ gpsLock = 0

(* Behind every thread that waits for one of the two locks there is one    *)
(* that holds a lock and waits for none: gps_init(), gps_deinit() and      *)
(* agps_init() take the AT port's lock with gps_lock held (u_gps.c 56,     *)
(* 126-130, 491-642), and nobody takes them the other way round.  It is    *)
(* the part of CallsReturn that needs no fairness.                         *)
NoCircularWait ==
  \A t \in Threads : Blocked(t) => \E u \in Holders \cup AtHolders : ~Blocked(u)

(* The two locks cannot deadlock, for any number of threads, on any path,  *)
(* and also after agps_init() has posted a lock it has not taken.          *)
THEOREM WaitsEndSomewhere == Spec => []NoCircularWait
<1>1. ASSUME IInv, NEW t \in Threads, Blocked(t)
      PROVE  \E u \in Holders \cup AtHolders : ~Blocked(u)
  <2>1. Types /\ Control /\ AtPortOwned /\ GpsLockKept
    BY <1>1 DEF IInv
  <2>2. ASSUME NEW u \in AtHolders PROVE ~Blocked(u)
    <3>1. u \in Threads /\ at[u] \in {"open", "talk", "post"}
      BY DEF AtHolders
    <3>2. pc[u] \in AtPcs
      BY <2>1, <3>1 DEF Control
    <3>3. pc[u] \notin DOMAIN AfterWait
      BY <3>2, Labels
    <3> QED BY <3>1, <3>3 DEF Blocked
  <2>3. CASE atLock = 0
    <3>1. AtHolders # {}
      BY <2>1, <2>3, FS_EmptySet DEF AtPortOwned, AtSurplus
    <3> QED BY <2>2, <3>1
  <2>4. CASE atLock # 0
    <3>1. gpsLock = 0
      BY <1>1, <2>4 DEF Blocked
    <3>2. Holders # {}
      BY <2>1, <3>1, FS_EmptySet DEF GpsLockKept, Surplus
    <3>3. PICK u \in Holders : TRUE
      BY <3>2
    <3>4. pc[u] \notin DOMAIN AfterWait
      BY <3>3, Labels DEF Holders
    <3> QED BY <2>4, <3>3, <3>4 DEF Blocked
  <2> QED BY <2>3, <2>4
<1>2. IInv => NoCircularWait
  BY <1>1 DEF NoCircularWait
<1> QED BY <1>2, Invariant, PTL
=============================================================================
