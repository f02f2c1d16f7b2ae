----------------------------- MODULE BootSlots -----------------------------
(***************************************************************************)
(* The boot script (boot.sh; the bootcmd of uboot-env.txt is the same      *)
(* program): it picks the first slot of BOOT_ORDER with attempts left,     *)
(* takes one off, saves the environment and starts that slot's kernel, or  *)
(* gives every slot its attempts back when none has any.  Power may fail   *)
(* at any moment.  The environment has one copy on the eMMC, so a save     *)
(* that is cut may leave the old one, the new one, or a bad checksum, in   *)
(* which case U-Boot starts from the compiled-in variables.  The update    *)
(* client (RAUC, external) writes the other slot and then prefers it.      *)
(***************************************************************************)
EXTENDS Integers, Sequences

CONSTANTS
  Slots,        \* the boot names: A and B
  DefaultOrder, \* BOOT_ORDER if the environment has none: <<"A", "B">>
  Attempts,     \* attempts a slot is given (3)
  MaxFaults     \* bound on the saves that fail or are torn

\* An order names each slot once.
IsOrder(o) ==
  /\ o \in Seq(Slots)
  /\ \A s \in Slots : \E i \in 1..Len(o) : o[i] = s
  /\ \A i, j \in 1..Len(o) : o[i] = o[j] => i = j

ASSUME BootAssumption ==
  /\ IsOrder(DefaultOrder)
  /\ Attempts \in Nat \ {0}
  /\ MaxFaults \in Nat

VARIABLES
  savedOrder, savedLeft,   \* BOOT_ORDER and BOOT_x_LEFT on the eMMC
  order, left,             \* and in the script's environment
  pc,       \* "off", "script", "save", "refill", "load", "prompt", "system"
  cur,      \* the slot that was picked (bootargs)
  target,   \* the slots a running update is writing (at most one)
  starts,   \* kernel starts of each slot since it was last given its attempts
  torn,     \* saves that left a bad checksum
  failed    \* saves that reported an error, which the script does not look at

saved == <<savedOrder, savedLeft>>
ram == <<order, left>>
vars == <<savedOrder, savedLeft, order, left, pc, cur, target, starts, torn, failed>>

Full == [s \in Slots |-> Attempts]
None == [s \in Slots |-> 0]
Pcs == {"off", "script", "save", "refill", "load", "prompt", "system"}

TypeOK ==
  /\ IsOrder(savedOrder) /\ savedLeft \in [Slots -> 0..Attempts]
  /\ IsOrder(order) /\ left \in [Slots -> 0..Attempts]
  /\ pc \in Pcs /\ cur \in Slots
  /\ target \subseteq Slots
  /\ starts \in [Slots -> Nat]
  /\ torn \in 0..MaxFaults /\ failed \in 0..MaxFaults

Init ==
  /\ savedOrder = DefaultOrder /\ savedLeft = Full
  /\ order = DefaultOrder /\ left = Full
  /\ pc = "off" /\ cur \in Slots /\ target = {}
  /\ starts = None /\ torn = 0 /\ failed = 0

-----------------------------------------------------------------------------
(* The script.                                                             *)

PowerOn ==
  /\ pc = "off"
  /\ order' = savedOrder /\ left' = savedLeft
  /\ pc' = "script"
  /\ UNCHANGED <<saved, cur, target, starts, torn, failed>>

\* Mutant of FirstWithAttempts: the comparison is "not less" instead of "greater".
FirstWithZero(s) ==
  \E i \in 1..Len(order) :
    /\ order[i] = s /\ left[s] >= 0
    /\ \A j \in 1..(i - 1) : left[order[j]] = 0

\* s is the first slot of the order with attempts left.
FirstWithAttempts(s) ==
  \E i \in 1..Len(order) :
    /\ order[i] = s /\ left[s] > 0
    /\ \A j \in 1..(i - 1) : left[order[j]] = 0

\* Mutant of Pick: the attempt is not taken off.
PickWithoutCount(s) ==
  /\ pc = "script" /\ FirstWithAttempts(s)
  /\ cur' = s
  /\ pc' = "save"
  /\ UNCHANGED <<saved, ram, target, starts, torn, failed>>

Pick(s) ==
  /\ pc = "script" /\ FirstWithAttempts(s)
  /\ cur' = s
  /\ left' = [left EXCEPT ![s] = @ - 1]
  /\ pc' = "save"
  /\ UNCHANGED <<saved, order, target, starts, torn, failed>>

\* Mutant of Refill: only the first slot of the order gets its attempts back.
RefillFirst ==
  /\ pc = "script" /\ ~ \E s \in Slots : FirstWithAttempts(s)
  /\ left' = [s \in Slots |-> IF s = order[1] THEN Attempts ELSE 0]
  /\ pc' = "refill"
  /\ UNCHANGED <<saved, order, cur, target, starts, torn, failed>>

Refill ==
  /\ pc = "script" /\ ~ \E s \in Slots : FirstWithAttempts(s)
  /\ left' = Full
  /\ pc' = "refill"
  /\ UNCHANGED <<saved, order, cur, target, starts, torn, failed>>

SavesRam == savedOrder' = order /\ savedLeft' = left
AfterSave == IF pc = "save" THEN "load" ELSE "off"

\* saveenv.  Its result is not tested; after a refill the board is reset.
SaveEnv ==
  /\ pc \in {"save", "refill"}
  /\ SavesRam
  /\ pc' = AfterSave
  /\ starts' = IF pc = "refill" THEN None ELSE starts
  /\ UNCHANGED <<ram, cur, target, torn, failed>>

SaveFails ==
  /\ pc \in {"save", "refill"} /\ failed < MaxFaults
  /\ failed' = failed + 1
  /\ pc' = AfterSave
  /\ UNCHANGED <<saved, ram, cur, target, starts, torn>>

\* The kernel and the device tree are loaded and started.  A slot that cannot be
\* loaded, or whose kernel does not come up, leaves the board where it is.
StartKernel(s) ==
  /\ pc = "load" /\ cur = s
  /\ pc' \in {"system", "prompt"}
  /\ starts' = [starts EXCEPT ![s] = @ + 1]
  /\ UNCHANGED <<saved, ram, cur, target, torn, failed>>

-----------------------------------------------------------------------------
(* Power.                                                                  *)

\* Power goes (or the system reboots); a save that was under way may have been
\* completed.
PowerOff ==
  /\ pc # "off"
  /\ pc' = "off"
  /\ \/ UNCHANGED <<saved, starts>>
     \/ /\ pc \in {"save", "refill"}
        /\ SavesRam
        /\ starts' = IF pc = "refill" THEN None ELSE starts
  /\ target' = {}
  /\ UNCHANGED <<ram, cur, torn, failed>>

\* A save that leaves a bad checksum: the attempts, and the order, are lost.
TornSave ==
  /\ pc \in {"save", "refill"} /\ torn < MaxFaults
  /\ torn' = torn + 1
  /\ savedOrder' = DefaultOrder /\ savedLeft' = Full
  /\ starts' = None
  /\ pc' = "off"
  /\ UNCHANGED <<ram, cur, target, failed>>

-----------------------------------------------------------------------------
(* The update client in the running system.  Booting a slot successfully   *)
(* gives it no attempts back: the service that would is disabled           *)
(* (rauc_%.bbappend 7).                                                    *)

InstallBegins(s) ==
  /\ pc = "system" /\ target = {} /\ s # cur
  /\ target' = {s}
  /\ savedLeft' = [savedLeft EXCEPT ![s] = 0]
  /\ UNCHANGED <<savedOrder, ram, pc, cur, starts, torn, failed>>

\* The new slot, taken out of its place k, goes to the front of the order, with its
\* attempts.
InstallEnds(s) ==
  /\ pc = "system" /\ target = {s}
  /\ target' = {}
  /\ \E k \in 1..Len(savedOrder) :
       /\ savedOrder[k] = s
       /\ savedOrder' = [i \in 1..Len(savedOrder) |->
                           IF i = 1 THEN s ELSE savedOrder[IF i <= k THEN i - 1 ELSE i]]
  /\ savedLeft' = [savedLeft EXCEPT ![s] = Attempts]
  /\ starts' = [starts EXCEPT ![s] = 0]
  /\ UNCHANGED <<ram, pc, cur, torn, failed>>

Script == PowerOn \/ (\E s \in Slots : Pick(s)) \/ Refill \/ SaveEnv \/ SaveFails
Next ==
  \/ Script \/ PowerOff \/ TornSave
  \/ \E s \in Slots : StartKernel(s) \/ InstallBegins(s) \/ InstallEnds(s)

Spec == Init /\ [][Next]_vars

-----------------------------------------------------------------------------
(* Safety.                                                                 *)

\* An attempt is counted before it is made: whenever power goes, the starts of a
\* slot since it was given its attempts and the attempts the eMMC still holds for
\* it are together no more than it was given, but for one more start per save
\* whose error the script did not look at (boot.sh 38-45).  So a slot that never
\* comes up is tried at most Attempts times before the other one is.
AttemptsBounded == \A s \in Slots : starts[s] + savedLeft[s] <= Attempts + failed

-----------------------------------------------------------------------------
(* Liveness.                                                               *)

\* Power comes back, the script goes on, a board left at the prompt or a system
\* that has come up is at some time restarted, and power does not go every time
\* just before the same slot is started, saved, or given back its attempts.
Restarts == pc \in {"prompt", "system"} /\ PowerOff
Fairness ==
  /\ WF_vars(PowerOn) /\ WF_vars(Restarts)
  /\ SF_vars(Refill) /\ SF_vars(SaveEnv /\ pc = "refill")
  /\ \A s \in Slots : /\ SF_vars(Pick(s)) /\ SF_vars(SaveEnv /\ pc = "save" /\ cur = s)
                     /\ SF_vars(StartKernel(s))
FairSpec == Spec /\ Fairness

\* No slot is given up for good: as long as no more updates are installed, each is
\* started again and again, the one that works among them, whatever order the
\* last update left and whatever happened to the counters.
UpdatesEnd == <>[](target = {})
EverySlotTried == UpdatesEnd => \A s \in Slots : []<>(pc = "load" /\ cur = s)
=============================================================================
