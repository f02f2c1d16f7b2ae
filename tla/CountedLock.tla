---------------------------- MODULE CountedLock -----------------------------
(***************************************************************************)
(* What the threads of the library rely on when they bracket their code    *)
(* with sem_wait() and sem_post() of a semaphore created with the value 1: *)
(* a thread comes in only when nobody is inside, one thread comes or goes  *)
(* at a time, and the lock is never lost.  A post that no wait has matched *)
(* lets one thread more in from then on: surplus counts them.              *)
(***************************************************************************)
EXTENDS Naturals, FiniteSets

CONSTANTS
  Threads,     \* those that may come in
  MayOverpost  \* whether any code posts without having waited

VARIABLES
  inside,   \* the threads between their wait and their post
  surplus   \* the posts that no wait has matched

vars == <<inside, surplus>>

Init == inside = {} /\ surplus = 0

Enter(t) ==
  /\ t \notin inside /\ Cardinality(inside) <= surplus
  /\ inside' = inside \cup {t}
  /\ UNCHANGED surplus

Leave(t) ==
  /\ t \in inside
  /\ inside' = inside \ {t}
  /\ UNCHANGED surplus

Overpost ==
  /\ MayOverpost
  /\ surplus' = surplus + 1
  /\ UNCHANGED inside

Next == (\E t \in Threads : Enter(t) \/ Leave(t)) \/ Overpost

Spec == Init /\ [][Next]_vars
=============================================================================
