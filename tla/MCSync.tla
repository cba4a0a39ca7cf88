-------------------------------- MODULE MCSync --------------------------------
(***************************************************************************)
(* The queue and the semaphore, each on its own: what says which of them a *)
(* behaviour is about, and the variables of the other keep their first     *)
(* values.  Two threads push at most three messages; two threads are in    *)
(* take(), two in take(timeout), and post() is called three times.         *)
(***************************************************************************)
EXTENDS MCQueue, Semaphore

VARIABLE what

SyncInit ==
    /\ what \in {"queue", "semaphore"}
    /\ Init /\ SemInit
    /\ what = "queue" => count = 0

SyncNext ==
    /\ UNCHANGED what
    /\ \/ what = "queue" /\ Next /\ UNCHANGED semVars
       \/ what = "semaphore" /\ SemNext /\ UNCHANGED vars

SyncSpec ==
    /\ SyncInit /\ [][SyncNext]_<<what, vars, semVars>>
    /\ Fairness /\ SemFairness
===============================================================================
