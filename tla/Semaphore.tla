------------------------------- MODULE Semaphore -------------------------------
(***************************************************************************)
(* ft::semaphore_t (include/skal/semaphore.hpp): a counter, a mutex and a  *)
(* condition variable.  What a thread does between lock and unlock is one  *)
(* step; a step ends where cv_ is waited for.                              *)
(*                                                                         *)
(* wait_until() returns timeout when the clock is past the end at the time *)
(* it looks, whether or not somebody notified it; it looks before it locks *)
(* the mutex again.                                                        *)
(***************************************************************************)
EXTENDS Naturals, FiniteSets

CONSTANTS
    Taker,         \* threads that call take()
    Timed,         \* threads that call take(timeout)
    InitialCount,  \* the arguments of the constructor
    MaxPost        \* bound: calls of post()

Caller == Taker \cup Timed

ASSUME SemaphoreAssumption ==
    /\ Taker \cap Timed = {}
    /\ IsFiniteSet(Taker) /\ IsFiniteSet(Timed)
    /\ InitialCount \subseteq Nat
    /\ MaxPost \in Nat

VARIABLES
    count,   \* count_
    at,      \* where each thread is in take()
    late,    \* threads of Timed for which the clock is past end
    posted,  \* calls of post() so far
    wasted   \* notified threads that reported a timeout

semVars == <<count, at, late, posted, wasted>>

SemInit ==
    /\ count \in InitialCount
    /\ at = [t \in Caller |-> "idle"]
    /\ late = {}
    /\ posted = 0
    /\ wasted = 0

Asleep == {t \in Caller : at[t] = "asleep"}

\* Woken by a notification, and not yet holding the mutex.
Notified == {t \in Caller : at[t] = "notified"}

\* About to lock the mutex and to look at the counter.
Looking == {"lock", "notified", "woken"}

Goto(t, place) == at' = [at EXCEPT ![t] = place]
-------------------------------------------------------------------------------
\* Mutant: nobody is told.
WakeOne_Forgotten == UNCHANGED at

\* cv_.notify_one() wakes one of the threads that sleep, if there is one.
WakeOne ==
    IF Asleep = {} THEN UNCHANGED at ELSE \E t \in Asleep : Goto(t, "notified")

Post ==
    /\ posted < MaxPost
    /\ count' = count + 1
    /\ posted' = posted + 1
    /\ WakeOne
    /\ UNCHANGED <<late, wasted>>

\* A call of take(); that of a thread of Timed computes end.
TakeCall(t) ==
    /\ at[t] = "idle"
    /\ Goto(t, "lock")
    /\ late' = late \ {t}
    /\ UNCHANGED <<count, posted, wasted>>

\* Mutant: the condition is not checked again after the wait.
MustSleep_Once(t) == count <= 0 /\ at[t] = "lock"

\* The condition of the waiting loop.
MustSleep(t) == count <= 0

\* The mutex is locked, for the first time or after a wait.
Take(t) ==
    /\ at[t] \in Looking
    /\ ~MustSleep(t)
    /\ count' = count - 1
    /\ Goto(t, "idle")
    /\ UNCHANGED <<late, posted, wasted>>

Sleep(t) ==
    /\ at[t] \in Looking
    /\ MustSleep(t)
    /\ Goto(t, "asleep")
    /\ UNCHANGED <<count, late, posted, wasted>>

WokenInVain(t) ==
    /\ at[t] = "asleep" /\ t \notin late
    /\ Goto(t, "woken")
    /\ UNCHANGED <<count, late, posted, wasted>>

\* The clock passes the end of t.
Expire(t) ==
    /\ t \in Timed \ late /\ at[t] # "idle"
    /\ late' = late \cup {t}
    /\ UNCHANGED <<count, at, posted, wasted>>

\* wait_until() returns timeout, to a thread that slept or that was woken.
TimeOut(t) ==
    /\ t \in late /\ at[t] \in {"asleep", "notified", "woken"}
    /\ wasted' = IF at[t] = "notified" THEN wasted + 1 ELSE wasted
    /\ Goto(t, "timed_out")
    /\ UNCHANGED <<count, late, posted>>

\* Mutant: a timeout makes the loop start again.
AfterTimeOut_Retry == "lock"
AfterTimeOut == "idle"

\* take() returns false, whatever the count is by now.
GiveUp(t) ==
    /\ at[t] = "timed_out"
    /\ Goto(t, AfterTimeOut)
    /\ UNCHANGED <<count, late, posted, wasted>>

Inside(t) == Take(t) \/ Sleep(t) \/ TimeOut(t) \/ GiveUp(t)

SemNext ==
    \/ Post
    \/ \E t \in Caller : TakeCall(t) \/ Inside(t) \/ WokenInVain(t) \/ Expire(t)

SemSpec == SemInit /\ [][SemNext]_semVars

\* The scheduler runs every thread that can run, and time passes.
SemFairness ==
    \A t \in Caller : WF_semVars(Inside(t)) /\ WF_semVars(Expire(t))
-------------------------------------------------------------------------------
\* Type invariant: the counter never goes below zero.
SemTypeOK ==
    /\ count \in Nat /\ posted \in Nat /\ wasted \in Nat
    /\ at \in [Caller -> {"idle", "asleep", "timed_out"} \cup Looking]
    /\ late \subseteq Timed
    /\ \A t \in Caller : at[t] = "timed_out" => t \in Timed

\* No post() is lost on a thread that sleeps in take(): as many threads are on
\* their way to take the counts as there are counts, although each post()
\* notifies one thread, any other thread may come first, and wakeups may be
\* spurious.  The one exception is a take(timeout) that was notified and
\* reports a timeout: it keeps the notification and leaves the count.
NoPostLost == Asleep # {} => count <= Cardinality(Notified) + wasted

\* Unless a notification was kept in that way, a count is taken if there is a
\* thread to take it.
CountIsTaken ==
    count > 0 /\ (\E t \in Taker : at[t] # "idle")
      ~> count = 0 \/ (\A t \in Taker : at[t] = "idle") \/ wasted > 0

\* take(timeout) returns, posted or not.
TimedTakeReturns == \A t \in Timed : at[t] # "idle" ~> at[t] = "idle"

AS == INSTANCE AbstractSemaphore WITH
        Thread <- Caller,
        inside <- {t \in Caller : at[t] # "idle"}

\* The counter, the mutex and the condition variable implement a counting
\* semaphore: no take() returns without a count but one that gives up.
ImplementsAbstractSemaphore == AS!Spec
===============================================================================
