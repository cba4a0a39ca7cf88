-------------------------------- MODULE Log --------------------------------
(***************************************************************************)
(* The logging of src/src/skal/log.cpp and src/include/skal/log.hpp.       *)
(* skal_log() tests a level against the global minimum, stamps a record    *)
(* and, when the statement ends, prints it on stderr under a mutex.  The   *)
(* record is stamped well before the mutex is taken.                       *)
(*                                                                         *)
(* The minimum level is a plain global that one thread may set while       *)
(* another tests it; a test sees the value before or after.  The text of a *)
(* line, its level included, is left out.                                   *)
(***************************************************************************)
EXTENDS Integers, Sequences

CONSTANTS Thread,
          Level,      \* The severities, numbers from debug on.
          MaxCall,    \* The log statements of a thread, at most.
          MaxSet      \* The times the minimum is set, at most.

VARIABLES minimum,    \* g_minimum_level
          sets,       \* how often it was set
          clock,      \* the system clock, as coarse as it may be
          place,      \* where a thread is in its log statement
          record,     \* the record of a thread's statement
          calls,      \* the log statements a thread has made
          out         \* stderr: the records printed

logVars == <<minimum, sets, clock, place, record, calls, out>>

NoRecord == [stamp |-> 0, seen |-> 0]

LogInit ==
  /\ minimum \in Level /\ sets = 0 /\ clock = 0
  /\ place = [t \in Thread |-> "idle"]
  /\ record = [t \in Thread |-> NoRecord]
  /\ calls = [t \in Thread |-> 0]
  /\ out = <<>>

\* minimum_level(level)
SetMinimum(level) ==
  /\ sets < MaxSet /\ sets' = sets + 1
  /\ minimum' = level
  /\ UNCHANGED <<clock, place, record, calls, out>>

\* The test of skal_log().  seen is how much was printed by then.
Test(t, level) ==
  /\ place[t] = "idle" /\ calls[t] < MaxCall
  /\ calls' = [calls EXCEPT ![t] = @ + 1]
  /\ IF level >= minimum
       THEN /\ place' = [place EXCEPT ![t] = "stamp"]
            /\ record' = [record EXCEPT ![t].seen = Len(out)]
       ELSE UNCHANGED <<place, record>>
  /\ UNCHANGED <<minimum, sets, clock, out>>

\* The time of a record, and one kept from the thread's record before.
StampOf_Cached(t, time) == IF record[t].stamp = 0 THEN time ELSE record[t].stamp

StampOf(t, time) == time

\* log_t's constructor.  The clock may have gone on since the last record, or
\* not; nobody sets it back.
Construct(t) ==
  /\ place[t] = "stamp"
  /\ \E time \in {clock, clock + 1} :
       /\ clock' = time
       /\ record' = [record EXCEPT ![t].stamp = StampOf(t, time)]
  /\ place' = [place EXCEPT ![t] = "process"]
  /\ UNCHANGED <<minimum, sets, calls, out>>

\* log_t's destructor: process() prints the line with g_mutex held.
Process(t) ==
  /\ place[t] = "process"
  /\ out' = Append(out, record[t])
  /\ place' = [place EXCEPT ![t] = "idle"]
  /\ UNCHANGED <<minimum, sets, clock, record, calls>>

LogNext ==
  \/ \E level \in Level : SetMinimum(level)
  \/ \E t \in Thread, level \in Level : Test(t, level)
  \/ \E t \in Thread : Construct(t) \/ Process(t)

LogSpec == LogInit /\ [][LogNext]_logVars

-----------------------------------------------------------------------------
\* Properties

\* A record is stamped before its turn to print comes, so lines may be printed
\* out of the order of their stamps, but only when their statements overlap: a
\* line printed before a statement began has no later stamp.
StampsFollowTheOutput ==
  \A i \in DOMAIN out : \A j \in 1..out[i].seen : out[j].stamp <= out[i].stamp

Records == [stamp : Nat, seen : Nat]

\* The inductive invariant behind it: the clock is not behind any stamp, and a
\* record that is stamped is no older than all that was printed before its
\* statement began.
StampInv ==
  /\ clock \in Nat /\ out \in Seq(Records)
  /\ place \in [Thread -> {"idle", "stamp", "process"}]
  /\ record \in [Thread -> Records]
  /\ \A i \in DOMAIN out : out[i].stamp <= clock /\ out[i].seen < i
  /\ \A t \in Thread : place[t] # "idle" => record[t].seen <= Len(out)
  /\ \A t \in Thread : place[t] = "process" =>
       /\ record[t].stamp <= clock
       /\ \A j \in 1..record[t].seen : out[j].stamp <= record[t].stamp
  /\ StampsFollowTheOutput
=============================================================================
