------------------------------- MODULE MCWorker -------------------------------
(***************************************************************************)
(* Small applications on which TLC explores Worker.                        *)
(***************************************************************************)
EXTENDS WorkerProperties, TLC

CONSTANTS
    a, b, c, d, e, g, main, other,
    Starts      \* the workers that StartedUp may begin with

NoGroups == {}
NoFilters == {}
NoStarts == {}
BothStart == {{a, b}}
BadRegex == {"["}
FilterData == {<<"data", "data">>}

SendFiltered(t, to, action, filter, id) ==
    [call |-> "send",
     msg |-> [id |-> id, from |-> t, to |-> to, action |-> action,
              filter |-> filter, urgent |-> FALSE, internal |-> FALSE]]
Send(t, to, action, id) == SendFiltered(t, to, action, NoFilter, id)
Create(n) == [call |-> "create", name |-> n]
Terminate == [call |-> "terminate"]
Wait == [call |-> "wait"]
ReturnOk == [call |-> "return", ok |-> TRUE]
ReturnStop == [call |-> "return", ok |-> FALSE]

ScriptOf(f) == [t \in Thread |-> IF t \in DOMAIN f THEN f[t] ELSE << >>]

NoExit == [t \in Thread |-> << >>]

Threshold1 == [n \in Name |-> 1]
Threshold100 == [n \in Name |-> 100]

-------------------------------------------------------------------------------
\* A state the program reaches when main has created the workers of one of the
\* applications in Starts and is in wait(), and every worker has entered run():
\* where the runs on flow control, groups and terminate() begin, for the
\* start-up is explored in full by others.  The calls of main are over.
StartedWith(workers) ==
    /\ g_mutex = NoName
    /\ g_state = "running"
    /\ g_workers = workers
    /\ g_terminated = << >>
    /\ g_semaphore = 0
    /\ green = {}
    /\ pc = [t \in Thread |-> CASE t = main -> "wait_take" [] t \in workers -> "loop"
                                [] t \in Name \ workers -> "none" [] OTHER -> "user"]
    /\ called = [t \in Thread |-> 0]
    /\ todo = [t \in Thread |-> {}]
    /\ ret = [t \in Thread |-> IF t = main THEN "user" ELSE "none"]
    /\ out = [t \in Thread |-> NoMsg]
    /\ worker = [n \in Name |->
         IF n \in workers
           THEN [NewWorker EXCEPT !.queue.regular =
                   <<Regular(NoName, n, "skal-init")>>]
           ELSE NewWorker]

StartedUp == \E workers \in Starts : StartedWith(workers)

StartedSpec == StartedUp /\ [][Next]_vars /\ Fairness

\* a and b both create c, in vain for the second, and all stop; then main
\* creates a and waits again.
LifecycleScript == ScriptOf(
    main :> <<Create(a), Create(b), Wait, Create(a), Wait>>
    @@ a :> <<Create(c), ReturnStop>>
    @@ b :> <<Create(c), ReturnStop>>
    @@ c :> <<ReturnStop>>)

\* Two workers are there before wait(), and all stop; a creates c before.
GreenLightScript == ScriptOf(
    main :> <<Create(a), Create(b), Wait>>
    @@ a :> <<Create(c), ReturnStop>>
    @@ b :> <<ReturnStop>>
    @@ c :> <<ReturnStop>>)

\* wait() with no worker at all.
EmptyScript == ScriptOf(main :> <<Wait>>)

\* terminate() before wait(), and a worker that creates another one.
EarlyTerminateScript == ScriptOf(
    main :> <<Create(a), Wait>>
    @@ a :> <<Create(b)>>
    @@ other :> <<Terminate>>)

\* a sends to b, whose queue is full at one message; b answers, and a thread
\* outside skal sends to b too.
ThrottleScript == ScriptOf(
    a :> <<Send(a, b, "data", 1), Send(a, b, "data", 2)>>
    @@ b :> <<ReturnOk, Send(b, a, "data", 1)>>
    @@ other :> <<Send(other, b, "data", 1)>>)

\* Two workers whose queues are full at one message send to each other, and
\* may pause each other.
TwoWayScript == ScriptOf(
    a :> <<Send(a, b, "data", 1), Send(a, b, "data", 2)>>
    @@ b :> <<Send(b, a, "data", 1), Send(b, a, "data", 2)>>)

\* Three applications.  a and b subscribe to the same group and leave, and a
\* sends to it on its way out.  c subscribes, with an invalid filter first, and
\* leaves while d terminates skal.  e sends to d, whose queue is full at one
\* message, while d terminates skal.
Endings == {{a, b}, {c, d}, {e, d}}
EndingsScript == ScriptOf(
    a :> <<Send(a, g, "skal-subscribe", 0), ReturnStop>>
    @@ b :> <<SendFiltered(b, g, "skal-subscribe", "data", 0), ReturnStop>>
    @@ c :> <<SendFiltered(c, g, "skal-subscribe", "[", 0),
              Send(c, g, "skal-subscribe", 0), ReturnStop>>
    @@ d :> <<Terminate>>
    @@ e :> <<Send(e, d, "data", 1)>>)
EndingsExitScript == ScriptOf(a :> <<Send(a, g, "data", 2)>>)
EndingsThreshold == [n \in Name |-> IF n = d THEN 1 ELSE 100]

\* a subscribes and stops, b subscribes and stays.
SubscribeScript == ScriptOf(
    a :> <<Send(a, g, "skal-subscribe", 0), ReturnStop>>
    @@ b :> <<Send(b, g, "skal-subscribe", 0)>>)

\* The applications of the runs meet the hypotheses of the theorems on groups
\* and on wait(); those that call terminate() are not for the second.
ASSUME OrderlyApplications == OrderlySubscriptions
ASSUME StartedByMain == Script = LifecycleScript => OnlyMainStarts
===============================================================================
