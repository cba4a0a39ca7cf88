--------------------------------- MODULE Queue ---------------------------------
(***************************************************************************)
(* A queue_t as it runs: the threads that push into it (workers in         *)
(* worker_t::post, threads outside skal) and the worker that owns it and   *)
(* pops, each taking mutex_, and the owner sleeping on cv_.                *)
(*                                                                         *)
(* Taking a mutex is a step of its own; what a thread does between lock    *)
(* and unlock is one step, since no other thread can see inside it.        *)
(***************************************************************************)
EXTENDS QueueOps, Naturals, Sequences, FiniteSets

CONSTANTS
    Producer,   \* threads that push
    Owner,      \* the worker thread that pops
    NoOne,      \* mutex_ is free
    NoMsg,      \* an empty std::unique_ptr<msg_t>
    MaxPush     \* bound: messages pushed in a behaviour

ASSUME QueueAssumption ==
    /\ Owner \notin Producer
    /\ NoOne \notin Producer \cup {Owner}
    /\ MaxPush \in Nat
    /\ NoMsg \notin [internal : BOOLEAN, urgent : BOOLEAN, no : Nat]

Thread == Producer \cup {Owner}

VARIABLES
    lists,          \* internal_, urgent_ and regular_
    mutex,          \* the thread that holds mutex_
    pc,             \* where each thread is in push() or pop()
    arg,            \* the class of the message each producer is pushing
    internal_only,  \* the argument of the current pop()
    pushed,         \* how many messages were pushed; numbers the messages
    popped          \* what the last pop() returned

vars == <<lists, mutex, pc, arg, internal_only, pushed, popped>>

Class == {"internal", "urgent", "regular"}

\* The message of a class; no records its place in the order of arrival.
Msg(class, no) ==
    [internal |-> class = "internal", urgent |-> class = "urgent", no |-> no]

MsgOf(class) ==
    [internal : {class = "internal"}, urgent : {class = "urgent"}, no : Nat]

Init ==
    /\ lists = EmptyQueue
    /\ mutex = NoOne
    /\ pc = [t \in Thread |-> "idle"]
    /\ arg = [p \in Producer |-> "regular"]
    /\ internal_only = FALSE
    /\ pushed = 0
    /\ popped = NoMsg

-------------------------------------------------------------------------------
\* Mutant: mutex_ is not waited for.
MayLock_Always == TRUE

MayLock == mutex = NoOne

\* lock_t lock(mutex_), on entry and again when cv_.wait() is over.
Lock(t) ==
    /\ pc[t] = "lock"
    /\ MayLock
    /\ mutex' = t
    /\ pc' = [pc EXCEPT ![t] = "locked"]
    /\ UNCHANGED <<lists, arg, internal_only, pushed, popped>>

PushCall(p, class) ==
    /\ pc[p] = "idle"
    /\ pushed + Cardinality({r \in Producer : pc[r] # "idle"}) < MaxPush
    /\ pc' = [pc EXCEPT ![p] = "lock"]
    /\ arg' = [arg EXCEPT ![p] = class]
    /\ UNCHANGED <<lists, mutex, internal_only, pushed, popped>>

\* Mutant: push() does not notify.
NotifyOne_Forgotten(p) == pc' = [pc EXCEPT ![p] = "idle"]

\* cv_.notify_one() wakes the owner if it sleeps and is lost otherwise.
NotifyOne(p) ==
    pc' = [pc EXCEPT ![p] = "idle",
                     ![Owner] = IF @ = "asleep" THEN "lock" ELSE @]

PushBody(p) ==
    /\ pc[p] = "locked"
    /\ pushed' = pushed + 1
    /\ lists' = Push(lists, Msg(arg[p], pushed'))
    /\ NotifyOne(p)
    /\ mutex' = NoOne
    /\ UNCHANGED <<arg, internal_only, popped>>

PopCall(only) ==
    /\ pc[Owner] = "idle"
    /\ pc' = [pc EXCEPT ![Owner] = "lock"]
    /\ internal_only' = only
    /\ UNCHANGED <<lists, mutex, arg, pushed, popped>>

\* Mutant: one waiting loop for both kinds of pop.
MustWait_Any == ~Poppable(lists, FALSE)

\* The waiting loop: cv_.wait() releases mutex_ and sleeps in one step.
MustWait == ~Poppable(lists, internal_only)

PopWait ==
    /\ pc[Owner] = "locked"
    /\ MustWait
    /\ pc' = [pc EXCEPT ![Owner] = "asleep"]
    /\ mutex' = NoOne
    /\ UNCHANGED <<lists, arg, internal_only, pushed, popped>>

\* cv_.wait() may return although nobody called notify_one().
SpuriousWakeup ==
    /\ pc[Owner] = "asleep"
    /\ pc' = [pc EXCEPT ![Owner] = "lock"]
    /\ UNCHANGED <<lists, mutex, arg, internal_only, pushed, popped>>

\* The rest of pop(), which returns an empty pointer if nothing qualifies.
PopTake ==
    /\ pc[Owner] = "locked"
    /\ ~MustWait
    /\ pc' = [pc EXCEPT ![Owner] = "idle"]
    /\ mutex' = NoOne
    /\ IF Poppable(lists, internal_only)
         THEN popped' = Front(lists) /\ lists' = Rest(lists)
         ELSE popped' = NoMsg /\ UNCHANGED lists
    /\ UNCHANGED <<arg, internal_only, pushed>>

Next ==
    \/ \E t \in Thread : Lock(t)
    \/ \E p \in Producer, class \in Class : PushCall(p, class)
    \/ \E p \in Producer : PushBody(p)
    \/ \E only \in BOOLEAN : PopCall(only)
    \/ PopWait
    \/ SpuriousWakeup
    \/ PopTake

Spec == Init /\ [][Next]_vars

\* Every thread that is inside push() or pop() and can run does run.
Fairness ==
    /\ \A t \in Thread : WF_vars(Lock(t))
    /\ \A p \in Producer : WF_vars(PushBody(p))
    /\ WF_vars(PopWait) /\ WF_vars(PopTake)

FairSpec == Spec /\ Fairness

-------------------------------------------------------------------------------
\* Type invariant: the lists of a queue_t hold messages of their own class,
\* and mutex_ is held by exactly the thread between lock and unlock.
TypeOK ==
    /\ lists \in [internal : Seq(MsgOf("internal")), urgent : Seq(MsgOf("urgent")),
                  regular : Seq(MsgOf("regular"))]
    /\ mutex \in Thread \cup {NoOne}
    /\ pc \in [Thread -> {"idle", "lock", "locked", "asleep"}]
    /\ arg \in [Producer -> Class]
    /\ internal_only \in BOOLEAN
    /\ pushed \in Nat
    /\ \A t \in Thread : pc[t] = "locked" <=> mutex = t
    /\ \A p \in Producer : pc[p] # "asleep"

\* No lost wakeup: the owner never sleeps in queue_t::pop() on a message it is
\* allowed to take, whatever the order of the pushes, the single notify_one()
\* of each and the re-check of the loop condition after every wakeup.
NoLostWakeup == pc[Owner] = "asleep" => ~Poppable(lists, internal_only)

\* The assertion at the end of queue_t::pop(): it never returns an empty
\* pointer, and with internal_only it returns nothing but internal messages,
\* although notify_one() also wakes it for the others.
PopReturnsMessage ==
    [][pc[Owner] = "locked" /\ pc'[Owner] = "idle"
         => popped' # NoMsg /\ (internal_only => popped'.internal)]_vars

\* include/skal/queue.hpp on pop(true): "If there are no internal messages, this
\* function returns an empty pointer regardless of whether or not urgent or
\* regular messages are available."
InternalPopReturnsEmpty ==
    [][pc[Owner] = "locked" /\ pc'[Owner] # "locked"
         /\ internal_only /\ lists.internal = << >>
         => pc'[Owner] = "idle" /\ popped' = NoMsg]_vars

\* A pop() that may take some message of the queue eventually returns.
PopReturns ==
    pc[Owner] # "idle" /\ Poppable(lists, internal_only) ~> pc[Owner] = "idle"

ClassOf(m) ==
    CASE m.internal -> "internal"
      [] ~m.internal /\ m.urgent -> "urgent"
      [] ~m.internal /\ ~m.urgent -> "regular"

Abs(m) == [class |-> ClassOf(m), no |-> m.no]

Elements(s) == {s[i] : i \in DOMAIN s}

AQ == INSTANCE AbstractQueue WITH
        NoMsg <- NoMsg,
        arrived <- pushed,
        pending <- {Abs(m) : m \in UNION {Elements(lists[c]) : c \in Class}},
        delivered <- IF popped = NoMsg THEN NoMsg ELSE Abs(popped)

\* The three lists, the mutex and the condition variable implement a priority
\* queue: pop() delivers messages by priority, oldest first within a priority,
\* each pushed message exactly once.
ImplementsAbstractQueue == AQ!Spec
===============================================================================
