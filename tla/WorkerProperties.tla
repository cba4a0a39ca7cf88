--------------------------- MODULE WorkerProperties ---------------------------
(***************************************************************************)
(* What worker.cpp has to get right: the life of workers, flow control and *)
(* groups.  WorkerProofs proves LifecycleInv and the safety properties     *)
(* before it for every application, and NoRunOutsideWait for those that    *)
(* are OnlyMainStarts; WorkerFlowProofs the safety of flow control;        *)
(* WorkerGroupProofs NoDeadSubscriber for those that are                   *)
(* OrderlySubscriptions.  The others are model-checked.                    *)
(***************************************************************************)
EXTENDS Worker

WorkerPc == {"none", "entry", "green", "loop", "pop", "pop_internal", "handler",
             "after", "xon_clear", "exit", "exit_handler", "finish",
             "finish_post", "done"}
CallPc == {"send", "post_push", "post_xoff", "post_emplace", "create_emplace"}
RetPc == {"handler", "exit_handler", "after", "xon_clear"}
WaitPc == {"wait_green", "wait_take", "wait_lock", "wait_erase", "wait_reset"}

\* Inside a critical section of g_mutex that stays open for several steps.
HoldsLock == {"post_push", "post_xoff", "post_emplace", "create_emplace",
              "finish_post", "wait_erase"}

\* Type invariant of the register, the threads and the worker objects.
TypeOK ==
    /\ g_mutex \in Thread \cup {NoName}
    /\ g_state \in {"initialising", "running", "terminating"}
    /\ g_workers \subseteq Name
    /\ g_terminated \in Seq(Name)
    /\ g_semaphore \in Nat
    /\ green \subseteq Name
    /\ pc \in [Thread -> WorkerPc \cup CallPc \cup WaitPc \cup {"user"}]
    /\ called \in [Thread -> Nat]
    /\ todo \in [Thread -> SUBSET Message]
    /\ ret \in [Thread -> {"none", "user"} \cup RetPc]
    /\ out \in [Thread -> Message \cup {NoMsg}]
    /\ worker \in [Name -> WorkerObject]

-------------------------------------------------------------------------------
(* The life of workers *)

\* No member of a worker_t is used before it is constructed: thread_ starts
\* the thread in the middle of the constructor, but g_mutex keeps the thread
\* in thread_entry_point() until do_create() has finished with the object.
ConstructedBeforeRun ==
    \A n \in Name : pc[n] \notin {"none", "entry"} => n \in g_workers

\* ~worker_t() joins a thread with g_mutex held.  It never waits for that
\* lock: whenever wait() is erasing, every thread that announced its end in
\* g_terminated_workers has released g_mutex for good, and did so once.
JoinNeverBlocks ==
    pc[Main] = "wait_erase" =>
      /\ \A i \in DOMAIN g_terminated : pc[g_terminated[i]] = "done"
      /\ \A i, j \in DOMAIN g_terminated :
           g_terminated[i] = g_terminated[j] => i = j

\* The claim of the comment on ~queue_t(): no message is pushed into the queue
\* of a worker that wait() has destroyed.  The iterator post() got from the
\* register is good to the end of the critical section, and so are those of
\* the loop of wait() that runs without the lock.
NoUseAfterErase ==
    /\ \A t \in Thread : pc[t] \in {"post_push", "post_xoff"}
                           => out[t].to \in g_workers
    /\ green \subseteq g_workers

\* No termination goes unnoticed: as long as the name of an ended worker is in
\* g_terminated_workers, wait() is on its way to erase it or g_semaphore has a
\* count left to wake it, although wait() takes one count and erases many.
ReapSignalled ==
    g_terminated # << >> =>
      \/ g_semaphore > 0
      \/ pc[Main] \in {"wait_lock", "wait_erase"}
      \/ \E n \in Name : pc[n] = "finish_post"

\* When wait() finds the register empty and decides to return, no thread of
\* any worker is left, not even one that is being created.
AllThreadsJoined ==
    [][pc[Main] = "wait_erase" /\ pc'[Main] = "wait_reset"
         => \A n \in Name : pc[n] = "none"]_vars

\* Where the threads inside a call are, and what they have at hand there.
InsideCalls ==
    /\ \A u \in User : pc[u] \in {"user"} \cup CallPc
                                 \cup (IF u = Main THEN WaitPc ELSE {})
    /\ \A n \in Name : pc[n] \in WorkerPc \cup CallPc
    /\ \A t \in Thread : pc[t] \in CallPc =>
         ret[t] \in (IF t \in User THEN {"user"} ELSE RetPc)
    /\ \A t \in Thread : pc[t] \in {"post_push", "post_xoff", "post_emplace"} =>
         /\ out[t] \in Message
         /\ pc[t] # "post_emplace" => out[t].from # NoName
         /\ pc[t] = "post_emplace" => out[t].action = "skal-subscribe"
    /\ \A n \in Name :
         pc[n] = "handler" \/ (pc[n] \in CallPc /\ ret[n] = "handler")
           => worker[n].cur \in Message

\* g_mutex is held by the thread whose critical section is open.
MutexHeld == \A t \in Thread : pc[t] \in HoldsLock <=> g_mutex = t

\* The constructor of n has started its thread, and n is not registered yet.
UnderConstruction(n) == pc[n] = "entry" /\ n \notin g_workers

\* One worker at a time is under construction, by a thread in do_create().
OneConstruction ==
    /\ \A n \in Name : UnderConstruction(n) =>
         \E t \in Thread : pc[t] \in {"create_emplace", "post_emplace"}
    /\ \A n, m \in Name : UnderConstruction(n) /\ UnderConstruction(m) => n = m
    /\ \A t \in Thread : pc[t] = "post_emplace" => UnderConstruction(out[t].to)

\* The names in g_terminated_workers are those of threads that ended.
EndedOnly ==
    /\ \A i \in DOMAIN g_terminated :
         pc[g_terminated[i]] \in {"finish_post", "done"}
    /\ \A i, j \in DOMAIN g_terminated :
         g_terminated[i] = g_terminated[j] => i = j

RegisterInv ==
    /\ MutexHeld /\ ConstructedBeforeRun /\ OneConstruction /\ EndedOnly
    /\ NoUseAfterErase
    /\ pc[Main] # "wait_green" => green = {}
    /\ ReapSignalled

\* The inductive invariant behind the properties of this section.
LifecycleInv == TypeOK /\ InsideCalls /\ RegisterInv

\* include/skal/skal.hpp on wait(): "no worker will run until this function is
\* called", nor after it returned.
NoRunOutsideWait ==
    pc[Main] \notin WaitPc => \A n \in Name : pc[n] \in {"none", "entry", "green"}

\* The application leaves the beginning and the end of skal to main: no other
\* thread outside skal creates workers, by create() or as the first subscriber
\* of a group, and nobody calls terminate().
OnlyMainStarts ==
    /\ \A t \in Thread :
         /\ \A i \in DOMAIN Script[t] : Script[t][i].call # "terminate"
         /\ \A i \in DOMAIN ExitScript[t] : ExitScript[t][i].call # "terminate"
    /\ \A u \in User \ {Main} : \A i \in DOMAIN Script[u] :
         /\ Script[u][i].call # "create"
         /\ Script[u][i].call = "send" => Script[u][i].msg.action # "skal-subscribe"

\* A thread outside skal, other than main, is not about to create a worker.
CreatesNothing(u) ==
    /\ pc[u] \notin {"create_emplace", "post_emplace"}
    /\ \A m \in todo[u] : m.action # "skal-subscribe"

\* The inductive invariant behind NoRunOutsideWait, next to LifecycleInv: no
\* worker has a green light outside wait(), and none is left, or can come, when
\* wait() is about to return.
OutsideWaitInv ==
    /\ g_state # "terminating"
    /\ \A n \in Name \ g_workers : worker[n].semaphore = 0
    /\ \A u \in User \ {Main} : CreatesNothing(u)
    /\ pc[Main] \notin WaitPc =>
         /\ g_state = "initialising"
         /\ \A n \in Name : /\ pc[n] \in {"none", "entry", "green"}
                             /\ worker[n].semaphore = 0
    /\ pc[Main] = "wait_reset" => g_workers = {} /\ \A n \in Name : pc[n] = "none"

\* include/skal/skal.hpp on wait(): it runs skal "until all workers are
\* finished", and "returns immediately" if there are none.  If workers stop,
\* wait() returns, once for every time it is called.
WaitReturns == pc[Main] \in WaitPc ~> pc[Main] = "user"

\* n waits for a green light that wait() does not have for it any more.
LeftBehind(n) == pc[n] = "green" /\ ~SemReady(worker[n].semaphore)

\* Once wait() is past its unlocked loop over the register and has left nobody
\* behind, it returns when the workers have stopped, those they created
\* meanwhile included: it is woken often enough, and erases every one of them.
WaitReturnsOnceStarted ==
    /\ pc[Main] = "wait_take" /\ g_workers # {}
    /\ \A n \in Name : ~LeftBehind(n)
    ~> pc[Main] = "user"

\* terminate() shuts skal down, paused and busy workers included: wait()
\* returns and no worker is left.
TerminateShutsDown ==
    g_state = "terminating" ~> pc[Main] = "user" /\ g_workers = {}

-------------------------------------------------------------------------------
(* Flow control *)

\* include/skal/worker.hpp on xoff_: while it is not empty, the worker "is not
\* allowed to process any non-internal message".
PausedOnlyInternal ==
    [][\A n \in Name :
         pc[n] \in {"pop", "pop_internal"} /\ pc'[n] = "handler"
           /\ worker[n].xoff # {} => worker'[n].cur.internal]_vars

IsThrottleMsg(m) == m.action \in {"skal-throttle-on", "skal-throttle-off"}

ThrottleAction(throttled) ==
    IF throttled THEN "skal-throttle-on" ELSE "skal-throttle-off"

\* The notifications in q alternate: there is another one between any two that
\* are alike, and after the last that disagrees with throttled.
Alternating(q, throttled) ==
    /\ \A i, j \in DOMAIN q :
         i < j /\ IsThrottleMsg(q[i]) /\ q[i].action = q[j].action =>
           \E k \in DOMAIN q : /\ i < k /\ k < j /\ IsThrottleMsg(q[k])
                              /\ q[k].action # q[i].action
    /\ \A i \in DOMAIN q :
         IsThrottleMsg(q[i]) /\ q[i].action # ThrottleAction(throttled) =>
           \E k \in DOMAIN q : i < k /\ q[k].action = ThrottleAction(throttled)

\* process_msg is told in turn that its worker is paused and that it is not:
\* the notifications in the queue alternate, and the last one agrees with the
\* flag that run() will compare xoff_ with.
ThrottleAlternates ==
    \A n \in Name : Alternating(worker[n].queue.internal, worker[n].throttled)

\* Only run() makes notifications: none is among what a thread is sending.
IsNotification(m) == m.internal /\ IsThrottleMsg(m)
NoneSent ==
    \A t \in Thread : /\ \A m \in todo[t] : ~IsNotification(m)
                      /\ out[t] # NoMsg => ~IsNotification(out[t])

\* The inductive invariant behind the safety of flow control: next to what is
\* to be shown, the internal list holds internal messages only, and a worker
\* that is about to pop any message is not paused.
Flowing(p, w) ==
    /\ p = "pop" => w.xoff = {}
    /\ \A i \in DOMAIN w.queue.internal : w.queue.internal[i].internal
    /\ Alternating(w.queue.internal, w.throttled)
FlowInv == NoneSent /\ \A n \in Name : Flowing(pc[n], worker[n])

\* README.md: "worker A will come out of its paused state unconditionally
\* after a certain timeout."
PausedWorkerResumes ==
    \A n \in Name : worker[n].xoff # {} ~> worker[n].xoff = {}

-------------------------------------------------------------------------------
(* Groups *)

IsSubscription(m) == m.action \in {"skal-subscribe", "skal-unsubscribe"}

\* Messages that make, and that end, the subscription of n with filter f.
Adds(m, n, f) ==
    m.from = n /\ m.action = "skal-subscribe" /\ m.filter = f /\ f \notin BadFilter
Drops(m, n, f) ==
    m.from = n /\ m.action = "skal-unsubscribe" /\ m.filter \in {NoFilter, f}

\* Group g has been told, or is about to be told, that n has left.
Unsubscribing(g, n, f) ==
    \/ \E i \in DOMAIN worker[g].queue.regular : Drops(worker[g].queue.regular[i], n, f)
    \/ worker[g].cur # NoMsg /\ Drops(worker[g].cur, n, f)

\* include/skal/worker.hpp on subscriptions_: a worker that ends is removed
\* from all its groups on its behalf.  A group never keeps a subscription of a
\* worker that is gone unless the skal-unsubscribe that ends it is on its way
\* or the group is ending.
NoDeadSubscriber ==
    \A g \in Group \cap g_workers : \A s \in worker[g].subscribers :
      s[1] \in Client \ g_workers => Unsubscribing(g, s[1], s[2]) \/ worker[g].stop

\* The group w will have the subscription of n with filter f when it has
\* processed the message at hand and those in its queue.
Pending(w, n, f) ==
    LET q == w.queue.regular
    IN  \/ \E i \in DOMAIN q : /\ Adds(q[i], n, f)
                               /\ \A j \in DOMAIN q : i < j => ~Drops(q[j], n, f)
        \/ /\ \A j \in DOMAIN q : ~Drops(q[j], n, f)
           /\ \/ w.cur # NoMsg /\ Adds(w.cur, n, f)
              \/ <<n, f>> \in w.subscribers /\ ~(w.cur # NoMsg /\ Drops(w.cur, n, f))

\* In post(), with more to send.
SendPc == {"send", "post_push", "post_xoff", "post_emplace"}

\* The loop of run() is over and the unsubscriptions are on their way.
Leaving(n) ==
    \/ pc[n] \in {"exit_handler", "finish", "finish_post", "done"}
    \/ pc[n] \in CallPc /\ ret[n] = "exit_handler"

\* Client n will end its subscription to g with filter f: it is in its record,
\* or a skal-unsubscribe is among the messages n has to send.
Covered(g, n, f) ==
    \/ ~Leaving(n) /\ <<g, f>> \in worker[n].subscriptions
    \/ /\ Leaving(n) /\ pc[n] \in SendPc
       /\ \E m \in todo[n] : m.to = g /\ Drops(m, n, f)
    \/ pc[n] = "post_push" /\ out[n].to = g /\ Drops(out[n], n, f)

\* The application keeps its subscriptions in order: its workers send them as
\* regular messages and do not subscribe when they are told to exit.
OrderlySubscriptions ==
    \A n \in Client :
      /\ \A i \in DOMAIN Script[n] :
           LET s == Script[n][i]
           IN  s.call = "send" /\ IsSubscription(s.msg) => ~s.msg.urgent
      /\ \A i \in DOMAIN ExitScript[n] :
           LET s == ExitScript[n][i]
           IN  s.call = "send" /\ IsSubscription(s.msg) =>
                 ~s.msg.urgent /\ s.msg.action # "skal-subscribe"

\* A message that is no subscription of a client.
Neutral(m) == IsSubscription(m) => m.from \notin Client

\* A message that thread t may send on its way to ret[t]: a client its own
\* subscriptions, as regular messages, the others none of a client.
InOrder(t, m) ==
    IF t \in Client /\ IsSubscription(m)
      THEN /\ m.from = t /\ ~m.urgent /\ ~m.internal
           /\ m.action = "skal-subscribe" => ret[t] = "handler"
      ELSE Neutral(m)

\* What t, in post(), has still to send.
InHand(t) == IF pc[t] = "send" THEN todo[t] ELSE todo[t] \cup {out[t]}

\* No thread is about to send a subscription in another's name, or ahead of
\* its turn.
SendsInOrder ==
    \A t \in Thread : pc[t] \in SendPc => \A m \in InHand(t) : InOrder(t, m)

\* Before and in the loop of run(), but for process_msg and what follows it.
LoopPc == {"entry", "green", "loop", "pop", "pop_internal"}

\* The subscriptions of clients are in the regular list.
NoneAhead(q) ==
    /\ \A i \in DOMAIN q.internal : Neutral(q.internal[i])
    /\ \A i \in DOMAIN q.urgent : Neutral(q.urgent[i])

\* A group whose thread is at p: it is told to stop at the end of the loop only,
\* and has a message at hand in process_msg only.
GroupOk(p, w) ==
    /\ p \in LoopPc => ~w.stop
    /\ p # "handler" => w.cur = NoMsg
    /\ NoneAhead(w.queue)

\* A name that is not registered has no object.
NoObject == \A n \in Name \ g_workers : worker[n] = NewWorker

\* post() records a subscription before it pushes the message.
RecordedFirst ==
    \A n \in Client : pc[n] = "post_push" /\ out[n].action = "skal-subscribe" =>
      <<out[n].to, out[n].filter>> \in worker[n].subscriptions

\* Whoever will be a subscriber of a group will end the subscription.
SubscribersCovered ==
    \A g \in Group, n \in Client, f \in Filter :
      Pending(worker[g], n, f) /\ ~worker[g].stop => Covered(g, n, f)

\* The inductive invariant behind NoDeadSubscriber, next to LifecycleInv.
GroupInv ==
    /\ NoObject /\ SendsInOrder /\ RecordedFirst
    /\ \A g \in Group : GroupOk(pc[g], worker[g])
    /\ SubscribersCovered

\* README.md: "If a worker wants to subscribe to a group, it just has to send
\* a "skal-subcribe" to that group": what a worker subscribed to, the group
\* has or will process.
SubscriptionHonoured ==
    \A n \in Client, g \in Group, f \in Filter \ BadFilter :
      /\ <<g, f>> \in worker[n].subscriptions
      /\ pc[n] \in {"loop", "pop", "pop_internal"}
      => \/ <<n, f>> \in worker[g].subscribers
         \/ worker[g].cur # NoMsg
         \/ /\ ~worker[g].stop
            /\ \E i \in DOMAIN worker[g].queue.regular :
                 worker[g].queue.regular[i].from = n
===============================================================================
