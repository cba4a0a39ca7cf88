-------------------------- MODULE WorkerGroupProofs --------------------------
(*****************************************************************************)
(* No group keeps a subscriber that is gone, in any application that keeps   *)
(* its subscriptions in order (OrderlySubscriptions).                        *)
(*                                                                           *)
(* The argument follows a subscription from the client to the group and back:*)
(* post() records it in subscriptions_ before it is in the group's queue, and*)
(* the record leaves only as a skal-unsubscribe that follows it through the  *)
(* same list of the same queue.  So whatever a group will make of the messages*)
(* it has (Pending), the client still has the means to end it (Covered); and a*)
(* client that is gone has none.  SubscribersCovered says so, the rest of    *)
(* GroupInv is what it needs to be inductive next to LifecycleInv.           *)
(*****************************************************************************)
EXTENDS WorkerProofs

\* Zenon proves a leaf that names no prover; SMT the ones that need arithmetic,
\* sequences, updates of records or a lemma that states a case distinction.
USE ZenonT(30)
USE DEF registerVars, callVars

-------------------------------------------------------------------------------
(* What a group will make of its messages *)

\* The group of an object will have a subscription after a push() only if it
\* would have had it before, or the message adds it; not if it drops it.
LEMMA PendingPush ==
    ASSUME NEW v \in WorkerObject, NEW w, NEW m \in Message, NEW n, NEW f,
           w.queue = Push(v.queue, m), w.cur = v.cur, w.subscribers = v.subscribers
    PROVE  /\ Pending(w, n, f) => Pending(v, n, f) \/ Adds(m, n, f)
           /\ ~m.internal /\ ~m.urgent /\ Drops(m, n, f) => ~Pending(w, n, f)
<1> DEFINE q == v.queue.regular
           r == w.queue.regular
           A(x) == Adds(x, n, f)
           D(x) == Drops(x, n, f)
           C == \/ v.cur # NoMsg /\ A(v.cur)
                \/ <<n, f>> \in v.subscribers /\ ~(v.cur # NoMsg /\ D(v.cur))
<1>1. v.queue \in QueueOf(Message) /\ q \in Seq(Message)
  BY DEF WorkerObject, QueueOf
<1>2. m.internal \in BOOLEAN /\ m.urgent \in BOOLEAN
  BY MessageType
<1>3. \/ r = q /\ (m.internal \/ m.urgent)
      \/ r = Append(q, m)
  BY <1>1, <1>2 DEF Push, QueueOf
<1>4. ~(A(m) /\ D(m))
  BY DEF Adds, Drops
<1>5. /\ Pending(v, n, f) <=>
           \/ \E i \in DOMAIN q : A(q[i]) /\ \A j \in DOMAIN q : i < j => ~D(q[j])
           \/ (\A j \in DOMAIN q : ~D(q[j])) /\ C
      /\ Pending(w, n, f) <=>
           \/ \E i \in DOMAIN r : A(r[i]) /\ \A j \in DOMAIN r : i < j => ~D(r[j])
           \/ (\A j \in DOMAIN r : ~D(r[j])) /\ C
  BY DEF Pending
<1> HIDE DEF A, D, C, r
<1>6. CASE r = q /\ (m.internal \/ m.urgent)
  BY <1>5, <1>6 DEF A, D
<1>7. CASE r = Append(q, m)
  <2>1. /\ DOMAIN r = 1 .. Len(q) + 1 /\ DOMAIN q = 1 .. Len(q) /\ Len(q) \in Nat
        /\ \A i \in DOMAIN q : r[i] = q[i]
        /\ r[Len(q) + 1] = m
    BY SMTT(60), <1>1, <1>7
  <2> HIDE DEF q
  <2>2. Pending(w, n, f) => Pending(v, n, f) \/ A(m)
    <3>1. ASSUME NEW i \in DOMAIN r, A(r[i]), \A j \in DOMAIN r : i < j => ~D(r[j]), ~A(m)
          PROVE  Pending(v, n, f)
      <4>1. i \in DOMAIN q /\ A(q[i])
        BY SMTT(60), <2>1, <3>1
      <4>2. \A j \in DOMAIN q : i < j => ~D(q[j])
        BY SMTT(60), <2>1, <3>1
      <4> QED BY <1>5, <4>1, <4>2
    <3>2. ASSUME \A j \in DOMAIN r : ~D(r[j]), C PROVE Pending(v, n, f)
      <4>1. \A j \in DOMAIN q : ~D(q[j])
        BY SMTT(60), <2>1, <3>2
      <4> QED BY <1>5, <3>2, <4>1
    <3> QED BY <1>5, <3>1, <3>2
  <2>3. D(m) => ~Pending(w, n, f)
    BY SMTT(60), <1>4, <1>5, <2>1
  <2> QED BY <2>2, <2>3 DEF A, D
<1> QED BY <1>3, <1>6, <1>7

\* pop() takes subscriptions from the regular list, in their order.
LEMMA PendingPop ==
    ASSUME NEW v \in WorkerObject, NEW w, NEW n \in Client, NEW f, NEW b, Poppable(v.queue, b),
           w.queue = Rest(v.queue), w.cur = Front(v.queue), w.subscribers = v.subscribers,
           v.cur = NoMsg,
           NoneAhead(v.queue), Pending(w, n, f)
    PROVE  Pending(v, n, f)
<1> DEFINE q == v.queue.regular
           r == w.queue.regular
           A(x) == Adds(x, n, f)
           D(x) == Drops(x, n, f)
<1>1. v.queue \in QueueOf(Message) /\ q \in Seq(Message)
      /\ v.queue.internal \in Seq(Message) /\ v.queue.urgent \in Seq(Message)
  BY DEF WorkerObject, QueueOf
<1>2. \/ r = q /\ v.queue.internal # << >> /\ w.cur = Head(v.queue.internal)
      \/ r = q /\ v.queue.urgent # << >> /\ w.cur = Head(v.queue.urgent)
      \/ q # << >> /\ r = Tail(q) /\ w.cur = Head(q)
  BY <1>1 DEF Poppable, Rest, Front, QueueOf
<1>3. \A x : Neutral(x) => ~A(x) /\ ~D(x)
  BY DEF Neutral, Adds, Drops, IsSubscription
<1>4. /\ Pending(v, n, f) <=>
           \/ \E i \in DOMAIN q : A(q[i]) /\ \A j \in DOMAIN q : i < j => ~D(q[j])
           \/ (\A j \in DOMAIN q : ~D(q[j])) /\ <<n, f>> \in v.subscribers
      /\ \/ \E i \in DOMAIN r : A(r[i]) /\ \A j \in DOMAIN r : i < j => ~D(r[j])
         \/ /\ \A j \in DOMAIN r : ~D(r[j])
            /\ A(w.cur) \/ (<<n, f>> \in v.subscribers /\ (w.cur = NoMsg \/ ~D(w.cur)))
  BY DEF Pending
<1>5. w.cur # NoMsg
  BY SMTT(60), <1>1, <1>2, NamesAssumption
<1> HIDE DEF A, D, r
<1>6. CASE r = q /\ Neutral(w.cur)
  BY <1>3, <1>4, <1>6
<1>7. CASE q # << >> /\ r = Tail(q) /\ w.cur = Head(q)
  <2>1. /\ \A i \in DOMAIN r : i \in Nat /\ i + 1 \in DOMAIN q /\ r[i] = q[i + 1]
        /\ \A i \in DOMAIN q : i \in Nat /\ i >= 1
                               /\ (i > 1 => i - 1 \in DOMAIN r /\ r[i - 1] = q[i])
        /\ 1 \in DOMAIN q /\ w.cur = q[1]
    <3> HIDE DEF q
    <3> QED BY SMTT(60), <1>1, <1>7
  <2> HIDE DEF q
  <2>2. ASSUME NEW i \in DOMAIN r, A(r[i]), \A j \in DOMAIN r : i < j => ~D(r[j])
        PROVE  Pending(v, n, f)
    <3>1. \A j \in DOMAIN q : i + 1 < j => ~D(q[j])
      BY SMTT(60), <2>1, <2>2
    <3>2. i + 1 \in DOMAIN q /\ A(q[i + 1])
      BY <2>1, <2>2
    <3> QED BY <1>4, <3>1, <3>2
  <2>3. ASSUME \A j \in DOMAIN r : ~D(r[j]), A(w.cur) PROVE Pending(v, n, f)
    <3>1. \A j \in DOMAIN q : 1 < j => ~D(q[j])
      BY SMTT(60), <2>1, <2>3
    <3> QED BY <1>4, <2>1, <2>3, <3>1
  <2>4. ASSUME \A j \in DOMAIN r : ~D(r[j]), <<n, f>> \in v.subscribers, ~D(w.cur)
        PROVE  Pending(v, n, f)
    <3>1. \A j \in DOMAIN q : ~D(q[j])
      BY SMTT(60), <2>1, <2>4
    <3> QED BY <1>4, <2>4, <3>1
  <2> QED BY <1>4, <1>5, <2>2, <2>3, <2>4
<1>8. ASSUME NEW s \in Seq(Message), s # << >>, \A i \in DOMAIN s : Neutral(s[i])
      PROVE  Neutral(Head(s))
  <2>1. Head(s) = s[1] /\ 1 \in DOMAIN s
    BY SMTT(60), <1>8
  <2> QED BY <1>8, <2>1
<1> QED BY <1>1, <1>2, <1>6, <1>7, <1>8 DEF NoneAhead

\* group_t::process does with the message at hand what Pending says.
LEMMA PendingProcess ==
    ASSUME NEW v, NEW w, NEW n, NEW f, NEW m, m # NoMsg, v.cur = m, w.cur = NoMsg,
           w.queue = v.queue,
           w.subscribers = CASE m.action = "skal-subscribe" ->
                                  Subscribe(v.subscribers, m.from, m.filter)
                             [] m.action = "skal-unsubscribe" ->
                                  Unsubscribe(v.subscribers, m.from, m.filter)
                             [] OTHER -> v.subscribers,
           Pending(w, n, f)
    PROVE  Pending(v, n, f)
<1>1. <<n, f>> \in w.subscribers =>
        Adds(m, n, f) \/ (<<n, f>> \in v.subscribers /\ ~Drops(m, n, f))
  <2>1. CASE m.action = "skal-subscribe"
    <3>1. w.subscribers = Subscribe(v.subscribers, m.from, m.filter) /\ ~Drops(m, n, f)
      BY <2>1 DEF Drops
    <3> QED BY SMTT(60), <2>1, <3>1 DEF Subscribe, Adds
  <2>2. CASE m.action = "skal-unsubscribe"
    <3>1. w.subscribers = Unsubscribe(v.subscribers, m.from, m.filter)
      BY <2>2
    <3>2. <<n, f>>[1] = n
      BY SMTT(60)
    <3> QED BY <2>2, <3>1, <3>2 DEF Unsubscribe, Drops
  <2>3. CASE m.action \notin {"skal-subscribe", "skal-unsubscribe"}
    BY <2>3 DEF Drops
  <2> QED BY <2>1, <2>2, <2>3
<1> QED BY <1>1 DEF Pending

\* A group that forgets its subscribers has no more of them in prospect.
LEMMA PendingForgot ==
    ASSUME NEW v, NEW w, NEW n, NEW f, w.queue = v.queue, w.cur = v.cur, w.subscribers = {},
           Pending(w, n, f)
    PROVE  Pending(v, n, f)
BY DEF Pending

\* A new group has no subscribers in prospect.
LEMMA PendingNew == \A n, f : ~Pending(NewWorker, n, f)
<1>1. /\ NewWorker.queue.regular = << >> /\ NewWorker.subscribers = {} /\ NewWorker.cur = NoMsg
  BY SMTT(60) DEF NewWorker, EmptyQueue
<1>2. DOMAIN << >> = {}
  BY SMTT(60)
<1> QED BY <1>1, <1>2 DEF Pending

-------------------------------------------------------------------------------
(* What the steps do to an object *)

\* Object w is object v as far as groups are concerned, but for its queue and
\* its record of subscriptions.
SameGroup(v, w) ==
    w.cur = v.cur /\ w.subscribers = v.subscribers /\ w.stop = v.stop

\* A push into the queue of k changes nothing but that queue.
LEMMA PushedObject ==
    ASSUME NEW v \in [Name -> WorkerObject], NEW k \in Name, NEW m, NEW n \in Name
    PROVE  /\ SameGroup(v[n], [v EXCEPT ![k].queue = Push(@, m)][n])
           /\ [v EXCEPT ![k].queue = Push(@, m)][n].subscriptions = v[n].subscriptions
           /\ [v EXCEPT ![k].queue = Push(@, m)][n].queue =
                IF n = k THEN Push(v[n].queue, m) ELSE v[n].queue
<1>1. CASE n # k
  BY <1>1 DEF SameGroup
<1>2. CASE n = k
  <2>1. [v EXCEPT ![k].queue = Push(@, m)][n] = [v[n] EXCEPT !.queue = Push(@, m)]
    BY <1>2
  <2> QED BY <1>2, <2>1 DEF SameGroup, WorkerObject
<1> QED BY <1>1, <1>2

\* The subscriptions after post() recorded a message of their owner.
RecordOf(subs, m) ==
    CASE m.action = "skal-subscribe" -> subs \cup {<<m.to, m.filter>>}
      [] m.action = "skal-unsubscribe" -> subs \ {<<m.to, m.filter>>}
      [] OTHER -> subs

\* post() records the subscriptions of the sender, and nothing else.
LEMMA RecordedObject ==
    ASSUME worker \in [Name -> WorkerObject], NEW m, NEW R, NEW n \in Name
    PROVE  /\ SameGroup(worker[n], Recorded(m, R)[n])
           /\ Recorded(m, R)[n].queue = worker[n].queue
           /\ Recorded(m, R)[n].subscriptions =
                IF m.from = n /\ n \in R THEN RecordOf(worker[n].subscriptions, m)
                                        ELSE worker[n].subscriptions
<1>1. CASE m.from = n /\ n \in R /\ m.action = "skal-subscribe"
  BY SMTT(60), <1>1 DEF Recorded, WorkerObject, SameGroup, RecordOf
<1>2. CASE m.from = n /\ n \in R /\ m.action = "skal-unsubscribe"
  BY SMTT(60), <1>2 DEF Recorded, WorkerObject, SameGroup, RecordOf
<1>3. CASE ~(m.from = n /\ n \in R /\ m.action \in {"skal-subscribe", "skal-unsubscribe"})
  <2>1. Recorded(m, R)[n] = worker[n]
    BY <1>3 DEF Recorded
  <2> QED BY <1>3, <2>1 DEF SameGroup, RecordOf
<1> QED BY <1>1, <1>2, <1>3

\* What a message in the hands of t, in post(), is.
LEMMA HandedOver ==
    ASSUME LifecycleInv, SendsInOrder, NEW t \in Thread
    PROVE  /\ pc[t] = "send" => \A m \in todo[t] : m \in Message /\ InOrder(t, m)
           /\ pc[t] \in {"post_push", "post_xoff", "post_emplace"} =>
                /\ out[t] \in Message /\ out[t].to \in Name /\ InOrder(t, out[t])
                /\ pc[t] # "post_emplace" => out[t].to \in g_workers
                /\ pc[t] = "post_emplace" => out[t].action = "skal-subscribe" /\ out[t].to \in Group
<1>1. todo \in [Thread -> SUBSET Message] /\ g_workers \subseteq Name
  BY DEF LifecycleInv, TypeOK
<1>2. pc[t] = "send" => \A m \in todo[t] : m \in Message /\ InOrder(t, m)
  BY <1>1 DEF SendsInOrder, SendPc, InHand
<1>3. ASSUME pc[t] \in {"post_push", "post_xoff", "post_emplace"}
      PROVE  /\ out[t] \in Message /\ out[t].to \in Name /\ InOrder(t, out[t])
             /\ pc[t] # "post_emplace" => out[t].to \in g_workers
             /\ pc[t] = "post_emplace" => out[t].action = "skal-subscribe" /\ out[t].to \in Group
  <2>1. out[t] \in Message /\ (pc[t] = "post_emplace" => out[t].action = "skal-subscribe")
    BY <1>3 DEF LifecycleInv, InsideCalls
  <2>2. pc[t] # "post_emplace" => out[t].to \in g_workers
    BY <1>3 DEF LifecycleInv, RegisterInv, NoUseAfterErase
  <2>3. InOrder(t, out[t])
    BY <1>3 DEF SendsInOrder, SendPc, InHand
  <2>4. pc[t] = "post_emplace" => out[t].to \in Group
    BY <2>1, MessageType
  <2>5. out[t].to \in Name
    BY <1>1, <1>3, <2>2, <2>4 DEF Name
  <2> QED BY <2>1, <2>2, <2>3, <2>4, <2>5
<1> QED BY <1>2, <1>3

\* The step in which t pushes m, a message of its hands.
Delivers(t, m) ==
    \/ m \in todo[t] /\ PostDeliver(t, m)
    \/ m = out[t] /\ (PostPush(t) \/ PostEmplace(t))

\* A queue as it was, or with a message more that is no subscription of a client.
Calm(q, r) == r = q \/ \E m \in Message : Neutral(m) /\ r = Push(q, m)

\* What a step of post() does to a worker: it may deliver the message to it,
\* tell it to stop sending, or be its own step and record a subscription.
LEMMA SendingObject ==
    ASSUME LifecycleInv, SendsInOrder, NEW t \in Thread, Sending(t), NEW n \in Name
    PROVE  /\ \/ SameGroup(worker[n], worker'[n])
              \/ /\ n = t /\ pc'[n] \in {"after", "finish"} /\ worker'[n].stop
                 /\ worker'[n].cur = worker[n].cur
           /\ n \in Client /\ n # t => worker'[n].subscriptions = worker[n].subscriptions
           /\ \/ Calm(worker[n].queue, worker'[n].queue)
              \/ \E m \in Message : /\ Delivers(t, m) /\ m.to = n /\ InOrder(t, m)
                                    /\ worker'[n].queue = Push(worker[n].queue, m)
<1> DEFINE Goal ==
           /\ \/ SameGroup(worker[n], worker'[n])
              \/ /\ n = t /\ pc'[n] \in {"after", "finish"} /\ worker'[n].stop
                 /\ worker'[n].cur = worker[n].cur
           /\ n \in Client /\ n # t => worker'[n].subscriptions = worker[n].subscriptions
           /\ \/ Calm(worker[n].queue, worker'[n].queue)
              \/ \E m \in Message : /\ Delivers(t, m) /\ m.to = n /\ InOrder(t, m)
                                    /\ worker'[n].queue = Push(worker[n].queue, m)
<1>1. /\ worker \in [Name -> WorkerObject] /\ g_workers \in SUBSET Name
      /\ pc \in [Thread -> WorkerPc \cup CallPc \cup WaitPc \cup {"user"}]
      /\ n \in Thread
  BY DEF LifecycleInv, TypeOK, Thread
<1>2. ASSUME worker'[n] = worker[n] PROVE Goal
  BY <1>2 DEF SameGroup, Calm
<1>3. ASSUME NEW m \in Message, InOrder(t, m), n \in Client, n # t
      PROVE  m.from # n \/ ~IsSubscription(m)
  BY <1>3 DEF InOrder, Neutral
<1>4. ASSUME NEW m \in Message, NEW R, InOrder(t, m)
      PROVE  /\ SameGroup(worker[n], Recorded(m, R)[n])
             /\ Recorded(m, R)[n].queue = worker[n].queue
             /\ n \in Client /\ n # t =>
                  Recorded(m, R)[n].subscriptions = worker[n].subscriptions
  <2>1. n \in Client /\ n # t => ~(m.from = n /\ IsSubscription(m))
    BY <1>3, <1>4
  <2>2. ~IsSubscription(m) => RecordOf(worker[n].subscriptions, m) = worker[n].subscriptions
    BY DEF IsSubscription, RecordOf
  <2>3. /\ SameGroup(worker[n], Recorded(m, R)[n])
        /\ Recorded(m, R)[n].queue = worker[n].queue
        /\ Recorded(m, R)[n].subscriptions =
             IF m.from = n /\ n \in R THEN RecordOf(worker[n].subscriptions, m)
                                     ELSE worker[n].subscriptions
    BY SMTT(60), <1>1, RecordedObject
  <2> QED BY <2>1, <2>2, <2>3
<1>5. ASSUME NEW m \in Message, NEW R \in SUBSET Name, InOrder(t, m), m.to \in Name, Delivers(t, m),
             worker' = [Recorded(m, R) EXCEPT ![m.to].queue = Push(@, m)]
      PROVE  Goal
  <2>1. PICK v \in [Name -> WorkerObject] :
          v = Recorded(m, R) /\ worker' = [v EXCEPT ![m.to].queue = Push(@, m)]
    BY <1>1, <1>5, RecordedType
  <2>2. /\ SameGroup(worker[n], v[n]) /\ v[n].queue = worker[n].queue
        /\ n \in Client /\ n # t => v[n].subscriptions = worker[n].subscriptions
    BY <1>4, <1>5, <2>1
  <2>3. /\ SameGroup(v[n], worker'[n]) /\ worker'[n].subscriptions = v[n].subscriptions
        /\ worker'[n].queue = IF n = m.to THEN Push(v[n].queue, m) ELSE v[n].queue
    BY SMTT(60), <1>5, <2>1, PushedObject
  <2>4. SameGroup(worker[n], worker'[n])
    BY <2>2, <2>3 DEF SameGroup
  <2> QED BY <1>5, <2>2, <2>3, <2>4 DEF Calm
<1>6. ASSUME NEW m \in todo[t], PostDrop(t, m) \/ PostNewGroup(t, m) PROVE Goal
  BY <1>2, <1>6 DEF PostDrop, PostNewGroup
<1>7. ASSUME NEW m \in todo[t], PostFull(t, m) PROVE Goal
  <2>1. worker' = Recorded(m, g_workers) /\ pc[t] = "send"
    BY <1>7 DEF PostFull, Posting
  <2>2. m \in Message /\ InOrder(t, m)
    BY <2>1, HandedOver
  <2> QED BY <1>4, <2>1, <2>2 DEF Calm
<1>8. ASSUME NEW m \in todo[t], PostDeliver(t, m) PROVE Goal
  <2>1. /\ worker' = [Recorded(m, g_workers) EXCEPT ![m.to].queue = Push(@, m)]
        /\ pc[t] = "send" /\ m.to \in Name /\ Delivers(t, m)
    BY <1>1, <1>8 DEF PostDeliver, Posting, Delivers
  <2>2. m \in Message /\ InOrder(t, m)
    BY <2>1, HandedOver
  <2> QED BY <1>1, <1>5, <2>1, <2>2
<1>9. ASSUME NEW m \in todo[t], PostNewGroupThrows(t, m) PROVE Goal
  <2>1. /\ pc[t] = "send" /\ Throw(t, ret[t])
    BY <1>9 DEF PostNewGroupThrows, Posting
  <2>2. ASSUME t = n PROVE ret[t] # "user"
    BY <2>1, <2>2, NamesAssumption DEF LifecycleInv, InsideCalls, CallPc, RetPc, Thread
  <2>3. t = n => pc'[n] \in {"after", "finish"}
    BY <1>1, <2>1, <2>2 DEF Throw
  <2>4. worker'[n] = worker[n] \/ (t = n /\ worker'[n] = [worker[n] EXCEPT !.stop = TRUE])
    BY <1>1, <2>1 DEF Throw
  <2>5. CASE t = n /\ worker'[n] = [worker[n] EXCEPT !.stop = TRUE]
    <3>1. /\ worker'[n].stop = TRUE /\ worker'[n].cur = worker[n].cur
          /\ worker'[n].queue = worker[n].queue
      BY <1>1, <2>5 DEF WorkerObject
    <3> QED BY <2>3, <2>5, <3>1 DEF Calm
  <2> QED BY <1>2, <2>4, <2>5
<1>10. ASSUME PostPush(t) PROVE Goal
  <2>1. PICK m : m = out[t] /\ worker' = [worker EXCEPT ![m.to].queue = Push(@, m)]
    BY <1>10 DEF PostPush
  <2>2. m \in Message /\ m.to \in Name /\ InOrder(t, m) /\ Delivers(t, m)
    BY <1>10, <2>1, HandedOver DEF PostPush, Delivers
  <2>3. /\ SameGroup(worker[n], worker'[n])
        /\ worker'[n].subscriptions = worker[n].subscriptions
        /\ worker'[n].queue = IF n = m.to THEN Push(worker[n].queue, m) ELSE worker[n].queue
    BY SMTT(60), <1>1, <2>1, <2>2, PushedObject
  <2> QED BY <2>2, <2>3 DEF Calm
<1>11. ASSUME PostEmplace(t) PROVE Goal
  <2>1. PICK m, R : /\ m = out[t] /\ R = g_workers'
                    /\ worker' = [Recorded(m, R) EXCEPT ![m.to].queue = Push(@, m)]
                    /\ R = g_workers \cup {m.to}
    BY <1>11 DEF PostEmplace, Emplace
  <2>2. m \in Message /\ m.to \in Name /\ InOrder(t, m) /\ Delivers(t, m)
    BY <1>11, <2>1, HandedOver DEF PostEmplace, Delivers
  <2>3. R \in SUBSET Name
    BY <1>1, <2>1, <2>2
  <2> QED BY <1>5, <2>1, <2>2, <2>3
<1>12. ASSUME PostXoff(t) PROVE Goal
  <2>1. PICK m, x, noted :
          /\ m = out[t] /\ x = Internal(m.to, m.from, "skal-xoff")
          /\ noted = [worker EXCEPT ![m.to].ntf_xon = @ \cup {m.from}]
          /\ worker' = IF m.from \in g_workers THEN [noted EXCEPT ![m.from].queue = Push(@, x)]
                                               ELSE noted
    BY <1>12 DEF PostXoff, XoffTold
  <2>2. m \in Message /\ m.to \in Name /\ m.from \in Thread /\ m.to \in Thread
    <3>1. pc[t] = "post_xoff"
      BY <1>12 DEF PostXoff
    <3>2. m \in Message /\ m.to \in Name /\ m.from # NoName
      BY <2>1, <3>1, HandedOver DEF LifecycleInv, InsideCalls
    <3> QED BY <3>2, MessageType
  <2>3. x \in Message /\ Neutral(x)
    <3>1. "skal-xoff" \in SkalAction \ {"skal-subscribe"}
      BY DEF SkalAction, InternalAction
    <3>2. x \in Message
      BY <2>1, <2>2, <3>1, InternalType
    <3> QED BY <2>1, <3>2 DEF Internal, Neutral, IsSubscription
  <2>4. /\ noted \in [Name -> WorkerObject] /\ SameGroup(worker[n], noted[n])
        /\ noted[n].queue = worker[n].queue
        /\ noted[n].subscriptions = worker[n].subscriptions
    <3>1. PICK was \in WorkerObject : was = worker[m.to]
      BY <1>1, <2>2
    <3>2. PICK o : o = [was EXCEPT !.ntf_xon = was.ntf_xon \cup {m.from}]
      OBVIOUS
    <3>3. /\ o \in WorkerObject /\ SameGroup(was, o)
          /\ o.queue = was.queue /\ o.subscriptions = was.subscriptions
      BY SMTT(60), <2>2, <3>2 DEF WorkerObject, SameGroup
    <3>4. noted = [worker EXCEPT ![m.to] = o]
      BY <2>1, <3>1, <3>2
    <3>5. CASE n = m.to
      BY <1>1, <2>2, <3>1, <3>3, <3>4, <3>5
    <3>6. CASE n # m.to
      BY <1>1, <2>2, <3>3, <3>4, <3>6 DEF SameGroup
    <3> QED BY <3>5, <3>6
  <2>5. CASE m.from \in g_workers
    <3>0. worker' = [noted EXCEPT ![m.from].queue = Push(@, x)] /\ m.from \in Name
      BY <1>1, <2>1, <2>5
    <3>1. /\ SameGroup(noted[n], worker'[n])
          /\ worker'[n].subscriptions = noted[n].subscriptions
          /\ worker'[n].queue = IF n = m.from THEN Push(noted[n].queue, x) ELSE noted[n].queue
      BY SMTT(60), <2>4, <3>0, PushedObject
    <3>2. SameGroup(worker[n], worker'[n])
      BY <2>4, <3>1 DEF SameGroup
    <3> QED BY <2>3, <2>4, <3>1, <3>2 DEF Calm
  <2>6. CASE m.from \notin g_workers
    BY <2>1, <2>4, <2>6 DEF Calm
  <2> QED BY <2>5, <2>6
<1> HIDE DEF Goal
<1>13. Goal
  BY <1>6, <1>7, <1>8, <1>9, <1>10, <1>11, <1>12 DEF Sending
<1> QED BY <1>13 DEF Goal

\* A step that does nothing to n, as far as subscriptions are concerned.
Quiet(n) ==
    /\ SameGroup(worker[n], worker'[n])
    /\ worker'[n].subscriptions = worker[n].subscriptions
    /\ Calm(worker[n].queue, worker'[n].queue)

\* push() of such a message into the queue of an object.
LEMMA QuietPush ==
    ASSUME NEW v \in WorkerObject, NEW o \in WorkerObject, SameGroup(v, o), o.queue = v.queue,
           o.subscriptions = v.subscriptions, NEW m \in Message, Neutral(m)
    PROVE  /\ SameGroup(v, [o EXCEPT !.queue = Push(@, m)])
           /\ [o EXCEPT !.queue = Push(@, m)].subscriptions = v.subscriptions
           /\ Calm(v.queue, [o EXCEPT !.queue = Push(@, m)].queue)
<1>1. [o EXCEPT !.queue = Push(@, m)].queue = Push(v.queue, m)
  BY DEF WorkerObject
<1>2. SameGroup(o, [o EXCEPT !.queue = Push(@, m)])
      /\ [o EXCEPT !.queue = Push(@, m)].subscriptions = v.subscriptions
  BY DEF WorkerObject, SameGroup
<1> QED BY <1>1, <1>2 DEF Calm, SameGroup

\* The calls of the application leave groups alone, unless they throw.
LEMMA CallingObject ==
    ASSUME LifecycleInv, NEW t \in Thread, Calling(t), NEW n \in Name
    PROVE  \/ Quiet(n)
           \/ /\ n = t /\ CallCreateThrows(t)
              /\ worker'[n].subscriptions = worker[n].subscriptions
<1>1. worker \in [Name -> WorkerObject] /\ n \in Thread
  BY DEF LifecycleInv, TypeOK, Thread
<1>2. CASE CallSend(t) \/ CallCreate(t) \/ \E k \in Name : CreateEmplace(t, k)
  BY <1>2 DEF CallSend, CallCreate, CreateEmplace, Quiet, SameGroup, Calm
<1>3. CASE CallCreateThrows(t)
  <2>1. worker'[n] = worker[n] \/ (n = t /\ worker'[n] = [worker[n] EXCEPT !.stop = TRUE])
    BY <1>1, <1>3 DEF CallCreateThrows, Throw
  <2>2. [worker[n] EXCEPT !.stop = TRUE].subscriptions = worker[n].subscriptions
    BY <1>1 DEF WorkerObject
  <2> QED BY <1>3, <2>1, <2>2 DEF Quiet, SameGroup, Calm
<1>4. CASE CallTerminate(t)
  <2> DEFINE m == TerminateMsg(t, n)
  <2>1. \/ worker'[n] = worker[n]
        \/ worker'[n] = [worker[n] EXCEPT !.queue = Push(@, m)]
    BY <1>4 DEF CallTerminate
  <2>2. m \in Message /\ Neutral(m)
    <3>1. m \in Message
      BY <1>1, InternalType DEF TerminateMsg, SkalAction, InternalAction
    <3> QED BY <3>1 DEF TerminateMsg, Internal, Neutral, IsSubscription
  <2> HIDE DEF m
  <2>3. CASE worker'[n] = worker[n]
    BY <2>3 DEF Quiet, SameGroup, Calm
  <2>4. CASE worker'[n] = [worker[n] EXCEPT !.queue = Push(@, m)]
    <3>1. SameGroup(worker[n], worker[n])
      BY DEF SameGroup
    <3>2. /\ SameGroup(worker[n], [worker[n] EXCEPT !.queue = Push(@, m)])
          /\ [worker[n] EXCEPT !.queue = Push(@, m)].subscriptions = worker[n].subscriptions
          /\ Calm(worker[n].queue, [worker[n] EXCEPT !.queue = Push(@, m)].queue)
      BY <1>1, <2>2, <3>1, QuietPush
    <3> QED BY <2>4, <3>2 DEF Quiet
  <2> QED BY <2>1, <2>3, <2>4
<1> QED BY <1>2, <1>3, <1>4 DEF Calling

\* So do the steps of run() that do not take, process or forget anything.
LEMMA RunningObject ==
    ASSUME LifecycleInv, NEW k \in Name, Running(k), NEW n \in Name
    PROVE  /\ \/ Quiet(n)
              \/ Pop(n) \/ GroupProcess(n) \/ ExitReturn(n)
              \/ HandlerThrow(n) \/ \E ok \in BOOLEAN : HandlerReturn(n, ok)
           /\ worker'[n].subscriptions = worker[n].subscriptions
           /\ n # k => Quiet(n) /\ worker'[n] = worker[n]
<1> DEFINE Goal(x) ==
           /\ x \/ Quiet(n)
           /\ worker'[n].subscriptions = worker[n].subscriptions
           /\ n # k => Quiet(n) /\ worker'[n] = worker[n]
<1>1. worker \in [Name -> WorkerObject]
  BY DEF LifecycleInv, TypeOK
<1>2. ASSUME worker'[n] = worker[n] PROVE Goal(FALSE)
  BY <1>2 DEF Quiet, SameGroup, Calm
<1>3. ASSUME Entry(k) \/ TakeGreenLight(k) PROVE Goal(FALSE)
  <2> DEFINE m == Regular(NoName, k, "skal-init")
  <2>1. m \in Message /\ Neutral(m)
    <3>1. m \in Message
      BY InternalType DEF SkalAction, InternalAction, Thread
    <3> QED BY <3>1 DEF Regular, Internal, Neutral, IsSubscription
  <2>2. \/ worker' = worker
        \/ \E o \in WorkerObject :
             /\ o.queue = worker[k].queue /\ SameGroup(worker[k], o)
             /\ o.subscriptions = worker[k].subscriptions
             /\ worker' = [worker EXCEPT ![k] = [o EXCEPT !.queue = Push(@, m)]]
    <3>1. CASE Entry(k)
      BY <1>1, <3>1 DEF Entry, BeginRun, SameGroup
    <3>2. CASE TakeGreenLight(k)
      <4>1. PICK o : /\ o = [worker[k] EXCEPT !.semaphore = @ - 1]
                     /\ worker' = [worker EXCEPT ![k] = [o EXCEPT !.queue = Push(@, m)]]
        BY <3>2 DEF TakeGreenLight, BeginRun
      <4>2. o \in WorkerObject
        BY SMTT(60), <1>1, <3>2, <4>1 DEF TakeGreenLight, SemReady, WorkerObject
      <4>3. /\ o.queue = worker[k].queue /\ SameGroup(worker[k], o)
            /\ o.subscriptions = worker[k].subscriptions
        BY <1>1, <4>1 DEF WorkerObject, SameGroup
      <4> QED BY <4>1, <4>2, <4>3
    <3> QED BY <1>3, <3>1, <3>2
  <2> HIDE DEF m
  <2>3. CASE worker' = worker
    BY <1>2, <2>3
  <2>4. ASSUME NEW o \in WorkerObject, o.queue = worker[k].queue, SameGroup(worker[k], o),
               o.subscriptions = worker[k].subscriptions,
               worker' = [worker EXCEPT ![k] = [o EXCEPT !.queue = Push(@, m)]]
        PROVE  Goal(FALSE)
    <3>1. PICK x : x = [o EXCEPT !.queue = Push(@, m)] /\ worker' = [worker EXCEPT ![k] = x]
      BY <2>4
    <3>2. /\ SameGroup(worker[k], x) /\ x.subscriptions = worker[k].subscriptions
          /\ Calm(worker[k].queue, x.queue)
      BY <1>1, <2>1, <2>4, <3>1, QuietPush
    <3>3. n = k => worker'[n] = x
      BY <1>1, <3>1
    <3>4. n # k => worker'[n] = worker[n]
      BY <1>1, <3>1
    <3> QED BY <1>2, <3>2, <3>3, <3>4 DEF Quiet
  <2> QED BY <2>2, <2>3, <2>4
<1>4. ASSUME Pop(k) PROVE Goal(Pop(n))
  <2>1. n # k => worker'[n] = worker[n]
    BY <1>1, <1>4 DEF Pop
  <2>2. n = k => worker'[n].subscriptions = worker[n].subscriptions
    BY SMTT(60), <1>1, <1>4 DEF Pop, WorkerObject
  <2> QED BY <1>2, <1>4, <2>1, <2>2
<1>5. ASSUME NEW timeout \in BOOLEAN, Loop(k, timeout) PROVE Goal(FALSE)
  <2> DEFINE m(action) == Internal(NoName, k, action)
  <2>1. PICK queue, throttled, xoff :
          /\ worker' = [worker EXCEPT ![k].queue = queue, ![k].throttled = throttled,
                                      ![k].xoff = xoff]
          /\ \/ queue = worker[k].queue
             \/ queue = Push(worker[k].queue, m("skal-throttle-on"))
             \/ queue = Push(worker[k].queue, m("skal-throttle-off"))
    BY <1>5 DEF Loop
  <2>2. \A a \in {"skal-throttle-on", "skal-throttle-off"} : m(a) \in Message /\ Neutral(m(a))
    <3>1. \A a \in {"skal-throttle-on", "skal-throttle-off"} : m(a) \in Message
      BY InternalType DEF SkalAction, InternalAction, Thread
    <3> QED BY <3>1 DEF Internal, Neutral, IsSubscription
  <2> HIDE DEF m
  <2>3. Calm(worker[k].queue, queue)
    BY <2>1, <2>2 DEF Calm
  <2>4. n = k => /\ worker'[n].queue = queue /\ SameGroup(worker[n], worker'[n])
                 /\ worker'[n].subscriptions = worker[n].subscriptions
    <3>1. ASSUME n = k
          PROVE  worker'[n] = [worker[n] EXCEPT !.queue = queue, !.throttled = throttled,
                                                !.xoff = xoff]
      BY <1>1, <2>1, <3>1
    <3> QED BY <1>1, <3>1 DEF WorkerObject, SameGroup
  <2>5. n # k => worker'[n] = worker[n]
    BY <1>1, <2>1
  <2> QED BY <1>2, <2>3, <2>4, <2>5 DEF Quiet
<1>6. ASSUME NEW ok \in BOOLEAN, HandlerReturn(k, ok) PROVE Goal(HandlerReturn(n, ok))
  <2>1. worker' = [worker EXCEPT ![k].stop = @ \/ ~ok, ![k].cur = NoMsg]
    BY <1>6 DEF HandlerReturn
  <2>2. n # k => worker'[n] = worker[n]
    BY <1>1, <2>1
  <2>3. worker'[n].subscriptions = worker[n].subscriptions
    BY SMTT(60), <1>1, <2>1 DEF WorkerObject
  <2> QED BY <1>2, <1>6, <2>2, <2>3
<1>7. ASSUME HandlerThrow(k) \/ ExitReturn(k) PROVE Goal(HandlerThrow(n) \/ ExitReturn(n))
  <2>1. \/ worker' = [worker EXCEPT ![k].stop = TRUE]
        \/ worker' = [worker EXCEPT ![k].subscribers = {}]
    BY <1>7 DEF HandlerThrow, Throw, ExitReturn
  <2>2. n # k => worker'[n] = worker[n]
    BY <1>1, <2>1
  <2>3. worker'[n].subscriptions = worker[n].subscriptions
    BY SMTT(60), <1>1, <2>1 DEF WorkerObject
  <2> QED BY <1>2, <1>7, <2>2, <2>3
<1>8. ASSUME GroupProcess(k) PROVE Goal(GroupProcess(n))
  <2>1. PICK subscribers, stop :
          worker' = [worker EXCEPT ![k].subscribers = subscribers, ![k].stop = stop,
                                   ![k].cur = NoMsg]
    BY <1>8 DEF GroupProcess
  <2>2. n # k => worker'[n] = worker[n]
    BY <1>1, <2>1
  <2>3. worker'[n].subscriptions = worker[n].subscriptions
    BY SMTT(60), <1>1, <2>1 DEF WorkerObject
  <2> QED BY <1>2, <1>8, <2>2, <2>3
<1>9. ASSUME After(k) \/ Exit(k) \/ Finish(k) \/ FinishPost(k) PROVE Goal(FALSE)
  BY <1>2, <1>9 DEF After, Exit, Finish, FinishPost
<1>10. ASSUME XonClear(k) PROVE Goal(FALSE)
  <2>1. worker' = [worker EXCEPT ![k].ntf_xon = {}]
    BY <1>10 DEF XonClear
  <2>2. n # k => worker'[n] = worker[n]
    BY <1>1, <2>1
  <2>3. /\ SameGroup(worker[n], worker'[n]) /\ worker'[n].queue = worker[n].queue
        /\ worker'[n].subscriptions = worker[n].subscriptions
    BY SMTT(60), <1>1, <2>1 DEF WorkerObject, SameGroup
  <2> QED BY <2>2, <2>3 DEF Quiet, Calm
<1>11. Goal(\/ Pop(n) \/ GroupProcess(n) \/ ExitReturn(n)
            \/ HandlerThrow(n) \/ \E ok \in BOOLEAN : HandlerReturn(n, ok))
  BY <1>3, <1>4, <1>5, <1>6, <1>7, <1>8, <1>9, <1>10 DEF Running
<1> QED BY <1>11

\* And those of wait(), until it erases the worker.
LEMMA WaitingObject ==
    ASSUME LifecycleInv, Waiting, NEW n \in Name
    PROVE  \/ Quiet(n) /\ (worker'[n] = worker[n] \/ n \in g_workers)
           \/ worker'[n] = NewWorker /\ WaitErase /\ n = Head(g_terminated)
<1>1. worker \in [Name -> WorkerObject] /\ green \subseteq g_workers
  BY DEF LifecycleInv, TypeOK, RegisterInv, NoUseAfterErase
<1>2. ASSUME worker'[n] = worker[n] PROVE Quiet(n)
  BY <1>2 DEF Quiet, SameGroup, Calm
<1>3. CASE WaitErase
  BY <1>1, <1>2, <1>3 DEF WaitErase
<1>4. ASSUME NEW k \in Name, WaitGreen(k)
      PROVE  Quiet(n) /\ (worker'[n] = worker[n] \/ n \in g_workers)
  <2>1. worker' = [worker EXCEPT ![k].semaphore = SemPost(@)] /\ k \in g_workers
    BY <1>1, <1>4 DEF WaitGreen
  <2>2. n # k => worker'[n] = worker[n]
    BY <1>1, <2>1
  <2>3. /\ SameGroup(worker[n], worker'[n]) /\ worker'[n].queue = worker[n].queue
        /\ worker'[n].subscriptions = worker[n].subscriptions
    BY SMTT(60), <1>1, <2>1 DEF WorkerObject, SameGroup
  <2> QED BY <2>1, <2>2, <2>3 DEF Quiet, Calm
<1>5. CASE WaitStart \/ WaitGreenDone \/ WaitTake \/ WaitLock \/ WaitCheck \/ WaitReset
  BY <1>2, <1>5 DEF WaitStart, WaitGreenDone, WaitTake, WaitLock, WaitCheck, WaitReset
<1> QED BY <1>3, <1>4, <1>5 DEF Waiting

-------------------------------------------------------------------------------
(* What is sent *)

\* The object of a worker is first used when the worker is registered, and is
\* as good as new when it is erased.
LEMMA NoObjectStep ==
    ASSUME LifecycleInv, SendsInOrder, NoObject, Next
    PROVE  NoObject'
<1> SUFFICES ASSUME NEW n \in Name, n \notin g_workers' PROVE worker'[n] = NewWorker
  BY DEF NoObject
<1>1. /\ worker \in [Name -> WorkerObject] /\ g_workers \in SUBSET Name
      /\ n \notin g_workers => worker[n] = NewWorker
  BY DEF LifecycleInv, TypeOK, NoObject
<1>2. ASSUME NEW t \in Thread, Sending(t) PROVE n \notin g_workers /\ worker'[n] = worker[n]
  <2>0. pc[t] \in CallPc /\ g_workers \subseteq g_workers'
    BY <1>2 DEF Sending, PostDrop, PostDeliver, PostFull, PostPush, PostXoff,
       PostNewGroupThrows, PostNewGroup, PostEmplace, Posting, Emplace, CallPc
  <2>1. n \notin g_workers /\ n # t
    BY <2>0, Registered DEF CallPc
  <2>2. ASSUME NEW m, NEW R, n \notin R PROVE Recorded(m, R)[n] = worker[n]
    BY <1>1, <2>2 DEF Recorded
  <2>3. ASSUME NEW m \in todo[t], PostDrop(t, m) \/ PostNewGroup(t, m) \/ PostFull(t, m)
        PROVE  worker'[n] = worker[n]
    <3>1. worker' = worker \/ worker' = Recorded(m, g_workers)
      BY <2>3 DEF PostDrop, PostNewGroup, PostFull
    <3>2. Recorded(m, g_workers)[n] = worker[n]
      BY <2>1, <2>2
    <3> QED BY <3>1, <3>2
  <2>4. ASSUME NEW m \in todo[t], PostDeliver(t, m) PROVE worker'[n] = worker[n]
    <3>1. PICK v : /\ v = Recorded(m, g_workers)
                   /\ worker' = [v EXCEPT ![m.to].queue = Push(@, m)] /\ m.to \in g_workers
      BY <2>4 DEF PostDeliver
    <3>2. m \in Message
      BY <2>4, HandedOver DEF PostDeliver, Posting
    <3>3. v \in [Name -> WorkerObject] /\ v[n] = worker[n]
      BY <1>1, <2>1, <2>2, <3>1, <3>2, RecordedType
    <3> QED BY <2>1, <3>1, <3>3
  <2>5. ASSUME NEW m \in todo[t], PostNewGroupThrows(t, m) PROVE worker'[n] = worker[n]
    BY <1>1, <2>1, <2>5 DEF PostNewGroupThrows, Throw
  <2>6. ASSUME PostPush(t) PROVE worker'[n] = worker[n]
    <3>1. PICK m : m = out[t] /\ worker' = [worker EXCEPT ![m.to].queue = Push(@, m)]
      BY <2>6 DEF PostPush
    <3>2. m.to \in g_workers
      BY <2>6, <3>1, HandedOver DEF PostPush
    <3> QED BY <1>1, <2>1, <3>1, <3>2
  <2>7. ASSUME PostEmplace(t) PROVE worker'[n] = worker[n]
    <3>1. PICK m, R, v : /\ m = out[t] /\ R = g_workers' /\ v = Recorded(m, R)
                         /\ worker' = [v EXCEPT ![m.to].queue = Push(@, m)]
                         /\ R = g_workers \cup {m.to}
      BY <2>7 DEF PostEmplace, Emplace
    <3>2. m \in Message /\ m.to \in Name
      BY <2>7, <3>1, HandedOver DEF PostEmplace
    <3>3. R \in SUBSET Name /\ n \notin R /\ n # m.to
      BY <1>1, <3>1, <3>2
    <3>4. v \in [Name -> WorkerObject] /\ v[n] = worker[n]
      BY <1>1, <2>2, <3>1, <3>2, <3>3, RecordedType
    <3> QED BY <3>1, <3>3, <3>4
  <2>8. ASSUME PostXoff(t) PROVE worker'[n] = worker[n]
    <3>1. PICK m, x, noted :
          /\ m = out[t] /\ x = Internal(m.to, m.from, "skal-xoff")
          /\ noted = [worker EXCEPT ![m.to].ntf_xon = @ \cup {m.from}]
          /\ worker' = IF m.from \in g_workers THEN [noted EXCEPT ![m.from].queue = Push(@, x)]
                                               ELSE noted
      BY <2>8 DEF PostXoff, XoffTold
    <3>2. m.to \in g_workers
      BY <2>8, <3>1, HandedOver DEF PostXoff
    <3>3. DOMAIN noted = Name /\ noted[n] = worker[n]
      BY <1>1, <2>1, <3>1, <3>2
    <3> QED BY <2>1, <3>1, <3>3
  <2> QED BY <1>2, <2>1, <2>3, <2>4, <2>5, <2>6, <2>7, <2>8 DEF Sending
<1>3. ASSUME NEW t \in Thread, Calling(t) PROVE n \notin g_workers /\ worker'[n] = worker[n]
  <2>1. CASE CallSend(t) \/ CallCreate(t) \/ \E k \in Name : CreateEmplace(t, k)
    BY <2>1 DEF CallSend, CallCreate, CreateEmplace, Emplace
  <2>2. CASE CallTerminate(t)
    BY <2>2 DEF CallTerminate
  <2>3. CASE CallCreateThrows(t)
    <3>1. t \in Name => t \in g_workers
      BY <2>3, CallPlace DEF CallCreateThrows
    <3> QED BY <1>1, <2>3, <3>1 DEF CallCreateThrows, Throw
  <2> QED BY <1>3, <2>1, <2>2, <2>3 DEF Calling
<1>4. ASSUME NEW k \in Name, Running(k) PROVE n \notin g_workers /\ worker'[n] = worker[n]
  <2>1. g_workers' = g_workers
    BY <1>4 DEF Running, Entry, TakeGreenLight, Loop, Pop, HandlerReturn, HandlerThrow,
       GroupProcess, After, XonClear, Exit, ExitReturn, Finish, FinishPost
  <2>2. pc[k] # "none" /\ (pc[k] = "entry" => Unlocked)
    BY <1>4 DEF Running, Entry, MayEnter, TakeGreenLight, Loop, Pop, HandlerReturn,
       HandlerThrow, GroupProcess, After, XonClear, Exit, ExitReturn, Finish, MayFinish,
       FinishPost
  <2>3. n # k
    BY <2>1, <2>2, Registered
  <2> QED BY <1>4, <2>1, <2>3, RunningObject
<1>5. ASSUME Waiting PROVE worker'[n] = NewWorker
  <2>1. ASSUME WaitErase PROVE worker'[n] = NewWorker
    BY <1>1, <2>1 DEF WaitErase
  <2>2. ASSUME ~WaitErase PROVE worker'[n] = NewWorker
    <3>1. g_workers' = g_workers
      BY <1>5, <2>2 DEF Waiting, WaitStart, WaitGreen, WaitGreenDone, WaitTake, WaitLock,
         WaitCheck, WaitReset
    <3> QED BY <1>1, <1>5, <2>2, <3>1, WaitingObject
  <2> QED BY <2>1, <2>2
<1>6. ASSUME Finished PROVE worker'[n] = NewWorker
  BY <1>1, <1>6 DEF Finished, vars
<1> QED BY <1>1, <1>2, <1>3, <1>4, <1>5, <1>6 DEF Next

\* The messages a thread has in its hands stay in order if no more than messages
\* that are no subscriptions come to them.
LEMMA HandsStep ==
    ASSUME SendsInOrder,
           \A t \in Thread : pc'[t] \in SendPc =>
             /\ pc[t] \in SendPc /\ ret'[t] = ret[t]
             /\ \A m \in InHand(t)' : m \in InHand(t) \/ ~IsSubscription(m)
    PROVE  SendsInOrder'
<1> SUFFICES ASSUME NEW t \in Thread, pc'[t] \in SendPc, NEW m \in InHand(t)'
             PROVE  InOrder(t, m)'
  BY DEF SendsInOrder
<1>1. ret'[t] = ret[t] /\ pc[t] \in SendPc /\ (m \in InHand(t) \/ ~IsSubscription(m))
  OBVIOUS
<1>2. InOrder(t, m) => InOrder(t, m)'
  BY <1>1 DEF InOrder
<1>3. ~IsSubscription(m) => InOrder(t, m)'
  BY DEF InOrder, Neutral
<1> QED BY <1>1, <1>2, <1>3 DEF SendsInOrder

\* A thread that begins to send ms.
LEMMA HandsBegin ==
    ASSUME LifecycleInv, SendsInOrder, NEW t \in Thread, NEW ms, NEW r, BeginSend(t, ms, r),
           UNCHANGED out, r \notin SendPc, \A m \in ms : InOrder(t, m)'
    PROVE  SendsInOrder'
<1>1. /\ pc \in [Thread -> WorkerPc \cup CallPc \cup WaitPc \cup {"user"}]
      /\ todo \in [Thread -> SUBSET Message]
      /\ ret \in [Thread -> {"none", "user"} \cup RetPc]
  BY DEF LifecycleInv, TypeOK
<1>2. ASSUME NEW s \in Thread, s # t, pc'[s] \in SendPc, NEW m \in InHand(s)'
      PROVE  InOrder(s, m)'
  <2>1. pc'[s] = pc[s] /\ todo'[s] = todo[s] /\ ret'[s] = ret[s] /\ out'[s] = out[s]
    BY <1>1, <1>2 DEF BeginSend
  <2>2. InOrder(s, m)
    BY <1>2, <2>1 DEF SendsInOrder, InHand
  <2> QED BY <2>1, <2>2 DEF InOrder
<1>3. ASSUME pc'[t] \in SendPc, NEW m \in InHand(t)' PROVE InOrder(t, m)'
  <2>1. pc'[t] = "send" /\ todo'[t] = ms
    BY <1>1, <1>3 DEF BeginSend
  <2> QED BY <1>3, <2>1 DEF InHand
<1> QED BY <1>2, <1>3 DEF SendsInOrder

\* A subscription that an orderly application sends is a regular message in its
\* own name, and not one of its last words.
LEMMA CallOrder ==
    ASSUME LifecycleInv, OrderlySubscriptions, NEW t \in Thread, CallSend(t), NEW m,
           m = NextCall(t).msg
    PROVE  InOrder(t, m)'
<1>1. /\ MayCall(t, "send") /\ ret' = [ret EXCEPT ![t] = pc[t]]
  BY DEF CallSend, BeginSend
<1>2. PICK c : c = NextCall(t)
  OBVIOUS
<1>3. c \in Call /\ MayBeMadeBy(t, c) /\ c.call = "send"
  BY <1>1, <1>2, NextCallType DEF LifecycleInv
<1>4. /\ m = c.msg /\ m \in Message /\ m.from \in {t, NoName} /\ ~m.internal
      /\ m.action = "skal-unsubscribe" => m.from = t
  BY SMTT(60), <1>2, <1>3 DEF Call, MayBeMadeBy
<1>5. ret'[t] = pc[t]
  BY <1>1 DEF LifecycleInv, TypeOK
<1>6. CASE t \notin Client
  <2>1. m.from \notin Client
    BY <1>4, <1>6, NamesAssumption DEF Thread, Name
  <2> QED BY <1>6, <2>1 DEF InOrder, Neutral
<1>7. CASE t \in Client /\ IsSubscription(m)
  <2>1. m.from = t
    BY <1>4, <1>7, MessageType, NamesAssumption DEF IsSubscription
  <2>2. pc[t] \in {"handler", "exit_handler"}
    BY <1>1, <1>7, NamesAssumption DEF MayCall, LifecycleInv, InsideCalls, WorkerPc, CallPc, Name
  <2>3. PICK i : i \in DOMAIN Calls(t) /\ c = Calls(t)[i]
    <3>1. Calls(t) \in Seq(Call)
      BY ScriptAssumption DEF Calls
    <3> QED BY SMTT(60), <1>1, <1>2, <3>1 DEF MayCall, LifecycleInv, TypeOK, NextCall
  <2>4. ~m.urgent /\ (pc[t] = "exit_handler" => m.action # "skal-subscribe")
    BY <1>3, <1>4, <1>7, <2>3 DEF OrderlySubscriptions, Calls
  <2>5. m.action = "skal-subscribe" => ret'[t] = "handler"
    BY <1>5, <2>2, <2>4
  <2> QED BY <1>4, <1>7, <2>1, <2>4, <2>5 DEF InOrder
<1>8. CASE t \in Client /\ ~IsSubscription(m)
  BY <1>8 DEF InOrder, Neutral
<1> QED BY <1>6, <1>7, <1>8

\* Whatever a thread sends is in order.
LEMMA SendsStep ==
    ASSUME LifecycleInv, SendsInOrder, OrderlySubscriptions, Next
    PROVE  SendsInOrder'
<1> USE DEF SendPc
<1>1. /\ pc \in [Thread -> WorkerPc \cup CallPc \cup WaitPc \cup {"user"}]
      /\ todo \in [Thread -> SUBSET Message]
      /\ ret \in [Thread -> {"none", "user"} \cup RetPc]
      /\ out \in [Thread -> Message \cup {NoMsg}]
      /\ Name \subseteq Thread /\ Main \in Thread
  BY NamesAssumption DEF LifecycleInv, TypeOK, Thread
<1>2. \A t \in Thread : ret[t] \notin SendPc
  BY <1>1 DEF RetPc
<1>3. ASSUME UNCHANGED <<todo, out>>,
             \A t \in Thread : pc'[t] \in SendPc => pc'[t] = pc[t] /\ ret'[t] = ret[t]
      PROVE  SendsInOrder'
  BY <1>3, HandsStep DEF InHand
<1>4. ASSUME NEW t \in Thread, Sending(t) PROVE SendsInOrder'
  <2>0. \A s \in Thread : ret'[s] = ret[s]
    BY <1>4 DEF Sending, PostDrop, PostDeliver, PostFull, PostPush, PostXoff,
       PostNewGroupThrows, PostNewGroup, PostEmplace
  <2>1. ASSUME NEW m \in todo[t], PostDrop(t, m) \/ PostDeliver(t, m) PROVE SendsInOrder'
    <3>1. /\ pc[t] = "send" /\ todo' = [todo EXCEPT ![t] = @ \ {m}] /\ out' = out
          /\ pc' = [pc EXCEPT ![t] = Return(t, todo[t] \ {m})]
      BY <2>1 DEF PostDrop, PostDeliver, Posting
    <3> QED BY <1>1, <1>2, <2>0, <3>1, HandsStep DEF Return, InHand
  <2>2. ASSUME NEW m \in todo[t], PostNewGroupThrows(t, m) PROVE SendsInOrder'
    <3>1. PICK q : /\ pc[t] = "send" /\ todo' = [todo EXCEPT ![t] = @ \ {m}] /\ out' = out
                   /\ pc' = [pc EXCEPT ![t] = q] /\ q \in {"user", "after", "finish"}
      BY <2>2 DEF PostNewGroupThrows, Posting, Throw
    <3> QED BY <1>1, <2>0, <3>1, HandsStep DEF InHand
  <2>3. ASSUME NEW m \in todo[t], PostFull(t, m) PROVE SendsInOrder'
    <3>1. /\ pc[t] = "send" /\ todo' = [todo EXCEPT ![t] = @ \ {m}]
          /\ out' = [out EXCEPT ![t] = m] /\ pc' = [pc EXCEPT ![t] = "post_push"]
      BY <2>3 DEF PostFull, Posting
    <3> QED BY <1>1, <2>0, <3>1, HandsStep DEF InHand
  <2>4. ASSUME NEW m \in todo[t], PostNewGroup(t, m) PROVE SendsInOrder'
    <3>1. /\ pc[t] = "send" /\ todo' = [todo EXCEPT ![t] = @ \ {m}]
          /\ out' = [out EXCEPT ![t] = m]
          /\ pc' = [pc EXCEPT ![t] = "post_emplace", ![m.to] = "entry"]
      BY <2>4 DEF PostNewGroup, Posting
    <3> QED BY <1>1, <2>0, <3>1, HandsStep DEF InHand
  <2>5. ASSUME PostPush(t) PROVE SendsInOrder'
    <3>1. /\ pc[t] = "post_push" /\ pc' = [pc EXCEPT ![t] = "post_xoff"]
          /\ todo' = todo /\ out' = out
      BY <2>5 DEF PostPush
    <3> QED BY <1>1, <2>0, <3>1, HandsStep DEF InHand
  <2>6. ASSUME PostEmplace(t) PROVE SendsInOrder'
    <3>1. /\ pc[t] = "post_emplace" /\ pc' = [pc EXCEPT ![t] = Return(t, todo[t])]
          /\ todo' = todo /\ out' = [out EXCEPT ![t] = NoMsg]
      BY <2>6 DEF PostEmplace
    <3> QED BY <1>1, <1>2, <2>0, <3>1, HandsStep DEF InHand, Return
  <2>7. ASSUME PostXoff(t) PROVE SendsInOrder'
    <3>1. PICK k, x : /\ pc[t] = "post_xoff" /\ pc' = [pc EXCEPT ![t] = Return(t, todo[t])]
                      /\ todo' = todo \/ todo' = [todo EXCEPT ![k] = @ \cup {x}]
                      /\ x = Internal(out[t].to, out[t].from, "skal-xon")
                      /\ out' = [out EXCEPT ![t] = NoMsg]
      BY <2>7 DEF PostXoff
    <3>2. ~IsSubscription(x)
      BY <3>1 DEF Internal, IsSubscription
    <3>3. \A s \in Thread : todo'[s] \subseteq todo[s] \cup {x}
      BY <1>1, <3>1
    <3> QED BY <1>1, <1>2, <2>0, <3>1, <3>2, <3>3, HandsStep DEF InHand, Return
  <2> QED BY <1>4, <2>1, <2>2, <2>3, <2>4, <2>5, <2>6, <2>7 DEF Sending
<1>5. ASSUME NEW t \in Thread, Calling(t) PROVE SendsInOrder'
  <2>1. CASE CallSend(t)
    <3>1. PICK m, ms, r : /\ m = NextCall(t).msg /\ ms = {m} /\ r = pc[t]
                          /\ BeginSend(t, ms, r) /\ UNCHANGED out /\ r \notin SendPc
      BY <2>1 DEF CallSend, MayCall
    <3>2. InOrder(t, m)'
      BY <2>1, <3>1, CallOrder
    <3>3. \A x \in ms : InOrder(t, x)'
      BY <3>1, <3>2
    <3>4. BeginSend(t, ms, r) /\ UNCHANGED out /\ r \notin SendPc
      BY <3>1
    <3> QED BY <3>3, <3>4, HandsBegin
  <2>2. CASE CallCreateThrows(t)
    <3>1. PICK q : /\ todo' = todo /\ out' = out /\ ret' = ret
                   /\ pc' = [pc EXCEPT ![t] = q] /\ q \in {"user", "after", "finish"}
      BY <2>2 DEF CallCreateThrows, Throw
    <3> QED BY <1>1, <1>3, <3>1
  <2>3. CASE CallCreate(t)
    <3>1. PICK k : /\ todo' = todo /\ out' = out /\ ret' = [ret EXCEPT ![t] = pc[t]]
                   /\ pc' = [pc EXCEPT ![t] = "create_emplace", ![k] = "entry"]
      BY <2>3 DEF CallCreate
    <3> QED BY <1>1, <1>3, <3>1
  <2>4. CASE \E k \in Name : CreateEmplace(t, k)
    BY <1>1, <1>2, <1>3, <2>4 DEF CreateEmplace
  <2>5. CASE CallTerminate(t)
    BY <1>3, <2>5 DEF CallTerminate
  <2> QED BY <1>5, <2>1, <2>2, <2>3, <2>4, <2>5 DEF Calling
<1>6. ASSUME NEW n \in Name, Running(n) PROVE SendsInOrder'
  <2>0. n \in Thread
    BY <1>1
  <2>1. CASE GroupProcess(n)
    <3>1. worker[n].cur \in Message /\ n \in Group /\ n \notin Client
      BY <2>1, NamesAssumption DEF GroupProcess, LifecycleInv, InsideCalls
    <3>0. PICK ms : ms = GroupCopies(n, worker[n].cur) /\ BeginSend(n, ms, "after")
      BY <2>1 DEF GroupProcess
    <3>2. ASSUME NEW m \in ms PROVE InOrder(n, m)'
      <4>1. PICK s : /\ m = [worker[n].cur EXCEPT !.from = n, !.to = s[1], !.filter = s[2]]
                     /\ worker[n].cur.action \notin SkalAction
        BY <3>0 DEF GroupCopies
      <4>2. m.action \notin SkalAction
        BY <3>1, <4>1 DEF Message
      <4> QED BY <4>2 DEF InOrder, Neutral, IsSubscription, SkalAction
    <3>3. UNCHANGED out
      BY <2>1 DEF GroupProcess
    <3>4. \A m \in ms : InOrder(n, m)'
      BY <3>2
    <3>5. BeginSend(n, ms, "after") /\ "after" \notin SendPc
      BY <3>0
    <3> QED BY <2>0, <3>3, <3>4, <3>5, HandsBegin
  <2>2. CASE After(n)
    <3>0. PICK ms : ms = {Internal(n, s, "skal-xon") : s \in worker[n].ntf_xon}
      OBVIOUS
    <3>1. \/ UNCHANGED <<todo, out, ret>> /\ pc' = [pc EXCEPT ![n] = "loop"]
          \/ UNCHANGED out /\ BeginSend(n, ms, "xon_clear")
      BY <2>2, <3>0 DEF After
    <3>2. ASSUME NEW m \in ms PROVE InOrder(n, m)'
      <4>1. PICK s : m = Internal(n, s, "skal-xon")
        BY <3>0
      <4> QED BY <4>1 DEF InOrder, Neutral, IsSubscription, Internal
    <3> QED BY <1>1, <1>3, <2>0, <3>1, <3>2, HandsBegin
  <2>3. CASE Exit(n)
    <3>1. UNCHANGED out /\ BeginSend(n, Unsubscribes(n), "exit_handler")
      BY <2>3 DEF Exit
    <3>2. ASSUME NEW m \in Unsubscribes(n) PROVE InOrder(n, m)'
      <4>1. PICK to : m = Regular(n, to, "skal-unsubscribe")
        BY DEF Unsubscribes
      <4>2. /\ m.from = n /\ ~m.urgent /\ ~m.internal /\ m.action = "skal-unsubscribe"
        BY <4>1 DEF Regular, Internal
      <4> QED BY <4>2 DEF InOrder, Neutral
    <3> QED BY <2>0, <3>1, <3>2, HandsBegin
  <2>4. CASE ~(GroupProcess(n) \/ After(n) \/ Exit(n))
    <3> DEFINE Outside == \A s \in Thread : pc'[s] \in SendPc => pc'[s] = pc[s]
    <3>1. UNCHANGED <<todo, out, ret>>
      BY <1>6, <2>4 DEF Running, Entry, TakeGreenLight, Loop, Pop, HandlerReturn,
         HandlerThrow, XonClear, ExitReturn, Finish, FinishPost
    <3>2. ASSUME Entry(n) \/ TakeGreenLight(n) \/ HandlerThrow(n) PROVE Outside
      BY <1>1, <3>2 DEF Entry, TakeGreenLight, BeginRun, HandlerThrow, Throw
    <3>3. ASSUME XonClear(n) \/ ExitReturn(n) \/ Finish(n) \/ FinishPost(n) PROVE Outside
      BY <1>1, <3>3 DEF XonClear, ExitReturn, Finish, FinishPost
    <3>4. ASSUME Pop(n) \/ \E ok \in BOOLEAN : HandlerReturn(n, ok) PROVE Outside
      <4>1. pc' = [pc EXCEPT ![n] = "handler"] \/ pc' = [pc EXCEPT ![n] = "after"]
        BY <3>4 DEF Pop, HandlerReturn
      <4> QED BY <1>1, <4>1
    <3>5. ASSUME NEW timeout \in BOOLEAN, Loop(n, timeout) PROVE Outside
      <4>1. pc' = [pc EXCEPT ![n] = IF Paused(n, timeout) THEN "pop_internal" ELSE "pop"]
        BY <3>5 DEF Loop
      <4> QED BY <1>1, <4>1
    <3>6. Outside
      BY <1>6, <2>4, <3>2, <3>3, <3>4, <3>5 DEF Running
    <3> QED BY <1>3, <3>1, <3>6
  <2> QED BY <2>1, <2>2, <2>3, <2>4
<1>7. CASE Waiting
  <2>1. UNCHANGED <<todo, out>>
    BY <1>7 DEF Waiting, WaitStart, WaitGreen, WaitGreenDone, WaitTake, WaitLock, WaitErase,
       WaitCheck, WaitReset
  <2>2. \/ /\ UNCHANGED ret
           /\ \/ UNCHANGED pc
              \/ \E q : pc' = [pc EXCEPT ![Main] = q] /\ q \notin SendPc
        \/ \E n : ret' = [ret EXCEPT ![n] = "none"] /\ pc' = [pc EXCEPT ![n] = "none"]
    BY <1>7 DEF Waiting, WaitStart, WaitGreen, WaitGreenDone, WaitTake, WaitLock, WaitErase,
       WaitCheck, WaitReset
  <2> QED BY <1>1, <1>3, <2>1, <2>2
<1>8. CASE Finished
  BY <1>3, <1>8 DEF Finished, vars
<1> QED BY <1>4, <1>5, <1>6, <1>7, <1>8 DEF Next

-------------------------------------------------------------------------------
(* Groups *)

\* The thread of g neither leaves process_msg nor comes to its loop, unless it
\* goes on with it.
PlaceKept(g) ==
    /\ pc'[g] \in LoopPc => pc[g] \in LoopPc \/ ~worker[g].stop
    /\ pc[g] = "handler" => pc'[g] = "handler"

\* A step that does nothing to group g but push a message or stop it.
Undisturbed(g) ==
    /\ worker'[g].cur = worker[g].cur
    /\ SameGroup(worker[g], worker'[g]) \/ (worker'[g].stop /\ pc'[g] \notin LoopPc)
    /\ \/ Calm(worker[g].queue, worker'[g].queue)
       \/ \E t \in Thread, m \in Message : /\ Delivers(t, m) /\ m.to = g /\ InOrder(t, m)
                                           /\ worker'[g].queue = Push(worker[g].queue, m)
    /\ PlaceKept(g)

\* A group makes no calls.
LEMMA GroupsCallNothing ==
    ASSUME LifecycleInv, NEW g \in Group
    PROVE  \A call : ~MayCall(g, call)
<1>1. Script[g] = << >> /\ ExitScript[g] = << >>
  BY ScriptAssumption
<1>2. Calls(g) = << >> /\ called[g] \in Nat
  BY <1>1 DEF Calls, LifecycleInv, TypeOK, Thread, Name
<1> QED BY SMTT(60), <1>2 DEF MayCall

\* What the steps do to a group.
LEMMA GroupEffect ==
    ASSUME LifecycleInv, NoObject, SendsInOrder, Next, NEW g \in Group
    PROVE  Undisturbed(g) \/ Pop(g) \/ GroupProcess(g) \/ ExitReturn(g) \/ worker'[g] = NewWorker
<1> USE DEF LoopPc, PlaceKept
<1>1. /\ pc \in [Thread -> WorkerPc \cup CallPc \cup WaitPc \cup {"user"}]
      /\ g \in Name /\ g \in Thread /\ g # Main /\ Main \in Thread
      /\ g \notin Client /\ worker \in [Name -> WorkerObject]
  BY NamesAssumption DEF LifecycleInv, TypeOK, Thread, Name
<1>2. ASSUME NEW t \in Thread, pc[t] \in CallPc
      PROVE  t = g => pc[g] \notin LoopPc /\ pc[g] # "handler" /\ ret[g] \notin LoopPc
  <2>1. t = g => ret[g] \in RetPc
    BY <1>1, <1>2, NamesAssumption DEF LifecycleInv, InsideCalls, Thread
  <2> QED BY <1>2, <2>1 DEF CallPc, RetPc
<1>3. ASSUME Quiet(g), PlaceKept(g) PROVE Undisturbed(g)
  BY <1>3 DEF Quiet, SameGroup, Undisturbed
<1>4. ASSUME NEW t \in Thread, Sending(t) PROVE Undisturbed(g) \/ worker'[g] = NewWorker
  <2>1a. \/ SameGroup(worker[g], worker'[g])
         \/ /\ g = t /\ pc'[g] \in {"after", "finish"} /\ worker'[g].stop
            /\ worker'[g].cur = worker[g].cur
    BY <1>1, <1>4, SendingObject
  <2>1b. \/ Calm(worker[g].queue, worker'[g].queue)
         \/ \E m \in Message : /\ Delivers(t, m) /\ m.to = g /\ InOrder(t, m)
                               /\ worker'[g].queue = Push(worker[g].queue, m)
    BY SMTT(60), <1>1, <1>4, SendingObject
  <2>2. ASSUME PlaceKept(g) PROVE Undisturbed(g)
    BY <2>1a, <2>1b, <2>2 DEF Undisturbed, SameGroup
  <2>3. pc[t] \in CallPc
    BY <1>4 DEF Sending, PostDrop, PostDeliver, PostFull, PostPush, PostXoff,
       PostNewGroupThrows, PostNewGroup, PostEmplace, Posting, CallPc
  <2>4. ASSUME NEW q, pc' = [pc EXCEPT ![t] = q], q \notin LoopPc \/ q = ret[t] PROVE PlaceKept(g)
    BY <1>1, <1>2, <2>3, <2>4
  <2>5. ASSUME NEW m \in todo[t], PostDrop(t, m) \/ PostDeliver(t, m) PROVE PlaceKept(g)
    BY <2>4, <2>5 DEF PostDrop, PostDeliver, Return
  <2>6. ASSUME NEW m \in todo[t], PostFull(t, m) \/ PostNewGroupThrows(t, m) PROVE PlaceKept(g)
    <3>1. \E q \in {"post_push", "user", "after", "finish"} : pc' = [pc EXCEPT ![t] = q]
      BY <2>6 DEF PostFull, PostNewGroupThrows, Throw
    <3> QED BY <2>4, <3>1
  <2>7. ASSUME PostPush(t) \/ PostXoff(t) \/ PostEmplace(t) PROVE PlaceKept(g)
    <3>1. \E q : pc' = [pc EXCEPT ![t] = q] /\ q \in {"post_xoff", "send", ret[t]}
      BY <2>7 DEF PostPush, PostXoff, PostEmplace, Return
    <3> QED BY <2>4, <3>1
  <2>8. ASSUME NEW m \in todo[t], PostNewGroup(t, m) PROVE PlaceKept(g) \/ worker'[g] = NewWorker
    <3>1. /\ pc' = [pc EXCEPT ![t] = "post_emplace", ![m.to] = "entry"]
          /\ worker' = worker /\ m.to \notin g_workers
      BY <2>8 DEF PostNewGroup
    <3>2. CASE g = m.to
      BY <1>1, <3>1, <3>2 DEF NoObject
    <3>3. CASE g # m.to
      BY <1>1, <1>2, <2>3, <3>1, <3>3
    <3> QED BY <3>2, <3>3
  <2> QED BY <1>4, <2>2, <2>5, <2>6, <2>7, <2>8 DEF Sending
<1>5. ASSUME NEW t \in Thread, Calling(t) PROVE Undisturbed(g)
  <2>1. CASE t = g
    <3>1. PICK k \in Name : CreateEmplace(t, k)
      BY <1>5, <2>1, GroupsCallNothing
         DEF Calling, CallSend, CallCreateThrows, CallCreate, CallTerminate
    <3>2. pc[t] = "create_emplace" /\ pc' = [pc EXCEPT ![t] = ret[t]] /\ worker' = worker
      BY <3>1 DEF CreateEmplace
    <3>3. PlaceKept(g)
      BY <1>1, <1>2, <2>1, <3>2 DEF CallPc
    <3>4. Quiet(g)
      BY <3>2 DEF Quiet, SameGroup, Calm
    <3> QED BY <1>3, <3>3, <3>4
  <2>2. CASE t # g
    <3>1. Quiet(g)
      BY <1>1, <1>5, <2>2, CallingObject
    <3>2. pc'[g] = pc[g]
      <4>1. CASE CallSend(t) \/ CallCreateThrows(t) \/ CallTerminate(t)
                 \/ \E k \in Name : CreateEmplace(t, k)
        BY <1>1, <2>2, <4>1 DEF CallSend, BeginSend, CallCreateThrows, Throw, CallTerminate,
           CreateEmplace
      <4>2. CASE CallCreate(t)
        <5>1. NextCall(t) \in Call /\ NextCall(t).call = "create"
          BY <4>2, NextCallType DEF CallCreate, LifecycleInv
        <5>2. NextCall(t).name \in Client
          BY SMTT(60), <5>1 DEF Call
        <5> QED BY <1>1, <2>2, <4>2, <5>2 DEF CallCreate
      <4> QED BY <1>5, <4>1, <4>2 DEF Calling
    <3> QED BY <1>3, <3>1, <3>2
  <2> QED BY <2>1, <2>2
<1>6. ASSUME NEW k \in Name, Running(k)
      PROVE  Undisturbed(g) \/ Pop(g) \/ GroupProcess(g) \/ ExitReturn(g)
  <2>1. ~HandlerThrow(g) /\ ~\E ok \in BOOLEAN : HandlerReturn(g, ok)
    BY <1>1, ParamsAssumption DEF HandlerThrow, HandlerReturn
  <2>2. \/ Quiet(g) \/ Pop(g) \/ GroupProcess(g) \/ ExitReturn(g)
    BY <1>1, <1>6, <2>1, RunningObject
  <2>3. CASE k # g
    <3>1. pc'[g] = pc[g]
      <4>1. \E q : pc' = [pc EXCEPT ![k] = q]
        BY <1>6 DEF Running, Entry, TakeGreenLight, BeginRun, Loop, Pop, HandlerReturn,
           HandlerThrow, Throw, GroupProcess, After, XonClear, Exit, BeginSend, ExitReturn, Finish,
           FinishPost
      <4> QED BY <1>1, <2>3, <4>1
    <3>2. Quiet(g)
      BY <1>1, <1>6, <2>3, RunningObject
    <3> QED BY <1>3, <3>1, <3>2
  <2>4. CASE k = g /\ ~(Pop(g) \/ GroupProcess(g) \/ ExitReturn(g))
    <3>1. ASSUME Entry(g) \/ TakeGreenLight(g) \/ Exit(g) \/ Finish(g) \/ FinishPost(g)
          PROVE  PlaceKept(g)
      BY <1>1, <3>1 DEF Entry, MayEnter, TakeGreenLight, BeginRun, Exit, BeginSend, Finish,
         MayFinish, FinishPost
    <3>2. ASSUME After(g) \/ XonClear(g) PROVE PlaceKept(g)
      BY <1>1, <3>2 DEF After, BeginSend, XonClear
    <3>3. ASSUME NEW timeout \in BOOLEAN, Loop(g, timeout) PROVE PlaceKept(g)
      <4>1. pc[g] = "loop"
        BY <3>3 DEF Loop
      <4> QED BY <4>1
    <3>4. PlaceKept(g)
      BY <1>6, <2>1, <2>4, <3>1, <3>2, <3>3 DEF Running
    <3> QED BY <1>3, <2>2, <2>4, <3>4
  <2> QED BY <2>3, <2>4
<1>7. ASSUME Waiting PROVE Undisturbed(g) \/ worker'[g] = NewWorker
  <2>1. ASSUME worker'[g] # NewWorker PROVE Quiet(g)
    BY <1>1, <1>7, <2>1, WaitingObject
  <2>2. ASSUME ~WaitErase PROVE pc'[g] = pc[g]
    BY <1>1, <1>7, <2>2 DEF Waiting, WaitStart, WaitGreen, WaitGreenDone, WaitTake, WaitLock,
       WaitCheck, WaitReset
  <2>3. ASSUME WaitErase, worker'[g] # NewWorker PROVE pc'[g] = pc[g]
    BY <1>1, <2>3 DEF WaitErase
  <2> QED BY <1>3, <2>1, <2>2, <2>3
<1>8. ASSUME Finished PROVE Undisturbed(g)
  BY <1>3, <1>8 DEF Finished, vars, Quiet, SameGroup, Calm
<1> QED BY <1>4, <1>5, <1>6, <1>7, <1>8 DEF Next

\* A list of messages that is no subscription of a client stays one.
LEMMA NeutralList ==
    ASSUME NEW s \in Seq(Message), \A i \in DOMAIN s : Neutral(s[i])
    PROVE  /\ \A m \in Message : Neutral(m) =>
                \A i \in DOMAIN Append(s, m) : Neutral(Append(s, m)[i])
           /\ s # << >> => \A i \in DOMAIN Tail(s) : Neutral(Tail(s)[i])
<1>1. ASSUME NEW m \in Message, Neutral(m), NEW i \in DOMAIN Append(s, m)
      PROVE  Neutral(Append(s, m)[i])
  <2>1. Append(s, m)[i] = m \/ (i \in DOMAIN s /\ Append(s, m)[i] = s[i])
    BY SMTT(60), <1>1
  <2> QED BY <1>1, <2>1
<1>2. ASSUME s # << >>, NEW i \in DOMAIN Tail(s) PROVE Neutral(Tail(s)[i])
  <2>1. i + 1 \in DOMAIN s /\ Tail(s)[i] = s[i + 1]
    BY SMTT(60), <1>2
  <2> QED BY <2>1
<1> QED BY <1>1, <1>2

\* push() of a regular message, or of one that is no subscription of a client,
\* and pop() leave subscriptions of clients in the regular list.
LEMMA NoneAheadKept ==
    ASSUME NEW q \in QueueOf(Message), NoneAhead(q)
    PROVE  /\ \A m \in Message : Neutral(m) \/ (~m.internal /\ ~m.urgent) => NoneAhead(Push(q, m))
           /\ NoneAhead(Rest(q)) \/ \A b : ~Poppable(q, b)
<1>1. q.internal \in Seq(Message) /\ q.urgent \in Seq(Message)
  BY DEF QueueOf
<1>2. ASSUME NEW m \in Message, Neutral(m) \/ (~m.internal /\ ~m.urgent)
      PROVE  NoneAhead(Push(q, m))
  <2>1. m.internal \in BOOLEAN /\ m.urgent \in BOOLEAN
    BY MessageType
  <2>2. \/ Push(q, m).internal = q.internal /\ Push(q, m).urgent = q.urgent
        \/ /\ Push(q, m).internal = Append(q.internal, m) /\ Push(q, m).urgent = q.urgent
           /\ m.internal
        \/ /\ Push(q, m).internal = q.internal /\ Push(q, m).urgent = Append(q.urgent, m)
           /\ m.urgent
    BY <2>1 DEF Push, QueueOf
  <2> QED BY <1>1, <1>2, <2>2, NeutralList DEF NoneAhead
<1>3. ASSUME NEW b, Poppable(q, b) PROVE NoneAhead(Rest(q))
  <2>1. \/ /\ q.internal # << >> /\ Rest(q).internal = Tail(q.internal)
           /\ Rest(q).urgent = q.urgent
        \/ /\ q.urgent # << >> /\ Rest(q).internal = q.internal
           /\ Rest(q).urgent = Tail(q.urgent)
        \/ Rest(q).internal = q.internal /\ Rest(q).urgent = q.urgent
    BY DEF Rest, QueueOf
  <2> QED BY <1>1, <2>1, NeutralList DEF NoneAhead
<1> QED BY <1>2, <1>3

\* A new group is in order.
LEMMA GroupOkNew == \A p : GroupOk(p, NewWorker)
<1>1. /\ NewWorker.queue.internal = << >> /\ NewWorker.queue.urgent = << >>
      /\ NewWorker.stop = FALSE /\ NewWorker.cur = NoMsg
  BY SMTT(60) DEF NewWorker, EmptyQueue
<1>2. DOMAIN << >> = {}
  BY SMTT(60)
<1> QED BY <1>1, <1>2 DEF GroupOk, NoneAhead

\* What a message that is delivered may be.
LEMMA DeliveredOrder ==
    ASSUME NEW t, NEW m, InOrder(t, m)
    PROVE  Neutral(m) \/ (t \in Client /\ m.from = t /\ ~m.internal /\ ~m.urgent)
BY DEF InOrder

\* What pop(), group_t::process() and the end of the group do to its object.
LEMMA GroupObject ==
    ASSUME LifecycleInv, NEW g \in Group
    PROVE  /\ Pop(g) => /\ worker'[g].queue = Rest(worker[g].queue)
                        /\ worker'[g].cur = Front(worker[g].queue)
                        /\ worker'[g].subscribers = worker[g].subscribers
                        /\ pc[g] \in {"pop", "pop_internal"} /\ pc'[g] = "handler"
                        /\ \E b : Poppable(worker[g].queue, b)
           /\ GroupProcess(g) =>
                /\ worker'[g].queue = worker[g].queue /\ worker'[g].cur = NoMsg
                /\ worker'[g].subscribers = GroupAfter(g, worker[g].cur)
                /\ worker[g].stop => worker'[g].stop
                /\ worker[g].cur \in Message /\ pc'[g] \in {"after", "send"}
           /\ ExitReturn(g) =>
                /\ worker'[g].queue = worker[g].queue /\ worker'[g].cur = worker[g].cur
                /\ worker'[g].subscribers = {} /\ worker'[g].stop = worker[g].stop
                /\ pc[g] = "exit_handler" /\ pc'[g] = "finish"
<1>1. /\ worker \in [Name -> WorkerObject] /\ g \in Name /\ g \in Thread /\ DOMAIN pc = Thread
  BY DEF LifecycleInv, TypeOK, Name, Thread
<1>2. ASSUME Pop(g)
      PROVE  /\ worker'[g].queue = Rest(worker[g].queue)
             /\ worker'[g].cur = Front(worker[g].queue)
             /\ worker'[g].subscribers = worker[g].subscribers
             /\ pc[g] \in {"pop", "pop_internal"} /\ pc'[g] = "handler"
             /\ \E b : Poppable(worker[g].queue, b)
  <2>1. /\ worker'[g].queue = Rest(worker[g].queue)
        /\ worker'[g].cur = Front(worker[g].queue)
        /\ worker'[g].subscribers = worker[g].subscribers
    BY SMTT(60), <1>1, <1>2 DEF Pop, WorkerObject
  <2>2. /\ pc[g] \in {"pop", "pop_internal"} /\ pc' = [pc EXCEPT ![g] = "handler"]
        /\ Poppable(worker[g].queue, pc[g] = "pop_internal")
    BY <1>2 DEF Pop
  <2> QED BY <1>1, <2>1, <2>2
<1>3. ASSUME GroupProcess(g)
      PROVE  /\ worker'[g].queue = worker[g].queue /\ worker'[g].cur = NoMsg
             /\ worker'[g].subscribers = GroupAfter(g, worker[g].cur)
             /\ worker[g].stop => worker'[g].stop
             /\ worker[g].cur \in Message /\ pc'[g] \in {"after", "send"}
  <2>1. PICK subscribers, last :
          /\ subscribers = GroupAfter(g, worker[g].cur)
          /\ worker' = [worker EXCEPT ![g].subscribers = subscribers,
                                      ![g].stop = @ \/ last, ![g].cur = NoMsg]
    BY <1>3 DEF GroupProcess
  <2>2. /\ worker'[g].queue = worker[g].queue /\ worker'[g].cur = NoMsg
        /\ worker'[g].subscribers = subscribers
        /\ worker[g].stop => worker'[g].stop
    BY <1>1, <2>1 DEF WorkerObject
  <2>3. worker[g].cur \in Message
    BY <1>1, <1>3 DEF GroupProcess, LifecycleInv, InsideCalls
  <2>4. pc'[g] \in {"after", "send"}
    BY <1>1, <1>3 DEF GroupProcess, BeginSend
  <2> QED BY <2>1, <2>2, <2>3, <2>4
<1>4. ASSUME ExitReturn(g)
      PROVE  /\ worker'[g].queue = worker[g].queue /\ worker'[g].cur = worker[g].cur
             /\ worker'[g].subscribers = {} /\ worker'[g].stop = worker[g].stop
             /\ pc[g] = "exit_handler" /\ pc'[g] = "finish"
  <2>1. /\ pc[g] = "exit_handler" /\ pc' = [pc EXCEPT ![g] = "finish"]
        /\ worker' = [worker EXCEPT ![g].subscribers = {}]
    BY <1>4 DEF ExitReturn
  <2>2. worker'[g] = [worker[g] EXCEPT !.subscribers = {}]
    BY <1>1, <2>1
  <2>3. /\ worker'[g].queue = worker[g].queue /\ worker'[g].cur = worker[g].cur
        /\ worker'[g].subscribers = {} /\ worker'[g].stop = worker[g].stop
    BY <1>1, <2>2 DEF WorkerObject
  <2> QED BY <1>1, <2>1, <2>3
<1> QED BY <1>2, <1>3, <1>4

\* Every step keeps a group in order.
LEMMA GroupOkStep ==
    ASSUME LifecycleInv, NoObject, SendsInOrder, NEW g \in Group, GroupOk(pc[g], worker[g]), Next
    PROVE  GroupOk(pc'[g], worker'[g])
<1>1. worker[g].queue \in QueueOf(Message)
  BY DEF LifecycleInv, TypeOK, WorkerObject, Name
<1>2. CASE Undisturbed(g)
  <2>1. NoneAhead(worker'[g].queue)
    BY <1>1, <1>2, NoneAheadKept, DeliveredOrder DEF Undisturbed, Calm, GroupOk
  <2>2. pc'[g] \in LoopPc => ~worker'[g].stop
    BY <1>2 DEF Undisturbed, PlaceKept, SameGroup, GroupOk
  <2>3. pc'[g] # "handler" => worker'[g].cur = NoMsg
    BY <1>2 DEF Undisturbed, PlaceKept, GroupOk
  <2> QED BY <2>1, <2>2, <2>3 DEF GroupOk
<1>3. CASE Pop(g)
  BY <1>1, <1>3, GroupObject, NoneAheadKept DEF GroupOk, LoopPc
<1>4. CASE GroupProcess(g) \/ ExitReturn(g)
  BY <1>4, GroupObject DEF GroupOk, LoopPc
<1>5. CASE worker'[g] = NewWorker
  BY <1>5, GroupOkNew
<1> QED BY <1>2, <1>3, <1>4, <1>5, GroupEffect

\* A step gives a group the prospect of a subscriber only by the delivery of
\* its skal-subscribe.
LEMMA GroupSide ==
    ASSUME LifecycleInv, NoObject, SendsInOrder, NEW g \in Group, GroupOk(pc[g], worker[g]), Next,
           NEW n \in Client, NEW f, Pending(worker'[g], n, f), ~worker'[g].stop
    PROVE  \/ Pending(worker[g], n, f) /\ ~worker[g].stop
           \/ \E m \in Message : Delivers(n, m) /\ m.to = g /\ InOrder(n, m) /\ Adds(m, n, f)
<1>1. worker[g] \in WorkerObject
  BY DEF LifecycleInv, TypeOK, Name
<1>2. PICK v, w : v = worker[g] /\ w = worker'[g]
  OBVIOUS
<1>3. CASE Undisturbed(g)
  <2>1. /\ w.cur = v.cur /\ w.subscribers = v.subscribers /\ w.stop = v.stop
    BY <1>2, <1>3 DEF Undisturbed, SameGroup
  <2>2. CASE w.queue = v.queue
    <3>1. Pending(v, n, f)
      BY <1>2, <2>1, <2>2 DEF Pending
    <3> QED BY <1>2, <2>1, <3>1
  <2>3. ASSUME NEW m \in Message, w.queue = Push(v.queue, m)
        PROVE  Pending(v, n, f) \/ Adds(m, n, f)
    BY <1>1, <1>2, <2>1, <2>3, PendingPush
  <2>4. \A m : Neutral(m) => ~Adds(m, n, f)
    BY DEF Neutral, Adds, IsSubscription
  <2>5. \A t, m : InOrder(t, m) /\ Adds(m, n, f) => t = n
    BY DEF InOrder, Neutral, Adds, IsSubscription
  <2>6. \/ Calm(v.queue, w.queue)
        \/ \E t \in Thread, m \in Message : /\ Delivers(t, m) /\ m.to = g /\ InOrder(t, m)
                                            /\ w.queue = Push(v.queue, m)
    BY <1>2, <1>3 DEF Undisturbed
  <2> QED BY <1>2, <2>1, <2>2, <2>3, <2>4, <2>5, <2>6 DEF Calm
<1>4. CASE Pop(g)
  <2>1. ~v.stop /\ v.cur = NoMsg /\ NoneAhead(v.queue)
    BY <1>2, <1>4, GroupObject DEF GroupOk, LoopPc
  <2>2. PICK b : Poppable(v.queue, b)
    BY <1>2, <1>4, GroupObject
  <2>3. w.queue = Rest(v.queue) /\ w.cur = Front(v.queue) /\ w.subscribers = v.subscribers
    BY <1>2, <1>4, GroupObject
  <2>4. Pending(v, n, f)
    BY <1>1, <1>2, <2>1, <2>2, <2>3, PendingPop
  <2> QED BY <1>2, <2>1, <2>4
<1>5. CASE GroupProcess(g)
  <2>1. PICK m : m = v.cur
    OBVIOUS
  <2>2. /\ w.queue = v.queue /\ w.cur = NoMsg /\ m # NoMsg /\ (v.stop => w.stop)
    BY <1>2, <1>5, <2>1, GroupObject, NamesAssumption
  <2>3. w.subscribers = CASE m.action = "skal-subscribe" ->
                               Subscribe(v.subscribers, m.from, m.filter)
                          [] m.action = "skal-unsubscribe" ->
                               Unsubscribe(v.subscribers, m.from, m.filter)
                          [] OTHER -> v.subscribers
    <3>1. w.subscribers = GroupAfter(g, m)
      BY <1>2, <1>5, <2>1, GroupObject
    <3> QED BY <1>2, <3>1 DEF GroupAfter
  <2>4. Pending(v, n, f)
    BY SMTT(60), <1>2, <2>1, <2>2, <2>3, PendingProcess
  <2> QED BY <1>2, <2>2, <2>4
<1>6. CASE ExitReturn(g)
  <2>1. w.queue = v.queue /\ w.cur = v.cur /\ w.subscribers = {} /\ w.stop = v.stop
    BY <1>2, <1>6, GroupObject
  <2>2. Pending(v, n, f)
    BY <1>2, <2>1, PendingForgot
  <2> QED BY <1>2, <2>1, <2>2
<1>7. CASE worker'[g] = NewWorker
  BY <1>7, PendingNew
<1> QED BY <1>3, <1>4, <1>5, <1>6, <1>7, GroupEffect

-------------------------------------------------------------------------------
(* Clients *)

\* A step that does nothing to what client n has to do with its subscriptions.
Apart(n) ==
    /\ pc'[n] = pc[n] \/ {pc[n], pc'[n]} \subseteq {"none", "entry"}
    /\ ret'[n] = ret[n] /\ out'[n] = out[n] /\ todo[n] \subseteq todo'[n]
    /\ worker'[n].subscriptions = worker[n].subscriptions

\* Only a client itself, or the end of its object, changes them.
LEMMA OthersApart ==
    ASSUME LifecycleInv, SendsInOrder, Next, NEW n \in Client
    PROVE  Apart(n) \/ Sending(n) \/ Calling(n) \/ Running(n) \/ (pc[n] = "done" /\ pc'[n] = "none")
<1>1. /\ pc \in [Thread -> WorkerPc \cup CallPc \cup WaitPc \cup {"user"}]
      /\ todo \in [Thread -> SUBSET Message]
      /\ ret \in [Thread -> {"none", "user"} \cup RetPc]
      /\ out \in [Thread -> Message \cup {NoMsg}]
      /\ n \in Name /\ n \in Thread /\ n # Main /\ Main \in Thread /\ n \notin Group
  BY NamesAssumption DEF LifecycleInv, TypeOK, Thread, Name
<1>2. ASSUME NEW t \in Thread, t # n, Sending(t) PROVE Apart(n)
  <2>1. worker'[n].subscriptions = worker[n].subscriptions
    BY SMTT(60), <1>1, <1>2, SendingObject
  <2>2. ret'[n] = ret[n] /\ out'[n] = out[n]
    BY <1>1, <1>2 DEF Sending, PostDrop, PostDeliver, PostFull, PostPush, PostXoff,
       PostNewGroupThrows, PostNewGroup, PostEmplace, Posting
  <2>3. todo[n] \subseteq todo'[n]
    <3>1. ASSUME NEW m \in todo[t], Posting(t, m) PROVE todo'[n] = todo[n]
      BY <1>1, <1>2, <3>1 DEF Posting
    <3>2. ASSUME PostXoff(t) PROVE todo[n] \subseteq todo'[n]
      <4>1. todo' = todo \/ \E k, x : todo' = [todo EXCEPT ![k] = @ \cup {x}]
        BY <3>2 DEF PostXoff
      <4> QED BY <1>1, <4>1
    <3>3. ASSUME PostPush(t) \/ PostEmplace(t) PROVE todo' = todo
      BY <3>3 DEF PostPush, PostEmplace
    <3> QED BY <1>2, <3>1, <3>2, <3>3
            DEF Sending, PostDrop, PostDeliver, PostFull, PostNewGroupThrows, PostNewGroup
  <2>4. pc'[n] = pc[n]
    <3>1. ASSUME NEW m \in todo[t], PostNewGroup(t, m) PROVE pc'[n] = pc[n]
      <4>1. m \in Message /\ m.action = "skal-subscribe"
        BY <1>1, <3>1 DEF PostNewGroup
      <4>2. m.to # n
        BY <1>1, <4>1, MessageType
      <4> QED BY <1>1, <1>2, <3>1, <4>2 DEF PostNewGroup
    <3> QED BY <1>1, <1>2, <3>1 DEF Sending, PostDrop, PostDeliver, PostFull, PostPush, PostXoff,
               PostNewGroupThrows, PostEmplace, Throw
  <2> QED BY <2>1, <2>2, <2>3, <2>4 DEF Apart
<1>3. ASSUME NEW t \in Thread, t # n, Calling(t) PROVE Apart(n)
  <2>1. worker'[n].subscriptions = worker[n].subscriptions
    BY <1>1, <1>3, CallingObject DEF Quiet
  <2>2. ret'[n] = ret[n] /\ out'[n] = out[n] /\ todo'[n] = todo[n]
    BY <1>1, <1>3 DEF Calling, CallSend, BeginSend, CallCreateThrows, CallCreate, CreateEmplace,
       CallTerminate
  <2>3. pc'[n] = pc[n] \/ {pc[n], pc'[n]} \subseteq {"none", "entry"}
    <3>1. ASSUME CallCreate(t) PROVE pc'[n] = pc[n] \/ {pc[n], pc'[n]} \subseteq {"none", "entry"}
      <4>1. PICK k : /\ k = NextCall(t).name /\ k \notin g_workers
                     /\ pc' = [pc EXCEPT ![t] = "create_emplace", ![k] = "entry"]
        BY <3>1 DEF CallCreate
      <4>2. n \notin g_workers => pc[n] \in {"none", "entry"}
        BY <1>1, Registered
      <4> QED BY <1>1, <1>3, <4>1, <4>2
    <3> QED BY <1>1, <1>3, <3>1 DEF Calling, CallSend, BeginSend, CallCreateThrows, CreateEmplace,
               CallTerminate, Throw
  <2> QED BY <2>1, <2>2, <2>3 DEF Apart
<1>4. ASSUME NEW k \in Name, k # n, Running(k) PROVE Apart(n)
  <2>1. worker'[n].subscriptions = worker[n].subscriptions
    BY <1>1, <1>4, RunningObject
  <2>2. /\ ret'[n] = ret[n] /\ out'[n] = out[n] /\ todo'[n] = todo[n] /\ pc'[n] = pc[n]
    BY <1>1, <1>4 DEF Running, Entry, TakeGreenLight, BeginRun, Loop, Pop, HandlerReturn,
       HandlerThrow, Throw, GroupProcess, After, XonClear, Exit, BeginSend, ExitReturn, Finish,
       FinishPost
  <2> QED BY <2>1, <2>2 DEF Apart
<1>5. ASSUME Waiting PROVE Apart(n) \/ (pc[n] = "done" /\ pc'[n] = "none")
  <2>1. CASE WaitErase
    <3>1. PICK k : /\ k = Head(g_terminated) /\ pc[k] = "done"
                   /\ worker' = [worker EXCEPT ![k] = NewWorker]
                   /\ ret' = [ret EXCEPT ![k] = "none"] /\ pc' = [pc EXCEPT ![k] = "none"]
                   /\ todo' = todo /\ out' = out
      BY <2>1 DEF WaitErase
    <3>2. worker \in [Name -> WorkerObject]
      BY DEF LifecycleInv, TypeOK
    <3> QED BY <1>1, <3>1, <3>2 DEF Apart
  <2>2. CASE ~WaitErase
    <3>1. worker'[n].subscriptions = worker[n].subscriptions
      BY <1>1, <1>5, <2>2, WaitingObject DEF Quiet
    <3>2. /\ ret'[n] = ret[n] /\ out'[n] = out[n] /\ todo'[n] = todo[n] /\ pc'[n] = pc[n]
      BY <1>1, <1>5, <2>2 DEF Waiting, WaitStart, WaitGreen, WaitGreenDone, WaitTake, WaitLock,
         WaitCheck, WaitReset
    <3> QED BY <3>1, <3>2 DEF Apart
  <2> QED BY <2>1, <2>2
<1>6. ASSUME Finished PROVE Apart(n)
  BY <1>6 DEF Finished, vars, Apart
<1> QED BY <1>2, <1>3, <1>4, <1>5, <1>6 DEF Next

\* Such a step leaves a subscription covered.
LEMMA ApartCovered ==
    ASSUME NEW g, NEW n, NEW f, Covered(g, n, f),
           Apart(n) \/ (pc[n] = "done" /\ pc'[n] = "none")
    PROVE  Covered(g, n, f)'
<1>1. Apart(n)
  BY DEF Covered, Leaving, SendPc
<1>2. CASE pc'[n] = pc[n]
  BY <1>1, <1>2 DEF Apart, Covered, Leaving
<1>3. CASE {pc[n], pc'[n]} \subseteq {"none", "entry"}
  BY <1>1, <1>3 DEF Apart, Covered, Leaving, SendPc, CallPc
<1> QED BY <1>1, <1>2, <1>3 DEF Apart

\* What post() leaves in the record of the client that sends.
LEMMA OwnRecord ==
    ASSUME LifecycleInv, SendsInOrder, NEW n \in Client
    PROVE  /\ \A m \in todo[n] : PostDeliver(n, m) =>
                worker'[n].subscriptions = IF m.from = n THEN RecordOf(worker[n].subscriptions, m)
                                                         ELSE worker[n].subscriptions
           /\ \A m \in todo[n] : PostFull(n, m) =>
                worker'[n].subscriptions = IF m.from = n THEN RecordOf(worker[n].subscriptions, m)
                                                         ELSE worker[n].subscriptions
           /\ PostEmplace(n) =>
                worker'[n].subscriptions = IF out[n].from = n
                                             THEN RecordOf(worker[n].subscriptions, out[n])
                                             ELSE worker[n].subscriptions
           /\ PostPush(n) => worker'[n].subscriptions = worker[n].subscriptions
<1>1. /\ worker \in [Name -> WorkerObject] /\ n \in Name /\ n \in Thread
      /\ g_workers \in SUBSET Name /\ todo \in [Thread -> SUBSET Message]
      /\ pc[n] \in SendPc => n \in g_workers
  BY Registered DEF LifecycleInv, TypeOK, Name, Thread, SendPc
<1>2. ASSUME NEW m \in Message, m.to \in Name, NEW R \in SUBSET Name, n \in R,
             worker' = [Recorded(m, R) EXCEPT ![m.to].queue = Push(@, m)]
      PROVE  worker'[n].subscriptions = IF m.from = n THEN RecordOf(worker[n].subscriptions, m)
                                                      ELSE worker[n].subscriptions
  <2>1. PICK v : v = Recorded(m, R)
    OBVIOUS
  <2>2. v \in [Name -> WorkerObject]
    BY <1>1, <2>1, RecordedType
  <2>3. worker'[n].subscriptions = v[n].subscriptions
    BY SMTT(60), <1>1, <1>2, <2>1, <2>2, PushedObject
  <2>4. v[n].subscriptions = IF m.from = n THEN RecordOf(worker[n].subscriptions, m)
                                           ELSE worker[n].subscriptions
    BY SMTT(60), <1>1, <1>2, <2>1, RecordedObject
  <2> QED BY <2>3, <2>4
<1>3. ASSUME NEW m \in todo[n], PostDeliver(n, m)
      PROVE  worker'[n].subscriptions = IF m.from = n THEN RecordOf(worker[n].subscriptions, m)
                                                      ELSE worker[n].subscriptions
  <2>1. /\ pc[n] = "send" /\ m.to \in g_workers
        /\ worker' = [Recorded(m, g_workers) EXCEPT ![m.to].queue = Push(@, m)]
    BY <1>3 DEF PostDeliver, Posting
  <2>2. m \in Message /\ m.to \in Name /\ n \in g_workers
    BY <1>1, <2>1 DEF SendPc
  <2> QED BY <1>1, <1>2, <2>1, <2>2
<1>4. ASSUME NEW m \in todo[n], PostFull(n, m)
      PROVE  worker'[n].subscriptions = IF m.from = n THEN RecordOf(worker[n].subscriptions, m)
                                                      ELSE worker[n].subscriptions
  <2>1. pc[n] = "send" /\ worker' = Recorded(m, g_workers)
    BY <1>4 DEF PostFull, Posting
  <2>2. n \in g_workers
    BY <1>1, <2>1 DEF SendPc
  <2> QED BY SMTT(60), <1>1, <2>1, <2>2, RecordedObject
<1>5. ASSUME PostEmplace(n)
      PROVE  worker'[n].subscriptions = IF out[n].from = n
                                          THEN RecordOf(worker[n].subscriptions, out[n])
                                          ELSE worker[n].subscriptions
  <2>1. PICK m, R : /\ m = out[n] /\ pc[n] = "post_emplace" /\ R = g_workers \cup {m.to}
                    /\ worker' = [Recorded(m, R) EXCEPT ![m.to].queue = Push(@, m)]
    BY <1>5 DEF PostEmplace, Emplace
  <2>2. m \in Message /\ m.to \in Name
    BY <1>1, <2>1, HandedOver
  <2>3. R \in SUBSET Name /\ n \in R
    BY <1>1, <2>1, <2>2 DEF SendPc
  <2> QED BY <1>2, <2>1, <2>2, <2>3
<1>6. ASSUME PostPush(n) PROVE worker'[n].subscriptions = worker[n].subscriptions
  <2>1. PICK m : /\ m = out[n] /\ pc[n] = "post_push"
                 /\ worker' = [worker EXCEPT ![m.to].queue = Push(@, m)]
    BY <1>6 DEF PostPush
  <2>2. m.to \in Name
    BY <1>1, <2>1, HandedOver
  <2> QED BY SMTT(60), <1>1, <2>1, <2>2, PushedObject
<1> QED BY <1>3, <1>4, <1>5, <1>6

\* A client whose skal-subscribe is delivered has it in its record.
LEMMA DeliveredCovered ==
    ASSUME LifecycleInv, SendsInOrder, RecordedFirst, NEW n \in Client, NEW g \in Group, NEW f,
           NEW m \in Message, Delivers(n, m), m.to = g, InOrder(n, m), Adds(m, n, f)
    PROVE  Covered(g, n, f)'
<1>1. /\ m.from = n /\ m.action = "skal-subscribe" /\ m.filter = f /\ ret[n] = "handler"
  BY DEF Adds, InOrder, IsSubscription
<1>2. <<g, f>> \in RecordOf(worker[n].subscriptions, m)
  BY SMTT(60), <1>1 DEF RecordOf
<1>3. /\ pc \in [Thread -> WorkerPc \cup CallPc \cup WaitPc \cup {"user"}] /\ n \in Thread
  BY DEF LifecycleInv, TypeOK, Thread, Name
<1>4. <<g, f>> \in worker'[n].subscriptions
  <2>1. CASE m \in todo[n] /\ PostDeliver(n, m)
    <3>1. worker'[n].subscriptions = RecordOf(worker[n].subscriptions, m)
      BY SMTT(60), <1>1, <2>1, OwnRecord
    <3> QED BY <1>2, <3>1
  <2>2. CASE m = out[n] /\ PostPush(n)
    <3>1. worker'[n].subscriptions = worker[n].subscriptions /\ pc[n] = "post_push"
      BY <2>2, OwnRecord DEF PostPush
    <3> QED BY <1>1, <2>2, <3>1 DEF RecordedFirst
  <2>3. CASE m = out[n] /\ PostEmplace(n)
    <3>1. worker'[n].subscriptions = RecordOf(worker[n].subscriptions, m)
      BY SMTT(60), <1>1, <2>3, OwnRecord
    <3> QED BY <1>2, <3>1
  <2> QED BY <2>1, <2>2, <2>3 DEF Delivers
<1>5. ret' = ret /\ pc'[n] \in {"send", "post_xoff", "handler"}
  BY <1>1, <1>3 DEF Delivers, PostDeliver, PostPush, PostEmplace, Return
<1>6. ~Leaving(n)'
  BY <1>1, <1>5 DEF Leaving
<1> QED BY <1>4, <1>6 DEF Covered

\* post() goes on with a message that does not end the subscription.
LEMMA PassingCovered ==
    ASSUME LifecycleInv, NEW n \in Client, NEW g \in Group, NEW f, NEW m \in todo[n],
           Covered(g, n, f), ~(m.to = g /\ Drops(m, n, f)),
           Posting(n, m), ret' = ret, pc' = [pc EXCEPT ![n] = Return(n, todo[n] \ {m})],
           <<g, f>> \in worker[n].subscriptions => <<g, f>> \in worker'[n].subscriptions
    PROVE  Covered(g, n, f)'
<1>1. /\ pc \in [Thread -> WorkerPc \cup CallPc \cup WaitPc \cup {"user"}] /\ n \in Thread
      /\ todo \in [Thread -> SUBSET Message] /\ n \notin User
  BY NamesAssumption DEF LifecycleInv, TypeOK, Thread, Name
<1>2. pc[n] = "send" /\ pc[n] \in CallPc /\ todo'[n] = todo[n] \ {m}
  BY <1>1 DEF Posting, CallPc
<1>3. ret[n] \in RetPc
  BY <1>1, <1>2 DEF LifecycleInv, InsideCalls
<1>4. CASE ~Leaving(n) /\ <<g, f>> \in worker[n].subscriptions
  <2>1. ret[n] # "exit_handler" /\ pc'[n] \in {ret[n], "send"}
    BY <1>1, <1>2, <1>4 DEF Leaving, Return
  <2>2. ~Leaving(n)'
    BY <1>3, <2>1 DEF Leaving, RetPc
  <2> QED BY <1>4, <2>2 DEF Covered
<1>5. CASE Leaving(n) /\ \E x \in todo[n] : x.to = g /\ Drops(x, n, f)
  <2>1. PICK x \in todo[n] : x.to = g /\ Drops(x, n, f)
    BY <1>5
  <2>2. x \in todo'[n] /\ pc'[n] = "send"
    BY <1>1, <1>2, <2>1 DEF Return
  <2>3. Leaving(n)'
    BY <1>2, <1>5, <2>2 DEF Leaving, CallPc
  <2> QED BY <2>1, <2>2, <2>3 DEF Covered, SendPc
<1> QED BY <1>2, <1>4, <1>5 DEF Covered

\* A message that ends a subscription ends it in the group's prospects when it
\* is pushed.
LEMMA DeliveredDrops ==
    ASSUME LifecycleInv, SendsInOrder, NEW n \in Client, NEW g \in Group, NEW f,
           NEW m \in Message, Delivers(n, m), m.to = g, InOrder(n, m), Drops(m, n, f)
    PROVE  ~Pending(worker'[g], n, f)
<1>1. ~m.internal /\ ~m.urgent /\ m.action = "skal-unsubscribe"
  BY DEF InOrder, Drops, IsSubscription
<1>2. /\ worker \in [Name -> WorkerObject] /\ g \in Name /\ n \in Thread
      /\ g_workers \in SUBSET Name
  BY DEF LifecycleInv, TypeOK, Name, Thread
<1>3. ASSUME NEW v \in [Name -> WorkerObject], SameGroup(worker[g], v[g]),
             v[g].queue = worker[g].queue, worker' = [v EXCEPT ![g].queue = Push(@, m)]
      PROVE  ~Pending(worker'[g], n, f)
  <2>1. SameGroup(v[g], worker'[g]) /\ worker'[g].queue = Push(v[g].queue, m)
    BY SMTT(60), <1>2, <1>3, PushedObject
  <2>2. v[g] \in WorkerObject
    BY <1>2
  <2>3. PICK x, w : x = v[g] /\ w = worker'[g]
    OBVIOUS
  <2>4. w.queue = Push(x.queue, m) /\ w.cur = x.cur /\ w.subscribers = x.subscribers
    BY <2>1, <2>3 DEF SameGroup
  <2> QED BY <1>1, <2>2, <2>3, <2>4, PendingPush
<1>4. CASE m \in todo[n] /\ PostDeliver(n, m)
  <2>1. PICK v : v = Recorded(m, g_workers) /\ worker' = [v EXCEPT ![g].queue = Push(@, m)]
    BY <1>4 DEF PostDeliver
  <2>2. v \in [Name -> WorkerObject]
    BY <1>2, <2>1, RecordedType
  <2>3. SameGroup(worker[g], v[g]) /\ v[g].queue = worker[g].queue
    BY SMTT(60), <1>2, <2>1, RecordedObject
  <2> QED BY <1>3, <2>1, <2>2, <2>3
<1>5. CASE m = out[n] /\ PostPush(n)
  <2>1. worker' = [worker EXCEPT ![g].queue = Push(@, m)]
    BY <1>5 DEF PostPush
  <2> QED BY <1>2, <1>3, <2>1 DEF SameGroup
<1>6. CASE m = out[n] /\ PostEmplace(n)
  BY <1>1, <1>2, <1>6, HandedOver DEF PostEmplace
<1> QED BY <1>4, <1>5, <1>6 DEF Delivers

\* post() by a client keeps its subscriptions covered, or ends them.
LEMMA SendingCovered ==
    ASSUME LifecycleInv, NoObject, SendsInOrder, NEW n \in Client, NEW g \in Group, NEW f,
           Covered(g, n, f), Pending(worker'[g], n, f), Sending(n)
    PROVE  Covered(g, n, f)'
<1>1. /\ pc \in [Thread -> WorkerPc \cup CallPc \cup WaitPc \cup {"user"}] /\ n \in Thread
      /\ todo \in [Thread -> SUBSET Message] /\ out \in [Thread -> Message \cup {NoMsg}]
      /\ n \in Name /\ n \notin User /\ n \notin Group /\ g \in Name
  BY NamesAssumption DEF LifecycleInv, TypeOK, Thread, Name
<1>2. pc[n] \in CallPc => ret[n] \in RetPc
  BY <1>1 DEF LifecycleInv, InsideCalls
<1>3. ASSUME NEW m, m.from = n => ~(m.to = g /\ Drops(m, n, f))
      PROVE  m.from = n /\ <<g, f>> \in worker[n].subscriptions =>
               <<g, f>> \in RecordOf(worker[n].subscriptions, m)
  BY SMTT(60), <1>3 DEF RecordOf, Drops
<1>4. ASSUME NEW m \in todo[n], PostDrop(n, m) PROVE Covered(g, n, f)'
  <2>1. worker' = worker /\ m.to \notin g_workers /\ Posting(n, m) /\ ret' = ret
        /\ pc' = [pc EXCEPT ![n] = Return(n, todo[n] \ {m})]
    BY <1>4 DEF PostDrop
  <2>2. m.to # g
    <3>1. ASSUME m.to = g PROVE worker'[g] = NewWorker
      BY <1>1, <2>1, <3>1 DEF NoObject
    <3> QED BY <3>1, PendingNew
  <2> QED BY <2>1, <2>2, PassingCovered
<1>5. ASSUME NEW m \in todo[n], PostDeliver(n, m) PROVE Covered(g, n, f)'
  <2>1. Posting(n, m) /\ ret' = ret /\ pc' = [pc EXCEPT ![n] = Return(n, todo[n] \ {m})]
    BY <1>5 DEF PostDeliver
  <2>2. m \in Message /\ InOrder(n, m)
    BY <1>1, <2>1, HandedOver DEF Posting
  <2>3. ~(m.to = g /\ Drops(m, n, f))
    BY <1>5, <2>2, DeliveredDrops DEF Delivers
  <2>4. \/ m.from = n /\ worker'[n].subscriptions = RecordOf(worker[n].subscriptions, m)
        \/ m.from # n /\ worker'[n].subscriptions = worker[n].subscriptions
    BY SMTT(60), <1>5, OwnRecord
  <2>5. <<g, f>> \in worker[n].subscriptions => <<g, f>> \in worker'[n].subscriptions
    BY <1>3, <2>3, <2>4
  <2> QED BY <2>1, <2>3, <2>5, PassingCovered
<1>6. ASSUME NEW m \in todo[n], PostFull(n, m) PROVE Covered(g, n, f)'
  <2>1. /\ pc[n] = "send" /\ ret' = ret /\ pc'[n] = "post_push" /\ out'[n] = m
        /\ todo'[n] = todo[n] \ {m}
    BY <1>1, <1>6 DEF PostFull, Posting
  <2>2. CASE m.to = g /\ Drops(m, n, f)
    BY <2>1, <2>2 DEF Covered
  <2>3. CASE ~(m.to = g /\ Drops(m, n, f))
    <3>1. \/ m.from = n /\ worker'[n].subscriptions = RecordOf(worker[n].subscriptions, m)
          \/ m.from # n /\ worker'[n].subscriptions = worker[n].subscriptions
      BY SMTT(60), <1>6, OwnRecord
    <3>2. <<g, f>> \in worker[n].subscriptions => <<g, f>> \in worker'[n].subscriptions
      BY <1>3, <2>3, <3>1
    <3>3. Leaving(n)' <=> Leaving(n)
      BY <2>1 DEF Leaving, CallPc
    <3>4. \A x \in todo[n] : x.to = g /\ Drops(x, n, f) => x \in todo'[n]
      BY <2>1, <2>3
    <3> QED BY <2>1, <3>2, <3>3, <3>4 DEF Covered, SendPc
  <2> QED BY <2>2, <2>3
<1>7. ASSUME PostPush(n) PROVE Covered(g, n, f)'
  <2>1. /\ pc[n] = "post_push" /\ ret' = ret /\ pc'[n] = "post_xoff" /\ todo' = todo
    BY <1>1, <1>7 DEF PostPush
  <2>2. out[n] \in Message /\ InOrder(n, out[n])
    BY <1>1, <2>1, HandedOver
  <2>3. ~(out[n].to = g /\ Drops(out[n], n, f))
    BY <1>7, <2>2, DeliveredDrops DEF Delivers
  <2>4. worker'[n].subscriptions = worker[n].subscriptions
    BY <1>7, OwnRecord
  <2>5. Leaving(n)' <=> Leaving(n)
    BY <2>1 DEF Leaving, CallPc
  <2> QED BY <2>1, <2>3, <2>4, <2>5 DEF Covered, SendPc
<1>8. ASSUME PostXoff(n) PROVE Covered(g, n, f)'
  <2>1. /\ pc[n] = "post_xoff" /\ ret' = ret /\ pc'[n] = Return(n, todo[n]) /\ pc[n] \in CallPc
    BY <1>1, <1>8 DEF PostXoff, CallPc
  <2>2. todo[n] \subseteq todo'[n]
    <3>1. todo' = todo \/ \E k, x : todo' = [todo EXCEPT ![k] = @ \cup {x}]
      BY <1>8 DEF PostXoff
    <3> QED BY <1>1, <3>1
  <2>3. worker'[n].subscriptions = worker[n].subscriptions
    <3>1. out[n] \in Message /\ out[n].to \in Name
      BY <1>1, <2>1, HandedOver
    <3>2. /\ worker \in [Name -> WorkerObject] /\ worker' = XoffTold(out[n])
          /\ g_workers \in SUBSET Name
      BY <1>8 DEF PostXoff, LifecycleInv, TypeOK
    <3> QED BY SMTT(60), <1>1, <3>1, <3>2 DEF XoffTold, WorkerObject
  <2>4. CASE ~Leaving(n) /\ <<g, f>> \in worker[n].subscriptions
    <3>1. ret[n] # "exit_handler" /\ pc'[n] \in {ret[n], "send"}
      BY <2>1, <2>4 DEF Leaving, Return
    <3>2. ~Leaving(n)'
      BY <1>2, <2>1, <3>1 DEF Leaving, RetPc
    <3> QED BY <2>3, <2>4, <3>2 DEF Covered
  <2>5. CASE Leaving(n) /\ \E x \in todo[n] : x.to = g /\ Drops(x, n, f)
    <3>1. pc'[n] = "send"
      BY <2>1, <2>5 DEF Return
    <3>2. Leaving(n)'
      BY <2>1, <2>5, <3>1 DEF Leaving, CallPc
    <3> QED BY <2>2, <2>5, <3>1, <3>2 DEF Covered, SendPc
  <2> QED BY <2>1, <2>4, <2>5 DEF Covered
<1>9. ASSUME NEW m \in todo[n], PostNewGroupThrows(n, m) \/ PostNewGroup(n, m)
      PROVE  Covered(g, n, f)'
  <2>1. pc[n] = "send" /\ m \in todo[n] /\ m.action = "skal-subscribe" /\ ret' = ret
    BY <1>9 DEF PostNewGroupThrows, PostNewGroup, Posting
  <2>2. ret[n] = "handler" /\ m \in Message /\ m.to \in Group
    BY <1>1, <2>1, HandedOver, MessageType DEF InOrder, IsSubscription
  <2>3. pc'[n] \in {"after", "post_emplace"}
    BY <1>1, <1>9, <2>2 DEF PostNewGroupThrows, PostNewGroup, Throw
  <2>4. worker'[n].subscriptions = worker[n].subscriptions
    <3>1. worker \in [Name -> WorkerObject]
      BY DEF LifecycleInv, TypeOK
    <3>2. worker' = worker \/ worker' = [worker EXCEPT ![n].stop = TRUE]
      BY <1>9 DEF PostNewGroupThrows, PostNewGroup, Throw
    <3> QED BY <1>1, <3>1, <3>2 DEF WorkerObject
  <2>5. ~Leaving(n) /\ ~Leaving(n)' /\ pc[n] # "post_push"
    BY <2>1, <2>2, <2>3 DEF Leaving, CallPc
  <2> QED BY <2>4, <2>5 DEF Covered
<1>10. ASSUME PostEmplace(n) PROVE Covered(g, n, f)'
  <2>1. /\ pc[n] = "post_emplace" /\ ret' = ret /\ pc'[n] \in {"send", ret[n]}
    BY <1>1, <1>10 DEF PostEmplace, Return
  <2>2. out[n].action = "skal-subscribe" /\ InOrder(n, out[n])
    BY <1>1, <2>1, HandedOver
  <2>3. ret[n] = "handler" /\ out[n].from = n
    BY <2>2 DEF InOrder, IsSubscription
  <2>4. worker'[n].subscriptions = RecordOf(worker[n].subscriptions, out[n])
    BY SMTT(60), <1>10, <2>3, OwnRecord
  <2>5. <<g, f>> \in worker[n].subscriptions => <<g, f>> \in worker'[n].subscriptions
    BY <1>3, <2>2, <2>3, <2>4 DEF Drops
  <2>6. ~Leaving(n) /\ ~Leaving(n)' /\ pc[n] # "post_push"
    BY <2>1, <2>3 DEF Leaving, CallPc
  <2> QED BY <2>5, <2>6 DEF Covered
<1> QED BY <1>4, <1>5, <1>6, <1>7, <1>8, <1>9, <1>10 DEF Sending

\* A client that makes a call keeps its subscriptions covered.
LEMMA CallingCovered ==
    ASSUME LifecycleInv, NEW n \in Client, NEW g, NEW f, Covered(g, n, f), Calling(n)
    PROVE  Covered(g, n, f)'
<1>1. /\ pc \in [Thread -> WorkerPc \cup CallPc \cup WaitPc \cup {"user"}]
      /\ ret \in [Thread -> {"none", "user"} \cup RetPc]
      /\ n \in Thread /\ n \in Name /\ n \notin User
  BY NamesAssumption DEF LifecycleInv, TypeOK, Thread, Name
<1>2. worker'[n].subscriptions = worker[n].subscriptions
  BY <1>1, CallingObject DEF Quiet
<1>3. ASSUME NEW call, MayCall(n, call) PROVE pc[n] = "handler"
  <2>1. pc[n] # "user"
    BY <1>1 DEF LifecycleInv, InsideCalls, WorkerPc, CallPc
  <2>2. pc[n] # "exit_handler"
    BY DEF Covered, Leaving, SendPc
  <2> QED BY <1>3, <2>1, <2>2 DEF MayCall
<1>4. CASE CallSend(n)
  <2>1. pc[n] = "handler" /\ ret'[n] = "handler" /\ pc'[n] \in {"handler", "send"}
    BY <1>1, <1>3, <1>4 DEF CallSend, BeginSend
  <2> QED BY <1>2, <2>1 DEF Covered, Leaving, SendPc, CallPc
<1>5. CASE CallCreateThrows(n)
  <2>1. pc[n] = "handler" /\ pc'[n] = "after"
    BY <1>1, <1>3, <1>5 DEF CallCreateThrows, Throw
  <2> QED BY <1>2, <2>1 DEF Covered, Leaving, SendPc, CallPc
<1>6. CASE CallCreate(n)
  <2>1. pc[n] = "handler" /\ ret'[n] = "handler" /\ pc'[n] \in {"create_emplace", "entry"}
    BY <1>1, <1>3, <1>6 DEF CallCreate
  <2> QED BY <1>2, <2>1 DEF Covered, Leaving, SendPc, CallPc
<1>7. ASSUME NEW k \in Name, CreateEmplace(n, k) PROVE Covered(g, n, f)'
  <2>1. pc[n] = "create_emplace" /\ pc'[n] = ret[n] /\ ret' = ret /\ pc[n] \in CallPc
    BY <1>1, <1>7 DEF CreateEmplace, CallPc
  <2>2. ret[n] \in RetPc
    BY <1>1, <2>1 DEF LifecycleInv, InsideCalls
  <2>3. ~Leaving(n) /\ <<g, f>> \in worker[n].subscriptions
    BY <2>1 DEF Covered, SendPc
  <2>4. ~Leaving(n)'
    BY <2>1, <2>2, <2>3 DEF Leaving, RetPc, CallPc
  <2> QED BY <1>2, <2>3, <2>4 DEF Covered
<1>8. CASE CallTerminate(n)
  <2>1. pc[n] = "handler" /\ pc' = pc
    BY <1>3, <1>8 DEF CallTerminate
  <2> QED BY <1>2, <2>1 DEF Covered, Leaving, SendPc, CallPc
<1> QED BY <1>4, <1>5, <1>6, <1>7, <1>8 DEF Calling

\* The thread of a client keeps its subscriptions covered: at the end of its
\* loop it turns its record into messages to send.
LEMMA RunningCovered ==
    ASSUME LifecycleInv, NEW n \in Client, NEW g, NEW f, Covered(g, n, f), Running(n)
    PROVE  Covered(g, n, f)'
<1>1. /\ pc \in [Thread -> WorkerPc \cup CallPc \cup WaitPc \cup {"user"}]
      /\ ret \in [Thread -> {"none", "user"} \cup RetPc]
      /\ todo \in [Thread -> SUBSET Message]
      /\ n \in Thread /\ n \in Name /\ n \notin Group
  BY NamesAssumption DEF LifecycleInv, TypeOK, Thread, Name
<1>2. worker'[n].subscriptions = worker[n].subscriptions
  BY <1>1, RunningObject
<1>3. pc[n] \notin SendPc
  BY DEF Running, Entry, MayEnter, TakeGreenLight, Loop, Pop, HandlerReturn, HandlerThrow,
     GroupProcess, After, XonClear, Exit, ExitReturn, Finish, MayFinish, FinishPost, SendPc
<1>4. ~Leaving(n) /\ <<g, f>> \in worker[n].subscriptions
  BY <1>3 DEF Covered, SendPc
<1>5. ASSUME ~Leaving(n)' PROVE Covered(g, n, f)'
  BY <1>2, <1>4, <1>5 DEF Covered
<1>6. CASE Entry(n) \/ TakeGreenLight(n) \/ (\E timeout \in BOOLEAN : Loop(n, timeout)) \/ Pop(n)
  <2>1. pc'[n] \in {"green", "loop", "pop", "pop_internal", "handler"}
    BY <1>1, <1>6 DEF Entry, TakeGreenLight, BeginRun, Loop, Pop
  <2> QED BY <1>5, <2>1 DEF Leaving, CallPc
<1>7. CASE HandlerThrow(n) \/ \E ok \in BOOLEAN : HandlerReturn(n, ok)
  <2>1. pc'[n] = "after"
    BY <1>1, <1>7 DEF HandlerThrow, HandlerReturn, Throw
  <2> QED BY <1>5, <2>1 DEF Leaving, CallPc
<1>8. CASE After(n)
  <2>1. \/ pc'[n] = "loop"
        \/ ret'[n] = "xon_clear" /\ pc'[n] \in {"xon_clear", "send"}
    BY <1>1, <1>8 DEF After, BeginSend
  <2> QED BY <1>5, <2>1 DEF Leaving, CallPc
<1>9. CASE XonClear(n)
  <2>1. pc'[n] \in {"exit", "loop"}
    BY <1>1, <1>9 DEF XonClear
  <2> QED BY <1>5, <2>1 DEF Leaving, CallPc
<1>10. CASE Exit(n)
  <2>1. PICK x : x = Regular(n, g, "skal-unsubscribe")
    OBVIOUS
  <2>2. x.to = g /\ Drops(x, n, f)
    BY SMTT(60), <2>1 DEF Regular, Internal, Drops
  <2>3. x \in Unsubscribes(n)
    BY SMTT(60), <1>4, <2>1 DEF Unsubscribes
  <2>4. pc'[n] = "send" /\ ret'[n] = "exit_handler" /\ todo'[n] = Unsubscribes(n)
    BY <1>1, <1>10, <2>3 DEF Exit, BeginSend
  <2> QED BY <2>2, <2>3, <2>4 DEF Covered, Leaving, SendPc, CallPc
<1>11. CASE ExitReturn(n) \/ Finish(n) \/ FinishPost(n) \/ GroupProcess(n)
  BY <1>1, <1>4, <1>11 DEF ExitReturn, Finish, MayFinish, FinishPost, GroupProcess, Leaving
<1> QED BY <1>6, <1>7, <1>8, <1>9, <1>10, <1>11 DEF Running

\* Every step keeps a subscription covered as long as the group has it in
\* prospect.
LEMMA CoveredStep ==
    ASSUME LifecycleInv, NoObject, SendsInOrder, NEW n \in Client, NEW g \in Group, NEW f,
           Covered(g, n, f), Pending(worker'[g], n, f), Next
    PROVE  Covered(g, n, f)'
BY OthersApart, ApartCovered, SendingCovered, CallingCovered, RunningCovered

\* post() records a subscription before it pushes the message.
LEMMA RecordedFirstStep ==
    ASSUME LifecycleInv, SendsInOrder, RecordedFirst, Next
    PROVE  RecordedFirst'
<1> SUFFICES ASSUME NEW n \in Client, pc'[n] = "post_push", out'[n].action = "skal-subscribe"
             PROVE  <<out'[n].to, out'[n].filter>> \in worker'[n].subscriptions
  BY DEF RecordedFirst
<1>1. /\ pc \in [Thread -> WorkerPc \cup CallPc \cup WaitPc \cup {"user"}]
      /\ ret \in [Thread -> {"none", "user"} \cup RetPc]
      /\ out \in [Thread -> Message \cup {NoMsg}] /\ todo \in [Thread -> SUBSET Message]
      /\ n \in Thread /\ n \in Name
  BY DEF LifecycleInv, TypeOK, Thread, Name
<1>2. CASE Apart(n)
  <2>1. pc[n] = "post_push" /\ out'[n] = out[n]
    BY <1>2 DEF Apart
  <2> QED BY <1>2, <2>1 DEF Apart, RecordedFirst
<1>3. CASE Sending(n)
  <2>1. ret[n] # "post_push"
    BY <1>1 DEF RetPc
  <2>2. PICK m \in todo[n] : PostFull(n, m)
    BY <1>1, <1>3, <2>1 DEF Sending, PostDrop, PostDeliver, PostPush, PostXoff,
       PostNewGroupThrows, PostNewGroup, PostEmplace, Throw, Return
  <2>3. out'[n] = m /\ pc[n] = "send"
    BY <1>1, <2>2 DEF PostFull, Posting
  <2>4. m.from = n
    BY <1>1, <2>3, HandedOver DEF InOrder, IsSubscription
  <2>5. worker'[n].subscriptions = RecordOf(worker[n].subscriptions, m)
    BY SMTT(60), <2>2, <2>4, OwnRecord
  <2>6. <<m.to, m.filter>> \in RecordOf(worker[n].subscriptions, m)
    BY SMTT(60), <2>3 DEF RecordOf
  <2> QED BY <2>3, <2>5, <2>6
<1>4. CASE Calling(n)
  <2>1. ret[n] # "post_push" /\ \A call : MayCall(n, call) => pc[n] # "post_push"
    BY <1>1 DEF RetPc, MayCall
  <2>2. ~CallTerminate(n) /\ ~CallSend(n)
    BY <1>1, <2>1 DEF CallTerminate, CallSend, BeginSend
  <2> QED BY <1>1, <1>4, <2>1, <2>2 DEF Calling, CallCreateThrows, CallCreate, CreateEmplace, Throw
<1>5. ~Running(n)
  BY <1>1 DEF Running, Entry, TakeGreenLight, BeginRun, Loop, Pop, HandlerReturn, HandlerThrow,
     Throw, GroupProcess, After, XonClear, Exit, BeginSend, ExitReturn, Finish, FinishPost
<1> QED BY <1>2, <1>3, <1>4, <1>5, OthersApart

-------------------------------------------------------------------------------
(* The theorems *)

\* The initial states satisfy the inductive invariant of groups.
LEMMA GroupInit == Init => GroupInv
<1> SUFFICES ASSUME Init PROVE GroupInv
  OBVIOUS
<1>1. \A n \in Name : worker[n] = NewWorker
  BY DEF Init
<1>2. \A t \in Thread : pc[t] \in {"user", "none"}
  BY DEF Init
<1>3. NoObject
  BY <1>1 DEF NoObject
<1>4. SendsInOrder
  BY <1>2 DEF SendsInOrder, SendPc
<1>5. RecordedFirst
  BY <1>2 DEF RecordedFirst, Thread, Name
<1>6. ASSUME NEW g \in Group
      PROVE  GroupOk(pc[g], worker[g]) /\ \A n, f : ~Pending(worker[g], n, f)
  <2>1. worker[g] = NewWorker
    BY <1>1 DEF Name
  <2> QED BY <2>1, GroupOkNew, PendingNew
<1> QED BY <1>3, <1>4, <1>5, <1>6 DEF GroupInv, SubscribersCovered

\* The invariant of groups is inductive next to LifecycleInv.
LEMMA GroupNext ==
    ASSUME OrderlySubscriptions
    PROVE  LifecycleInv /\ GroupInv /\ [Next]_vars => GroupInv'
<1> SUFFICES ASSUME LifecycleInv, GroupInv, [Next]_vars PROVE GroupInv'
  OBVIOUS
<1>1. CASE Next
  <2>1. /\ NoObject /\ SendsInOrder /\ RecordedFirst
        /\ \A g \in Group : GroupOk(pc[g], worker[g])
    BY DEF GroupInv
  <2>2. NoObject' /\ SendsInOrder' /\ RecordedFirst'
    BY <1>1, <2>1, NoObjectStep, SendsStep, RecordedFirstStep
  <2>3. \A g \in Group : GroupOk(pc'[g], worker'[g])
    BY <1>1, <2>1, GroupOkStep
  <2>4. ASSUME NEW g \in Group, NEW n \in Client, NEW f \in Filter,
               Pending(worker'[g], n, f), ~worker'[g].stop
        PROVE  Covered(g, n, f)'
    <3>1. CASE Pending(worker[g], n, f) /\ ~worker[g].stop
      <4>1. Covered(g, n, f)
        BY <3>1 DEF GroupInv, SubscribersCovered
      <4> QED BY <1>1, <2>1, <2>4, <4>1, CoveredStep
    <3>2. ASSUME NEW m \in Message, Delivers(n, m), m.to = g, InOrder(n, m), Adds(m, n, f)
          PROVE  Covered(g, n, f)'
      BY <2>1, <3>2, DeliveredCovered
    <3>3. GroupOk(pc[g], worker[g])
      BY <2>1
    <3> QED BY <1>1, <2>1, <2>4, <3>1, <3>2, <3>3, GroupSide
  <2> QED BY <2>2, <2>3, <2>4 DEF GroupInv, SubscribersCovered
<1>2. CASE UNCHANGED vars
  <2>1. /\ pc' = pc /\ todo' = todo /\ ret' = ret /\ out' = out /\ worker' = worker
        /\ g_workers' = g_workers
    BY <1>2 DEF vars
  <2>2. NoObject' /\ RecordedFirst'
    BY <2>1 DEF GroupInv, NoObject, RecordedFirst
  <2>3. SendsInOrder'
    BY <2>1, HandsStep DEF GroupInv, InHand
  <2>4. \A g \in Group : GroupOk(pc'[g], worker'[g])
    BY <2>1 DEF GroupInv
  <2>5. ASSUME NEW g \in Group, NEW n \in Client, NEW f \in Filter,
               Pending(worker'[g], n, f), ~worker'[g].stop
        PROVE  Covered(g, n, f)'
    <3>1. Pending(worker[g], n, f) /\ ~worker[g].stop
      BY <2>1, <2>5
    <3>2. Covered(g, n, f)
      BY <3>1 DEF GroupInv, SubscribersCovered
    <3> QED BY <2>1, <3>2 DEF Covered, Leaving
  <2> QED BY <2>2, <2>3, <2>4, <2>5 DEF GroupInv, SubscribersCovered
<1> QED BY <1>1, <1>2

\* As long as the application keeps its subscriptions in order, what a group
\* makes of its messages and what its subscribers have still to send agree: a
\* subscription is recorded before it is delivered, and whoever leaves has a
\* skal-unsubscribe behind it.
THEOREM GroupInvariance == OrderlySubscriptions => (Spec => []GroupInv)
<1>1. ASSUME OrderlySubscriptions PROVE LifecycleInv /\ GroupInv /\ [Next]_vars => GroupInv'
  BY <1>1, GroupNext
<1>2. ASSUME OrderlySubscriptions PROVE Spec => []GroupInv
  <2>1. LifecycleInv /\ GroupInv /\ [Next]_vars => GroupInv'
    BY <1>2, <1>1
  <2> QED BY <2>1, GroupInit, LifecycleInvariance, PTL DEF Spec
<1> QED BY <1>2

\* A worker that is gone is in no group, or the message that takes it out is in
\* the group's queue or in its hands, or the group is ending, in every
\* application that keeps its subscriptions in order.
THEOREM SubscriberSafety == OrderlySubscriptions => (Spec => []NoDeadSubscriber)
<1>1. LifecycleInv /\ GroupInv => NoDeadSubscriber
  <2> SUFFICES ASSUME LifecycleInv, GroupInv, NEW g \in Group \cap g_workers,
                      NEW s \in worker[g].subscribers, s[1] \in Client \ g_workers,
                      ~worker[g].stop
               PROVE  Unsubscribing(g, s[1], s[2])
    BY DEF NoDeadSubscriber
  <2>1. worker[g].subscribers \in SUBSET (Thread \X Filter)
    BY DEF LifecycleInv, TypeOK, Name, WorkerObject
  <2>2. PICK n, f : n = s[1] /\ f = s[2]
    OBVIOUS
  <2>3. s = <<n, f>> /\ f \in Filter /\ n \in Client /\ n \notin g_workers
    BY SMTT(60), <2>1, <2>2
  <2>4. worker[n] = NewWorker /\ pc[n] \in {"none", "entry"}
    BY <2>3, Registered DEF GroupInv, NoObject, Name
  <2>5. NewWorker.subscriptions = {}
    BY SMTT(60) DEF NewWorker
  <2>6. ~Covered(g, n, f)
    BY <2>4, <2>5 DEF Covered, SendPc
  <2>7. ~Pending(worker[g], n, f)
    BY <2>3, <2>6 DEF GroupInv, SubscribersCovered
  <2>8. Unsubscribing(g, n, f)
    BY <2>3, <2>7 DEF Pending, Unsubscribing
  <2> QED BY <2>2, <2>8
<1>2. ASSUME OrderlySubscriptions PROVE Spec => []NoDeadSubscriber
  <2>1. Spec => []GroupInv
    BY <1>2, GroupInvariance
  <2> QED BY <1>1, <2>1, LifecycleInvariance, PTL
<1> QED BY <1>2
===============================================================================
