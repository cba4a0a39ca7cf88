--------------------------- MODULE WorkerFlowProofs ---------------------------
(*****************************************************************************)
(* Flow control for any workers, scripts and thresholds: the notifications   *)
(* of a pause and of its end alternate, and a paused worker takes internal   *)
(* messages only.  FlowInv is inductive next to LifecycleInv: what a step    *)
(* does to a worker is to add at most one internal message that is no        *)
(* notification (SameFlow), but for the top of the loop of run(), pop() and  *)
(* the erasure of the worker.                                                *)
(*****************************************************************************)
EXTENDS WorkerProofs

\* Zenon proves a leaf that names no prover; SMT the ones that need arithmetic,
\* sequences or the updates of records.
USE ZenonT(30)

USE DEF registerVars, callVars

\* A list that takes a message other than a notification goes on alternating.
LEMMA AppendAlternates ==
    ASSUME NEW q \in Seq(Message), NEW m \in Message, ~IsThrottleMsg(m),
           NEW b, Alternating(q, b)
    PROVE  Alternating(Append(q, m), b)
<1> DEFINE r == Append(q, m)
<1>1. /\ DOMAIN r = 1 .. Len(q) + 1 /\ DOMAIN q = 1 .. Len(q) /\ Len(q) \in Nat
      /\ \A i \in DOMAIN q : r[i] = q[i]
      /\ r[Len(q) + 1] = m
  BY SMTT(60)
<1> HIDE DEF r
<1>2. \A i \in DOMAIN r : IsThrottleMsg(r[i]) => i \in DOMAIN q
  BY SMTT(60), <1>1
<1>3. ASSUME NEW i \in DOMAIN r, NEW j \in DOMAIN r, i < j, IsThrottleMsg(r[i]),
             r[i].action = r[j].action
      PROVE  \E k \in DOMAIN r : /\ i < k /\ k < j /\ IsThrottleMsg(r[k])
                                 /\ r[k].action # r[i].action
  <2>1. i \in DOMAIN q /\ j \in DOMAIN q
    BY <1>2, <1>3 DEF IsThrottleMsg
  <2>2. PICK k \in DOMAIN q : /\ i < k /\ k < j /\ IsThrottleMsg(q[k])
                              /\ q[k].action # q[i].action
    BY SMTT(60), <1>1, <1>3, <2>1 DEF Alternating
  <2> QED BY SMTT(60), <1>1, <2>1, <2>2
<1>4. ASSUME NEW i \in DOMAIN r, IsThrottleMsg(r[i]), r[i].action # ThrottleAction(b)
      PROVE  \E k \in DOMAIN r : i < k /\ r[k].action = ThrottleAction(b)
  <2>1. i \in DOMAIN q
    BY <1>2, <1>4
  <2>2. PICK k \in DOMAIN q : i < k /\ q[k].action = ThrottleAction(b)
    BY <1>1, <1>4, <2>1 DEF Alternating
  <2> QED BY SMTT(60), <1>1, <2>2
<1> QED BY <1>3, <1>4 DEF Alternating, r

\* So does one that takes the notification of a change.
LEMMA NotifyAlternates ==
    ASSUME NEW q \in Seq(Message), NEW m \in Message, NEW b \in BOOLEAN,
           m.action = ThrottleAction(b), Alternating(q, ~b)
    PROVE  Alternating(Append(q, m), b)
<1> DEFINE r == Append(q, m)
           last == Len(q) + 1
<1>1. /\ DOMAIN r = 1 .. last /\ DOMAIN q = 1 .. Len(q) /\ Len(q) \in Nat
      /\ \A i \in DOMAIN q : r[i] = q[i]
      /\ r[last] = m /\ last \in DOMAIN r /\ last \in Nat
  BY SMTT(60)
<1>2. \A i \in DOMAIN r : i \in Nat /\ i <= last /\ (i # last => i \in DOMAIN q /\ i < last)
  BY SMTT(60), <1>1
<1> HIDE DEF r, last
<1>3. ThrottleAction(~b) # ThrottleAction(b)
  BY DEF ThrottleAction
<1>4. \A x \in Message : IsThrottleMsg(x) =>
        x.action = ThrottleAction(b) \/ x.action = ThrottleAction(~b)
  BY DEF IsThrottleMsg, ThrottleAction
<1>5. ASSUME NEW i \in DOMAIN r, NEW j \in DOMAIN r, i < j, IsThrottleMsg(r[i]),
             r[i].action = r[j].action
      PROVE  \E k \in DOMAIN r : /\ i < k /\ k < j /\ IsThrottleMsg(r[k])
                                 /\ r[k].action # r[i].action
  <2>1. i \in DOMAIN q /\ r[i] = q[i]
    BY SMTT(60), <1>1, <1>2, <1>5
  <2>2. CASE j \in DOMAIN q
    <3>1. PICK k \in DOMAIN q : /\ i < k /\ k < j /\ IsThrottleMsg(q[k])
                                /\ q[k].action # q[i].action
      BY SMTT(60), <1>1, <1>5, <2>1, <2>2 DEF Alternating
    <3> QED BY SMTT(60), <1>1, <2>1, <3>1
  <2>3. CASE j = last
    <3>1. q[i].action = ThrottleAction(b)
      BY <1>1, <1>5, <2>1, <2>3
    <3>2. PICK k \in DOMAIN q : i < k /\ q[k].action = ThrottleAction(~b)
      BY <1>3, <1>5, <2>1, <3>1 DEF Alternating
    <3>3. IsThrottleMsg(q[k])
      BY <3>2 DEF IsThrottleMsg, ThrottleAction
    <3>4. r[k] = q[k] /\ k \in DOMAIN r /\ k < last
      BY SMTT(60), <1>1 DEF last
    <3> QED BY <1>3, <2>1, <2>3, <3>1, <3>2, <3>3, <3>4
  <2> QED BY <1>2, <2>2, <2>3
<1>6. ASSUME NEW i \in DOMAIN r, IsThrottleMsg(r[i]), r[i].action # ThrottleAction(b)
      PROVE  \E k \in DOMAIN r : i < k /\ r[k].action = ThrottleAction(b)
  BY <1>1, <1>2, <1>6
<1> QED BY <1>5, <1>6 DEF Alternating, r

\* So does one whose first message is taken.
LEMMA TailAlternates ==
    ASSUME NEW q \in Seq(Message), q # << >>, NEW b, Alternating(q, b)
    PROVE  Alternating(Tail(q), b)
<1> DEFINE r == Tail(q)
<1>1. /\ \A i \in DOMAIN r : i \in Nat /\ i + 1 \in DOMAIN q /\ r[i] = q[i + 1]
      /\ \A i \in DOMAIN q : i \in Nat /\ (i > 1 => i - 1 \in DOMAIN r /\ r[i - 1] = q[i])
      /\ \A i \in DOMAIN r : i >= 1
  BY SMTT(60)
<1> HIDE DEF r
<1>2. ASSUME NEW i \in DOMAIN r, NEW j \in DOMAIN r, i < j, IsThrottleMsg(r[i]),
             r[i].action = r[j].action
      PROVE  \E k \in DOMAIN r : /\ i < k /\ k < j /\ IsThrottleMsg(r[k])
                                 /\ r[k].action # r[i].action
  <2>1. PICK k \in DOMAIN q : /\ i + 1 < k /\ k < j + 1 /\ IsThrottleMsg(q[k])
                              /\ q[k].action # q[i + 1].action
    BY SMTT(60), <1>1, <1>2 DEF Alternating
  <2>2. k - 1 \in DOMAIN r /\ r[k - 1] = q[k] /\ i < k - 1 /\ k - 1 < j
    BY SMTT(60), <1>1, <2>1
  <2> QED BY <1>1, <2>1, <2>2
<1>3. ASSUME NEW i \in DOMAIN r, IsThrottleMsg(r[i]), r[i].action # ThrottleAction(b)
      PROVE  \E k \in DOMAIN r : i < k /\ r[k].action = ThrottleAction(b)
  <2>1. PICK k \in DOMAIN q : i + 1 < k /\ q[k].action = ThrottleAction(b)
    BY SMTT(60), <1>1, <1>3 DEF Alternating
  <2>2. k - 1 \in DOMAIN r /\ r[k - 1] = q[k] /\ i < k - 1
    BY SMTT(60), <1>1, <2>1
  <2> QED BY <2>1, <2>2
<1> QED BY <1>2, <1>3 DEF Alternating, r

\* n neither comes to pop any message nor leaves its pop().
Stays(n) ==
    pc'[n] # pc[n] => pc[n] \notin {"pop", "pop_internal"} /\ pc'[n] # "pop"

\* Object w is object v, as far as flow control is concerned, with at most one
\* more internal message, which is no notification.
SameFlow(v, w) ==
    /\ w.xoff = v.xoff /\ w.throttled = v.throttled
    /\ \/ w.queue.internal = v.queue.internal
       \/ \E m \in Message : /\ m.internal /\ ~IsThrottleMsg(m)
                             /\ w.queue.internal = Append(v.queue.internal, m)

\* A step that does no more than that to a worker keeps its flow control.
LEMMA SameFlowing ==
    ASSUME NEW v \in WorkerObject, NEW w, NEW p, NEW q, Flowing(p, v), SameFlow(v, w),
           q = "pop" => p = "pop"
    PROVE  Flowing(q, w)
<1>1. v.queue.internal \in Seq(Message)
  BY DEF WorkerObject, QueueOf
<1>2. CASE w.queue.internal = v.queue.internal
  BY <1>2 DEF SameFlow, Flowing
<1>3. ASSUME NEW m \in Message, m.internal, ~IsThrottleMsg(m),
             w.queue.internal = Append(v.queue.internal, m)
      PROVE  Flowing(q, w)
  <2>1. \A i \in DOMAIN w.queue.internal : w.queue.internal[i].internal
    BY SMTT(60), <1>1, <1>3 DEF Flowing
  <2>2. Alternating(w.queue.internal, v.throttled)
    BY <1>1, <1>3, AppendAlternates DEF Flowing
  <2> QED BY <2>1, <2>2 DEF SameFlow, Flowing
<1> QED BY <1>2, <1>3 DEF SameFlow

\* push() of a message that is no notification.
LEMMA PushFlow ==
    ASSUME NEW q \in QueueOf(Message), NEW m \in Message, ~IsNotification(m)
    PROVE  \/ Push(q, m).internal = q.internal
           \/ /\ m.internal /\ ~IsThrottleMsg(m)
              /\ Push(q, m).internal = Append(q.internal, m)
BY MessageType DEF Push, QueueOf, IsNotification

\* What the library sends is no notification.
LEMMA OthersSent ==
    ASSUME NEW from, NEW to
    PROVE  /\ ~IsNotification(Internal(from, to, "skal-xoff"))
           /\ ~IsNotification(Internal(from, to, "skal-xon"))
           /\ ~IsNotification(Internal(from, to, "skal-terminate"))
           /\ \A action : ~IsNotification(Regular(from, to, action))
BY DEF IsNotification, IsThrottleMsg, Internal, Regular

\* Only the top of the loop leads to pop(), and only a message leads on.
LEMMA PopStays ==
    ASSUME LifecycleInv, Next, NEW n \in Name
    PROVE  Stays(n) \/ Pop(n) \/ \E timeout \in BOOLEAN : Loop(n, timeout)
<1> USE DEF Stays
<1>1. /\ pc \in [Thread -> WorkerPc \cup CallPc \cup WaitPc \cup {"user"}]
      /\ ret \in [Thread -> {"none", "user"} \cup RetPc]
      /\ \A k \in Name : k \notin g_workers => pc[k] \notin {"pop", "pop_internal"}
      /\ Name \subseteq Thread /\ Main \in Thread /\ Main \notin Name
  BY NamesAssumption
     DEF LifecycleInv, TypeOK, RegisterInv, ConstructedBeforeRun, Thread
<1>2. \A t \in Thread : ret[t] # "pop"
  BY <1>1 DEF RetPc
<1>3. ASSUME NEW t \in Thread, Sending(t) PROVE Stays(n)
  <2>2. ASSUME NEW m, PostDrop(t, m) \/ PostDeliver(t, m) \/ PostFull(t, m) PROVE Stays(n)
    BY <1>1, <1>2, <2>2 DEF Posting, PostDrop, PostDeliver, PostFull, Return
  <2>3. ASSUME NEW m, PostNewGroup(t, m) \/ PostNewGroupThrows(t, m) PROVE Stays(n)
    BY <1>1, <2>3 DEF Posting, PostNewGroup, PostNewGroupThrows, Throw
  <2>4. CASE PostPush(t) \/ PostXoff(t) \/ PostEmplace(t)
    BY <1>1, <1>2, <2>4 DEF PostPush, PostXoff, PostEmplace, Return
  <2> QED BY <1>3, <2>2, <2>3, <2>4 DEF Sending
<1>4. ASSUME NEW t \in Thread, Calling(t) PROVE Stays(n)
  BY <1>1, <1>2, <1>4 DEF Calling, CallSend, CallCreateThrows, CallCreate, CreateEmplace,
     CallTerminate, MayCall, BeginSend, Throw
<1>5. ASSUME NEW k \in Name, Running(k)
      PROVE  Stays(n) \/ Pop(n) \/ \E timeout \in BOOLEAN : Loop(n, timeout)
  <2>1. CASE Entry(k) \/ TakeGreenLight(k) \/ HandlerThrow(k) \/ GroupProcess(k) \/ After(k)
    BY <1>1, <2>1 DEF Entry, MayEnter, TakeGreenLight, BeginRun, HandlerThrow, Throw,
       GroupProcess, After, BeginSend
  <2>2. CASE XonClear(k) \/ Exit(k) \/ ExitReturn(k) \/ Finish(k) \/ FinishPost(k)
    BY <1>1, <2>2 DEF XonClear, Exit, BeginSend, ExitReturn, Finish, MayFinish,
       FinishPost
  <2>3. CASE Pop(k)
    <3>1. pc' = [pc EXCEPT ![k] = "handler"]
      BY <2>3 DEF Pop
    <3> QED BY <1>1, <2>3, <3>1
  <2>4. ASSUME NEW timeout \in BOOLEAN, Loop(k, timeout)
        PROVE  Stays(n) \/ Loop(n, timeout)
    <3>1. PICK q : pc' = [pc EXCEPT ![k] = q]
      BY <2>4 DEF Loop
    <3> QED BY <1>1, <2>4, <3>1
  <2>5. ASSUME NEW ok \in BOOLEAN, HandlerReturn(k, ok) PROVE Stays(n)
    BY <1>1, <2>5 DEF HandlerReturn
  <2> QED BY <1>5, <2>1, <2>2, <2>3, <2>4, <2>5 DEF Running
<1>6. CASE Waiting
  BY <1>1, <1>6 DEF Waiting, WaitStart, WaitGreen, WaitGreenDone, WaitTake, WaitLock, MayErase,
     WaitErase, WaitCheck, WaitReset, MayCall
<1>7. CASE Finished
  BY <1>7 DEF Finished, vars
<1> QED BY <1>3, <1>4, <1>5, <1>6, <1>7 DEF Next

\* A thread that begins to send ms sends no notification if ms has none.
LEMMA BeginSent ==
    ASSUME TypeOK, NoneSent, NEW t \in Thread, NEW ms, NEW r, BeginSend(t, ms, r),
           \A m \in ms : ~IsNotification(m), UNCHANGED out
    PROVE  NoneSent'
BY DEF TypeOK, BeginSend, NoneSent

\* No step makes a thread send a notification.
LEMMA SentStep ==
    ASSUME LifecycleInv, NoneSent, Next
    PROVE  NoneSent'
<1>1. /\ TypeOK /\ todo \in [Thread -> SUBSET Message] /\ out \in [Thread -> Message \cup {NoMsg}]
      /\ Name \subseteq Thread
  BY DEF LifecycleInv, TypeOK, Thread
<1>2. ASSUME \A t \in Thread : todo'[t] \subseteq todo[t],
             \A t \in Thread : out'[t] \in todo[t] \cup {out[t], NoMsg}
      PROVE  NoneSent'
  BY <1>2 DEF NoneSent
<1>3. ASSUME NEW t \in Thread, Sending(t) PROVE NoneSent'
  <2>1. ASSUME NEW m, PostDrop(t, m) \/ PostDeliver(t, m) \/ PostNewGroupThrows(t, m)
        PROVE  NoneSent'
    BY <1>1, <1>2, <2>1 DEF Posting, PostDrop, PostDeliver, PostNewGroupThrows
  <2>2. ASSUME NEW m, PostFull(t, m) \/ PostNewGroup(t, m) PROVE NoneSent'
    BY <1>1, <1>2, <2>2 DEF Posting, PostFull, PostNewGroup
  <2>3. CASE PostPush(t) \/ PostEmplace(t)
    BY <1>1, <1>2, <2>3 DEF PostPush, PostEmplace
  <2>4. CASE PostXoff(t)
    <3>1. PICK from, to, k : /\ out' = [out EXCEPT ![t] = NoMsg]
                             /\ \/ todo' = todo
                                \/ todo' = [todo EXCEPT ![k] =
                                              @ \cup {Internal(to, from, "skal-xon")}]
      BY SMTT(60), <2>4 DEF PostXoff
    <3> QED BY SMTT(60), <1>1, <3>1, OthersSent DEF NoneSent
  <2> QED BY <1>3, <2>1, <2>2, <2>3, <2>4 DEF Sending
<1>4. ASSUME NEW t \in Thread, Calling(t) PROVE NoneSent'
  <2>1. CASE CallSend(t)
    <3>1. ~NextCall(t).msg.internal
      BY <1>1, <2>1, NextCallType DEF CallSend, MayBeMadeBy
    <3>2. BeginSend(t, {NextCall(t).msg}, pc[t]) /\ UNCHANGED out
      BY <2>1 DEF CallSend
    <3>3. \A m \in {NextCall(t).msg} : ~IsNotification(m)
      BY <3>1 DEF IsNotification
    <3> QED BY SMTT(60), <1>1, <3>2, <3>3, BeginSent
  <2>2. CASE ~CallSend(t)
    BY <1>1, <1>2, <1>4, <2>2 DEF Calling, CallCreateThrows, CallCreate, CreateEmplace,
       CallTerminate
  <2> QED BY <2>1, <2>2
<1>5. ASSUME NEW n \in Name, Running(n) PROVE NoneSent'
  <2>1. CASE GroupProcess(n)
    <3>1. worker[n].cur \in Message
      BY <2>1 DEF GroupProcess, LifecycleInv, InsideCalls
    <3>2. ASSUME NEW m \in GroupCopies(n, worker[n].cur) PROVE m.action \notin SkalAction
      <4>1. PICK s : /\ m = [worker[n].cur EXCEPT !.from = n, !.to = s[1], !.filter = s[2]]
                     /\ worker[n].cur.action \notin SkalAction
        BY DEF GroupCopies
      <4> QED BY <3>1, <4>1 DEF Message
    <3>3. \A m \in GroupCopies(n, worker[n].cur) : ~IsNotification(m)
      BY <3>2 DEF IsNotification, IsThrottleMsg, SkalAction, InternalAction
    <3>4. BeginSend(n, GroupCopies(n, worker[n].cur), "after") /\ UNCHANGED out
      BY <2>1 DEF GroupProcess
    <3> QED BY <1>1, <3>3, <3>4, BeginSent
  <2>2. CASE After(n)
    <3> DEFINE ms == {Internal(n, s, "skal-xon") : s \in worker[n].ntf_xon}
    <3>1. UNCHANGED out /\ (UNCHANGED todo \/ BeginSend(n, ms, "xon_clear"))
      BY <2>2 DEF After
    <3>2. \A m \in ms : ~IsNotification(m)
      BY OthersSent
    <3> HIDE DEF ms
    <3> QED BY <1>1, <1>2, <3>1, <3>2, BeginSent
  <2>3. CASE Exit(n)
    <3>1. UNCHANGED out /\ BeginSend(n, Unsubscribes(n), "exit_handler")
      BY <2>3 DEF Exit
    <3>2. ASSUME NEW m \in Unsubscribes(n) PROVE ~IsNotification(m)
      <4>1. PICK to : m = Regular(n, to, "skal-unsubscribe")
        BY DEF Unsubscribes
      <4> QED BY <4>1, OthersSent
    <3> QED BY <1>1, <3>1, <3>2, BeginSent
  <2>4. CASE ~(GroupProcess(n) \/ After(n) \/ Exit(n))
    <3>1. UNCHANGED <<todo, out>>
      BY <1>5, <2>4 DEF Running, Entry, TakeGreenLight, Loop, Pop, HandlerReturn,
         HandlerThrow, XonClear, ExitReturn, Finish, FinishPost
    <3> QED BY <1>2, <3>1
  <2> QED BY <2>1, <2>2, <2>3, <2>4
<1>6. CASE Waiting \/ Finished
  <2>1. UNCHANGED <<todo, out>>
    BY <1>6 DEF Waiting, WaitStart, WaitGreen, WaitGreenDone, WaitTake, WaitLock, WaitErase,
       WaitCheck, WaitReset, Finished, vars
  <2> QED BY <1>2, <2>1
<1> QED BY <1>3, <1>4, <1>5, <1>6 DEF Next

\* Recording a subscription has nothing to do with flow control.
LEMMA RecordedFlow ==
    ASSUME worker \in [Name -> WorkerObject], NEW m, NEW R, NEW n \in Name
    PROVE  /\ Recorded(m, R)[n].queue = worker[n].queue
           /\ Recorded(m, R)[n].xoff = worker[n].xoff
           /\ Recorded(m, R)[n].throttled = worker[n].throttled
BY DEF Recorded, WorkerObject

\* push() into the queue of an object is no more than that ...
LEMMA ObjectFlow ==
    ASSUME NEW v \in WorkerObject, NEW w \in WorkerObject, NEW m \in Message,
           ~IsNotification(m), w.queue = v.queue, w.xoff = v.xoff, w.throttled = v.throttled
    PROVE  SameFlow(v, [w EXCEPT !.queue = Push(@, m)])
<1> DEFINE x == [w EXCEPT !.queue = Push(@, m)]
<1>1. x.xoff = v.xoff /\ x.throttled = v.throttled /\ x.queue = Push(v.queue, m)
  BY DEF WorkerObject
<1>2. v.queue \in QueueOf(Message)
  BY DEF WorkerObject
<1> HIDE DEF x
<1> QED BY <1>1, <1>2, PushFlow DEF SameFlow, x

\* ... nor is push() into the queue of k, after steps that leave flow control.
LEMMA PushedFlow ==
    ASSUME worker \in [Name -> WorkerObject], NEW v \in [Name -> WorkerObject],
           NEW k \in Name, NEW m \in Message, ~IsNotification(m), NEW n \in Name,
           v[n].queue = worker[n].queue, v[n].xoff = worker[n].xoff,
           v[n].throttled = worker[n].throttled
    PROVE  SameFlow(worker[n], [v EXCEPT ![k].queue = Push(@, m)][n])
<1>1. CASE n # k
  BY <1>1 DEF SameFlow
<1>2. CASE n = k
  <2>1. [v EXCEPT ![k].queue = Push(@, m)][n] = [v[n] EXCEPT !.queue = Push(@, m)]
    BY <1>2
  <2> QED BY SMTT(60), <2>1, ObjectFlow
<1> QED BY <1>1, <1>2

\* The steps of post() do no more than that.
LEMMA SendingFlow ==
    ASSUME LifecycleInv, NoneSent, NEW t \in Thread, Sending(t), NEW n \in Name
    PROVE  SameFlow(worker[n], worker'[n])
<1>1. TypeOK /\ worker \in [Name -> WorkerObject] /\ g_workers \in SUBSET Name
  BY DEF LifecycleInv, TypeOK
<1>2. \A m \in todo[t] : m \in Message /\ ~IsNotification(m)
  BY <1>1 DEF TypeOK, NoneSent
<1>3. ASSUME pc[t] \in {"post_push", "post_xoff", "post_emplace"}
      PROVE  out[t] \in Message /\ ~IsNotification(out[t]) /\ out[t].to \in Name
  <2>1. out[t] \in Message
    BY <1>3 DEF LifecycleInv, InsideCalls
  <2>2. out[t].to \in Name
    BY <1>3, MessageType, <2>1
       DEF LifecycleInv, RegisterInv, NoUseAfterErase, InsideCalls, TypeOK, Name
  <2> QED BY <2>1, <2>2, NamesAssumption DEF NoneSent
<1>4. ASSUME worker'[n] = worker[n] PROVE SameFlow(worker[n], worker'[n])
  BY <1>4 DEF SameFlow
<1>5. ASSUME NEW m \in todo[t], PostDrop(t, m) \/ PostNewGroup(t, m)
      PROVE  SameFlow(worker[n], worker'[n])
  BY <1>4, <1>5 DEF PostDrop, PostNewGroup
<1>6. ASSUME NEW m \in todo[t], PostFull(t, m) \/ PostNewGroupThrows(t, m)
      PROVE  SameFlow(worker[n], worker'[n])
  <2>1. CASE PostFull(t, m)
    BY SMTT(60), <1>1, <2>1, RecordedFlow DEF PostFull, SameFlow
  <2>2. CASE PostNewGroupThrows(t, m)
    BY SMTT(60), <1>1, <2>2 DEF PostNewGroupThrows, Throw, SameFlow, WorkerObject
  <2> QED BY <1>6, <2>1, <2>2
<1>7. ASSUME NEW m \in todo[t], PostDeliver(t, m) PROVE SameFlow(worker[n], worker'[n])
  <2>1. worker' = [Recorded(m, g_workers) EXCEPT ![m.to].queue = Push(@, m)] /\ m.to \in Name
    BY <1>1, <1>7 DEF PostDeliver
  <2> QED BY SMTT(60), <1>1, <1>2, <2>1, RecordedType, RecordedFlow, PushedFlow
<1>8. CASE PostPush(t)
  <2>1. worker' = [worker EXCEPT ![out[t].to].queue = Push(@, out[t])] /\ pc[t] = "post_push"
    BY <1>8 DEF PostPush
  <2> QED BY <1>1, <1>3, <2>1, PushedFlow
<1>9. CASE PostEmplace(t)
  <2>1. PICK v : /\ v = Recorded(out[t], g_workers')
                 /\ worker' = [v EXCEPT ![out[t].to].queue = Push(@, out[t])]
    BY <1>9 DEF PostEmplace
  <2>2. pc[t] = "post_emplace" /\ g_workers' = g_workers \cup {out[t].to}
    BY <1>9 DEF PostEmplace, Emplace
  <2>3. v \in [Name -> WorkerObject] /\ v[n].queue = worker[n].queue
        /\ v[n].xoff = worker[n].xoff /\ v[n].throttled = worker[n].throttled
    BY SMTT(60), <1>1, <1>3, <2>1, <2>2, RecordedType, RecordedFlow
  <2>4. out[t] \in Message /\ ~IsNotification(out[t]) /\ out[t].to \in Name
    BY <1>3, <2>2
  <2>5. SameFlow(worker[n], [v EXCEPT ![out[t].to].queue = Push(@, out[t])][n])
    BY <1>1, <2>3, <2>4, PushedFlow
  <2> QED BY <2>1, <2>5
<1>10. CASE PostXoff(t)
  <2> DEFINE m == out[t]
             x == Internal(m.to, m.from, "skal-xoff")
             noted == [worker EXCEPT ![m.to].ntf_xon = @ \cup {m.from}]
  <2>1. pc[t] = "post_xoff" /\ worker' = XoffTold(m)
    BY <1>10 DEF PostXoff
  <2>2. m \in Message /\ m.to \in Name /\ m.from \in Thread /\ m.to \in Thread
    BY <1>3, <2>1, MessageType DEF LifecycleInv, InsideCalls
  <2>3. x \in Message /\ ~IsNotification(x)
    BY <2>2, InternalType, OthersSent DEF SkalAction, InternalAction
  <2>4. /\ noted \in [Name -> WorkerObject] /\ noted[n].queue = worker[n].queue
        /\ noted[n].xoff = worker[n].xoff /\ noted[n].throttled = worker[n].throttled
    BY SMTT(60), <1>1, <2>2 DEF WorkerObject
  <2>5. worker' = IF m.from \in g_workers THEN [noted EXCEPT ![m.from].queue = Push(@, x)]
                                          ELSE noted
    BY <2>1 DEF XoffTold
  <2> HIDE DEF noted, x, m
  <2>6. CASE m.from \in g_workers
    BY <1>1, <2>3, <2>4, <2>5, <2>6, PushedFlow
  <2>7. CASE m.from \notin g_workers
    BY <2>4, <2>5, <2>7 DEF SameFlow
  <2> QED BY <2>6, <2>7
<1> QED BY <1>5, <1>6, <1>7, <1>8, <1>9, <1>10 DEF Sending

\* Neither do the calls of the application ...
LEMMA CallingFlow ==
    ASSUME LifecycleInv, NEW t \in Thread, Calling(t), NEW n \in Name
    PROVE  SameFlow(worker[n], worker'[n])
<1>1. worker \in [Name -> WorkerObject] /\ n \in Thread
  BY DEF LifecycleInv, TypeOK, Thread
<1>2. CASE CallSend(t) \/ CallCreate(t) \/ \E k \in Name : CreateEmplace(t, k)
  BY <1>2 DEF CallSend, CallCreate, CreateEmplace, SameFlow
<1>3. CASE CallCreateThrows(t)
  BY <1>1, <1>3 DEF CallCreateThrows, Throw, SameFlow, WorkerObject
<1>4. CASE CallTerminate(t)
  <2>1. \/ worker'[n] = worker[n]
        \/ worker'[n] = [worker[n] EXCEPT !.queue = Push(@, TerminateMsg(t, n))]
    BY <1>4 DEF CallTerminate
  <2>2. TerminateMsg(t, n) \in Message /\ ~IsNotification(TerminateMsg(t, n))
    BY <1>1, InternalType, OthersSent DEF TerminateMsg, SkalAction, InternalAction
  <2>3. SameFlow(worker[n], [worker[n] EXCEPT !.queue = Push(@, TerminateMsg(t, n))])
    BY <1>1, <2>2, ObjectFlow
  <2>4. SameFlow(worker[n], worker[n])
    BY DEF SameFlow
  <2> QED BY <2>1, <2>3, <2>4
<1> QED BY <1>2, <1>3, <1>4 DEF Calling

\* ... nor the steps of run() but the top of its loop and pop() ...
LEMMA RunningFlow ==
    ASSUME LifecycleInv, NEW k \in Name, Running(k), NEW n \in Name
    PROVE  \/ SameFlow(worker[n], worker'[n]) \/ Pop(n)
           \/ \E timeout \in BOOLEAN : Loop(n, timeout)
<1>1. worker \in [Name -> WorkerObject]
  BY DEF LifecycleInv, TypeOK
<1>2. ASSUME worker'[n] = worker[n] PROVE SameFlow(worker[n], worker'[n])
  BY <1>2 DEF SameFlow
<1>3. CASE Entry(k) \/ TakeGreenLight(k)
  <2> DEFINE m == Regular(NoName, k, "skal-init")
  <2>1. m \in Message /\ ~IsNotification(m)
    BY InternalType, OthersSent DEF SkalAction, InternalAction, Thread
  <2>2. [worker[k] EXCEPT !.semaphore = @ - 1] \in WorkerObject \/ ~TakeGreenLight(k)
    BY SMTT(60), <1>1 DEF TakeGreenLight, SemReady, WorkerObject
  <2>3. \/ worker' = worker
        \/ \E o \in WorkerObject :
             /\ o.queue = worker[k].queue /\ o.xoff = worker[k].xoff
             /\ o.throttled = worker[k].throttled
             /\ worker' = [worker EXCEPT ![k] = [o EXCEPT !.queue = Push(@, m)]]
    <3>1. CASE Entry(k)
      BY <1>1, <3>1 DEF Entry, BeginRun
    <3>2. CASE TakeGreenLight(k)
      <4>1. PICK o : /\ o = [worker[k] EXCEPT !.semaphore = @ - 1]
                     /\ worker' = [worker EXCEPT ![k] = [o EXCEPT !.queue = Push(@, m)]]
        BY <3>2 DEF TakeGreenLight, BeginRun
      <4>2. /\ o \in WorkerObject /\ o.queue = worker[k].queue /\ o.xoff = worker[k].xoff
            /\ o.throttled = worker[k].throttled
        BY <1>1, <2>2, <3>2, <4>1 DEF WorkerObject
      <4> QED BY <4>1, <4>2
    <3> QED BY <1>3, <3>1, <3>2
  <2> HIDE DEF m
  <2>4. CASE worker' = worker
    BY <1>2, <2>4
  <2>5. ASSUME NEW o \in WorkerObject, o.queue = worker[k].queue, o.xoff = worker[k].xoff,
               o.throttled = worker[k].throttled,
               worker' = [worker EXCEPT ![k] = [o EXCEPT !.queue = Push(@, m)]]
        PROVE  SameFlow(worker[n], worker'[n])
    <3>1. SameFlow(worker[k], [o EXCEPT !.queue = Push(@, m)])
      BY <1>1, <2>1, <2>5, ObjectFlow
    <3>2. PICK x : x = [o EXCEPT !.queue = Push(@, m)] /\ worker' = [worker EXCEPT ![k] = x]
      BY <2>5
    <3> QED BY <1>1, <1>2, <3>1, <3>2
  <2> QED BY <2>3, <2>4, <2>5
<1>4. CASE Pop(k)
  <2>1. n # k => worker'[n] = worker[n]
    BY <1>1, <1>4 DEF Pop
  <2> QED BY <1>2, <1>4, <2>1
<1>5. ASSUME NEW timeout \in BOOLEAN, Loop(k, timeout)
      PROVE  SameFlow(worker[n], worker'[n]) \/ Loop(n, timeout)
  <2>1. PICK queue, throttled, xoff :
          worker' = [worker EXCEPT ![k].queue = queue, ![k].throttled = throttled,
                                   ![k].xoff = xoff]
    BY <1>5 DEF Loop
  <2>2. n # k => worker'[n] = worker[n]
    BY <1>1, <2>1
  <2> QED BY <1>2, <1>5, <2>2
<1>6. CASE \E ok \in BOOLEAN : HandlerReturn(k, ok)
  BY SMTT(60), <1>1, <1>6 DEF HandlerReturn, SameFlow, WorkerObject
<1>7. CASE HandlerThrow(k) \/ XonClear(k) \/ ExitReturn(k)
  <2>1. \/ worker' = [worker EXCEPT ![k].stop = TRUE]
        \/ worker' = [worker EXCEPT ![k].ntf_xon = {}]
        \/ worker' = [worker EXCEPT ![k].subscribers = {}]
    BY <1>7 DEF HandlerThrow, Throw, XonClear, ExitReturn
  <2> QED BY SMTT(60), <1>1, <2>1 DEF SameFlow, WorkerObject
<1>8. CASE GroupProcess(k)
  <2>1. PICK subscribers, stop :
          worker' = [worker EXCEPT ![k].subscribers = subscribers, ![k].stop = stop,
                                   ![k].cur = NoMsg]
    BY <1>8 DEF GroupProcess
  <2> QED BY <1>1, <2>1 DEF SameFlow, WorkerObject
<1>9. CASE After(k) \/ Exit(k) \/ Finish(k) \/ FinishPost(k)
  BY <1>2, <1>9 DEF After, Exit, Finish, FinishPost
<1> QED BY <1>3, <1>4, <1>5, <1>6, <1>7, <1>8, <1>9 DEF Running

\* ... nor those of wait(), until it erases a worker.
LEMMA WaitingFlow ==
    ASSUME LifecycleInv, Waiting, NEW n \in Name
    PROVE  SameFlow(worker[n], worker'[n]) \/ worker'[n] = NewWorker
<1>1. worker \in [Name -> WorkerObject]
  BY DEF LifecycleInv, TypeOK
<1>2. ASSUME worker'[n] = worker[n] PROVE SameFlow(worker[n], worker'[n])
  BY <1>2 DEF SameFlow
<1>3. CASE WaitErase
  BY <1>1, <1>2, <1>3 DEF WaitErase
<1>4. CASE \E k \in Name : WaitGreen(k)
  BY SMTT(60), <1>1, <1>4 DEF WaitGreen, SameFlow, WorkerObject
<1>5. CASE WaitStart \/ WaitGreenDone \/ WaitTake \/ WaitLock \/ WaitCheck \/ WaitReset
  BY <1>2, <1>5 DEF WaitStart, WaitGreenDone, WaitTake, WaitLock, WaitCheck, WaitReset
<1> QED BY <1>3, <1>4, <1>5 DEF Waiting

\* The top of the loop notifies process_msg exactly when throttled changes, and
\* leads to a pop() of any message only if nobody tells the worker to wait.
LEMMA LoopFlow ==
    ASSUME TypeOK, NEW n \in Name, Flowing(pc[n], worker[n]), NEW timeout \in BOOLEAN,
           Loop(n, timeout)
    PROVE  Flowing(pc'[n], worker'[n])
<1> DEFINE w == worker[n]
           m(b) == Internal(NoName, n, ThrottleAction(b))
           notify(action) == Push(w.queue, Internal(NoName, n, action))
<1>1. w \in WorkerObject /\ worker \in [Name -> WorkerObject] /\ n \in DOMAIN pc
  BY DEF TypeOK, Thread
<1>2. ASSUME NEW b \in BOOLEAN
      PROVE  m(b) \in Message /\ m(b).internal /\ m(b).action = ThrottleAction(b)
  BY InternalType DEF ThrottleAction, Internal, SkalAction, InternalAction, Thread
<1>3. PICK queue, xoff :
        /\ worker' = [worker EXCEPT ![n].queue = queue, ![n].throttled = (w.xoff # {}),
                                    ![n].xoff = xoff]
        /\ xoff = IF timeout THEN {} ELSE w.xoff
        /\ queue = CASE w.xoff # {} /\ ~w.throttled -> notify("skal-throttle-on")
                     [] w.xoff = {} /\ w.throttled -> notify("skal-throttle-off")
                     [] OTHER -> w.queue
  BY DEF Loop, Throttling
<1>11. PICK b \in BOOLEAN : b = (w.xoff # {})
  OBVIOUS
<1>12. xoff = IF timeout THEN {} ELSE w.xoff
  BY <1>3
<1>4. worker'[n].queue = queue /\ worker'[n].throttled = b /\ worker'[n].xoff = xoff
  <2>1. worker'[n] = [w EXCEPT !.queue = queue, !.throttled = (w.xoff # {}), !.xoff = xoff]
    BY <1>1, <1>3
  <2> QED BY <1>1, <1>11, <2>1 DEF WorkerObject
<1>13. queue = IF w.throttled = b THEN w.queue ELSE Push(w.queue, m(b))
  <2>1. w.throttled \in BOOLEAN
    BY <1>1 DEF WorkerObject
  <2>2. CASE b = TRUE
    <3>1. w.xoff # {} /\ ThrottleAction(b) = "skal-throttle-on"
      BY <1>11, <2>2 DEF ThrottleAction
    <3> QED BY <1>3, <2>1, <2>2, <3>1
  <2>3. CASE b = FALSE
    <3>1. w.xoff = {} /\ ThrottleAction(b) = "skal-throttle-off"
      BY <1>11, <2>3 DEF ThrottleAction
    <3> QED BY <1>3, <2>1, <2>3, <3>1
  <2> QED BY <1>11, <2>2, <2>3
<1>5. pc'[n] = "pop" => worker'[n].xoff = {}
  <2>1. pc' = [pc EXCEPT ![n] = IF Paused(n, timeout) THEN "pop_internal" ELSE "pop"]
    BY DEF Loop
  <2> QED BY <1>1, <1>12, <1>4, <2>1 DEF Paused
<1>6. CASE w.throttled = b
  BY <1>13, <1>4, <1>5, <1>6 DEF Flowing
<1>7. CASE w.throttled # b
  <2>1. queue.internal = Append(w.queue.internal, m(b)) /\ w.queue.internal \in Seq(Message)
    <3>1. queue = Push(w.queue, m(b)) /\ w.queue \in QueueOf(Message)
      BY <1>1, <1>13, <1>7 DEF WorkerObject
    <3> HIDE DEF m
    <3> QED BY <1>2, <3>1 DEF Push, QueueOf
  <2>2. w.throttled = ~b
    BY <1>1, <1>7 DEF WorkerObject
  <2>3. Alternating(queue.internal, b)
    BY <1>2, <2>1, <2>2, NotifyAlternates DEF Flowing
  <2>4. \A i \in DOMAIN queue.internal : queue.internal[i].internal
    <3> HIDE DEF m
    <3> QED BY SMTT(60), <1>2, <2>1 DEF Flowing
  <2> QED BY <1>4, <1>5, <2>3, <2>4 DEF Flowing
<1> QED BY <1>6, <1>7

\* pop() takes the first internal message if there is one.
LEMMA PopFlow ==
    ASSUME TypeOK, NEW n \in Name, Flowing(pc[n], worker[n]), Pop(n)
    PROVE  Flowing(pc'[n], worker'[n])
<1> DEFINE q == worker[n].queue
<1>1. /\ worker \in [Name -> WorkerObject] /\ q \in QueueOf(Message)
      /\ q.internal \in Seq(Message) /\ n \in DOMAIN pc
  BY DEF TypeOK, WorkerObject, QueueOf, Thread
<1>2. worker'[n].queue = Rest(q) /\ worker'[n].throttled = worker[n].throttled
  BY SMTT(60), <1>1 DEF Pop, WorkerObject
<1>3. pc'[n] = "handler"
  BY <1>1 DEF Pop
<1>4. \/ q.internal # << >> /\ Rest(q).internal = Tail(q.internal)
      \/ Rest(q).internal = q.internal
  BY <1>1 DEF Rest, QueueOf
<1>5. CASE q.internal # << >> /\ Rest(q).internal = Tail(q.internal)
  <2>1. Alternating(Tail(q.internal), worker[n].throttled)
    BY <1>1, <1>5, TailAlternates DEF Flowing
  <2>2. \A i \in DOMAIN Tail(q.internal) : Tail(q.internal)[i].internal
    BY SMTT(60), <1>1, <1>5 DEF Flowing
  <2> QED BY <1>2, <1>3, <1>5, <2>1, <2>2 DEF Flowing
<1>6. CASE Rest(q).internal = q.internal
  BY <1>2, <1>3, <1>6 DEF Flowing
<1> QED BY <1>4, <1>5, <1>6

\* A worker that does not exist has an empty queue and no reason to wait.
LEMMA NewFlowing == \A p : Flowing(p, NewWorker)
<1>1. /\ NewWorker.queue.internal = << >> /\ NewWorker.xoff = {}
  BY SMTT(60) DEF NewWorker, EmptyQueue
<1>2. DOMAIN << >> = {}
  BY SMTT(60)
<1> QED BY <1>1, <1>2 DEF Flowing, Alternating

\* Every step keeps the invariant of flow control.
LEMMA FlowNext == LifecycleInv /\ FlowInv /\ [Next]_vars => FlowInv'
<1> SUFFICES ASSUME LifecycleInv, FlowInv, Next PROVE FlowInv'
  <2>1. ASSUME FlowInv, UNCHANGED vars PROVE FlowInv'
    BY <2>1 DEF FlowInv, NoneSent, vars
  <2> QED BY <2>1
<1>1. NoneSent'
  BY SentStep DEF FlowInv
<1>2. ASSUME NEW n \in Name PROVE Flowing(pc'[n], worker'[n])
  <2>1. TypeOK /\ worker[n] \in WorkerObject /\ Flowing(pc[n], worker[n])
    BY DEF LifecycleInv, TypeOK, FlowInv
  <2>2. CASE Pop(n)
    BY <2>1, <2>2, PopFlow
  <2>3. CASE \E timeout \in BOOLEAN : Loop(n, timeout)
    BY <2>1, <2>3, LoopFlow
  <2>4. CASE worker'[n] = NewWorker
    BY <2>4, NewFlowing
  <2>5. CASE Stays(n) /\ SameFlow(worker[n], worker'[n])
    BY <2>1, <2>5, SameFlowing DEF Stays
  <2>6. \/ SameFlow(worker[n], worker'[n]) \/ worker'[n] = NewWorker \/ Pop(n)
        \/ \E timeout \in BOOLEAN : Loop(n, timeout)
    <3>1. ASSUME Finished PROVE SameFlow(worker[n], worker'[n])
      BY <3>1 DEF Finished, vars, SameFlow
    <3> QED BY <3>1, SendingFlow, CallingFlow, RunningFlow, WaitingFlow DEF FlowInv, Next
  <2> QED BY <2>2, <2>3, <2>4, <2>5, <2>6, PopStays
<1> QED BY <1>1, <1>2 DEF FlowInv

\* The invariant holds when skal starts.
LEMMA FlowInit == Init => FlowInv
BY NewFlowing DEF Init, FlowInv, NoneSent

\* The invariant of flow control holds in every reachable state.
LEMMA FlowInvariance == Spec => [](LifecycleInv /\ FlowInv)
<1>1. LifecycleInv /\ FlowInv /\ [Next]_vars => (LifecycleInv /\ FlowInv)'
  BY NextInv, FlowNext
<1> QED BY InitInv, FlowInit, <1>1, PTL DEF Spec

\* In whatever order xoffs, xons and timeouts come, process_msg is told in turn
\* that its worker is paused and that it is not (worker.cpp, run()).
THEOREM ThrottleSafety == Spec => []ThrottleAlternates
<1>1. FlowInv => ThrottleAlternates
  BY DEF FlowInv, Flowing, ThrottleAlternates
<1> QED BY FlowInvariance, <1>1, PTL

\* A worker that some other one told to stop sending takes internal messages
\* only, until it is told otherwise or times out (worker.cpp, run()).
THEOREM PauseSafety == Spec => PausedOnlyInternal
<1>1. ASSUME LifecycleInv, FlowInv, [Next]_vars, NEW n \in Name,
             pc[n] \in {"pop", "pop_internal"}, pc'[n] = "handler", worker[n].xoff # {}
      PROVE  worker'[n].cur.internal
  <2> DEFINE q == worker[n].queue
  <2>1. Next /\ ~Stays(n)
    BY <1>1 DEF vars, Stays
  <2>2. ~\E timeout \in BOOLEAN : Loop(n, timeout)
    <3>1. ASSUME NEW timeout \in BOOLEAN, Loop(n, timeout) PROVE pc[n] = "loop"
      BY <3>1 DEF Loop
    <3> QED BY <1>1, <3>1
  <2>3. Pop(n)
    BY <1>1, <2>1, <2>2, PopStays
  <2>4. /\ worker \in [Name -> WorkerObject] /\ q.internal \in Seq(Message)
        /\ pc[n] = "pop_internal" /\ \A i \in DOMAIN q.internal : q.internal[i].internal
    BY <1>1 DEF LifecycleInv, TypeOK, WorkerObject, QueueOf, FlowInv, Flowing
  <2>5. worker'[n].cur = Front(q) /\ Poppable(q, TRUE)
    BY <2>3, <2>4 DEF Pop, WorkerObject
  <2>6. q.internal # << >> /\ Front(q) = q.internal[1]
    BY SMTT(60), <2>4, <2>5 DEF Poppable, Front
  <2> QED BY SMTT(60), <2>4, <2>5, <2>6
<1>2. LifecycleInv /\ FlowInv /\ [Next]_vars =>
        [\A n \in Name : pc[n] \in {"pop", "pop_internal"} /\ pc'[n] = "handler"
           /\ worker[n].xoff # {} => worker'[n].cur.internal]_vars
  BY <1>1
<1> QED BY FlowInvariance, <1>2, PTL DEF Spec, PausedOnlyInternal

===============================================================================
