----------------------------- MODULE WorkerProofs -----------------------------
(*****************************************************************************)
(* LifecycleInv is an invariant of Worker, and so is what follows from it,   *)
(* for any application: any workers, groups, threads and scripts.  There is  *)
(* a lemma for every step: first lemmas on types and on steps of one kind,   *)
(* then the steps of post(), create(), do_create() and terminate(), and      *)
(* those of thread_entry_point(), run() and wait().  The last section proves *)
(* that no worker runs outside wait(), for the applications that leave the   *)
(* start and the end of skal to main.                                        *)
(*****************************************************************************)
EXTENDS WorkerProperties, TLAPS

\* Zenon proves a leaf that names no prover; SMT the ones that need arithmetic,
\* sequences or the updates of records.
USE ZenonT(30)

(* The operators of the model return values of the right types. *)

\* queue_t::push keeps a queue of messages a queue of messages.
LEMMA PushType ==
    ASSUME NEW M, NEW q \in QueueOf(M), NEW m \in M,
           m.internal \in BOOLEAN, m.urgent \in BOOLEAN
    PROVE  Push(q, m) \in QueueOf(M)
<1> DEFINE S == Seq(M)
           Appended(s) == Append(s, m)
<1>1. \A s \in S : Appended(s) \in S
  BY SMTT(60)
<1>2. q \in [internal : S, urgent : S, regular : S]
  BY DEF QueueOf
<1>3. \/ Push(q, m) = [q EXCEPT !.internal = Appended(@)]
      \/ Push(q, m) = [q EXCEPT !.urgent = Appended(@)]
      \/ Push(q, m) = [q EXCEPT !.regular = Appended(@)]
  BY DEF Push
<1> HIDE DEF S, Appended
<1>4. Push(q, m) \in [internal : S, urgent : S, regular : S]
  BY <1>1, <1>2, <1>3
<1> QED
  BY <1>4 DEF QueueOf, S

\* queue_t::pop returns a message and leaves a queue, once it need not wait.
LEMMA PopType ==
    ASSUME NEW M, NEW q \in QueueOf(M), NEW internal_only,
           Poppable(q, internal_only)
    PROVE  Front(q) \in M /\ Rest(q) \in QueueOf(M)
<1> DEFINE S == Seq(M)
           First(s) == Head(s)
           Others(s) == Tail(s)
<1>1. \A s \in S : s # << >> => First(s) \in M /\ Others(s) \in S
  BY SMTT(60)
<1>2. q \in [internal : S, urgent : S, regular : S]
  BY DEF QueueOf
<1>3. \/ /\ q.internal # << >> /\ Front(q) = First(q.internal)
         /\ Rest(q) = [q EXCEPT !.internal = Others(@)]
      \/ /\ q.urgent # << >> /\ Front(q) = First(q.urgent)
         /\ Rest(q) = [q EXCEPT !.urgent = Others(@)]
      \/ /\ q.regular # << >> /\ Front(q) = First(q.regular)
         /\ Rest(q) = [q EXCEPT !.regular = Others(@)]
  BY DEF Poppable, Front, Rest
<1> HIDE DEF S, First, Others
<1>4. Front(q) \in M /\ Rest(q) \in [internal : S, urgent : S, regular : S]
  BY <1>1, <1>2, <1>3
<1> QED
  BY <1>4 DEF QueueOf, S

\* What worker.cpp reads of a message has these types.
LEMMA MessageType ==
    ASSUME NEW m \in Message
    PROVE  /\ m.from \in Thread \cup {NoName} /\ m.to \in Thread
           /\ m.action \in Action /\ m.filter \in Filter
           /\ m.internal \in BOOLEAN /\ m.urgent \in BOOLEAN
           /\ m.action = "skal-subscribe" => m.from \in Thread /\ m.to \in Group
BY DEF Message

\* queue_t::push on the queue of a worker.
LEMMA PushMessage ==
    ASSUME NEW q \in QueueOf(Message), NEW m \in Message
    PROVE  Push(q, m) \in QueueOf(Message)
BY MessageType, PushType

\* What msg_t::create_internal() and msg_t::create() make.
LEMMA InternalType ==
    ASSUME NEW from \in Thread \cup {NoName}, NEW to \in Thread,
           NEW action \in SkalAction \ {"skal-subscribe"}
    PROVE  /\ Internal(from, to, action) \in Message
           /\ Regular(from, to, action) \in Message
BY DEF Internal, Regular, Message, Action, Filter

\* The constructor of worker_t leaves every member in its type.
LEMMA NewWorkerType == NewWorker \in WorkerObject
<1>1. EmptyQueue \in QueueOf(Message)
  BY SMTT(60) DEF EmptyQueue, QueueOf
<1> QED
  BY <1>1 DEF NewWorker, WorkerObject

\* post() changes nothing but subscriptions_ when it records a subscription.
LEMMA RecordedType ==
    ASSUME worker \in [Name -> WorkerObject], NEW m \in Message, NEW R \in SUBSET Name
    PROVE  /\ Recorded(m, R) \in [Name -> WorkerObject]
           /\ \A n \in Name : Recorded(m, R)[n].cur = worker[n].cur
<1>1. m.action = "skal-subscribe" => <<m.to, m.filter>> \in Group \X Filter
  BY MessageType
<1>2. CASE m.from \in R /\ m.action = "skal-subscribe"
  BY SMTT(60), <1>1, <1>2 DEF Recorded, WorkerObject
<1>3. CASE m.from \in R /\ m.action = "skal-unsubscribe"
  BY SMTT(60), <1>3 DEF Recorded, WorkerObject
<1>4. CASE ~(m.from \in R /\ m.action \in {"skal-subscribe", "skal-unsubscribe"})
  BY <1>4 DEF Recorded
<1> QED
  BY <1>2, <1>3, <1>4

\* A push into the queue of n changes nothing but that queue.
LEMMA PushedType ==
    ASSUME NEW w \in [Name -> WorkerObject], NEW n \in Name, NEW m \in Message
    PROVE  LET pushed == [w EXCEPT ![n].queue = Push(@, m)]
           IN  /\ pushed \in [Name -> WorkerObject]
               /\ \A k \in Name : pushed[k].cur = w[k].cur
<1> DEFINE q == Push(w[n].queue, m)
<1>1. q \in QueueOf(Message)
  BY PushMessage DEF WorkerObject
<1> HIDE DEF q
<1>2. [w[n] EXCEPT !.queue = q] \in WorkerObject
  BY SMTT(60), <1>1 DEF WorkerObject
<1>3. [w[n] EXCEPT !.queue = q].cur = w[n].cur
  BY DEF WorkerObject
<1>4. [w EXCEPT ![n].queue = Push(@, m)] = [w EXCEPT ![n] = [w[n] EXCEPT !.queue = q]]
  BY DEF q
<1> QED
  BY <1>2, <1>3, <1>4

\* The next call of a thread is one that this thread may make.
LEMMA NextCallType ==
    ASSUME TypeOK, NEW t \in Thread, NEW call, MayCall(t, call)
    PROVE  NextCall(t) \in Call /\ MayBeMadeBy(t, NextCall(t)) /\ NextCall(t).call = call
<1>1. Calls(t) \in Seq(Call)
  BY ScriptAssumption DEF Calls
<1>2. called[t] + 1 \in 1 .. Len(Calls(t))
  BY SMTT(60), <1>1 DEF MayCall, TypeOK
<1> QED
  BY SMTT(60), <1>1, <1>2, ScriptAssumption DEF MayCall, NextCall, Calls

-------------------------------------------------------------------------------
(* Steps of one kind have the same effect on the invariant. *)

USE DEF registerVars, callVars

\* A thread that holds no lock, is registered if it is a worker's, and goes on
\* to hold none, leaves the register as it is.
LEMMA QuietStep ==
    ASSUME TypeOK, InsideCalls, RegisterInv, NEW t \in Thread, NEW q,
           pc' = [pc EXCEPT ![t] = q],
           UNCHANGED <<g_mutex, g_workers, g_terminated, g_semaphore, green, out>>,
           pc[t] \notin HoldsLock \cup WaitPc \cup {"done"},
           q \notin HoldsLock \cup WaitPc \cup {"none", "entry"},
           t \in Name => t \in g_workers
    PROVE  RegisterInv'
<1> USE DEF TypeOK, RegisterInv, HoldsLock, WaitPc
<1>1. \A s \in Thread : pc'[s] = (IF s = t THEN q ELSE pc[s])
  OBVIOUS
<1>2. MutexHeld'
  BY <1>1 DEF MutexHeld
<1>3. ConstructedBeforeRun'
  BY SMTT(60), <1>1 DEF ConstructedBeforeRun
<1>4. OneConstruction'
  <2>1. \A n \in Name : UnderConstruction(n)' <=> UnderConstruction(n)
    BY <1>1 DEF UnderConstruction, Thread
  <2>2. \A s \in Thread : pc[s] \in {"create_emplace", "post_emplace"}
                             <=> pc'[s] \in {"create_emplace", "post_emplace"}
    BY <1>1
  <2>3. \A s \in Thread : pc'[s] = "post_emplace" => UnderConstruction(out[s].to)'
    BY SMTT(60), <1>1, <2>1, MessageType DEF OneConstruction, InsideCalls, Name
  <2> QED
    BY <2>1, <2>2, <2>3 DEF OneConstruction
<1>5. EndedOnly'
  BY SMTT(60), <1>1 DEF EndedOnly, Thread
<1>6. NoUseAfterErase'
  BY <1>1 DEF NoUseAfterErase
<1>7. (pc[Main] # "wait_green" => green = {})'
  BY <1>1, NamesAssumption DEF Thread
<1>8. ReapSignalled'
  BY <1>1, NamesAssumption DEF ReapSignalled, Thread
<1> QED
  BY <1>2, <1>3, <1>4, <1>5, <1>6, <1>7, <1>8

\* The places a thread can be at, in a call and outside.
PlaceOf(t) ==
    IF t \in User THEN {"user"} \cup CallPc \cup (IF t = Main THEN WaitPc ELSE {})
                  ELSE WorkerPc \cup CallPc
RetOf(t) == IF t \in User THEN {"user"} ELSE RetPc

\* A thread that goes on at q without a message in hand, and knows where to
\* return to if q is inside a call, keeps InsideCalls.
LEMMA InsideStep ==
    ASSUME TypeOK, InsideCalls, NEW t \in Thread, NEW q \in PlaceOf(t),
           pc' = [pc EXCEPT ![t] = q], UNCHANGED out,
           q \notin {"post_push", "post_xoff", "post_emplace"},
           \A s \in Thread : s # t => ret'[s] = ret[s],
           q \in CallPc => ret'[t] \in RetOf(t),
           \A n \in Name : n # t => worker'[n].cur = worker[n].cur,
           t \in Name /\ (q = "handler" \/ (q \in CallPc /\ ret'[t] = "handler"))
             => worker'[t].cur \in Message
    PROVE  InsideCalls'
<1>1. \A s \in Thread : pc'[s] = (IF s = t THEN q ELSE pc[s])
  BY DEF TypeOK
<1>2. User \cap Name = {} /\ User \subseteq Thread /\ Name \subseteq Thread
  BY NamesAssumption DEF Thread
<1>3. /\ \A u \in User : pc'[u] \in {"user"} \cup CallPc
                                 \cup (IF u = Main THEN WaitPc ELSE {})
      /\ \A n \in Name : pc'[n] \in WorkerPc \cup CallPc
  BY SMTT(60), <1>1, <1>2 DEF InsideCalls, PlaceOf
<1>4. \A s \in Thread : pc'[s] \in CallPc =>
         ret'[s] \in (IF s \in User THEN {"user"} ELSE RetPc)
  BY <1>1 DEF InsideCalls, RetOf
<1>5. \A s \in Thread : pc'[s] \in {"post_push", "post_xoff", "post_emplace"} =>
         /\ out'[s] \in Message
         /\ pc'[s] # "post_emplace" => out'[s].from # NoName
         /\ pc'[s] = "post_emplace" => out'[s].action = "skal-subscribe"
  BY <1>1 DEF InsideCalls
<1>6. \A n \in Name :
         pc'[n] = "handler" \/ (pc'[n] \in CallPc /\ ret'[n] = "handler")
           => worker'[n].cur \in Message
  BY SMTT(60), <1>1, <1>2 DEF InsideCalls
<1> QED
  BY <1>3, <1>4, <1>5, <1>6 DEF InsideCalls

\* Both at once: the steps that neither take nor release g_mutex.
LEMMA CalmStep ==
    ASSUME LifecycleInv, NEW t \in Thread, NEW q \in PlaceOf(t),
           pc' = [pc EXCEPT ![t] = q],
           UNCHANGED <<g_mutex, g_workers, g_terminated, g_semaphore, green, out>>,
           pc[t] \notin HoldsLock \cup WaitPc \cup {"done"},
           q \notin HoldsLock \cup WaitPc \cup {"none", "entry"},
           t \in Name => t \in g_workers,
           g_state' \in {"initialising", "running", "terminating"},
           called' \in [Thread -> Nat],
           todo' \in [Thread -> SUBSET Message],
           ret' \in [Thread -> {"none", "user"} \cup RetPc],
           worker' \in [Name -> WorkerObject],
           \A s \in Thread : s # t => ret'[s] = ret[s],
           q = "send" => ret'[t] \in RetOf(t),
           \A n \in Name : n # t => worker'[n].cur = worker[n].cur,
           t \in Name /\ (q = "handler" \/ (q = "send" /\ ret'[t] = "handler"))
             => worker'[t].cur \in Message
    PROVE  LifecycleInv'
<1> USE DEF LifecycleInv
<1>1. TypeOK'
  BY DEF TypeOK, PlaceOf
<1>2. q \in CallPc => q = "send"
  BY DEF CallPc, HoldsLock
<1>3. InsideCalls'
  BY <1>2, InsideStep DEF HoldsLock
<1>4. RegisterInv'
  BY QuietStep
<1> QED
  BY <1>1, <1>3, <1>4

-------------------------------------------------------------------------------
(* post() and send() *)

\* Where post() returns to is outside every critical section.
LEMMA ReturnPlace ==
    ASSUME LifecycleInv, NEW t \in Thread, pc[t] \in CallPc, NEW rest
    PROVE  /\ Return(t, rest) \in PlaceOf(t)
           /\ Return(t, rest) \notin HoldsLock \cup WaitPc \cup {"none", "entry"}
           /\ t \in Name => t \in g_workers
           /\ ret[t] \in RetOf(t)
           /\ t \in Name /\ (Return(t, rest) = "handler" \/ ret[t] = "handler")
                => worker[t].cur \in Message
BY NamesAssumption
   DEF Return, LifecycleInv, InsideCalls, RegisterInv, ConstructedBeforeRun,
       RetOf, PlaceOf, RetPc, CallPc, WorkerPc, WaitPc, HoldsLock, Thread

\* post() to a name that is not registered keeps the invariant.
LEMMA PostDropInv ==
    ASSUME LifecycleInv, NEW t \in Thread, NEW m \in todo[t], PostDrop(t, m)
    PROVE  LifecycleInv'
<1> USE DEF PostDrop, Posting
<1>1. pc[t] \in CallPc /\ pc[t] \notin HoldsLock \cup WaitPc \cup {"done"}
  BY DEF CallPc, HoldsLock, WaitPc
<1>2. /\ g_state' \in {"initialising", "running", "terminating"}
      /\ called' \in [Thread -> Nat]
      /\ todo' \in [Thread -> SUBSET Message]
      /\ ret' \in [Thread -> {"none", "user"} \cup RetPc]
      /\ worker' \in [Name -> WorkerObject]
  BY DEF LifecycleInv, TypeOK
<1> QED
  BY <1>1, <1>2, ReturnPlace, CalmStep

\* post() that pushes into a queue with room keeps the invariant.
LEMMA PostDeliverInv ==
    ASSUME LifecycleInv, NEW t \in Thread, NEW m \in todo[t], PostDeliver(t, m)
    PROVE  LifecycleInv'
<1> DEFINE r == Recorded(m, g_workers)
<1> USE DEF PostDeliver, Posting
<1>1. pc[t] \in CallPc /\ pc[t] \notin HoldsLock \cup WaitPc \cup {"done"}
  BY DEF CallPc, HoldsLock, WaitPc
<1>2. /\ g_state' \in {"initialising", "running", "terminating"}
      /\ called' \in [Thread -> Nat]
      /\ todo' \in [Thread -> SUBSET Message]
      /\ ret' \in [Thread -> {"none", "user"} \cup RetPc]
      /\ worker \in [Name -> WorkerObject]
      /\ m \in Message /\ m.to \in Name /\ g_workers \in SUBSET Name
  BY DEF LifecycleInv, TypeOK
<1>3. r \in [Name -> WorkerObject] /\ \A n \in Name : r[n].cur = worker[n].cur
  BY <1>2, RecordedType
<1>4. worker' \in [Name -> WorkerObject] /\ \A n \in Name : worker'[n].cur = worker[n].cur
  BY SMTT(60), <1>2, <1>3, PushedType
<1> QED
  BY <1>1, <1>2, <1>4, ReturnPlace, CalmStep DEF Thread

\* With g_mutex free no thread is inside a critical section, and no worker
\* is under construction.
LEMMA UnlockedFacts ==
    ASSUME RegisterInv, Unlocked
    PROVE  /\ \A t \in Thread : pc[t] \notin HoldsLock
           /\ \A n \in Name : ~UnderConstruction(n)
<1>1. \A t \in Thread : pc[t] \notin HoldsLock
  BY NamesAssumption DEF RegisterInv, MutexHeld, Unlocked
<1> QED
  BY <1>1 DEF RegisterInv, OneConstruction, HoldsLock

\* post() that meets a full queue keeps the invariant: it holds g_mutex from
\* here on, and its recipient is registered.
LEMMA PostFullInv ==
    ASSUME LifecycleInv, NEW t \in Thread, NEW m \in todo[t], PostFull(t, m)
    PROVE  LifecycleInv'
<1> USE DEF LifecycleInv, PostFull, Posting
<1>1. m \in Message /\ m.to \in g_workers /\ m.from # NoName /\ g_workers \in SUBSET Name
  BY DEF TypeOK, TellXoff
<1>2. worker' \in [Name -> WorkerObject] /\ \A n \in Name : worker'[n].cur = worker[n].cur
  BY <1>1, RecordedType DEF TypeOK
<1>3. \A s \in Thread : /\ pc'[s] = (IF s = t THEN "post_push" ELSE pc[s])
                        /\ out'[s] = (IF s = t THEN m ELSE out[s])
  BY DEF TypeOK
<1>4. TypeOK'
  BY <1>1, <1>2 DEF TypeOK, CallPc
<1>5. InsideCalls'
  BY SMTT(60), <1>1, <1>2, <1>3, NamesAssumption DEF InsideCalls, CallPc, Thread
<1>6. RegisterInv'
  <2>0. /\ \A s \in Thread : pc[s] \notin HoldsLock
        /\ \A n \in Name : ~UnderConstruction(n)
    BY UnlockedFacts
  <2>1. MutexHeld'
    BY <1>3, <2>0 DEF MutexHeld, HoldsLock
  <2>2. ConstructedBeforeRun'
    BY <1>3 DEF RegisterInv, ConstructedBeforeRun, Thread
  <2>3. \A n \in Name : ~UnderConstruction(n)'
    BY SMTT(60), <1>3, <2>0 DEF UnderConstruction, Thread
  <2>4. OneConstruction'
    BY SMTT(60), <1>3, <2>0, <2>3 DEF OneConstruction, HoldsLock
  <2>5. EndedOnly'
    BY SMTT(60), <1>3 DEF RegisterInv, EndedOnly, Thread, TypeOK
  <2>6. NoUseAfterErase'
    BY SMTT(60), <1>1, <1>3, <2>0 DEF RegisterInv, NoUseAfterErase, HoldsLock
  <2>7. (pc[Main] # "wait_green" => green = {})'
    BY <1>3, NamesAssumption DEF RegisterInv, Thread
  <2>8. ReapSignalled'
    BY <1>3, NamesAssumption DEF RegisterInv, ReapSignalled, Thread
  <2> QED
    BY <2>1, <2>2, <2>4, <2>5, <2>6, <2>7, <2>8 DEF RegisterInv
<1> QED
  BY <1>4, <1>5, <1>6

\* The push into a full queue, g_mutex held, keeps the invariant.
LEMMA PostPushInv ==
    ASSUME LifecycleInv, NEW t \in Thread, PostPush(t)
    PROVE  LifecycleInv'
<1> USE DEF LifecycleInv, PostPush
<1>1. /\ out[t] \in Message /\ out[t].to \in g_workers /\ out[t].to \in Name
      /\ worker \in [Name -> WorkerObject]
  BY DEF TypeOK, InsideCalls, RegisterInv, NoUseAfterErase
<1>2. worker' \in [Name -> WorkerObject] /\ \A n \in Name : worker'[n].cur = worker[n].cur
  BY SMTT(60), <1>1, PushedType
<1>3. \A s \in Thread : pc'[s] = (IF s = t THEN "post_xoff" ELSE pc[s])
  BY DEF TypeOK
<1>4. TypeOK'
  BY <1>1, <1>2 DEF TypeOK, CallPc
<1>5. InsideCalls'
  BY SMTT(60), <1>1, <1>2, <1>3, NamesAssumption DEF InsideCalls, CallPc, Thread
<1>6. RegisterInv'
  <2>1. MutexHeld'
    BY <1>3 DEF RegisterInv, MutexHeld, HoldsLock
  <2>2. ConstructedBeforeRun'
    BY <1>3 DEF RegisterInv, ConstructedBeforeRun, Thread
  <2>3. \A n \in Name : UnderConstruction(n)' <=> UnderConstruction(n)
    BY SMTT(60), <1>3 DEF UnderConstruction, Thread
  <2>4. OneConstruction'
    <3>1. \A s \in Thread : pc'[s] # "post_emplace"
      BY SMTT(60), <1>3 DEF RegisterInv, MutexHeld, HoldsLock
    <3> QED
      BY <1>3, <2>3, <3>1 DEF RegisterInv, OneConstruction
  <2>5. EndedOnly'
    BY SMTT(60), <1>3 DEF RegisterInv, EndedOnly, Thread, TypeOK
  <2>6. NoUseAfterErase'
    BY <1>1, <1>3 DEF RegisterInv, NoUseAfterErase
  <2>7. (pc[Main] # "wait_green" => green = {})'
    BY <1>3, NamesAssumption DEF RegisterInv, Thread
  <2>8. ReapSignalled'
    BY <1>3, NamesAssumption DEF RegisterInv, ReapSignalled, Thread
  <2> QED
    BY <2>1, <2>2, <2>4, <2>5, <2>6, <2>7, <2>8 DEF RegisterInv
<1> QED
  BY <1>4, <1>5, <1>6

\* The xoff adds the sender to the recipient's ntf_xon_, and to a queue.
LEMMA XoffToldType ==
    ASSUME worker \in [Name -> WorkerObject], NEW m \in Message, m.to \in Name,
           m.from # NoName, g_workers \subseteq Name
    PROVE  /\ XoffTold(m) \in [Name -> WorkerObject]
           /\ \A n \in Name : XoffTold(m)[n].cur = worker[n].cur
<1> DEFINE noted == [worker EXCEPT ![m.to].ntf_xon = @ \cup {m.from}]
           x == Internal(m.to, m.from, "skal-xoff")
<1>1. m.from \in Thread /\ m.to \in Thread
  BY MessageType
<1>2. x \in Message
  BY <1>1, InternalType DEF SkalAction, InternalAction
<1>3. noted \in [Name -> WorkerObject] /\ \A n \in Name : noted[n].cur = worker[n].cur
  BY SMTT(60), <1>1 DEF WorkerObject
<1>4. XoffTold(m) = IF m.from \in g_workers
                      THEN [noted EXCEPT ![m.from].queue = Push(@, x)]
                      ELSE noted
  BY DEF XoffTold
<1> HIDE DEF noted, x
<1> QED
  BY SMTT(60), <1>2, <1>3, <1>4, PushedType

\* The xoff to the sender, with which post() ends, keeps the invariant.
LEMMA PostXoffInv ==
    ASSUME LifecycleInv, NEW t \in Thread, PostXoff(t)
    PROVE  LifecycleInv'
<1> DEFINE q == Return(t, todo[t])
<1> USE DEF PostXoff
<1>1. /\ out[t] \in Message /\ out[t].to \in Name /\ out[t].from # NoName
      /\ worker \in [Name -> WorkerObject] /\ g_workers \subseteq Name
  BY DEF LifecycleInv, TypeOK, InsideCalls, RegisterInv, NoUseAfterErase
<1>2. worker' \in [Name -> WorkerObject] /\ \A n \in Name : worker'[n].cur = worker[n].cur
  BY <1>1, XoffToldType
<1>3. PICK x \in Message :
        todo' = todo \/ todo' = [todo EXCEPT ![out[t].to] = @ \cup {x}]
  <2>1. Internal(out[t].to, out[t].from, "skal-xon") \in Message
    BY <1>1, MessageType, InternalType DEF SkalAction, InternalAction
  <2> QED
    BY <2>1
<1>4. todo' \in [Thread -> SUBSET Message]
  <2> HIDE DEF PostXoff
  <2>1. todo \in [Thread -> SUBSET Message]
    BY DEF LifecycleInv, TypeOK
  <2>2. todo[out[t].to] \cup {x} \in SUBSET Message
    BY <1>1, <2>1 DEF Thread
  <2> QED
    BY <1>3, <2>1, <2>2
<1>5. /\ q \in PlaceOf(t) /\ q \notin HoldsLock \cup WaitPc \cup {"none", "entry"}
      /\ t \in Name => t \in g_workers
      /\ ret[t] \in RetOf(t)
      /\ t \in Name /\ (q = "handler" \/ ret[t] = "handler") => worker[t].cur \in Message
  BY ReturnPlace DEF CallPc
<1> HIDE DEF q
<1>6. \A s \in Thread : /\ pc'[s] = (IF s = t THEN q ELSE pc[s])
                        /\ out'[s] = (IF s = t THEN NoMsg ELSE out[s])
  BY DEF q, LifecycleInv, TypeOK
<1>7. TypeOK'
  BY <1>2, <1>4, <1>5 DEF LifecycleInv, TypeOK, PlaceOf, q
<1>8. InsideCalls'
  <2>1. InsideCalls /\ ret' = ret
    BY DEF LifecycleInv
  <2> HIDE DEF PostXoff
  <2>2. \A u \in User : pc'[u] \in {"user"} \cup CallPc
                                     \cup (IF u = Main THEN WaitPc ELSE {})
    BY <1>5, <1>6, <2>1, NamesAssumption DEF InsideCalls, PlaceOf, Thread
  <2>3. \A n \in Name : pc'[n] \in WorkerPc \cup CallPc
    BY <1>5, <1>6, <2>1, NamesAssumption DEF InsideCalls, PlaceOf, Thread
  <2>4. \A s \in Thread : pc'[s] \in CallPc =>
          ret'[s] \in (IF s \in User THEN {"user"} ELSE RetPc)
    BY <1>5, <1>6, <2>1 DEF InsideCalls, RetOf
  <2>5. \A s \in Thread : pc'[s] \in {"post_push", "post_xoff", "post_emplace"} =>
          pc'[s] = pc[s] /\ out'[s] = out[s]
    BY <1>5, <1>6 DEF HoldsLock
  <2>6. \A n \in Name :
          pc'[n] = "handler" \/ (pc'[n] \in CallPc /\ ret'[n] = "handler")
            => worker'[n].cur \in Message
    BY <1>2, <1>5, <1>6, <2>1 DEF InsideCalls, Thread
  <2> QED
    BY <2>1, <2>2, <2>3, <2>4, <2>5, <2>6 DEF InsideCalls
<1>9. RegisterInv'
  <2> USE DEF LifecycleInv, RegisterInv
  <2>1. \A s \in Thread : s # t => pc[s] \notin HoldsLock
    BY DEF MutexHeld, HoldsLock
  <2>2. MutexHeld'
    BY SMTT(60), <1>5, <1>6, <2>1, NamesAssumption DEF MutexHeld
  <2>3. ConstructedBeforeRun'
    BY <1>5, <1>6 DEF ConstructedBeforeRun, Thread
  <2>4. \A n \in Name : ~UnderConstruction(n)'
    BY SMTT(60), <1>5, <1>6, <2>1 DEF UnderConstruction, OneConstruction, HoldsLock, Thread
  <2>5. OneConstruction'
    BY SMTT(60), <1>5, <1>6, <2>1, <2>4 DEF OneConstruction, HoldsLock
  <2>6. EndedOnly'
    BY SMTT(60), <1>6 DEF EndedOnly, Thread, TypeOK
  <2>7. NoUseAfterErase'
    BY <1>5, <1>6, <2>1 DEF NoUseAfterErase, HoldsLock
  <2>8. (pc[Main] # "wait_green" => green = {})'
    BY <1>6, NamesAssumption DEF Thread
  <2>9. ReapSignalled'
    BY <1>6, NamesAssumption DEF ReapSignalled, Thread
  <2> QED
    BY <2>2, <2>3, <2>5, <2>6, <2>7, <2>8, <2>9
<1> QED
  BY <1>7, <1>8, <1>9 DEF LifecycleInv

-------------------------------------------------------------------------------
(* create(), do_create() and terminate() *)

\* Calls are made outside critical sections, by registered workers or others.
LEMMA CallPlace ==
    ASSUME LifecycleInv, NEW t \in Thread, NEW call, MayCall(t, call)
    PROVE  /\ pc[t] \in RetOf(t) /\ pc[t] \in {"user", "handler", "exit_handler"}
           /\ pc[t] \in PlaceOf(t)
           /\ pc[t] \notin HoldsLock \cup WaitPc \cup {"none", "entry", "done", "send"}
           /\ t \in Name => t \in g_workers
           /\ called' \in [Thread -> Nat]
           /\ t \in Name /\ pc[t] = "handler" => worker[t].cur \in Message
<1>1. called' \in [Thread -> Nat]
  BY SMTT(60) DEF MayCall, LifecycleInv, TypeOK
<1> QED
  BY <1>1, NamesAssumption
     DEF MayCall, LifecycleInv, InsideCalls, RegisterInv, ConstructedBeforeRun,
         RetOf, PlaceOf, RetPc, CallPc, WorkerPc, WaitPc, HoldsLock, Thread

\* An exception takes a thread out of process_msg and out of its calls.
LEMMA ThrowFacts ==
    ASSUME LifecycleInv, NEW t \in Thread, NEW at \in RetOf(t),
           Throw(t, at)
    PROVE  \E q \in PlaceOf(t) :
             /\ pc' = [pc EXCEPT ![t] = q]
             /\ q \notin HoldsLock \cup WaitPc \cup {"none", "entry", "handler", "send"}
             /\ worker' \in [Name -> WorkerObject]
             /\ \A n \in Name : worker'[n].cur = worker[n].cur
<1>1. worker' \in [Name -> WorkerObject] /\ \A n \in Name : worker'[n].cur = worker[n].cur
  <2>1. worker \in [Name -> WorkerObject]
    BY DEF LifecycleInv, TypeOK
  <2>2. worker' = worker \/ (t \in Name /\ worker' = [worker EXCEPT ![t].stop = TRUE])
    BY DEF Throw
  <2>3. ASSUME t \in Name
        PROVE  LET o == [worker[t] EXCEPT !.stop = TRUE]
               IN  o \in WorkerObject /\ o.cur = worker[t].cur
    BY <2>1, <2>3 DEF WorkerObject
  <2> QED
    BY <2>1, <2>2, <2>3
<1> DEFINE q == CASE at = "user" -> "user" [] at \in {"handler", "after"} -> "after"
                  [] OTHER -> "finish"
<1>2. /\ q \in PlaceOf(t) /\ pc' = [pc EXCEPT ![t] = q]
      /\ q \notin HoldsLock \cup WaitPc \cup {"none", "entry", "handler", "send"}
  BY DEF Throw, RetOf, RetPc, PlaceOf, WorkerPc, HoldsLock, WaitPc
<1> HIDE DEF q
<1> QED
  BY <1>1, <1>2

\* A call of send() by the application keeps the invariant.
LEMMA CallSendInv ==
    ASSUME LifecycleInv, NEW t \in Thread, CallSend(t)
    PROVE  LifecycleInv'
<1>1. NextCall(t).msg \in Message
  BY SMTT(60), NextCallType DEF CallSend, Call, LifecycleInv
<1>2. /\ g_state' \in {"initialising", "running", "terminating"}
      /\ todo' \in [Thread -> SUBSET Message]
      /\ ret' \in [Thread -> {"none", "user"} \cup RetPc]
      /\ worker' \in [Name -> WorkerObject]
      /\ ret'[t] = pc[t] /\ pc' = [pc EXCEPT ![t] = "send"]
      /\ \A s \in Thread : s # t => ret'[s] = ret[s]
  BY <1>1, CallPlace DEF CallSend, BeginSend, LifecycleInv, TypeOK, RetOf
<1>3. "send" \in PlaceOf(t) /\ "send" \notin HoldsLock \cup WaitPc
  BY DEF PlaceOf, CallPc, HoldsLock, WaitPc
<1> QED
  BY <1>2, <1>3, CallPlace, CalmStep DEF CallSend

\* A create() that throws keeps the invariant.
LEMMA CallCreateThrowsInv ==
    ASSUME LifecycleInv, NEW t \in Thread, CallCreateThrows(t)
    PROVE  LifecycleInv'
<1>1. PICK q \in PlaceOf(t) :
        /\ pc' = [pc EXCEPT ![t] = q]
        /\ q \notin HoldsLock \cup WaitPc \cup {"none", "entry", "handler", "send"}
        /\ worker' \in [Name -> WorkerObject]
        /\ \A n \in Name : worker'[n].cur = worker[n].cur
  BY CallPlace, ThrowFacts DEF CallCreateThrows
<1>2. /\ g_state' \in {"initialising", "running", "terminating"}
      /\ todo' \in [Thread -> SUBSET Message]
      /\ ret' \in [Thread -> {"none", "user"} \cup RetPc]
  BY DEF CallCreateThrows, LifecycleInv, TypeOK
<1> QED
  BY <1>1, <1>2, CallPlace, CalmStep DEF CallCreateThrows

\* terminate(), which pushes into every queue, keeps the invariant.
LEMMA CallTerminateInv ==
    ASSUME LifecycleInv, NEW t \in Thread, CallTerminate(t)
    PROVE  LifecycleInv'
<1>1. /\ g_state' \in {"initialising", "running", "terminating"}
      /\ todo' \in [Thread -> SUBSET Message]
      /\ ret' \in [Thread -> {"none", "user"} \cup RetPc]
      /\ worker \in [Name -> WorkerObject]
      /\ pc' = [pc EXCEPT ![t] = pc[t]]
  BY DEF CallTerminate, LifecycleInv, TypeOK
<1>2. ASSUME NEW n \in Name
      PROVE  worker'[n] \in WorkerObject /\ worker'[n].cur = worker[n].cur
  <2> DEFINE q == Push(worker[n].queue, TerminateMsg(t, n))
  <2>1. q \in QueueOf(Message)
    BY <1>1, InternalType, PushMessage
       DEF TerminateMsg, SkalAction, InternalAction, WorkerObject, Thread
  <2>2. worker'[n] = [worker[n] EXCEPT !.queue = q] \/ worker'[n] = worker[n]
    BY DEF CallTerminate
  <2> HIDE DEF q
  <2> QED
    BY <1>1, <2>1, <2>2 DEF WorkerObject
<1>3. worker' \in [Name -> WorkerObject]
  BY <1>2 DEF CallTerminate
<1> QED
  BY <1>1, <1>2, <1>3, CallPlace, CalmStep DEF CallTerminate

\* A post() whose do_create() throws keeps the invariant.
LEMMA PostNewGroupThrowsInv ==
    ASSUME LifecycleInv, NEW t \in Thread, NEW m \in todo[t], PostNewGroupThrows(t, m)
    PROVE  LifecycleInv'
<1>1. pc[t] \in CallPc /\ pc[t] \notin HoldsLock \cup WaitPc \cup {"done"}
  BY DEF PostNewGroupThrows, Posting, CallPc, HoldsLock, WaitPc
<1>2. PICK q \in PlaceOf(t) :
        /\ pc' = [pc EXCEPT ![t] = q]
        /\ q \notin HoldsLock \cup WaitPc \cup {"none", "entry", "handler", "send"}
        /\ worker' \in [Name -> WorkerObject]
        /\ \A n \in Name : worker'[n].cur = worker[n].cur
  BY <1>1, ReturnPlace, ThrowFacts DEF PostNewGroupThrows
<1>3. /\ g_state' \in {"initialising", "running", "terminating"}
      /\ called' \in [Thread -> Nat]
      /\ todo' \in [Thread -> SUBSET Message]
      /\ ret' \in [Thread -> {"none", "user"} \cup RetPc]
  BY DEF PostNewGroupThrows, Posting, LifecycleInv, TypeOK
<1> QED
  BY <1>1, <1>2, <1>3, ReturnPlace, CalmStep DEF PostNewGroupThrows

\* do_create() starts the construction of n, holding the lock.
LEMMA ConstructStep ==
    ASSUME LifecycleInv, Unlocked, NEW t \in Thread, NEW n \in Name \ g_workers,
           NEW p \in {"create_emplace", "post_emplace"},
           t \in Name => t \in g_workers, pc[t] \notin WaitPc \cup {"done"},
           \A s \in Thread : pc'[s] = (IF s = t THEN p ELSE IF s = n THEN "entry" ELSE pc[s]),
           g_mutex' = t,
           UNCHANGED <<g_workers, g_terminated, g_semaphore, green>>,
           p = "post_emplace" => out'[t].to = n
    PROVE  RegisterInv'
<1> USE DEF LifecycleInv
<1>1. n # t /\ n \in Thread /\ Name \cap User = {}
  BY NamesAssumption DEF Thread
<1>3. /\ \A s \in Thread : pc[s] \notin HoldsLock
      /\ \A k \in Name : ~UnderConstruction(k)
  BY UnlockedFacts
<1>4. pc[n] = "none"
  BY <1>3 DEF RegisterInv, ConstructedBeforeRun, UnderConstruction
<1>5. MutexHeld'
  BY <1>1, <1>3 DEF MutexHeld, HoldsLock
<1>6. ConstructedBeforeRun'
  BY DEF RegisterInv, ConstructedBeforeRun, Thread
<1>7. \A k \in Name : UnderConstruction(k)' <=> k = n
  BY <1>1, <1>3 DEF UnderConstruction, Thread
<1>8. OneConstruction'
  BY <1>1, <1>3, <1>7 DEF OneConstruction, HoldsLock
<1>9. EndedOnly'
  <2>1. \A i \in DOMAIN g_terminated : g_terminated[i] \in Thread
    BY SMTT(60) DEF TypeOK, Thread
  <2>2. \A i \in DOMAIN g_terminated : pc[g_terminated[i]] = "done"
    BY <1>3, <2>1 DEF RegisterInv, EndedOnly, HoldsLock
  <2>3. \A i \in DOMAIN g_terminated : pc'[g_terminated[i]] = "done"
    BY <1>4, <2>1, <2>2
  <2> QED
    BY <2>3 DEF RegisterInv, EndedOnly
<1>10. NoUseAfterErase'
  BY <1>1, <1>3 DEF RegisterInv, NoUseAfterErase, HoldsLock
<1>11. (pc[Main] # "wait_green" => green = {})'
  BY <1>1, NamesAssumption DEF RegisterInv, Thread, WaitPc
<1>12. ReapSignalled'
  BY <1>1, <1>3, NamesAssumption DEF RegisterInv, ReapSignalled, Thread, WaitPc, HoldsLock
<1> QED
  BY <1>5, <1>6, <1>8, <1>9, <1>10, <1>11, <1>12 DEF RegisterInv

\* The places of the threads while n is being constructed.
LEMMA ConstructInside ==
    ASSUME TypeOK, InsideCalls, NEW t \in Thread, NEW n \in Name,
           NEW p \in {"create_emplace", "post_emplace"},
           \A s \in Thread : pc'[s] = (IF s = t THEN p ELSE IF s = n THEN "entry" ELSE pc[s]),
           \A s \in Thread : s # t => ret'[s] = ret[s] /\ out'[s] = out[s],
           ret'[t] \in RetOf(t),
           p = "post_emplace" => out'[t] \in Message /\ out'[t].action = "skal-subscribe",
           UNCHANGED worker,
           t \in Name /\ ret'[t] = "handler" => worker[t].cur \in Message
    PROVE  InsideCalls'
<1>1. User \cap Name = {} /\ User \subseteq Thread /\ Name \subseteq Thread
  BY NamesAssumption DEF Thread
<1>2. /\ \A u \in User : pc'[u] \in {"user"} \cup CallPc
                                 \cup (IF u = Main THEN WaitPc ELSE {})
      /\ \A k \in Name : pc'[k] \in WorkerPc \cup CallPc
  BY <1>1 DEF InsideCalls, CallPc, WorkerPc
<1>3. \A s \in Thread : pc'[s] \in CallPc =>
         ret'[s] \in (IF s \in User THEN {"user"} ELSE RetPc)
  BY DEF InsideCalls, RetOf, CallPc
<1>4. \A s \in Thread : pc'[s] \in {"post_push", "post_xoff", "post_emplace"} =>
         /\ out'[s] \in Message
         /\ pc'[s] # "post_emplace" => out'[s].from # NoName
         /\ pc'[s] = "post_emplace" => out'[s].action = "skal-subscribe"
  BY DEF InsideCalls
<1>5. \A k \in Name :
         pc'[k] = "handler" \/ (pc'[k] \in CallPc /\ ret'[k] = "handler")
           => worker'[k].cur \in Message
  BY <1>1 DEF InsideCalls, CallPc
<1> QED
  BY <1>2, <1>3, <1>4, <1>5 DEF InsideCalls

\* create(), up to the start of the new thread, keeps the invariant.
LEMMA CallCreateInv ==
    ASSUME LifecycleInv, NEW t \in Thread, CallCreate(t)
    PROVE  LifecycleInv'
<1> DEFINE n == NextCall(t).name
<1>1. n \in Name \ g_workers /\ n \in Thread /\ n \notin User
  BY SMTT(60), NextCallType, NamesAssumption DEF CallCreate, Call, Name, Thread, LifecycleInv
<1>2. /\ g_mutex' = t /\ ret' = [ret EXCEPT ![t] = pc[t]]
      /\ pc' = [pc EXCEPT ![t] = "create_emplace", ![n] = "entry"]
      /\ UNCHANGED <<g_state, g_workers, g_terminated, g_semaphore, green, todo, out, worker>>
      /\ Unlocked
  BY DEF CallCreate
<1>3. /\ pc[t] \in RetOf(t) /\ called' \in [Thread -> Nat]
      /\ pc[t] \notin WaitPc \cup {"done"}
      /\ t \in Name => t \in g_workers
      /\ t \in Name /\ pc[t] = "handler" => worker[t].cur \in Message
  BY CallPlace DEF CallCreate
<1> HIDE DEF n
<1>4. \A s \in Thread : pc'[s] = (IF s = t THEN "create_emplace"
                                  ELSE IF s = n THEN "entry" ELSE pc[s])
  BY <1>1, <1>2, <1>3 DEF LifecycleInv, TypeOK
<1>7. RegisterInv'
  BY <1>1, <1>2, <1>3, <1>4, ConstructStep
<1>5. TypeOK'
  BY <1>1, <1>2, <1>3 DEF LifecycleInv, TypeOK, CallPc, WorkerPc, RetOf
<1>6. InsideCalls'
  <2>1. /\ \A s \in Thread : s # t => ret'[s] = ret[s] /\ out'[s] = out[s]
        /\ ret'[t] = pc[t]
    BY <1>2 DEF LifecycleInv, TypeOK
  <2>2. t \in Name /\ ret'[t] = "handler" => worker[t].cur \in Message
    BY <1>3, <2>1
  <2>3. TypeOK /\ InsideCalls /\ ret'[t] \in RetOf(t) /\ n \in Name /\ UNCHANGED worker
    BY <1>1, <1>2, <1>3, <2>1 DEF LifecycleInv
  <2> QED
    BY <1>4, <2>1, <2>2, <2>3, ConstructInside
<1> QED
  BY <1>5, <1>6, <1>7 DEF LifecycleInv

\* post() that creates a group, up to the start of its thread, keeps the
\* invariant.
LEMMA PostNewGroupInv ==
    ASSUME LifecycleInv, NEW t \in Thread, NEW m \in todo[t], PostNewGroup(t, m)
    PROVE  LifecycleInv'
<1>1. m \in Message
  BY DEF LifecycleInv, TypeOK
<1>2. m.to \in Name \ g_workers /\ m.to \in Thread /\ m.to \notin User
  BY <1>1, MessageType, NamesAssumption DEF PostNewGroup, Name, Thread
<1>3. /\ g_mutex' = t /\ out' = [out EXCEPT ![t] = m] /\ m.action = "skal-subscribe"
      /\ pc' = [pc EXCEPT ![t] = "post_emplace", ![m.to] = "entry"]
      /\ UNCHANGED <<g_state, g_workers, g_terminated, g_semaphore, green, called, ret, worker>>
      /\ Unlocked /\ pc[t] = "send"
      /\ todo' = [todo EXCEPT ![t] = @ \ {m}]
  BY DEF PostNewGroup, Posting
<1>4. /\ t \in Name => t \in g_workers
      /\ pc[t] \notin WaitPc \cup {"done"} /\ ret[t] \in RetOf(t)
      /\ t \in Name /\ ret[t] = "handler" => worker[t].cur \in Message
  BY <1>3, ReturnPlace DEF CallPc, WaitPc
<1>5. \A s \in Thread : out'[s] = (IF s = t THEN m ELSE out[s])
  BY <1>3 DEF LifecycleInv, TypeOK
<1>6. \A s \in Thread : pc'[s] = (IF s = t THEN "post_emplace"
                                  ELSE IF s = m.to THEN "entry" ELSE pc[s])
  BY <1>2, <1>3, <1>4 DEF LifecycleInv, TypeOK
<1>9. RegisterInv'
  <2>1. out'[t].to = m.to
    BY <1>5
  <2> QED
    BY <1>2, <1>3, <1>4, <1>6, <2>1, ConstructStep
<1>7. TypeOK'
  <2>1. out' \in [Thread -> Message \cup {NoMsg}]
    BY <1>1, <1>3 DEF LifecycleInv, TypeOK
  <2>2. todo' \in [Thread -> SUBSET Message]
    BY <1>3 DEF LifecycleInv, TypeOK
  <2>3. pc' \in [Thread -> WorkerPc \cup CallPc \cup WaitPc \cup {"user"}]
    <3>1. "post_emplace" \in CallPc /\ "entry" \in WorkerPc
      BY DEF CallPc, WorkerPc
    <3>2. pc \in [Thread -> WorkerPc \cup CallPc \cup WaitPc \cup {"user"}]
      BY DEF LifecycleInv, TypeOK
    <3> QED
      BY <1>3, <3>1, <3>2
  <2> QED
    BY <1>3, <2>1, <2>2, <2>3 DEF LifecycleInv, TypeOK
<1>8. InsideCalls'
  <2>1. /\ \A s \in Thread : s # t => ret'[s] = ret[s] /\ out'[s] = out[s]
        /\ out'[t] \in Message /\ out'[t].action = "skal-subscribe"
        /\ ret'[t] \in RetOf(t) /\ UNCHANGED worker
        /\ t \in Name /\ ret'[t] = "handler" => worker[t].cur \in Message
    BY <1>1, <1>3, <1>4, <1>5
  <2>2. TypeOK /\ InsideCalls /\ m.to \in Name
    BY <1>2 DEF LifecycleInv
  <2> QED
    BY <1>6, <2>1, <2>2, ConstructInside
<1> QED
  BY <1>7, <1>8, <1>9 DEF LifecycleInv

\* The object under construction goes to the register; the lock is released.
LEMMA EmplaceStep ==
    ASSUME LifecycleInv, NEW t \in Thread, pc[t] \in {"create_emplace", "post_emplace"},
           NEW n \in Name, UnderConstruction(n), Emplace(n), g_mutex' = NoName, NEW q,
           \A s \in Thread : pc'[s] = (IF s = t THEN q ELSE pc[s]),
           q \notin HoldsLock \cup WaitPc \cup {"none", "entry"},
           UNCHANGED <<g_terminated, g_semaphore>>
    PROVE  RegisterInv' /\ g_workers' \subseteq Name /\ green' \subseteq Name
<1> USE DEF LifecycleInv, RegisterInv
<1>1. \A s \in Thread : s # t => pc[s] \notin HoldsLock
  BY DEF MutexHeld, HoldsLock
<1>2. /\ g_workers' = g_workers \cup {n} /\ green' \subseteq green \cup {n}
      /\ pc[Main] # "wait_green" => green' = green
  BY DEF Emplace
<1>3. MutexHeld'
  BY <1>1, NamesAssumption DEF MutexHeld
<1>4. t \in Name => t \in g_workers
  BY DEF ConstructedBeforeRun
<1>5. ConstructedBeforeRun'
  BY <1>2, <1>4 DEF ConstructedBeforeRun, Thread
<1>6. \A k \in Name : ~UnderConstruction(k)'
  <2>1. \A k \in Name : UnderConstruction(k)' => UnderConstruction(k) /\ k # n
    BY <1>2 DEF UnderConstruction, Thread
  <2> QED
    BY <2>1 DEF OneConstruction
<1>7. OneConstruction'
  BY <1>1, <1>6 DEF OneConstruction, HoldsLock
<1>8. EndedOnly'
  <2>1. \A i \in DOMAIN g_terminated : g_terminated[i] \in Thread
    BY SMTT(60) DEF TypeOK, Thread
  <2> QED
    BY <2>1 DEF EndedOnly
<1>9. NoUseAfterErase'
  BY <1>1, <1>2 DEF NoUseAfterErase, HoldsLock
<1>10. (pc[Main] # "wait_green" => green = {})'
  BY <1>2, NamesAssumption DEF Thread
<1>11. ReapSignalled'
  BY <1>1, NamesAssumption DEF ReapSignalled, Thread, HoldsLock
<1>12. g_workers' \subseteq Name /\ green' \subseteq Name
  BY <1>2 DEF TypeOK
<1> QED
  BY <1>3, <1>5, <1>7, <1>8, <1>9, <1>10, <1>11, <1>12

\* A thread that leaves a call without a message at hand keeps InsideCalls.
LEMMA LeaveInside ==
    ASSUME TypeOK, InsideCalls, NEW t \in Thread, NEW q \in PlaceOf(t),
           \A s \in Thread : pc'[s] = (IF s = t THEN q ELSE pc[s]),
           q \notin HoldsLock, UNCHANGED ret, ret[t] \in RetOf(t),
           \A s \in Thread : s # t => out'[s] = out[s],
           \A n \in Name : worker'[n].cur = worker[n].cur,
           t \in Name /\ (q = "handler" \/ ret[t] = "handler") => worker[t].cur \in Message
    PROVE  InsideCalls'
<1>1. User \cap Name = {} /\ User \subseteq Thread /\ Name \subseteq Thread
  BY NamesAssumption DEF Thread
<1>2. /\ \A u \in User : pc'[u] \in {"user"} \cup CallPc
                                 \cup (IF u = Main THEN WaitPc ELSE {})
      /\ \A k \in Name : pc'[k] \in WorkerPc \cup CallPc
  BY <1>1 DEF InsideCalls, PlaceOf
<1>3. \A s \in Thread : pc'[s] \in CallPc =>
         ret'[s] \in (IF s \in User THEN {"user"} ELSE RetPc)
  BY DEF InsideCalls, RetOf
<1>4. \A s \in Thread : pc'[s] \in {"post_push", "post_xoff", "post_emplace"} =>
         /\ out'[s] \in Message
         /\ pc'[s] # "post_emplace" => out'[s].from # NoName
         /\ pc'[s] = "post_emplace" => out'[s].action = "skal-subscribe"
  BY DEF InsideCalls, HoldsLock
<1>5. \A k \in Name :
         pc'[k] = "handler" \/ (pc'[k] \in CallPc /\ ret'[k] = "handler")
           => worker'[k].cur \in Message
  BY <1>1 DEF InsideCalls
<1> QED
  BY <1>2, <1>3, <1>4, <1>5 DEF InsideCalls

\* The registration of the new worker by create() keeps the invariant.
LEMMA CreateEmplaceInv ==
    ASSUME LifecycleInv, NEW t \in Thread, NEW n \in Name, CreateEmplace(t, n)
    PROVE  LifecycleInv'
<1> DEFINE q == ret[t]
<1>1. /\ pc[t] = "create_emplace" /\ Emplace(n) /\ g_mutex' = NoName
      /\ pc' = [pc EXCEPT ![t] = q]
      /\ UNCHANGED <<g_state, g_terminated, g_semaphore, called, todo, ret, out, worker>>
  BY DEF CreateEmplace
<1>2. UnderConstruction(n)
  BY DEF CreateEmplace, UnderConstruction, LifecycleInv, RegisterInv, ConstructedBeforeRun
<1>3. /\ q \in PlaceOf(t) /\ q \notin HoldsLock \cup WaitPc \cup {"none", "entry"}
      /\ ret[t] \in RetOf(t)
      /\ t \in Name /\ (q = "handler" \/ ret[t] = "handler") => worker[t].cur \in Message
  <2>1. Return(t, {}) = q /\ pc[t] \in CallPc
    BY <1>1 DEF Return, CallPc
  <2> QED
    BY <2>1, ReturnPlace
<1> HIDE DEF q
<1>4. \A s \in Thread : pc'[s] = (IF s = t THEN q ELSE pc[s])
  BY <1>1 DEF LifecycleInv, TypeOK
<1>5. RegisterInv' /\ g_workers' \subseteq Name /\ green' \subseteq Name
  BY <1>1, <1>2, <1>3, <1>4, EmplaceStep
<1>6. TypeOK'
  BY <1>1, <1>3, <1>5 DEF LifecycleInv, TypeOK, PlaceOf
<1>7. InsideCalls'
  BY <1>1, <1>3, <1>4, LeaveInside DEF LifecycleInv
<1> QED
  BY <1>5, <1>6, <1>7 DEF LifecycleInv

\* The registration of the new group by post(), and the push of the
\* subscription, keep the invariant.
LEMMA PostEmplaceInv ==
    ASSUME LifecycleInv, NEW t \in Thread, PostEmplace(t)
    PROVE  LifecycleInv'
<1> DEFINE q == Return(t, todo[t])
           m == out[t]
           n == out[t].to
           r == Recorded(m, g_workers')
<1>1. /\ pc[t] = "post_emplace" /\ Emplace(n) /\ g_mutex' = NoName
      /\ pc' = [pc EXCEPT ![t] = q]
      /\ out' = [out EXCEPT ![t] = NoMsg]
      /\ worker' = [r EXCEPT ![n].queue = Push(@, m)]
      /\ UNCHANGED <<g_state, g_terminated, g_semaphore, called, todo, ret>>
  BY DEF PostEmplace
<1>2. m \in Message /\ n \in Name /\ UnderConstruction(n)
  BY <1>1, MessageType DEF LifecycleInv, InsideCalls, RegisterInv, OneConstruction, Name
<1>3. /\ q \in PlaceOf(t) /\ q \notin HoldsLock \cup WaitPc \cup {"none", "entry"}
      /\ ret[t] \in RetOf(t)
      /\ t \in Name /\ (q = "handler" \/ ret[t] = "handler") => worker[t].cur \in Message
  BY <1>1, ReturnPlace DEF CallPc
<1> HIDE DEF q, m, n
<1>4. \A s \in Thread : /\ pc'[s] = (IF s = t THEN q ELSE pc[s])
                        /\ s # t => out'[s] = out[s]
  BY <1>1 DEF LifecycleInv, TypeOK
<1>5. RegisterInv' /\ g_workers' \subseteq Name /\ green' \subseteq Name
  BY SMTT(60), <1>1, <1>2, <1>3, <1>4, EmplaceStep
<1>6. r \in [Name -> WorkerObject] /\ \A k \in Name : r[k].cur = worker[k].cur
  BY <1>2, <1>5, RecordedType DEF LifecycleInv, TypeOK
<1> HIDE DEF r
<1>7. worker' \in [Name -> WorkerObject] /\ \A k \in Name : worker'[k].cur = worker[k].cur
  BY SMTT(60), <1>1, <1>2, <1>6, PushedType
<1>8. TypeOK'
  BY <1>1, <1>3, <1>5, <1>7 DEF LifecycleInv, TypeOK, PlaceOf
<1>9. InsideCalls'
  BY <1>1, <1>3, <1>4, <1>7, LeaveInside DEF LifecycleInv
<1> QED
  BY <1>5, <1>8, <1>9 DEF LifecycleInv

(* thread_entry_point() and run() *)

\* The thread of a registered worker goes on in run() and changes its object.
LEMMA RunStep ==
    ASSUME LifecycleInv, NEW n \in Name, n \in g_workers, NEW o \in WorkerObject,
           NEW q \in WorkerPc \ {"none", "entry", "finish_post"},
           pc[n] \notin HoldsLock \cup {"done"},
           q = "handler" => o.cur \in Message,
           pc' = [pc EXCEPT ![n] = q], worker' = [worker EXCEPT ![n] = o],
           called' \in [Thread -> Nat],
           UNCHANGED <<g_mutex, registerVars, green, callVars>>
    PROVE  LifecycleInv'
<1>1. /\ n \in Thread /\ q \in PlaceOf(n) /\ q # "send"
      /\ q \notin HoldsLock \cup WaitPc \cup {"none", "entry"}
  BY NamesAssumption DEF Thread, PlaceOf, WorkerPc, HoldsLock, WaitPc
<1>2. pc[n] \notin WaitPc
  BY DEF LifecycleInv, InsideCalls, WorkerPc, CallPc, WaitPc
<1>3. /\ worker' \in [Name -> WorkerObject] /\ worker'[n] = o
      /\ \A k \in Name : k # n => worker'[k].cur = worker[k].cur
      /\ g_state' \in {"initialising", "running", "terminating"}
      /\ todo' \in [Thread -> SUBSET Message]
      /\ ret' \in [Thread -> {"none", "user"} \cup RetPc]
      /\ UNCHANGED <<g_mutex, g_workers, g_terminated, g_semaphore, green, out, ret>>
  BY DEF LifecycleInv, TypeOK
<1> QED
  BY <1>1, <1>2, <1>3, CalmStep

\* A thread past the lock of thread_entry_point() is that of a registered worker.
LEMMA Registered ==
    ASSUME LifecycleInv, NEW n \in Name
    PROVE  /\ pc[n] \notin {"none", "entry"} => n \in g_workers
           /\ pc[n] = "entry" /\ Unlocked => n \in g_workers
           /\ n \in Thread /\ worker[n] \in WorkerObject /\ called \in [Thread -> Nat]
BY UnlockedFacts
   DEF LifecycleInv, RegisterInv, ConstructedBeforeRun, UnderConstruction, TypeOK, Thread

\* A worker that begins to run has its skal-init in its queue.
LEMMA BeginRunType ==
    ASSUME NEW n \in Name, NEW o \in WorkerObject
    PROVE  [o EXCEPT !.queue = Push(@, Regular(NoName, n, "skal-init"))] \in WorkerObject
<1> DEFINE q == Push(o.queue, Regular(NoName, n, "skal-init"))
<1>1. q \in QueueOf(Message)
  BY InternalType, PushMessage DEF WorkerObject, SkalAction, InternalAction, Thread
<1> HIDE DEF q
<1>2. [o EXCEPT !.queue = q] \in WorkerObject
  BY <1>1 DEF WorkerObject
<1> QED
  BY <1>2 DEF q

\* thread_entry_point() up to the green light keeps the invariant: with
\* g_mutex free, the worker is registered.
LEMMA EntryInv ==
    ASSUME LifecycleInv, NEW n \in Name, Entry(n)
    PROVE  LifecycleInv'
<1>1. pc[n] = "entry" /\ n \in g_workers /\ called' \in [Thread -> Nat]
  BY Registered DEF Entry, MayEnter
<1>2. PICK o \in WorkerObject, q \in {"green", "loop"} :
        worker' = [worker EXCEPT ![n] = o] /\ pc' = [pc EXCEPT ![n] = q]
  <2>1. worker = [worker EXCEPT ![n] = worker[n]]
    BY DEF LifecycleInv, TypeOK
  <2> QED
    BY <2>1, Registered, BeginRunType DEF Entry, BeginRun
<1>3. UNCHANGED <<g_mutex, registerVars, green, callVars>>
  BY DEF Entry
<1> QED
  BY <1>1, <1>2, <1>3, RunStep DEF WorkerPc, HoldsLock

\* The green light keeps the invariant.
LEMMA TakeGreenLightInv ==
    ASSUME LifecycleInv, NEW n \in Name, TakeGreenLight(n)
    PROVE  LifecycleInv'
<1>1. pc[n] = "green" /\ n \in g_workers /\ called' \in [Thread -> Nat]
  BY Registered DEF TakeGreenLight
<1>2. PICK o \in WorkerObject : worker' = [worker EXCEPT ![n] = o]
  <2>1. [worker[n] EXCEPT !.semaphore = @ - 1] \in WorkerObject
    BY SMTT(60), Registered DEF TakeGreenLight, SemReady, WorkerObject
  <2> QED
    BY <2>1, BeginRunType DEF TakeGreenLight, BeginRun
<1>3. pc' = [pc EXCEPT ![n] = "loop"] /\ UNCHANGED <<g_mutex, registerVars, green, callVars>>
  BY DEF TakeGreenLight, BeginRun
<1> QED
  BY <1>1, <1>2, <1>3, RunStep DEF WorkerPc, HoldsLock

\* The top of the loop of run() keeps the invariant.
LEMMA LoopInv ==
    ASSUME LifecycleInv, NEW n \in Name, NEW timeout \in BOOLEAN, Loop(n, timeout)
    PROVE  LifecycleInv'
<1>1. pc[n] = "loop" /\ n \in g_workers /\ called' \in [Thread -> Nat]
  BY Registered DEF Loop
<1>2. worker[n] \in WorkerObject /\ worker \in [Name -> WorkerObject]
  BY DEF LifecycleInv, TypeOK
<1>3. \A action \in InternalAction :
        Push(worker[n].queue, Internal(NoName, n, action)) \in QueueOf(Message)
  BY <1>2, InternalType, PushMessage DEF WorkerObject, SkalAction, InternalAction, Thread
<1>4. PICK queue \in QueueOf(Message), throttled \in BOOLEAN,
           xoff \in SUBSET (Thread \cup {NoName}) :
        worker' = [worker EXCEPT ![n].queue = queue, ![n].throttled = throttled,
                                 ![n].xoff = xoff]
  BY <1>2, <1>3 DEF Loop, Throttling, WorkerObject, InternalAction
<1>5. PICK o \in WorkerObject : worker' = [worker EXCEPT ![n] = o]
  <2> DEFINE o == [worker[n] EXCEPT !.queue = queue, !.throttled = throttled, !.xoff = xoff]
  <2>1. o \in WorkerObject
    BY <1>2 DEF WorkerObject
  <2>2. worker' = [worker EXCEPT ![n] = o]
    BY <1>2, <1>4
  <2> QED
    BY <2>1, <2>2
<1>6. PICK q \in {"pop", "pop_internal"} : pc' = [pc EXCEPT ![n] = q]
  BY DEF Loop
<1>7. UNCHANGED <<g_mutex, registerVars, green, callVars>>
  BY DEF Loop
<1> QED
  BY <1>1, <1>5, <1>6, <1>7, RunStep DEF WorkerPc, HoldsLock

\* pop() and process_internal_msg() keep the invariant.
LEMMA PopInv ==
    ASSUME LifecycleInv, NEW n \in Name, Pop(n)
    PROVE  LifecycleInv'
<1> DEFINE m == Front(worker[n].queue)
           rest == Rest(worker[n].queue)
<1>1. pc[n] \in {"pop", "pop_internal"} /\ n \in g_workers /\ called' \in [Thread -> Nat]
  BY Registered DEF Pop
<1>2. worker[n] \in WorkerObject /\ worker \in [Name -> WorkerObject]
  BY DEF LifecycleInv, TypeOK
<1>3. m \in Message /\ rest \in QueueOf(Message) /\ m.from \in Thread \cup {NoName}
  BY <1>2, PopType, MessageType DEF Pop, WorkerObject
<1> DEFINE action == IF m.internal THEN m.action ELSE "none"
           xoff == CASE action = "skal-xoff" -> worker[n].xoff \cup {m.from}
                     [] action = "skal-xon" -> worker[n].xoff \ {m.from}
                     [] OTHER -> worker[n].xoff
           stop == action = "skal-terminate"
<1>4. xoff \in SUBSET (Thread \cup {NoName}) /\ stop \in BOOLEAN
  <2> HIDE DEF action
  <2> QED
    BY <1>2, <1>3 DEF WorkerObject
<1>5. PICK o \in WorkerObject : worker' = [worker EXCEPT ![n] = o] /\ o.cur = m
  <2> DEFINE o == [worker[n] EXCEPT !.queue = rest, !.cur = m, !.xoff = xoff, !.stop = stop]
  <2>1. worker' = [worker EXCEPT ![n].queue = rest, ![n].cur = m, ![n].xoff = xoff,
                                 ![n].stop = stop]
    BY DEF Pop
  <2> HIDE DEF m, rest, xoff, stop
  <2>2. o \in WorkerObject /\ o.cur = m
    BY <1>2, <1>3, <1>4 DEF WorkerObject
  <2>3. worker' = [worker EXCEPT ![n] = o]
    BY <1>2, <2>1
  <2> QED
    BY <2>2, <2>3
<1>6. pc' = [pc EXCEPT ![n] = "handler"] /\ UNCHANGED <<g_mutex, registerVars, green, callVars>>
  BY DEF Pop
<1> QED
  BY <1>1, <1>3, <1>5, <1>6, RunStep DEF WorkerPc, HoldsLock

\* The return of process_msg keeps the invariant.
LEMMA HandlerReturnInv ==
    ASSUME LifecycleInv, NEW n \in Name, NEW ok \in BOOLEAN, HandlerReturn(n, ok)
    PROVE  LifecycleInv'
<1>1. pc[n] = "handler" /\ n \in g_workers /\ called' \in [Thread -> Nat]
  BY Registered, CallPlace DEF HandlerReturn
<1>2. worker[n] \in WorkerObject /\ worker \in [Name -> WorkerObject]
  BY DEF LifecycleInv, TypeOK
<1>3. PICK o \in WorkerObject : worker' = [worker EXCEPT ![n] = o]
  <2> DEFINE o == [worker[n] EXCEPT !.stop = @ \/ ~ok, !.cur = NoMsg]
  <2>1. o \in WorkerObject
    BY <1>2 DEF WorkerObject
  <2>2. worker' = [worker EXCEPT ![n] = o]
    BY <1>2 DEF HandlerReturn
  <2> QED
    BY <2>1, <2>2
<1>4. pc' = [pc EXCEPT ![n] = "after"] /\ UNCHANGED <<g_mutex, registerVars, green, callVars>>
  BY DEF HandlerReturn
<1> QED
  BY <1>1, <1>3, <1>4, RunStep DEF WorkerPc, HoldsLock

\* An exception of process_msg keeps the invariant.
LEMMA HandlerThrowInv ==
    ASSUME LifecycleInv, NEW n \in Name, HandlerThrow(n)
    PROVE  LifecycleInv'
<1>1. pc[n] = "handler" /\ n \in g_workers /\ n \in Thread /\ called' \in [Thread -> Nat]
  BY Registered DEF HandlerThrow
<1>2. "handler" \in RetOf(n) /\ pc[n] \notin HoldsLock \cup WaitPc \cup {"done"}
  BY <1>1, NamesAssumption DEF RetOf, RetPc, HoldsLock, WaitPc
<1>3. PICK q \in PlaceOf(n) :
        /\ pc' = [pc EXCEPT ![n] = q]
        /\ q \notin HoldsLock \cup WaitPc \cup {"none", "entry", "handler", "send"}
        /\ worker' \in [Name -> WorkerObject]
        /\ \A k \in Name : worker'[k].cur = worker[k].cur
  BY <1>1, <1>2, ThrowFacts DEF HandlerThrow
<1>4. /\ g_state' \in {"initialising", "running", "terminating"}
      /\ todo' \in [Thread -> SUBSET Message]
      /\ ret' \in [Thread -> {"none", "user"} \cup RetPc]
  BY DEF HandlerThrow, LifecycleInv, TypeOK
<1> QED
  BY <1>1, <1>2, <1>3, <1>4, CalmStep DEF HandlerThrow

\* The thread of a registered worker begins to send messages.
LEMMA SendStep ==
    ASSUME LifecycleInv, NEW n \in Name, n \in g_workers, NEW o \in WorkerObject,
           NEW ms \in SUBSET Message, NEW r \in RetPc \ {"handler"},
           pc[n] \notin HoldsLock \cup {"done"}, BeginSend(n, ms, r),
           worker' = [worker EXCEPT ![n] = o],
           called' \in [Thread -> Nat],
           UNCHANGED <<g_mutex, registerVars, green, out>>
    PROVE  LifecycleInv'
<1> DEFINE q == IF ms = {} THEN r ELSE "send"
<1>1. /\ n \in Thread /\ q \in PlaceOf(n) /\ q # "handler"
      /\ q \notin HoldsLock \cup WaitPc \cup {"none", "entry"}
      /\ r \in RetOf(n)
  BY NamesAssumption DEF Thread, PlaceOf, RetOf, RetPc, WorkerPc, CallPc, HoldsLock, WaitPc
<1>2. pc[n] \notin WaitPc
  BY DEF LifecycleInv, InsideCalls, WorkerPc, CallPc, WaitPc
<1>3. /\ worker' \in [Name -> WorkerObject]
      /\ \A k \in Name : k # n => worker'[k].cur = worker[k].cur
      /\ g_state' \in {"initialising", "running", "terminating"}
      /\ UNCHANGED <<g_mutex, g_workers, g_terminated, g_semaphore, green, out>>
  BY DEF LifecycleInv, TypeOK
<1>4. /\ todo' \in [Thread -> SUBSET Message]
      /\ ret' \in [Thread -> {"none", "user"} \cup RetPc]
      /\ \A s \in Thread : ret'[s] = (IF s = n THEN r ELSE ret[s])
      /\ pc' = [pc EXCEPT ![n] = q]
  BY DEF LifecycleInv, TypeOK, BeginSend
<1> HIDE DEF q
<1> QED
  BY <1>1, <1>2, <1>3, <1>4, CalmStep

\* group_t::process keeps pairs of a subscriber and a filter, and sends
\* copies that are messages.
LEMMA GroupType ==
    ASSUME NEW g \in Group, worker[g] \in WorkerObject, NEW m \in Message
    PROVE  /\ GroupAfter(g, m) \in SUBSET (Thread \X Filter)
           /\ GroupCopies(g, m) \in SUBSET Message
<1>1. worker[g].subscribers \in SUBSET (Thread \X Filter)
  BY DEF WorkerObject
<1>2. GroupAfter(g, m) \in SUBSET (Thread \X Filter)
  BY SMTT(60), <1>1, MessageType DEF GroupAfter, Subscribe, Unsubscribe
<1>3. ASSUME m.action \notin SkalAction, NEW s \in Thread \X Filter
      PROVE  [m EXCEPT !.from = g, !.to = s[1], !.filter = s[2]] \in Message
  BY <1>3 DEF Message, SkalAction, Thread, Name
<1>4. GroupCopies(g, m) \in SUBSET Message
  BY <1>1, <1>3 DEF GroupCopies, Matching
<1> QED
  BY <1>2, <1>4

\* group_t::process keeps the invariant.
LEMMA GroupProcessInv ==
    ASSUME LifecycleInv, NEW n \in Name, GroupProcess(n)
    PROVE  LifecycleInv'
<1> DEFINE m == worker[n].cur
           subs == GroupAfter(n, m)
           stop == worker[n].stop \/ LastLeft(n, m)
           ms == GroupCopies(n, m)
<1>1. pc[n] = "handler" /\ n \in g_workers /\ n \in Group /\ called' \in [Thread -> Nat]
  BY Registered DEF GroupProcess
<1>2. /\ worker[n] \in WorkerObject /\ worker \in [Name -> WorkerObject]
      /\ m \in Message
  BY <1>1 DEF LifecycleInv, TypeOK, InsideCalls
<1>3. subs \in SUBSET (Thread \X Filter) /\ ms \in SUBSET Message
  BY <1>1, <1>2, GroupType
<1>4. /\ worker' = [worker EXCEPT ![n].subscribers = subs, ![n].stop = stop, ![n].cur = NoMsg]
      /\ BeginSend(n, ms, "after") /\ UNCHANGED <<g_mutex, registerVars, green, out>>
  BY DEF GroupProcess
<1>5. stop \in BOOLEAN
  BY <1>2 DEF WorkerObject, LastLeft
<1> HIDE DEF m, subs, stop, ms
<1>6. PICK o \in WorkerObject : worker' = [worker EXCEPT ![n] = o]
  <2> DEFINE o == [worker[n] EXCEPT !.subscribers = subs, !.stop = stop, !.cur = NoMsg]
  <2>1. o \in WorkerObject
    BY <1>2, <1>3, <1>5 DEF WorkerObject
  <2>2. worker' = [worker EXCEPT ![n] = o]
    BY <1>2, <1>4
  <2> QED
    BY <2>1, <2>2
<1> QED
  BY <1>1, <1>3, <1>4, <1>6, SendStep DEF RetPc, HoldsLock

\* The decision to send xons keeps the invariant.
LEMMA AfterInv ==
    ASSUME LifecycleInv, NEW n \in Name, After(n)
    PROVE  LifecycleInv'
<1> DEFINE ms == {Internal(n, s, "skal-xon") : s \in worker[n].ntf_xon}
<1>1. pc[n] = "after" /\ n \in g_workers /\ called' \in [Thread -> Nat]
  BY Registered DEF After
<1>2. /\ worker[n] \in WorkerObject /\ worker' = [worker EXCEPT ![n] = worker[n]]
      /\ UNCHANGED <<g_mutex, registerVars, green, out>>
  BY DEF After, LifecycleInv, TypeOK
<1>3. ms \in SUBSET Message
  BY SMTT(60), <1>2, InternalType DEF WorkerObject, SkalAction, InternalAction, Thread
<1>4. \/ BeginSend(n, ms, "xon_clear")
      \/ pc' = [pc EXCEPT ![n] = "loop"] /\ UNCHANGED <<todo, ret>>
  BY DEF After
<1> HIDE DEF ms
<1>5. CASE BeginSend(n, ms, "xon_clear")
  BY <1>1, <1>2, <1>3, <1>5, SendStep DEF RetPc, HoldsLock
<1>6. CASE pc' = [pc EXCEPT ![n] = "loop"] /\ UNCHANGED <<todo, ret>>
  BY <1>1, <1>2, <1>6, RunStep DEF WorkerPc, HoldsLock
<1> QED
  BY <1>4, <1>5, <1>6

\* The end of send_xon() keeps the invariant.
LEMMA XonClearInv ==
    ASSUME LifecycleInv, NEW n \in Name, XonClear(n)
    PROVE  LifecycleInv'
<1>1. pc[n] = "xon_clear" /\ n \in g_workers /\ called' \in [Thread -> Nat]
  BY Registered DEF XonClear
<1>2. PICK o \in WorkerObject : worker' = [worker EXCEPT ![n] = o]
  <2>1. [worker[n] EXCEPT !.ntf_xon = {}] \in WorkerObject
    BY Registered DEF WorkerObject
  <2> QED
    BY <2>1 DEF XonClear
<1>3. PICK q \in {"exit", "loop"} : pc' = [pc EXCEPT ![n] = q]
  BY DEF XonClear
<1>4. UNCHANGED <<g_mutex, registerVars, green, callVars>>
  BY DEF XonClear
<1> QED
  BY <1>1, <1>2, <1>3, <1>4, RunStep DEF WorkerPc, HoldsLock

\* The unsubscriptions of a worker that ends keep the invariant.
LEMMA ExitInv ==
    ASSUME LifecycleInv, NEW n \in Name, Exit(n)
    PROVE  LifecycleInv'
<1>1. pc[n] = "exit" /\ n \in g_workers /\ called' \in [Thread -> Nat]
  BY Registered DEF Exit
<1>2. /\ worker[n] \in WorkerObject /\ worker' = [worker EXCEPT ![n] = worker[n]]
      /\ UNCHANGED <<g_mutex, registerVars, green, out>>
  BY DEF Exit, LifecycleInv, TypeOK
<1>3. Unsubscribes(n) \in SUBSET Message
  BY SMTT(60), <1>2, InternalType
     DEF Unsubscribes, WorkerObject, SkalAction, InternalAction, Thread, Name
<1>4. BeginSend(n, Unsubscribes(n), "exit_handler")
  BY DEF Exit
<1> QED
  BY <1>1, <1>2, <1>3, <1>4, SendStep DEF RetPc, HoldsLock

\* The end of run() keeps the invariant.
LEMMA ExitReturnInv ==
    ASSUME LifecycleInv, NEW n \in Name, ExitReturn(n)
    PROVE  LifecycleInv'
<1>1. pc[n] = "exit_handler" /\ n \in g_workers /\ called' \in [Thread -> Nat]
  BY Registered DEF ExitReturn
<1>2. PICK o \in WorkerObject : worker' = [worker EXCEPT ![n] = o]
  <2>1. [worker[n] EXCEPT !.subscribers = {}] \in WorkerObject
    BY Registered DEF WorkerObject
  <2> QED
    BY <2>1 DEF ExitReturn
<1>3. pc' = [pc EXCEPT ![n] = "finish"] /\ UNCHANGED <<g_mutex, registerVars, green, callVars>>
  BY DEF ExitReturn
<1> QED
  BY <1>1, <1>2, <1>3, RunStep DEF WorkerPc, HoldsLock

\* A thread that announces its end, g_mutex held, keeps the invariant.
LEMMA FinishInv ==
    ASSUME LifecycleInv, NEW n \in Name, Finish(n)
    PROVE  LifecycleInv'
<1> USE DEF LifecycleInv
<1>1. /\ pc[n] = "finish" /\ n \in g_workers /\ n \in Thread /\ n \notin User
      /\ g_mutex' = n /\ g_terminated' = Append(g_terminated, n)
      /\ pc' = [pc EXCEPT ![n] = "finish_post"]
      /\ UNCHANGED <<g_state, g_workers, g_semaphore, green, called, todo, ret, out, worker>>
  BY Registered, NamesAssumption DEF Finish, MayFinish
<1>2. \A s \in Thread : pc'[s] = (IF s = n THEN "finish_post" ELSE pc[s])
  BY <1>1 DEF TypeOK
<1>3. TypeOK'
  BY SMTT(60), <1>1 DEF TypeOK, WorkerPc
<1>4. InsideCalls'
  <2>1. "finish_post" \in PlaceOf(n) /\ "finish_post" \notin CallPc
    BY <1>1 DEF PlaceOf, WorkerPc, CallPc
  <2> QED
    BY <1>1, <2>1, InsideStep
<1>5. RegisterInv'
  <2>0. /\ \A s \in Thread : pc[s] \notin HoldsLock
        /\ \A k \in Name : ~UnderConstruction(k)
    BY UnlockedFacts DEF Finish, MayFinish
  <2>1. MutexHeld'
    BY <1>1, <1>2, <2>0 DEF MutexHeld, HoldsLock
  <2>2. ConstructedBeforeRun'
    BY <1>1, <1>2 DEF RegisterInv, ConstructedBeforeRun, Thread
  <2>3. \A k \in Name : ~UnderConstruction(k)'
    BY <1>1, <1>2, <2>0 DEF UnderConstruction, Thread
  <2>4. OneConstruction'
    BY <1>2, <2>0, <2>3 DEF OneConstruction, HoldsLock
  <2>5. EndedOnly'
    <3>1. g_terminated \in Seq(Name) /\ \A i \in DOMAIN g_terminated : g_terminated[i] \in Thread
      BY SMTT(60) DEF TypeOK, Thread
    <3>2. \A i \in DOMAIN g_terminated :
            g_terminated[i] # n /\ pc'[g_terminated[i]] \in {"finish_post", "done"}
      BY <1>1, <1>2, <3>1 DEF RegisterInv, EndedOnly
    <3>3. /\ DOMAIN g_terminated' = DOMAIN g_terminated \cup {Len(g_terminated) + 1}
          /\ g_terminated'[Len(g_terminated) + 1] = n
          /\ \A i \in DOMAIN g_terminated : g_terminated'[i] = g_terminated[i]
      BY SMTT(60), <1>1, <3>1
    <3> QED
      BY SMTT(60), <1>1, <1>2, <3>2, <3>3 DEF RegisterInv, EndedOnly
  <2>6. NoUseAfterErase'
    BY SMTT(60), <1>1, <1>2 DEF RegisterInv, NoUseAfterErase
  <2>7. (pc[Main] # "wait_green" => green = {})'
    BY <1>1, <1>2, NamesAssumption DEF RegisterInv, Thread
  <2>8. ReapSignalled'
    BY <1>1, <1>2 DEF ReapSignalled
  <2> QED
    BY <2>1, <2>2, <2>4, <2>5, <2>6, <2>7, <2>8 DEF RegisterInv
<1> QED
  BY <1>3, <1>4, <1>5

\* The post of g_semaphore and the end of the thread keep the invariant: from
\* here on g_semaphore has a count for wait().
LEMMA FinishPostInv ==
    ASSUME LifecycleInv, NEW n \in Name, FinishPost(n)
    PROVE  LifecycleInv'
<1> USE DEF LifecycleInv
<1>1. /\ pc[n] = "finish_post" /\ n \in g_workers /\ n \in Thread /\ n \notin User
      /\ g_mutex' = NoName /\ g_semaphore' = g_semaphore + 1
      /\ pc' = [pc EXCEPT ![n] = "done"]
      /\ UNCHANGED <<g_state, g_workers, g_terminated, green, called, todo, ret, out, worker>>
  BY Registered, NamesAssumption DEF FinishPost, SemPost
<1>2. \A s \in Thread : pc'[s] = (IF s = n THEN "done" ELSE pc[s])
  BY <1>1 DEF TypeOK
<1>3. TypeOK'
  BY SMTT(60), <1>1 DEF TypeOK, WorkerPc
<1>4. InsideCalls'
  <2>1. "done" \in PlaceOf(n) /\ "done" \notin CallPc
    BY <1>1 DEF PlaceOf, WorkerPc, CallPc
  <2> QED
    BY <1>1, <2>1, InsideStep
<1>5. RegisterInv'
  <2>0. \A s \in Thread : s # n => pc[s] \notin HoldsLock
    BY <1>1 DEF RegisterInv, MutexHeld, HoldsLock
  <2>1. MutexHeld'
    BY SMTT(60), <1>1, <1>2, <2>0, NamesAssumption DEF MutexHeld, HoldsLock
  <2>2. ConstructedBeforeRun'
    BY <1>1, <1>2 DEF RegisterInv, ConstructedBeforeRun, Thread
  <2>3. \A k \in Name : ~UnderConstruction(k)'
    BY <1>1, <1>2, <2>0 DEF RegisterInv, OneConstruction, UnderConstruction, Thread, HoldsLock
  <2>4. OneConstruction'
    BY <1>2, <2>0, <2>3 DEF OneConstruction, HoldsLock
  <2>5. EndedOnly'
    <3>1. \A i \in DOMAIN g_terminated : g_terminated[i] \in Thread
      BY SMTT(60) DEF TypeOK, Thread
    <3> QED
      BY <1>1, <1>2, <3>1 DEF RegisterInv, EndedOnly
  <2>6. NoUseAfterErase'
    BY SMTT(60), <1>1, <1>2 DEF RegisterInv, NoUseAfterErase
  <2>7. (pc[Main] # "wait_green" => green = {})'
    BY <1>1, <1>2, NamesAssumption DEF RegisterInv, Thread
  <2>8. ReapSignalled'
    BY SMTT(60), <1>1 DEF ReapSignalled, TypeOK
  <2> QED
    BY <2>1, <2>2, <2>4, <2>5, <2>6, <2>7, <2>8 DEF RegisterInv
<1> QED
  BY <1>3, <1>4, <1>5


\* A leaf that names no prover has this many seconds.


(* wait() *)

\* The thread that runs wait() goes on from p to q, outside the lock.
LEMMA WaitStep ==
    ASSUME LifecycleInv, NEW q \in WaitPc \cup {"user"}, q # "wait_erase",
           pc[Main] \in WaitPc \cup {"user"}, pc[Main] # "wait_erase",
           pc' = [pc EXCEPT ![Main] = q],
           green' \subseteq g_workers, q # "wait_green" => green' = {},
           ReapSignalled',
           g_state' \in {"initialising", "running", "terminating"},
           g_semaphore' \in Nat, called' \in [Thread -> Nat],
           worker' \in [Name -> WorkerObject],
           \A n \in Name : worker'[n].cur = worker[n].cur,
           UNCHANGED <<g_mutex, g_workers, g_terminated, todo, ret, out>>
    PROVE  LifecycleInv'
<1> USE DEF LifecycleInv
<1>1. Main \in User /\ Main \in Thread /\ Main \notin Name
  BY NamesAssumption DEF Thread
<1>2. \A s \in Thread : pc'[s] = (IF s = Main THEN q ELSE pc[s])
  BY DEF TypeOK
<1>3. TypeOK'
  BY DEF TypeOK
<1>4. InsideCalls'
  <2>1. q \in PlaceOf(Main) /\ q \notin CallPc
    BY <1>1 DEF PlaceOf, WaitPc, CallPc
  <2> QED
    BY <1>1, <2>1, InsideStep DEF CallPc
<1>5. RegisterInv'
  <2>1. MutexHeld'
    BY <1>2 DEF RegisterInv, MutexHeld, HoldsLock, WaitPc
  <2>2. ConstructedBeforeRun'
    BY <1>1, <1>2 DEF RegisterInv, ConstructedBeforeRun, Thread
  <2>3. \A k \in Name : UnderConstruction(k)' <=> UnderConstruction(k)
    BY <1>1, <1>2 DEF UnderConstruction, Thread
  <2>4. OneConstruction'
    <3>1. \A s \in Thread : pc'[s] = "post_emplace" => UnderConstruction(out[s].to)'
      BY SMTT(60), <1>2, <2>3, MessageType
         DEF RegisterInv, OneConstruction, InsideCalls, Name, WaitPc
    <3> QED
      BY <1>2, <2>3, <3>1 DEF RegisterInv, OneConstruction, WaitPc
  <2>5. EndedOnly'
    <3>1. \A i \in DOMAIN g_terminated : g_terminated[i] \in Name
      BY SMTT(60) DEF TypeOK
    <3> QED
      BY SMTT(60), <1>1, <1>2, <3>1 DEF RegisterInv, EndedOnly, Thread
  <2>6. NoUseAfterErase'
    BY <1>2 DEF RegisterInv, NoUseAfterErase, WaitPc
  <2>7. (pc[Main] # "wait_green" => green = {})'
    BY <1>1, <1>2
  <2> QED
    BY <2>1, <2>2, <2>4, <2>5, <2>6, <2>7 DEF RegisterInv
<1> QED
  BY <1>3, <1>4, <1>5

\* The steps of wait() outside its critical section keep the invariant.
LEMMA WaitOutsideLockInv ==
    ASSUME LifecycleInv,
           \/ WaitStart \/ (\E n \in Name : WaitGreen(n)) \/ WaitGreenDone
           \/ WaitTake \/ WaitReset
    PROVE  LifecycleInv'
<1> USE DEF LifecycleInv
<1>1. /\ Main \in User /\ Main \in Thread /\ Main \notin Name
      /\ worker \in [Name -> WorkerObject] /\ called \in [Thread -> Nat]
      /\ g_semaphore \in Nat /\ green \subseteq g_workers
      /\ g_workers \subseteq Name
      /\ pc[Main] # "wait_green" => green = {}
      /\ g_state \in {"initialising", "running", "terminating"}
  BY NamesAssumption DEF Thread, TypeOK, RegisterInv, NoUseAfterErase
<1>2. CASE WaitStart
  <2>1. called' \in [Thread -> Nat] /\ pc[Main] = "user"
    BY <1>1, <1>2, CallPlace DEF WaitStart, RetOf
  <2>2. ReapSignalled'
    BY <1>1, <1>2, <2>1 DEF WaitStart, RegisterInv, ReapSignalled, TypeOK, Thread
  <2> QED
    BY <1>1, <1>2, <2>1, <2>2, WaitStep DEF WaitStart, WaitPc
<1>3. CASE \E n \in Name : WaitGreen(n)
  <2>1. PICK n \in Name : WaitGreen(n)
    BY <1>3
  <2>2. /\ worker' \in [Name -> WorkerObject]
        /\ \A k \in Name : worker'[k].cur = worker[k].cur
    <3>1. LET o == [worker[n] EXCEPT !.semaphore = SemPost(@)]
          IN  o \in WorkerObject /\ o.cur = worker[n].cur
      BY SMTT(60), <1>1 DEF SemPost, WorkerObject
    <3>2. worker' = [worker EXCEPT ![n] = [worker[n] EXCEPT !.semaphore = SemPost(@)]]
      BY <2>1 DEF WaitGreen
    <3> QED
      BY <1>1, <3>1, <3>2
  <2>3. pc' = [pc EXCEPT ![Main] = "wait_green"] /\ ReapSignalled'
    BY <2>1, <1>1 DEF WaitGreen, RegisterInv, ReapSignalled, TypeOK
  <2> QED
    BY <1>1, <2>1, <2>2, <2>3, WaitStep DEF WaitGreen, WaitPc
<1>4. CASE WaitGreenDone
  <2>1. ReapSignalled'
    BY <1>1, <1>4 DEF WaitGreenDone, RegisterInv, ReapSignalled, TypeOK, Thread
  <2> QED
    BY <1>1, <1>4, <2>1, WaitStep DEF WaitGreenDone, WaitPc
<1>5. CASE WaitTake
  <2>1. ReapSignalled' /\ g_semaphore' \in Nat
    BY SMTT(60), <1>1, <1>5 DEF WaitTake, SemReady, ReapSignalled, TypeOK
  <2> QED
    BY <1>1, <1>5, <2>1, WaitStep DEF WaitTake, WaitPc
<1>6. CASE WaitReset
  <2>1. ReapSignalled'
    BY <1>1, <1>6 DEF WaitReset, RegisterInv, ReapSignalled, TypeOK, Thread
  <2> QED
    BY <1>1, <1>6, <2>1, WaitStep DEF WaitReset, StateAfterWait, WaitPc
<1> QED
  BY <1>2, <1>3, <1>4, <1>5, <1>6

\* wait() taking g_mutex keeps the invariant.
LEMMA WaitLockInv ==
    ASSUME LifecycleInv, WaitLock
    PROVE  LifecycleInv'
<1> USE DEF LifecycleInv
<1>1. /\ Main \in User /\ Main \in Thread /\ Main \notin Name
      /\ pc[Main] = "wait_lock" /\ Unlocked /\ g_mutex' = Main
      /\ pc' = [pc EXCEPT ![Main] = "wait_erase"]
      /\ UNCHANGED <<g_state, g_workers, g_terminated, g_semaphore, green, called, todo,
                     ret, out, worker>>
  BY NamesAssumption DEF Thread, WaitLock, MayErase
<1>2. \A s \in Thread : pc'[s] = (IF s = Main THEN "wait_erase" ELSE pc[s])
  BY <1>1 DEF TypeOK
<1>3. TypeOK'
  BY <1>1 DEF TypeOK, WaitPc
<1>4. InsideCalls'
  <2>1. "wait_erase" \in PlaceOf(Main) /\ "wait_erase" \notin CallPc
    BY <1>1 DEF PlaceOf, WaitPc, CallPc
  <2> QED
    BY <1>1, <2>1, InsideStep
<1>5. RegisterInv'
  <2>0. /\ \A s \in Thread : pc[s] \notin HoldsLock
        /\ \A k \in Name : ~UnderConstruction(k)
    BY <1>1, UnlockedFacts
  <2>1. MutexHeld'
    BY <1>1, <1>2, <2>0 DEF MutexHeld, HoldsLock
  <2>2. ConstructedBeforeRun'
    BY <1>1, <1>2 DEF RegisterInv, ConstructedBeforeRun, Thread
  <2>3. \A k \in Name : ~UnderConstruction(k)'
    BY <1>1, <1>2, <2>0 DEF UnderConstruction, Thread
  <2>4. OneConstruction'
    BY <1>2, <2>0, <2>3 DEF OneConstruction, HoldsLock
  <2>5. EndedOnly'
    <3>1. \A i \in DOMAIN g_terminated : g_terminated[i] \in Name
      BY SMTT(60) DEF TypeOK
    <3> QED
      BY <1>1, <1>2, <3>1 DEF RegisterInv, EndedOnly, Thread
  <2>6. NoUseAfterErase'
    BY SMTT(60), <1>1, <1>2 DEF RegisterInv, NoUseAfterErase
  <2>7. (pc[Main] # "wait_green" => green = {})'
    BY <1>1, <1>2 DEF RegisterInv
  <2>8. ReapSignalled'
    BY <1>1, <1>2 DEF ReapSignalled
  <2> QED
    BY <2>1, <2>2, <2>4, <2>5, <2>6, <2>7, <2>8 DEF RegisterInv
<1> QED
  BY <1>3, <1>4, <1>5

\* While wait() erases, it is alone in the critical sections of g_mutex.
LEMMA EraseFacts ==
    ASSUME LifecycleInv, pc[Main] = "wait_erase"
    PROVE  /\ Main \in User /\ Main \in Thread /\ Main \notin Name
           /\ \A s \in Thread : s # Main => pc[s] \notin HoldsLock
           /\ \A n \in Name : ~UnderConstruction(n)
           /\ green = {}
           /\ \A i \in DOMAIN g_terminated : g_terminated[i] \in Name
           /\ \A i \in DOMAIN g_terminated : pc[g_terminated[i]] = "done"
<1> USE DEF LifecycleInv, RegisterInv
<1>1. Main \in User /\ Main \in Thread /\ Main \notin Name
  BY NamesAssumption DEF Thread
<1>2. \A s \in Thread : s # Main => pc[s] \notin HoldsLock
  BY <1>1 DEF MutexHeld, HoldsLock
<1>3. \A n \in Name : ~UnderConstruction(n)
  BY <1>2 DEF OneConstruction, HoldsLock
<1>4. \A i \in DOMAIN g_terminated : g_terminated[i] \in Name
  BY SMTT(60) DEF TypeOK
<1>5. \A i \in DOMAIN g_terminated : pc[g_terminated[i]] = "done"
  BY <1>1, <1>2, <1>4 DEF EndedOnly, HoldsLock, Thread
<1> QED
  BY <1>1, <1>2, <1>3, <1>4, <1>5

\* The erasure of an ended worker keeps the invariant: nothing refers to it.
LEMMA WaitEraseInv ==
    ASSUME LifecycleInv, WaitErase
    PROVE  LifecycleInv'
<1> DEFINE n == Head(g_terminated)
<1> USE DEF LifecycleInv
<1>0. g_terminated \in Seq(Name) /\ g_terminated # << >>
  BY DEF TypeOK, WaitErase
<1>1. /\ n \in Name /\ n = g_terminated[1] /\ 1 \in DOMAIN g_terminated
      /\ DOMAIN Tail(g_terminated) = 1 .. Len(g_terminated) - 1
      /\ \A i \in 1 .. Len(g_terminated) - 1 : Tail(g_terminated)[i] = g_terminated[i + 1]
      /\ Tail(g_terminated) \in Seq(Name)
  BY SMTT(60), <1>0
<1>2. /\ pc[Main] = "wait_erase" /\ pc[n] = "done"
      /\ g_workers' = g_workers \ {n} /\ g_terminated' = Tail(g_terminated)
      /\ worker' = [worker EXCEPT ![n] = NewWorker]
      /\ ret' = [ret EXCEPT ![n] = "none"] /\ called' = [called EXCEPT ![n] = 0]
      /\ pc' = [pc EXCEPT ![n] = "none"]
      /\ UNCHANGED <<g_mutex, g_state, g_semaphore, green, todo, out>>
  BY DEF WaitErase
<1> HIDE DEF n
<1>3. \A s \in Thread : pc'[s] = (IF s = n THEN "none" ELSE pc[s])
  BY <1>2 DEF TypeOK
<1>4. n \in Thread /\ n # Main /\ n \notin User
  BY <1>1, NamesAssumption DEF Thread
<1>5. TypeOK'
  BY <1>1, <1>2, <1>4, NewWorkerType DEF TypeOK, WorkerPc
<1>6. InsideCalls'
  <2>1. /\ "none" \in PlaceOf(n) /\ "none" \notin CallPc
        /\ \A s \in Thread : s # n => ret'[s] = ret[s]
        /\ \A k \in Name : k # n => worker'[k].cur = worker[k].cur
    BY <1>2, <1>4 DEF PlaceOf, WorkerPc, CallPc, TypeOK
  <2> QED
    BY <1>2, <1>4, <2>1, InsideStep
<1>7. RegisterInv'
  <2>1. MutexHeld'
    BY SMTT(60), <1>2, <1>3 DEF RegisterInv, MutexHeld, HoldsLock
  <2>2. ConstructedBeforeRun'
    BY <1>2, <1>3 DEF RegisterInv, ConstructedBeforeRun, Thread
  <2>3. \A k \in Name : ~UnderConstruction(k)'
    BY SMTT(60), <1>2, <1>3, EraseFacts DEF UnderConstruction, Thread
  <2>4. OneConstruction'
    BY SMTT(60), <1>2, <1>3, <2>3, EraseFacts DEF OneConstruction, HoldsLock
  <2>5. EndedOnly'
    <3>1. \A i \in DOMAIN g_terminated' :
            /\ i \in Nat /\ i + 1 \in DOMAIN g_terminated /\ i + 1 # 1
            /\ g_terminated'[i] = g_terminated[i + 1]
      BY SMTT(60), <1>0, <1>1, <1>2
    <3>2. \A i \in DOMAIN g_terminated' :
            /\ g_terminated'[i] # n /\ g_terminated'[i] \in Name
            /\ pc[g_terminated'[i]] = "done"
      <4>1. \A i \in DOMAIN g_terminated : g_terminated[i] = n => i = 1
        BY <1>1 DEF RegisterInv, EndedOnly
      <4>2. \A i \in DOMAIN g_terminated :
              g_terminated[i] \in Name /\ pc[g_terminated[i]] = "done"
        BY <1>2, EraseFacts
      <4> QED
        BY <3>1, <4>1, <4>2
    <3>3. \A i, j \in DOMAIN g_terminated' : g_terminated'[i] = g_terminated'[j] => i = j
      BY SMTT(60), <3>1 DEF RegisterInv, EndedOnly
    <3> QED
      BY <1>3, <3>2, <3>3 DEF EndedOnly, Thread
  <2>6. NoUseAfterErase'
    BY SMTT(60), <1>2, <1>3, EraseFacts DEF NoUseAfterErase, HoldsLock
  <2>7. (pc[Main] # "wait_green" => green = {})'
    BY <1>2, EraseFacts
  <2>8. ReapSignalled'
    BY <1>2, <1>3, <1>4, EraseFacts DEF ReapSignalled
  <2> QED
    BY <2>1, <2>2, <2>4, <2>5, <2>6, <2>7, <2>8 DEF RegisterInv
<1> QED
  BY <1>5, <1>6, <1>7

\* wait() releasing g_mutex keeps the invariant.
LEMMA WaitCheckInv ==
    ASSUME LifecycleInv, WaitCheck
    PROVE  LifecycleInv'
<1> USE DEF LifecycleInv
<1>1. PICK q \in {"wait_reset", "wait_take"} :
        /\ pc[Main] = "wait_erase" /\ g_terminated = << >> /\ g_mutex' = NoName
        /\ pc' = [pc EXCEPT ![Main] = q]
        /\ UNCHANGED <<g_state, g_workers, g_terminated, g_semaphore, green, called, todo,
                       ret, out, worker>>
  BY DEF WaitCheck
<1>2. \A s \in Thread : pc'[s] = (IF s = Main THEN q ELSE pc[s])
  BY <1>1 DEF TypeOK
<1>3. TypeOK'
  BY <1>1, NamesAssumption DEF TypeOK, WaitPc
<1>4. InsideCalls'
  <2>1. q \in PlaceOf(Main) /\ q \notin CallPc
    BY <1>1, EraseFacts DEF PlaceOf, WaitPc, CallPc
  <2> QED
    BY <1>1, <2>1, EraseFacts, InsideStep
<1>5. RegisterInv'
  <2>1. MutexHeld'
    BY <1>1, <1>2, EraseFacts, NamesAssumption DEF MutexHeld, HoldsLock
  <2>2. ConstructedBeforeRun'
    BY <1>1, <1>2, EraseFacts DEF RegisterInv, ConstructedBeforeRun, Thread
  <2>3. \A k \in Name : ~UnderConstruction(k)'
    BY <1>1, <1>2, EraseFacts DEF UnderConstruction, Thread
  <2>4. OneConstruction'
    BY <1>1, <1>2, <2>3, EraseFacts DEF OneConstruction, HoldsLock
  <2>5. EndedOnly' /\ ReapSignalled'
    BY SMTT(60), <1>1 DEF EndedOnly, ReapSignalled
  <2>6. NoUseAfterErase'
    BY <1>1, <1>2, EraseFacts DEF NoUseAfterErase, HoldsLock
  <2>7. (pc[Main] # "wait_green" => green = {})'
    BY <1>1, EraseFacts
  <2> QED
    BY <2>1, <2>2, <2>4, <2>5, <2>6, <2>7 DEF RegisterInv
<1> QED
  BY <1>3, <1>4, <1>5

-------------------------------------------------------------------------------
(* The theorems. *)

\* The initial state, with no worker, satisfies the invariant.
LEMMA InitInv == Init => LifecycleInv
<1> SUFFICES ASSUME Init PROVE LifecycleInv
  OBVIOUS
<1> USE DEF Init
<1>1. \A t \in Thread : pc[t] = IF t \in User THEN "user" ELSE "none"
  OBVIOUS
<1>2. TypeOK
  BY SMTT(60), NewWorkerType DEF TypeOK, WorkerPc
<1>3. InsideCalls
  BY <1>1, NamesAssumption DEF InsideCalls, WorkerPc, CallPc, Thread
<1>4. RegisterInv
  BY SMTT(60), <1>1, NamesAssumption
     DEF RegisterInv, MutexHeld, ConstructedBeforeRun, OneConstruction, UnderConstruction,
         EndedOnly, NoUseAfterErase, ReapSignalled, HoldsLock, Thread
<1> QED
  BY <1>2, <1>3, <1>4 DEF LifecycleInv

\* Every step of every thread keeps the invariant.
LEMMA NextInv == LifecycleInv /\ [Next]_vars => LifecycleInv'
<1> SUFFICES ASSUME LifecycleInv, [Next]_vars PROVE LifecycleInv'
  OBVIOUS
<1>1. ASSUME NEW t \in Thread, Sending(t) PROVE LifecycleInv'
  BY <1>1, PostDropInv, PostDeliverInv, PostFullInv, PostPushInv, PostXoffInv,
     PostNewGroupThrowsInv, PostNewGroupInv, PostEmplaceInv DEF Sending
<1>2. ASSUME NEW t \in Thread, Calling(t) PROVE LifecycleInv'
  BY <1>2, CallSendInv, CallCreateThrowsInv, CallCreateInv, CreateEmplaceInv,
     CallTerminateInv DEF Calling
<1>3. ASSUME NEW n \in Name, Running(n) PROVE LifecycleInv'
  BY <1>3, EntryInv, TakeGreenLightInv, LoopInv, PopInv, HandlerReturnInv,
     HandlerThrowInv, GroupProcessInv, AfterInv, XonClearInv, ExitInv, ExitReturnInv,
     FinishInv, FinishPostInv DEF Running
<1>4. ASSUME Waiting PROVE LifecycleInv'
  BY <1>4, WaitOutsideLockInv, WaitLockInv, WaitEraseInv, WaitCheckInv DEF Waiting
<1>5. ASSUME UNCHANGED vars PROVE LifecycleInv'
  <2>1. TypeOK'
    BY <1>5 DEF LifecycleInv, TypeOK, vars
  <2>2. InsideCalls'
    BY <1>5 DEF LifecycleInv, InsideCalls, vars
  <2>3. RegisterInv'
    BY <1>5 DEF LifecycleInv, RegisterInv, MutexHeld, ConstructedBeforeRun,
       OneConstruction, UnderConstruction, EndedOnly, NoUseAfterErase, ReapSignalled, vars
  <2> QED
    BY <2>1, <2>2, <2>3 DEF LifecycleInv
<1> QED
  BY <1>1, <1>2, <1>3, <1>4, <1>5 DEF Next, Finished

\* LifecycleInv holds in every state of every application of worker.cpp.
THEOREM LifecycleInvariance == Spec => []LifecycleInv
BY InitInv, NextInv, PTL DEF Spec

\* Every variable keeps its type: no post(), pop() or process_msg puts anything
\* but messages in a queue, nor anything but threads in xoff_ and ntf_xon_.
THEOREM TypeCorrectness == Spec => []TypeOK
<1>1. LifecycleInv => TypeOK
  BY DEF LifecycleInv
<1> QED
  BY <1>1, LifecycleInvariance, PTL

\* g_mutex keeps the thread of a worker out of the object until do_create()
\* has constructed and registered it.
THEOREM ConstructionSafety == Spec => []ConstructedBeforeRun
<1>1. LifecycleInv => ConstructedBeforeRun
  BY DEF LifecycleInv, RegisterInv
<1> QED
  BY <1>1, LifecycleInvariance, PTL

\* wait() joins, under g_mutex, only threads that will not want g_mutex again.
THEOREM JoinSafety == Spec => []JoinNeverBlocks
<1>1. LifecycleInv => JoinNeverBlocks
  BY EraseFacts DEF JoinNeverBlocks, LifecycleInv, RegisterInv, EndedOnly
<1> QED
  BY <1>1, LifecycleInvariance, PTL

\* post() and wait() never reach a worker that wait() has destroyed.
THEOREM EraseSafety == Spec => []NoUseAfterErase
<1>1. LifecycleInv => NoUseAfterErase
  BY DEF LifecycleInv, RegisterInv
<1> QED
  BY <1>1, LifecycleInvariance, PTL

\* A worker that announced its end is never left without a wake-up for wait().
THEOREM ReapSafety == Spec => []ReapSignalled
<1>1. LifecycleInv => ReapSignalled
  BY DEF LifecycleInv, RegisterInv
<1> QED
  BY <1>1, LifecycleInvariance, PTL

\* wait() decides to return only when every worker thread has been joined.
THEOREM WaitJoinsAll == Spec => AllThreadsJoined
<1> DEFINE A == pc[Main] = "wait_erase" /\ pc'[Main] = "wait_reset"
                  => \A n \in Name : pc[n] = "none"
<1>1. LifecycleInv /\ [Next]_vars => A
  <2> SUFFICES ASSUME LifecycleInv, [Next]_vars, pc[Main] = "wait_erase",
                      pc'[Main] = "wait_reset", NEW n \in Name
               PROVE  pc[n] = "none"
    OBVIOUS
  <2>0. Main \in Thread /\ Main \notin Name /\ DOMAIN pc = Thread
    BY EraseFacts DEF LifecycleInv, TypeOK
  <2>1. ~\E t \in Thread : Sending(t)
    <3> SUFFICES ASSUME NEW t \in Thread, Sending(t) PROVE FALSE
      OBVIOUS
    <3>1. t # Main
      BY DEF Sending, PostDrop, PostDeliver, PostFull, PostPush, PostXoff,
         PostNewGroupThrows, PostNewGroup, PostEmplace, Posting
    <3>2. \/ \E q : pc' = [pc EXCEPT ![t] = q]
          \/ \E k : pc' = [pc EXCEPT ![t] = "post_emplace", ![k] = "entry"]
      BY DEF Sending, PostDrop, PostDeliver, PostFull, PostPush, PostXoff,
         PostNewGroupThrows, PostNewGroup, PostEmplace, Throw
    <3> QED
      BY <2>0, <3>1, <3>2
  <2>2. ~\E t \in Thread : Calling(t)
    <3> SUFFICES ASSUME NEW t \in Thread, Calling(t) PROVE FALSE
      OBVIOUS
    <3>1. t # Main
      BY DEF Calling, CallSend, CallCreateThrows, CallCreate, CreateEmplace,
         CallTerminate, MayCall
    <3>2. \/ pc' = pc \/ \E q : pc' = [pc EXCEPT ![t] = q]
          \/ \E k : pc' = [pc EXCEPT ![t] = "create_emplace", ![k] = "entry"]
      BY DEF Calling, CallSend, CallCreateThrows, CallCreate, CreateEmplace,
         CallTerminate, Throw, BeginSend
    <3> QED
      BY <2>0, <3>1, <3>2
  <2>3. ~\E k \in Name : Running(k)
    <3> SUFFICES ASSUME NEW k \in Name, Running(k) PROVE FALSE
      OBVIOUS
    <3>1. pc' = pc \/ \E q : pc' = [pc EXCEPT ![k] = q]
      BY DEF Running, Entry, TakeGreenLight, Loop, Pop, HandlerReturn, HandlerThrow,
         GroupProcess, After, XonClear, Exit, ExitReturn, Finish, FinishPost, BeginRun,
         BeginSend, Throw
    <3> QED
      BY <2>0, <3>1
  <2>4. g_workers = {}
    BY <2>0, <2>1, <2>2, <2>3
       DEF Next, Finished, Waiting, WaitStart, WaitGreen, WaitGreenDone, WaitTake, WaitLock,
           WaitErase, WaitCheck, WaitReset, MayCall, MayErase, NoMoreWorkers, vars
  <2> QED
    BY <2>4, EraseFacts
       DEF LifecycleInv, RegisterInv, ConstructedBeforeRun, UnderConstruction
<1> QED
  BY <1>1, LifecycleInvariance, PTL DEF Spec, AllThreadsJoined

-------------------------------------------------------------------------------
(* No worker runs outside wait() *)

\* Only wait() and the worker itself touch semaphore_.
LEMMA SemaphoreKept ==
    ASSUME LifecycleInv, NEW n \in Name
    PROVE  /\ \A t \in Thread : Sending(t) \/ Calling(t) =>
                worker'[n].semaphore = worker[n].semaphore
           /\ \A k \in Name : Running(k) /\ ~TakeGreenLight(n) =>
                worker'[n].semaphore = worker[n].semaphore
<1>1. worker \in [Name -> WorkerObject] /\ g_workers \in SUBSET Name
      /\ todo \in [Thread -> SUBSET Message]
  BY DEF LifecycleInv, TypeOK
<1>2. ASSUME NEW v \in [Name -> WorkerObject], NEW k, NEW q
      PROVE  [v EXCEPT ![k].queue = q][n].semaphore = v[n].semaphore
  <2>1. CASE k = n
    <3>1. [v EXCEPT ![k].queue = q][n] = [v[n] EXCEPT !.queue = q]
      BY <2>1
    <3> QED BY <3>1 DEF WorkerObject
  <2>2. CASE k # n
    BY <2>2
  <2> QED BY <2>1, <2>2
<1>3. ASSUME NEW m, NEW R PROVE Recorded(m, R)[n].semaphore = worker[n].semaphore
  BY SMTT(60), <1>1 DEF Recorded, WorkerObject
<1>4. ASSUME NEW t \in Thread, NEW at, Throw(t, at)
      PROVE  worker'[n].semaphore = worker[n].semaphore
  BY SMTT(60), <1>1, <1>4 DEF Throw, WorkerObject
<1>5. ASSUME NEW t \in Thread, Sending(t) PROVE worker'[n].semaphore = worker[n].semaphore
  <2>1. ASSUME NEW m \in todo[t], PostDrop(t, m) \/ PostNewGroup(t, m) \/ PostFull(t, m)
        PROVE  worker'[n].semaphore = worker[n].semaphore
    <3>1. worker' = worker \/ worker' = Recorded(m, g_workers)
      BY <2>1 DEF PostDrop, PostNewGroup, PostFull
    <3> QED BY <1>3, <3>1
  <2>2. ASSUME NEW m \in Message, NEW R \in SUBSET Name,
               worker' = [Recorded(m, R) EXCEPT ![m.to].queue = Push(@, m)]
        PROVE  worker'[n].semaphore = worker[n].semaphore
    <3>1. PICK v : v = Recorded(m, R)
      OBVIOUS
    <3>2. v \in [Name -> WorkerObject] /\ v[n].semaphore = worker[n].semaphore
      BY <1>1, <1>3, <3>1, RecordedType
    <3>3. PICK k, q : worker' = [v EXCEPT ![k].queue = q]
      BY <2>2, <3>1
    <3>4. [v EXCEPT ![k].queue = q][n].semaphore = v[n].semaphore
      BY SMTT(60), <1>2, <3>2
    <3> QED BY <3>2, <3>3, <3>4
  <2>3. ASSUME NEW m \in todo[t], PostDeliver(t, m)
        PROVE  worker'[n].semaphore = worker[n].semaphore
    BY <1>1, <2>2, <2>3 DEF PostDeliver
  <2>4. ASSUME PostPush(t) PROVE worker'[n].semaphore = worker[n].semaphore
    <3>1. PICK k, q : worker' = [worker EXCEPT ![k].queue = q]
      BY <2>4 DEF PostPush
    <3>2. [worker EXCEPT ![k].queue = q][n].semaphore = worker[n].semaphore
      BY <1>1, <1>2
    <3> QED BY <3>1, <3>2
  <2>5. ASSUME PostXoff(t) PROVE worker'[n].semaphore = worker[n].semaphore
    <3>1. PICK m : worker' = XoffTold(m) /\ m = out[t]
      BY <2>5 DEF PostXoff
    <3> QED BY SMTT(60), <1>1, <3>1 DEF XoffTold, WorkerObject
  <2>6. ASSUME NEW m \in todo[t], PostNewGroupThrows(t, m)
        PROVE  worker'[n].semaphore = worker[n].semaphore
    BY <1>4, <2>6 DEF PostNewGroupThrows
  <2>7. ASSUME PostEmplace(t) PROVE worker'[n].semaphore = worker[n].semaphore
    <3>1. PICK m, R : /\ m = out[t] /\ R = g_workers \cup {m.to} /\ pc[t] = "post_emplace"
                      /\ worker' = [Recorded(m, R) EXCEPT ![m.to].queue = Push(@, m)]
      BY <2>7 DEF PostEmplace, Emplace
    <3>2. m \in Message /\ m.action = "skal-subscribe"
      BY <3>1 DEF LifecycleInv, InsideCalls
    <3>3. R \in SUBSET Name
      BY <1>1, <3>1, <3>2, MessageType DEF Name
    <3> QED BY <2>2, <3>1, <3>2, <3>3
  <2> QED BY <1>5, <2>1, <2>3, <2>4, <2>5, <2>6, <2>7 DEF Sending
<1>6. ASSUME NEW t \in Thread, Calling(t) PROVE worker'[n].semaphore = worker[n].semaphore
  <2>1. CASE CallSend(t) \/ CallCreate(t) \/ \E k \in Name : CreateEmplace(t, k)
    BY <2>1 DEF CallSend, CallCreate, CreateEmplace
  <2>2. CASE CallTerminate(t)
    <3>1. \/ worker'[n] = worker[n]
          \/ \E q : worker'[n] = [worker[n] EXCEPT !.queue = q]
      BY <2>2 DEF CallTerminate
    <3> QED BY <1>1, <3>1 DEF WorkerObject
  <2>3. CASE CallCreateThrows(t)
    BY <1>4, <2>3 DEF CallCreateThrows
  <2> QED BY <1>6, <2>1, <2>2, <2>3 DEF Calling
<1>7. ASSUME NEW k \in Name, Running(k), ~TakeGreenLight(n)
      PROVE  worker'[n].semaphore = worker[n].semaphore
  <2>1. CASE n # k
    BY <1>1, <1>7, <2>1 DEF Running, Entry, TakeGreenLight, BeginRun, Loop, Pop, HandlerReturn,
       HandlerThrow, Throw, GroupProcess, After, XonClear, Exit, ExitReturn, Finish, FinishPost
  <2>2. CASE n = k
    <3>0. worker[n] \in WorkerObject /\ DOMAIN worker = Name
      BY <1>1
    <3>1. CASE Entry(n)
      <4>1. worker' = worker \/ \E q : worker' = [worker EXCEPT ![n] = [worker[n] EXCEPT !.queue = q]]
        BY <3>1 DEF Entry, BeginRun
      <4>2. worker'[n] = worker[n] \/ \E q : worker'[n] = [worker[n] EXCEPT !.queue = q]
        BY <3>0, <4>1
      <4> QED BY <3>0, <4>2 DEF WorkerObject
    <3>2. ASSUME NEW timeout \in BOOLEAN, Loop(n, timeout)
          PROVE  worker'[n].semaphore = worker[n].semaphore
      <4>1. PICK q, th, x :
              worker' = [worker EXCEPT ![n].queue = q, ![n].throttled = th, ![n].xoff = x]
        BY <3>2 DEF Loop
      <4>2. worker'[n] = [worker[n] EXCEPT !.queue = q, !.throttled = th, !.xoff = x]
        BY <3>0, <4>1
      <4> QED BY <3>0, <4>2 DEF WorkerObject
    <3>3. CASE Pop(n)
      BY SMTT(60), <3>0, <3>3 DEF Pop, WorkerObject
    <3>4. ASSUME NEW ok \in BOOLEAN, HandlerReturn(n, ok)
          PROVE  worker'[n].semaphore = worker[n].semaphore
      <4>1. \E s : worker' = [worker EXCEPT ![n].stop = s, ![n].cur = NoMsg]
        BY <3>4 DEF HandlerReturn
      <4>2. \E s : worker'[n] = [worker[n] EXCEPT !.stop = s, !.cur = NoMsg]
        BY <3>0, <4>1
      <4> QED BY <3>0, <4>2 DEF WorkerObject
    <3>5. CASE HandlerThrow(n)
      BY <1>4, <3>5 DEF HandlerThrow, Thread
    <3>6. CASE GroupProcess(n)
      <4>1. PICK x, s :
              worker' = [worker EXCEPT ![n].subscribers = x, ![n].stop = s, ![n].cur = NoMsg]
        BY <3>6 DEF GroupProcess
      <4>2. worker'[n] = [worker[n] EXCEPT !.subscribers = x, !.stop = s, !.cur = NoMsg]
        BY <3>0, <4>1
      <4> QED BY <3>0, <4>2 DEF WorkerObject
    <3>7. CASE XonClear(n) \/ ExitReturn(n)
      <4>1. \/ worker'[n] = [worker[n] EXCEPT !.ntf_xon = {}]
            \/ worker'[n] = [worker[n] EXCEPT !.subscribers = {}]
        BY <3>0, <3>7 DEF XonClear, ExitReturn
      <4> QED BY <3>0, <4>1 DEF WorkerObject
    <3>8. CASE After(n) \/ Exit(n) \/ Finish(n) \/ FinishPost(n)
      BY <3>8 DEF After, Exit, Finish, FinishPost
    <3> QED BY <1>7, <2>2, <3>1, <3>2, <3>3, <3>4, <3>5, <3>6, <3>7, <3>8 DEF Running
  <2> QED BY <2>1, <2>2
<1> QED BY <1>5, <1>6, <1>7

\* The calls that OnlyMainStarts excludes.
LEMMA NoSuchCall ==
    ASSUME OnlyMainStarts, LifecycleInv, NEW t \in Thread
    PROVE  /\ ~MayCall(t, "terminate")
           /\ t \in User \ {Main} =>
                /\ ~MayCall(t, "create")
                /\ MayCall(t, "send") => NextCall(t).msg.action # "skal-subscribe"
<1>1. ASSUME NEW call, MayCall(t, call)
      PROVE  /\ called[t] + 1 \in DOMAIN Calls(t) /\ NextCall(t) = Calls(t)[called[t] + 1]
             /\ NextCall(t).call = call
             /\ Calls(t) \in {Script[t], ExitScript[t]}
             /\ t \in User => Calls(t) = Script[t]
  <2>1. called[t] \in Nat /\ Calls(t) \in {Script[t], ExitScript[t]}
    BY DEF LifecycleInv, TypeOK, Calls
  <2>2. Calls(t) \in Seq(Call)
    BY <2>1, ScriptAssumption
  <2>3. called[t] < Len(Calls(t)) /\ NextCall(t).call = call
    BY <1>1 DEF MayCall
  <2>4. called[t] + 1 \in DOMAIN Calls(t)
    BY SMTT(60), <2>1, <2>2, <2>3
  <2>5. t \in User => pc[t] # "exit_handler"
    BY DEF LifecycleInv, InsideCalls, CallPc, WaitPc
  <2> QED BY <2>1, <2>3, <2>4, <2>5 DEF Calls, NextCall
<1>2. ASSUME NEW call, MayCall(t, call)
      PROVE  \/ /\ \E i \in DOMAIN Script[t] : NextCall(t) = Script[t][i]
                /\ NextCall(t).call = call
             \/ /\ \E i \in DOMAIN ExitScript[t] : NextCall(t) = ExitScript[t][i]
                /\ NextCall(t).call = call /\ t \notin User
  <2>1. PICK i, s : i = called[t] + 1 /\ s = Calls(t)
    OBVIOUS
  <2>2. /\ i \in DOMAIN s /\ NextCall(t) = s[i] /\ NextCall(t).call = call
        /\ s \in {Script[t], ExitScript[t]} /\ (t \in User => s = Script[t])
    BY <1>1, <1>2, <2>1
  <2> QED BY <2>2
<1>3. ASSUME MayCall(t, "terminate") PROVE FALSE
  <2>1. /\ \A i \in DOMAIN Script[t] : Script[t][i].call # "terminate"
        /\ \A i \in DOMAIN ExitScript[t] : ExitScript[t][i].call # "terminate"
    BY DEF OnlyMainStarts
  <2>2. CASE \E i \in DOMAIN Script[t] : NextCall(t) = Script[t][i]
    <3>1. NextCall(t).call = "terminate"
      BY <1>3 DEF MayCall
    <3>2. PICK i \in DOMAIN Script[t] : NextCall(t) = Script[t][i]
      BY <2>2
    <3> QED BY <2>1, <3>1, <3>2
  <2>3. CASE \E i \in DOMAIN ExitScript[t] : NextCall(t) = ExitScript[t][i]
    <3>1. NextCall(t).call = "terminate"
      BY <1>3 DEF MayCall
    <3>2. PICK i \in DOMAIN ExitScript[t] : NextCall(t) = ExitScript[t][i]
      BY <2>3
    <3> QED BY <2>1, <3>1, <3>2
  <2> QED BY <1>2, <1>3, <2>2, <2>3
<1>4. ASSUME t \in User \ {Main}, MayCall(t, "create") PROVE FALSE
  BY <1>2, <1>4 DEF OnlyMainStarts
<1>5. ASSUME t \in User \ {Main}, MayCall(t, "send")
      PROVE  NextCall(t).msg.action # "skal-subscribe"
  BY <1>2, <1>5 DEF OnlyMainStarts
<1> QED BY <1>3, <1>4, <1>5

\* g_state is set by wait() and terminate() only.
LEMMA StateKept ==
    ASSUME OnlyMainStarts, LifecycleInv, g_state # "terminating", Next
    PROVE  /\ g_state' # "terminating"
           /\ ~Waiting => g_state' = g_state
<1>1. ASSUME NEW t \in Thread, Sending(t) \/ Calling(t) PROVE g_state' = g_state
  <2>1. ~CallTerminate(t)
    BY NoSuchCall DEF CallTerminate
  <2> QED BY <1>1, <2>1 DEF Sending, PostDrop, PostDeliver, PostFull, PostPush, PostXoff,
             PostNewGroupThrows, PostNewGroup, PostEmplace, Calling, CallSend, CallCreateThrows,
             CallCreate, CreateEmplace
<1>2. ASSUME NEW k \in Name, Running(k) PROVE g_state' = g_state
  BY <1>2 DEF Running, Entry, TakeGreenLight, Loop, Pop, HandlerReturn, HandlerThrow,
     GroupProcess, After, XonClear, Exit, ExitReturn, Finish, FinishPost
<1>3. ASSUME Waiting PROVE g_state' # "terminating"
  BY <1>3 DEF Waiting, WaitStart, WaitGreen, WaitGreenDone, WaitTake, WaitLock, WaitErase,
     WaitCheck, WaitReset, StateAfterWait
<1>4. ASSUME Finished PROVE g_state' = g_state
  BY <1>4 DEF Finished, vars
<1> QED BY <1>1, <1>2, <1>3, <1>4 DEF Next

\* A name that is not registered has no green light.
LEMMA NoLightStep ==
    ASSUME LifecycleInv, \A n \in Name \ g_workers : worker[n].semaphore = 0, Next
    PROVE  \A n \in Name \ g_workers' : worker'[n].semaphore = 0
<1> SUFFICES ASSUME NEW n \in Name, n \notin g_workers' PROVE worker'[n].semaphore = 0
  OBVIOUS
<1>1. worker \in [Name -> WorkerObject] /\ green \subseteq g_workers
  BY DEF LifecycleInv, TypeOK, RegisterInv, NoUseAfterErase
<1>2. ASSUME NEW t \in Thread, Sending(t) \/ Calling(t) PROVE worker'[n].semaphore = 0
  <2>1. g_workers \subseteq g_workers'
    BY <1>2 DEF Sending, PostDrop, PostDeliver, PostFull, PostPush, PostXoff, PostNewGroupThrows,
       PostNewGroup, PostEmplace, Emplace, Calling, CallSend, CallCreateThrows, CallCreate,
       CreateEmplace, CallTerminate
  <2> QED BY <1>2, <2>1, SemaphoreKept
<1>3. ASSUME NEW k \in Name, Running(k) PROVE worker'[n].semaphore = 0
  <2>1. g_workers' = g_workers
    BY <1>3 DEF Running, Entry, TakeGreenLight, Loop, Pop, HandlerReturn, HandlerThrow,
       GroupProcess, After, XonClear, Exit, ExitReturn, Finish, FinishPost
  <2>2. ~TakeGreenLight(n)
    BY <2>1, Registered DEF TakeGreenLight
  <2> QED BY <1>3, <2>1, <2>2, SemaphoreKept
<1>4. ASSUME Waiting PROVE worker'[n].semaphore = 0
  <2>1. CASE WaitErase
    <3>1. PICK k : /\ g_workers' = g_workers \ {k} /\ worker' = [worker EXCEPT ![k] = NewWorker]
      BY <2>1 DEF WaitErase
    <3>2. NewWorker.semaphore = 0
      BY SMTT(60) DEF NewWorker
    <3> QED BY <1>1, <3>1, <3>2
  <2>2. ASSUME NEW k \in Name, WaitGreen(k) PROVE worker'[n].semaphore = 0
    <3>1. k \in g_workers /\ g_workers' = g_workers
      BY <1>1, <2>2 DEF WaitGreen
    <3> QED BY <1>1, <2>2, <3>1 DEF WaitGreen
  <2>3. CASE WaitStart \/ WaitGreenDone \/ WaitTake \/ WaitLock \/ WaitCheck \/ WaitReset
    BY <2>3 DEF WaitStart, WaitGreenDone, WaitTake, WaitLock, WaitCheck, WaitReset
  <2> QED BY <1>4, <2>1, <2>2, <2>3 DEF Waiting
<1>5. ASSUME Finished PROVE worker'[n].semaphore = 0
  BY <1>5 DEF Finished, vars
<1> QED BY <1>2, <1>3, <1>4, <1>5 DEF Next

\* The other threads outside skal create no worker.
LEMMA CreatesNothingStep ==
    ASSUME OnlyMainStarts, LifecycleInv, NEW u \in User \ {Main}, CreatesNothing(u), Next
    PROVE  CreatesNothing(u)'
<1>1. /\ pc \in [Thread -> WorkerPc \cup CallPc \cup WaitPc \cup {"user"}]
      /\ todo \in [Thread -> SUBSET Message] /\ ret \in [Thread -> {"none", "user"} \cup RetPc]
      /\ u \in Thread /\ u \notin Name /\ Main \in Thread /\ u # Main
  BY NamesAssumption DEF LifecycleInv, TypeOK, Thread
<1>2. ASSUME NEW t \in Thread, Sending(t) PROVE CreatesNothing(u)'
  <2>1. \A m \in todo'[u] : m \in todo[u]
    <3>1. ASSUME NEW m \in todo[t], Posting(t, m) PROVE todo'[u] \subseteq todo[u]
      BY <1>1, <3>1 DEF Posting
    <3>2. ASSUME PostXoff(t) PROVE todo'[u] = todo[u]
      <4>1. out[t].to \in Name
        BY <3>2 DEF PostXoff, LifecycleInv, RegisterInv, NoUseAfterErase, TypeOK
      <4> QED BY <1>1, <3>2, <4>1 DEF PostXoff
    <3>3. ASSUME PostPush(t) \/ PostEmplace(t) PROVE todo' = todo
      BY <3>3 DEF PostPush, PostEmplace
    <3> QED BY <1>2, <3>1, <3>2, <3>3
            DEF Sending, PostDrop, PostDeliver, PostFull, PostNewGroupThrows, PostNewGroup
  <2>2. pc'[u] \notin {"create_emplace", "post_emplace"}
    <3>1. ret[t] \notin {"create_emplace", "post_emplace"}
      BY <1>1 DEF RetPc
    <3>2. ASSUME NEW m \in todo[t], PostNewGroup(t, m) PROVE pc'[u] = pc[u]
      <4>1. t # u /\ m \in Message /\ m.action = "skal-subscribe"
        BY <1>1, <3>2 DEF PostNewGroup, CreatesNothing
      <4>2. m.to # u
        BY <1>1, <4>1, MessageType DEF Name
      <4> QED BY <1>1, <3>2, <4>1, <4>2 DEF PostNewGroup
    <3> QED BY <1>1, <1>2, <3>1, <3>2 DEF Sending, PostDrop, PostDeliver, PostFull, PostPush,
               PostXoff, PostNewGroupThrows, PostEmplace, Throw, Return, CreatesNothing
  <2> QED BY <2>1, <2>2 DEF CreatesNothing
<1>3. ASSUME NEW t \in Thread, Calling(t) PROVE CreatesNothing(u)'
  <2>1. CASE CallSend(t)
    <3>1. PICK m : /\ m = NextCall(t).msg /\ todo' = [todo EXCEPT ![t] = {m}]
                   /\ pc' = [pc EXCEPT ![t] = "send"]
      BY <2>1 DEF CallSend, BeginSend
    <3>2. t = u => m.action # "skal-subscribe"
      BY <2>1, <3>1, NoSuchCall DEF CallSend
    <3> QED BY <1>1, <3>1, <3>2 DEF CreatesNothing
  <2>2. CASE CallCreateThrows(t)
    BY <1>1, <2>2 DEF CallCreateThrows, Throw, CreatesNothing
  <2>3. CASE CallCreate(t)
    <3>1. t # u
      BY <2>3, NoSuchCall DEF CallCreate
    <3>2. NextCall(t) \in Call /\ NextCall(t).call = "create"
      BY <2>3, NextCallType DEF CallCreate, LifecycleInv
    <3>3. NextCall(t).name \in Client
      BY SMTT(60), <3>2 DEF Call
    <3>4. NextCall(t).name # u
      BY <1>1, <3>3 DEF Name
    <3> QED BY <1>1, <2>3, <3>1, <3>4 DEF CallCreate, CreatesNothing
  <2>4. ASSUME NEW k \in Name, CreateEmplace(t, k) PROVE CreatesNothing(u)'
    BY <1>1, <2>4 DEF CreateEmplace, CreatesNothing, RetPc
  <2>5. CASE CallTerminate(t)
    BY <2>5 DEF CallTerminate, CreatesNothing
  <2> QED BY <1>3, <2>1, <2>2, <2>3, <2>4, <2>5 DEF Calling
<1>4. ASSUME NEW k \in Name, Running(k) PROVE CreatesNothing(u)'
  <2>1. pc'[u] = pc[u] /\ todo'[u] = todo[u]
    BY <1>1, <1>4 DEF Running, Entry, TakeGreenLight, BeginRun, Loop, Pop, HandlerReturn,
       HandlerThrow, Throw, GroupProcess, After, XonClear, Exit, BeginSend, ExitReturn, Finish,
       FinishPost
  <2> QED BY <2>1 DEF CreatesNothing
<1>5. ASSUME Waiting PROVE CreatesNothing(u)'
  <2>1. todo' = todo
    BY <1>5 DEF Waiting, WaitStart, WaitGreen, WaitGreenDone, WaitTake, WaitLock, WaitErase,
       WaitCheck, WaitReset
  <2>2. pc'[u] \in {pc[u], "none"}
    BY <1>1, <1>5 DEF Waiting, WaitStart, WaitGreen, WaitGreenDone, WaitTake, WaitLock, WaitErase,
       WaitCheck, WaitReset
  <2> QED BY <2>1, <2>2 DEF CreatesNothing
<1>6. ASSUME Finished PROVE CreatesNothing(u)'
  BY <1>6 DEF Finished, vars, CreatesNothing
<1> QED BY <1>2, <1>3, <1>4, <1>5, <1>6 DEF Next

\* Steps other than those of wait() leave main inside wait(), or outside it.
LEMMA MainPlace ==
    ASSUME LifecycleInv
    PROVE  /\ \A t \in Thread : Sending(t) \/ Calling(t) =>
                \/ pc[Main] \notin WaitPc /\ pc'[Main] \notin WaitPc
                \/ pc'[Main] = pc[Main] /\ t # Main
           /\ \A k \in Name : Running(k) => pc'[Main] = pc[Main]
<1>1. /\ pc \in [Thread -> WorkerPc \cup CallPc \cup WaitPc \cup {"user"}]
      /\ Main \in Thread /\ Main \notin Name /\ Main \in User
      /\ todo \in [Thread -> SUBSET Message] /\ ret \in [Thread -> {"none", "user"} \cup RetPc]
  BY NamesAssumption DEF LifecycleInv, TypeOK, Thread
<1>2. ASSUME NEW t \in Thread, NEW q, q \notin WaitPc, t = Main => pc[t] \notin WaitPc,
             \/ pc' = pc \/ pc' = [pc EXCEPT ![t] = q]
             \/ \E k \in Name : pc' = [pc EXCEPT ![t] = q, ![k] = "entry"]
      PROVE  \/ pc[Main] \notin WaitPc /\ pc'[Main] \notin WaitPc
             \/ pc'[Main] = pc[Main] /\ t # Main
  BY <1>1, <1>2
<1>3. ASSUME NEW t \in Thread, Sending(t)
      PROVE  \/ pc[Main] \notin WaitPc /\ pc'[Main] \notin WaitPc
             \/ pc'[Main] = pc[Main] /\ t # Main
  <2>1. pc[t] \notin WaitPc
    BY <1>3 DEF Sending, PostDrop, PostDeliver, PostFull, PostPush, PostXoff, PostNewGroupThrows,
       PostNewGroup, PostEmplace, Posting, WaitPc
  <2>2. \A rest : Return(t, rest) \notin WaitPc
    BY <1>1 DEF Return, RetPc, WaitPc
  <2>3. ASSUME NEW m \in todo[t], PostNewGroup(t, m)
        PROVE  /\ m.to \in Name /\ "post_emplace" \notin WaitPc
               /\ pc' = [pc EXCEPT ![t] = "post_emplace", ![m.to] = "entry"]
    BY <1>1, <2>3, MessageType DEF PostNewGroup, Name, WaitPc
  <2>4. \/ \E q : q \notin WaitPc /\ pc' = [pc EXCEPT ![t] = q]
        \/ \E m \in todo[t] : PostNewGroup(t, m)
    <3>1. "post_push" \notin WaitPc /\ "post_xoff" \notin WaitPc /\ "user" \notin WaitPc
          /\ "after" \notin WaitPc /\ "finish" \notin WaitPc
      BY DEF WaitPc
    <3> QED BY <1>3, <2>2, <3>1 DEF Sending, PostDrop, PostDeliver, PostFull, PostPush, PostXoff,
               PostNewGroupThrows, PostEmplace, Throw
  <2> QED BY <1>2, <2>1, <2>3, <2>4
<1>4. ASSUME NEW t \in Thread, Calling(t)
      PROVE  \/ pc[Main] \notin WaitPc /\ pc'[Main] \notin WaitPc
             \/ pc'[Main] = pc[Main] /\ t # Main
  <2>1. pc[t] \notin WaitPc
    BY <1>4 DEF Calling, CallSend, CallCreateThrows, CallCreate, CreateEmplace, CallTerminate,
       MayCall, WaitPc
  <2>2. ret[t] \notin WaitPc /\ "send" \notin WaitPc /\ "create_emplace" \notin WaitPc
        /\ "user" \notin WaitPc /\ "after" \notin WaitPc /\ "finish" \notin WaitPc
    BY <1>1 DEF RetPc, WaitPc
  <2>3. ASSUME CallCreate(t)
        PROVE  \E k \in Name : pc' = [pc EXCEPT ![t] = "create_emplace", ![k] = "entry"]
    <3>1. NextCall(t) \in Call /\ NextCall(t).call = "create"
      BY <2>3, NextCallType DEF CallCreate, LifecycleInv
    <3>2. NextCall(t).name \in Name
      BY SMTT(60), <3>1 DEF Call, Name
    <3> QED BY <2>3, <3>2 DEF CallCreate
  <2>4. \/ pc' = pc \/ (\E q : q \notin WaitPc /\ pc' = [pc EXCEPT ![t] = q])
        \/ CallCreate(t)
    BY <1>4, <2>2 DEF Calling, CallSend, BeginSend, CallCreateThrows, CreateEmplace, CallTerminate,
       Throw
  <2> QED BY <1>2, <2>1, <2>2, <2>3, <2>4
<1>5. ASSUME NEW k \in Name, Running(k) PROVE pc'[Main] = pc[Main]
  BY <1>1, <1>5 DEF Running, Entry, TakeGreenLight, BeginRun, Loop, Pop, HandlerReturn,
     HandlerThrow, Throw, GroupProcess, After, XonClear, Exit, BeginSend, ExitReturn, Finish,
     FinishPost
<1> QED BY <1>3, <1>4, <1>5

\* A thread that may act outside wait(), as long as no worker runs, is outside
\* skal, or a worker thread that is looking at g_state.
LEMMA IdleWorkers ==
    ASSUME LifecycleInv, NEW n \in Name, pc[n] \in {"none", "entry", "green"},
           worker[n].semaphore = 0
    PROVE  /\ ~Sending(n) /\ ~Calling(n)
           /\ Running(n) => pc[n] = "entry" /\ Entry(n)
<1>1. ~Sending(n)
  BY DEF Sending, PostDrop, PostDeliver, PostFull, PostPush, PostXoff, PostNewGroupThrows,
     PostNewGroup, PostEmplace, Posting
<1>2. ~Calling(n)
  BY DEF Calling, CallSend, CallCreateThrows, CallCreate, CreateEmplace, CallTerminate, MayCall
<1>3. ~TakeGreenLight(n)
  <2>1. ~(worker[n].semaphore > 0)
    BY SMTT(60)
  <2> QED BY <2>1 DEF TakeGreenLight, SemReady
<1>4. Running(n) => Entry(n)
  BY <1>3 DEF Running, Loop, Pop, HandlerReturn, HandlerThrow, GroupProcess, After, XonClear,
     Exit, ExitReturn, Finish, MayFinish, FinishPost
<1> QED BY <1>1, <1>2, <1>4 DEF Entry, MayEnter

\* Outside wait(), workers are created and look at g_state, and do no more.
LEMMA OutsideStep ==
    ASSUME OnlyMainStarts, LifecycleInv, OutsideWaitInv, pc[Main] \notin WaitPc, Next
    PROVE  \/ WaitStart
           \/ \A n \in Name : pc'[n] \in {"none", "entry", "green"} /\ worker'[n].semaphore = 0
<1> SUFFICES ASSUME ~WaitStart, NEW n \in Name
             PROVE  pc'[n] \in {"none", "entry", "green"} /\ worker'[n].semaphore = 0
  OBVIOUS
<1>1. /\ pc \in [Thread -> WorkerPc \cup CallPc \cup WaitPc \cup {"user"}]
      /\ g_state = "initialising"
      /\ \A k \in Name : pc[k] \in {"none", "entry", "green"} /\ worker[k].semaphore = 0
      /\ n \in Thread
  BY DEF LifecycleInv, TypeOK, OutsideWaitInv, Thread
<1>2. ASSUME NEW t \in Thread, Sending(t) \/ Calling(t)
      PROVE  pc'[n] \in {"none", "entry", "green"} /\ worker'[n].semaphore = 0
  <2>1. worker'[n].semaphore = 0
    BY <1>1, <1>2, SemaphoreKept
  <2>2. t # n
    BY <1>1, <1>2, IdleWorkers
  <2>3. pc'[n] \in {pc[n], "entry"}
    BY <1>1, <1>2, <2>2 DEF Sending, PostDrop, PostDeliver, PostFull, PostPush, PostXoff,
       PostNewGroupThrows, PostNewGroup, PostEmplace, Calling, CallSend, BeginSend,
       CallCreateThrows, CallCreate, CreateEmplace, CallTerminate, Throw
  <2> QED BY <1>1, <2>1, <2>3
<1>3. ASSUME NEW k \in Name, Running(k)
      PROVE  pc'[n] \in {"none", "entry", "green"} /\ worker'[n].semaphore = 0
  <2>1. Entry(k)
    BY <1>1, <1>3, IdleWorkers
  <2>2. worker' = worker /\ pc' = [pc EXCEPT ![k] = "green"]
    BY <1>1, <2>1 DEF Entry
  <2> QED BY <1>1, <2>2
<1>4. ~Waiting
  BY DEF Waiting, WaitGreen, WaitGreenDone, WaitTake, WaitLock, MayErase, WaitErase, WaitCheck,
     WaitReset, WaitPc
<1>5. ASSUME Finished
      PROVE  pc'[n] \in {"none", "entry", "green"} /\ worker'[n].semaphore = 0
  BY <1>1, <1>5 DEF Finished, vars
<1> QED BY <1>2, <1>3, <1>4, <1>5 DEF Next

\* When wait() is about to return nobody creates a worker.
LEMMA ReturningStep ==
    ASSUME OnlyMainStarts, LifecycleInv, OutsideWaitInv, pc[Main] = "wait_reset", Next
    PROVE  g_workers' = {} /\ \A n \in Name : pc'[n] = "none" /\ worker'[n].semaphore = 0
<1>1. /\ pc \in [Thread -> WorkerPc \cup CallPc \cup WaitPc \cup {"user"}]
      /\ g_workers = {} /\ Main \in Thread /\ Main \in User /\ Main \notin Name
      /\ \A k \in Name : /\ pc[k] = "none" /\ worker[k].semaphore = 0 /\ k \in Thread
                         /\ k # Main
  BY NamesAssumption DEF LifecycleInv, TypeOK, OutsideWaitInv, Thread
<1>2. ASSUME NEW t \in Thread, Sending(t) \/ Calling(t)
      PROVE  g_workers' = {} /\ \A n \in Name : pc'[n] = "none" /\ worker'[n].semaphore = 0
  <2>1. t # Main
    <3>1. "wait_reset" \in WaitPc
      BY DEF WaitPc
    <3> QED BY <1>2, <3>1, MainPlace
  <2>2. t \notin Name
    BY <1>1, <1>2, IdleWorkers
  <2>3. t \in User \ {Main} /\ CreatesNothing(t)
    BY <2>1, <2>2 DEF Thread, OutsideWaitInv
  <2>4. /\ \A m \in todo[t] : ~PostNewGroup(t, m)
        /\ ~PostEmplace(t) /\ ~CallCreate(t) /\ ~\E k \in Name : CreateEmplace(t, k)
    BY <2>3, NoSuchCall DEF CreatesNothing, PostNewGroup, PostEmplace, CallCreate, CreateEmplace
  <2>5. g_workers' = g_workers /\ (pc' = pc \/ \E q : pc' = [pc EXCEPT ![t] = q])
    BY <1>2, <2>4 DEF Sending, PostDrop, PostDeliver, PostFull, PostPush, PostXoff,
       PostNewGroupThrows, Calling, CallSend, BeginSend, CallCreateThrows, CallTerminate, Throw
  <2>6. \A n \in Name : pc'[n] = "none"
    BY <1>1, <2>2, <2>5
  <2>7. \A n \in Name : worker'[n].semaphore = 0
    BY <1>1, <1>2, SemaphoreKept
  <2> QED BY <1>1, <2>5, <2>6, <2>7
<1>3. ASSUME NEW k \in Name PROVE ~Running(k)
  BY <1>1, IdleWorkers
<1>4. ASSUME Waiting
      PROVE  g_workers' = {} /\ \A n \in Name : pc'[n] = "none" /\ worker'[n].semaphore = 0
  <2>1. WaitReset
    BY <1>4 DEF Waiting, WaitStart, MayCall, WaitGreen, WaitGreenDone, WaitTake, WaitLock, MayErase,
       WaitErase, WaitCheck
  <2> QED BY <1>1, <2>1 DEF WaitReset
<1>5. ASSUME Finished
      PROVE  g_workers' = {} /\ \A n \in Name : pc'[n] = "none" /\ worker'[n].semaphore = 0
  BY <1>1, <1>5 DEF Finished, vars
<1> QED BY <1>2, <1>3, <1>4, <1>5 DEF Next

\* The inductive invariant holds before main makes its first call.
LEMMA OutsideWaitInit == Init => OutsideWaitInv
<1> SUFFICES ASSUME Init PROVE OutsideWaitInv
  OBVIOUS
<1>1. NewWorker.semaphore = 0
  BY SMTT(60) DEF NewWorker
<1>2. /\ \A n \in Name : /\ worker[n].semaphore = 0 /\ pc[n] = "none"
                         /\ pc[n] \in {"none", "entry", "green"}
      /\ \A u \in User : pc[u] = "user" /\ todo[u] = {}
      /\ g_state = "initialising" /\ Main \in User
  BY <1>1, NamesAssumption DEF Init, Thread, Name
<1>3. \A u \in User : CreatesNothing(u)
  BY <1>2 DEF CreatesNothing
<1> QED BY <1>2, <1>3 DEF OutsideWaitInv

\* wait() gives the green lights and takes g_state back: no worker runs, or is
\* let run, when main is outside it.
LEMMA OutsideNext ==
    ASSUME OnlyMainStarts, LifecycleInv, OutsideWaitInv, Next, pc'[Main] \notin WaitPc
    PROVE  /\ g_state' = "initialising"
           /\ \A n \in Name : pc'[n] \in {"none", "entry", "green"} /\ worker'[n].semaphore = 0
<1>1. DOMAIN pc = Thread /\ Main \in Thread /\ g_state # "terminating"
  BY NamesAssumption DEF LifecycleInv, TypeOK, Thread, OutsideWaitInv
<1>2. ~WaitStart
  BY <1>1 DEF WaitStart, WaitPc
<1>3. CASE pc[Main] \notin WaitPc
  <2>1. ~Waiting
    BY <1>2, <1>3 DEF Waiting, WaitGreen, WaitGreenDone, WaitTake, WaitLock, MayErase, WaitErase,
       WaitCheck, WaitReset, WaitPc
  <2>2. g_state' = g_state
    BY <1>1, <2>1, StateKept
  <2> QED BY <1>2, <1>3, <2>2, OutsideStep DEF OutsideWaitInv
<1>4. CASE pc[Main] \in WaitPc
  <2>1. Waiting
    <3>1. ~Finished
      BY <1>4 DEF Finished, vars
    <3> QED BY <1>4, <3>1, MainPlace DEF Next
  <2>2. WaitReset
    <3>1. ~WaitErase
      BY <1>1, <1>4 DEF WaitErase
    <3>2. ~WaitGreenDone /\ ~WaitTake /\ ~WaitLock /\ ~\E n \in Name : WaitGreen(n)
      BY <1>1, <1>4 DEF WaitGreenDone, WaitTake, WaitLock, WaitGreen, WaitPc
    <3>3. ~WaitCheck
      BY <1>1 DEF WaitCheck, WaitPc
    <3> QED BY <1>2, <2>1, <3>1, <3>2, <3>3 DEF Waiting
  <2>3. g_state' = "initialising" /\ pc[Main] = "wait_reset"
    BY <2>2 DEF WaitReset, StateAfterWait
  <2> QED BY <2>3, ReturningStep
<1> QED BY <1>3, <1>4

\* wait() is about to return only when the register is empty.
LEMMA ReturningNext ==
    ASSUME OnlyMainStarts, LifecycleInv, OutsideWaitInv, Next, pc'[Main] = "wait_reset"
    PROVE  g_workers' = {} /\ \A n \in Name : pc'[n] = "none"
<1>1. DOMAIN pc = Thread /\ Main \in Thread /\ Main \notin Name /\ "wait_reset" \in WaitPc
  BY NamesAssumption DEF LifecycleInv, TypeOK, Thread, WaitPc
<1>2. CASE pc[Main] = "wait_reset"
  BY <1>2, ReturningStep
<1>3. CASE pc[Main] # "wait_reset"
  <2>1. Waiting
    <3>1. ~Finished
      BY <1>3 DEF Finished, vars
    <3> QED BY <1>1, <1>3, <3>1, MainPlace DEF Next
  <2>2. WaitCheck
    <3>1. ~WaitErase
      BY <1>1, <1>3 DEF WaitErase
    <3>2. /\ ~WaitStart /\ ~WaitGreenDone /\ ~WaitTake /\ ~WaitLock /\ ~WaitReset
          /\ ~\E n \in Name : WaitGreen(n)
      BY <1>1, <1>3 DEF WaitStart, WaitGreenDone, WaitTake, WaitLock, WaitReset, WaitGreen
    <3> QED BY <2>1, <3>1, <3>2 DEF Waiting
  <2>3. g_workers = {} /\ g_workers' = {} /\ pc[Main] = "wait_erase"
    <3>1. ~NoMoreWorkers => pc'[Main] = "wait_take"
      BY <1>1, <2>2 DEF WaitCheck
    <3>2. NoMoreWorkers
      BY <3>1
    <3> QED BY <2>2, <3>2 DEF WaitCheck, NoMoreWorkers
  <2>4. ASSUME NEW n \in Name PROVE pc'[n] = pc[n]
    <3>1. n \in Thread /\ n # Main
      BY <1>1 DEF Thread
    <3>2. PICK q : pc' = [pc EXCEPT ![Main] = q]
      BY <2>2 DEF WaitCheck
    <3> QED BY <1>1, <3>1, <3>2
  <2>5. \A n \in Name : pc[n] = "none"
    BY <2>3, EraseFacts DEF LifecycleInv, RegisterInv, ConstructedBeforeRun, UnderConstruction
  <2> QED BY <2>3, <2>4, <2>5
<1> QED BY <1>2, <1>3

\* Every step keeps the inductive invariant.
LEMMA OutsideWaitNext ==
    ASSUME OnlyMainStarts, LifecycleInv, OutsideWaitInv, [Next]_vars
    PROVE  OutsideWaitInv'
<1>1. CASE Next
  <2>1. g_state' # "terminating"
    BY <1>1, StateKept DEF OutsideWaitInv
  <2>2. \A n \in Name \ g_workers' : worker'[n].semaphore = 0
    BY <1>1, NoLightStep DEF OutsideWaitInv
  <2>3. \A u \in User \ {Main} : CreatesNothing(u)'
    BY <1>1, CreatesNothingStep DEF OutsideWaitInv
  <2> QED BY <1>1, <2>1, <2>2, <2>3, OutsideNext, ReturningNext DEF OutsideWaitInv
<1>2. CASE UNCHANGED vars
  BY <1>2 DEF vars, OutsideWaitInv, CreatesNothing
<1> QED BY <1>1, <1>2

\* No worker runs before main calls wait(), nor after it returned, in every
\* application in which only main creates the first workers and nobody calls
\* terminate().
THEOREM OutsideWaitSafety == OnlyMainStarts => (Spec => []NoRunOutsideWait)
<1>1. OutsideWaitInv => NoRunOutsideWait
  BY DEF OutsideWaitInv, NoRunOutsideWait
<1>2. ASSUME OnlyMainStarts PROVE Spec => []NoRunOutsideWait
  <2>1. LifecycleInv /\ OutsideWaitInv /\ [Next]_vars => OutsideWaitInv'
    BY <1>2, OutsideWaitNext
  <2> QED BY <1>1, <2>1, OutsideWaitInit, LifecycleInvariance, PTL DEF Spec
<1> QED BY <1>2
===============================================================================
