----------------------------- MODULE QueueProofs -----------------------------
(***************************************************************************)
(* queue_t for any number of producers and of messages: mutex_ excludes,   *)
(* each list holds messages of its own class, no wakeup is lost, pop()     *)
(* returns what it may return, and the whole implements the abstract       *)
(* priority queue.                                                         *)
(***************************************************************************)
EXTENDS Queue, TLAPS

USE SMTT(60)

\* The lists of a queue_t, by the class of their messages.
Lists == [internal : Seq(MsgOf("internal")), urgent : Seq(MsgOf("urgent")),
          regular : Seq(MsgOf("regular"))]

\* push() appends a message to the list of its class.
LEMMA PushLists ==
  ASSUME NEW q \in Lists, NEW class \in Class, NEW no \in Nat
  PROVE  LET m == Msg(class, no)
         IN  /\ Push(q, m) \in Lists
             /\ \/ class = "internal" /\ Push(q, m) = [q EXCEPT !.internal = Append(@, m)]
                \/ class = "urgent" /\ Push(q, m) = [q EXCEPT !.urgent = Append(@, m)]
                \/ class = "regular" /\ Push(q, m) = [q EXCEPT !.regular = Append(@, m)]
  <1> DEFINE m == Msg(class, no)
             I == Seq(MsgOf("internal"))
             U == Seq(MsgOf("urgent"))
             R == Seq(MsgOf("regular"))
             Appended(s) == Append(s, m)
  <1>1. m \in MsgOf(class) /\ m = Msg(class, no)
    BY DEF Msg, MsgOf
  <1> HIDE DEF m
  <1>2. /\ class = "internal" => \A s \in I : Appended(s) \in I
        /\ class = "urgent" => \A s \in U : Appended(s) \in U
        /\ class = "regular" => \A s \in R : Appended(s) \in R
    BY <1>1
  <1>3. /\ class = "internal" => Push(q, m) = [q EXCEPT !.internal = Appended(@)]
        /\ class = "urgent" => Push(q, m) = [q EXCEPT !.urgent = Appended(@)]
        /\ class = "regular" => Push(q, m) = [q EXCEPT !.regular = Appended(@)]
    <2>1. m.internal = (class = "internal") /\ m.urgent = (class = "urgent")
      BY <1>1 DEF Msg
    <2>2. CASE class = "internal"
      <3>1. m.internal
        BY Zenon, <2>1, <2>2
      <3> QED BY <2>2, <3>1 DEF Push
    <2>3. CASE class = "urgent"
      <3>1. ~m.internal /\ m.urgent
        BY Zenon, <2>1, <2>3
      <3> QED BY <2>3, <3>1 DEF Push
    <2>4. CASE class = "regular"
      <3>1. ~m.internal /\ ~m.urgent
        BY Zenon, <2>1, <2>4
      <3> QED BY <2>4, <3>1 DEF Push
    <2> QED BY <2>2, <2>3, <2>4 DEF Class
  <1>4. q \in [internal : I, urgent : U, regular : R]
    BY DEF Lists
  <1> HIDE DEF I, U, R, Appended
  <1>5. Push(q, m) \in [internal : I, urgent : U, regular : R]
    BY <1>2, <1>3, <1>4 DEF Class
  <1>6. \/ class = "internal" /\ Push(q, m) = [q EXCEPT !.internal = Append(@, m)]
        \/ class = "urgent" /\ Push(q, m) = [q EXCEPT !.urgent = Append(@, m)]
        \/ class = "regular" /\ Push(q, m) = [q EXCEPT !.regular = Append(@, m)]
    BY <1>3 DEF Class, Appended
  <1> QED BY <1>1, <1>5, <1>6 DEF I, U, R, Lists

\* pop() takes the head of the first list that is not empty.
LEMMA PopByClass ==
  ASSUME NEW q, NEW only \in BOOLEAN, Poppable(q, only)
  PROVE  \/ /\ q.internal # << >> /\ Front(q) = Head(q.internal)
            /\ Rest(q) = [q EXCEPT !.internal = Tail(@)]
         \/ /\ ~only /\ q.internal = << >> /\ q.urgent # << >>
            /\ Front(q) = Head(q.urgent)
            /\ Rest(q) = [q EXCEPT !.urgent = Tail(@)]
         \/ /\ ~only /\ q.internal = << >> /\ q.urgent = << >> /\ q.regular # << >>
            /\ Front(q) = Head(q.regular)
            /\ Rest(q) = [q EXCEPT !.regular = Tail(@)]
  <1>1. CASE q.internal # << >>
    BY <1>1 DEF Front, Rest
  <1>2. CASE q.internal = << >> /\ q.urgent # << >>
    BY <1>2 DEF Front, Rest, Poppable
  <1>3. CASE q.internal = << >> /\ q.urgent = << >>
    BY <1>3 DEF Front, Rest, Poppable
  <1> QED BY <1>1, <1>2, <1>3

\* pop() keeps the lists by class, and takes an internal message if it was
\* asked for one.
LEMMA PopLists ==
  ASSUME NEW q \in Lists, NEW only \in BOOLEAN, Poppable(q, only)
  PROVE  /\ Rest(q) \in Lists
         /\ \E class \in Class : Front(q) \in MsgOf(class) /\ (only => class = "internal")
  <1> DEFINE I == Seq(MsgOf("internal"))
             U == Seq(MsgOf("urgent"))
             R == Seq(MsgOf("regular"))
             First(s) == Head(s)
             Others(s) == Tail(s)
  <1>1. /\ \A s \in I : s # << >> => First(s) \in MsgOf("internal") /\ Others(s) \in I
        /\ \A s \in U : s # << >> => First(s) \in MsgOf("urgent") /\ Others(s) \in U
        /\ \A s \in R : s # << >> => First(s) \in MsgOf("regular") /\ Others(s) \in R
    OBVIOUS
  <1>2. q \in [internal : I, urgent : U, regular : R]
    BY DEF Lists
  <1>3. \/ /\ q.internal # << >> /\ Front(q) = First(q.internal)
           /\ Rest(q) = [q EXCEPT !.internal = Others(@)]
        \/ /\ ~only /\ q.urgent # << >> /\ Front(q) = First(q.urgent)
           /\ Rest(q) = [q EXCEPT !.urgent = Others(@)]
        \/ /\ ~only /\ q.regular # << >> /\ Front(q) = First(q.regular)
           /\ Rest(q) = [q EXCEPT !.regular = Others(@)]
    BY PopByClass
  <1> HIDE DEF I, U, R, First, Others
  <1>4. Rest(q) \in [internal : I, urgent : U, regular : R]
    BY <1>1, <1>2, <1>3
  <1>5. \E class \in Class : Front(q) \in MsgOf(class) /\ (only => class = "internal")
    BY <1>1, <1>2, <1>3 DEF Class
  <1> QED BY <1>4, <1>5 DEF I, U, R, Lists

-----------------------------------------------------------------------------
\* A new queue_t is well typed.
LEMMA InitType == Init => TypeOK
  <1> SUFFICES ASSUME Init PROVE TypeOK
    OBVIOUS
  <1>1. lists \in Lists
    BY DEF Init, EmptyQueue, Lists
  <1>2. /\ mutex \in Thread \cup {NoOne}
        /\ pc \in [Thread -> {"idle", "lock", "locked", "asleep"}]
        /\ arg \in [Producer -> Class]
        /\ \A t \in Thread : pc[t] # "locked" /\ mutex # t
        /\ \A p \in Producer : pc[p] # "asleep"
    <2>1. NoOne \notin Thread
      BY QueueAssumption DEF Thread
    <2> QED BY <2>1 DEF Init, Class, Thread
  <1>3. pushed \in Nat
    BY DEF Init
  <1>4. internal_only \in BOOLEAN
    BY Zenon DEF Init
  <1> QED BY <1>1, <1>2, <1>3, <1>4 DEF TypeOK, Lists

\* Every step of push() and pop() keeps the types and the mutual exclusion.
LEMMA NextType == TypeOK /\ [Next]_vars => TypeOK'
  <1> SUFFICES ASSUME TypeOK, [Next]_vars PROVE TypeOK'
    OBVIOUS
  <1> USE DEF Lists
  <1>0. Owner \notin Producer /\ NoOne \notin Thread /\ Thread = Producer \cup {Owner}
    BY Zenon, QueueAssumption DEF Thread
  <1>1. ASSUME NEW t \in Thread, Lock(t) PROVE TypeOK'
    BY <1>0, <1>1 DEF Lock, MayLock, TypeOK
  <1>2. ASSUME NEW p \in Producer, NEW class \in Class, PushCall(p, class)
        PROVE  TypeOK'
    BY <1>0, <1>2 DEF PushCall, TypeOK
  <1>3. ASSUME NEW p \in Producer, PushBody(p) PROVE TypeOK'
    <2>1. pushed' \in Nat /\ arg[p] \in Class
      BY <1>3 DEF PushBody, TypeOK
    <2>2. lists' \in Lists
      BY <1>3, <2>1, PushLists DEF PushBody, TypeOK
    <2>3. /\ pc' \in [Thread -> {"idle", "lock", "locked", "asleep"}]
          /\ pc'[p] = "idle"
          /\ pc'[Owner] = IF pc[Owner] = "asleep" THEN "lock" ELSE pc[Owner]
          /\ \A t \in Thread \ {p, Owner} : pc'[t] = pc[t]
      BY <1>0, <1>3 DEF PushBody, NotifyOne, TypeOK
    <2>4. /\ mutex = p /\ mutex' = NoOne
          /\ \A t \in Thread : pc[t] = "locked" => t = p
      BY <1>0, <1>3 DEF PushBody, TypeOK
    <2>5. \A t \in Thread : pc'[t] # "locked" /\ mutex' # t
      BY <1>0, <2>3, <2>4
    <2>6. \A r \in Producer : pc'[r] # "asleep"
      BY <1>0, <2>3 DEF TypeOK
    <2> QED BY <1>3, <2>1, <2>2, <2>3, <2>4, <2>5, <2>6 DEF PushBody, TypeOK
  <1>4. ASSUME NEW only \in BOOLEAN, PopCall(only) PROVE TypeOK'
    BY <1>0, <1>4 DEF PopCall, TypeOK
  <1>5. CASE PopWait
    BY <1>0, <1>5 DEF PopWait, TypeOK
  <1>6. CASE SpuriousWakeup
    BY <1>0, <1>6 DEF SpuriousWakeup, TypeOK
  <1>7. CASE PopTake
    <2>1. lists' \in Lists
      BY <1>7, PopLists DEF PopTake, MustWait, TypeOK
    <2> QED BY <1>0, <1>7, <2>1 DEF PopTake, TypeOK
  <1>8. CASE UNCHANGED vars
    BY <1>8 DEF vars, TypeOK
  <1> QED BY <1>1, <1>2, <1>3, <1>4, <1>5, <1>6, <1>7, <1>8 DEF Next

\* mutex_ is held by the thread between lock and unlock and by no other, and
\* each list holds messages of its class.
THEOREM TypeCorrectness == Spec => []TypeOK
  BY InitType, NextType, PTL DEF Spec

\* Every step leaves the owner awake, or with nothing it may take.
LEMMA NextNoLostWakeup == TypeOK /\ NoLostWakeup /\ [Next]_vars => NoLostWakeup'
  <1> SUFFICES ASSUME TypeOK, NoLostWakeup, [Next]_vars, pc'[Owner] = "asleep"
               PROVE  ~Poppable(lists, internal_only)'
    BY DEF NoLostWakeup
  <1>0. Owner \notin Producer /\ Thread = Producer \cup {Owner} /\ pc \in
          [Thread -> {"idle", "lock", "locked", "asleep"}]
    <2>1. Owner \notin Producer
      BY QueueAssumption
    <2> QED BY <2>1 DEF Thread, TypeOK
  <1>1. ASSUME NEW t \in Thread, Lock(t) PROVE ~Poppable(lists, internal_only)'
    BY <1>0, <1>1 DEF Lock, NoLostWakeup
  <1>2. ASSUME NEW p \in Producer, NEW class \in Class, PushCall(p, class)
        PROVE  ~Poppable(lists, internal_only)'
    BY <1>0, <1>2 DEF PushCall, NoLostWakeup
  <1>3. ASSUME NEW p \in Producer, PushBody(p) PROVE FALSE
    BY <1>0, <1>3 DEF PushBody, NotifyOne
  <1>4. ASSUME NEW only \in BOOLEAN, PopCall(only) PROVE FALSE
    BY <1>0, <1>4 DEF PopCall
  <1>5. CASE PopWait
    BY <1>5 DEF PopWait, MustWait
  <1>6. CASE SpuriousWakeup
    BY <1>0, <1>6 DEF SpuriousWakeup
  <1>7. CASE PopTake
    BY <1>0, <1>7 DEF PopTake
  <1>8. CASE UNCHANGED vars
    BY <1>8 DEF vars, NoLostWakeup
  <1> QED BY <1>1, <1>2, <1>3, <1>4, <1>5, <1>6, <1>7, <1>8 DEF Next

\* The owner never sleeps in pop() on a message it may take.
THEOREM WakeupSafety == Spec => []NoLostWakeup
  <1>1. Init => NoLostWakeup
    BY DEF Init, NoLostWakeup, Thread
  <1> QED BY <1>1, InitType, NextType, NextNoLostWakeup, PTL DEF Spec

\* The step that leaves pop() returns a message that it may return.
LEMMA NextReturns ==
  TypeOK /\ [Next]_vars =>
    [pc[Owner] = "locked" /\ pc'[Owner] = "idle"
       => popped' # NoMsg /\ (internal_only => popped'.internal)]_vars
  <1> SUFFICES ASSUME TypeOK, [Next]_vars, pc[Owner] = "locked", pc'[Owner] = "idle"
               PROVE  popped' # NoMsg /\ (internal_only => popped'.internal)
    OBVIOUS
  <1>0. Owner \notin Producer /\ Thread = Producer \cup {Owner} /\ pc \in
          [Thread -> {"idle", "lock", "locked", "asleep"}]
    <2>1. Owner \notin Producer
      BY QueueAssumption
    <2> QED BY <2>1 DEF Thread, TypeOK
  <1>1. PopTake
    <2>1. ASSUME NEW t \in Thread, Lock(t) PROVE FALSE
      BY <1>0, <2>1 DEF Lock
    <2>2. ASSUME NEW p \in Producer, NEW class \in Class, PushCall(p, class)
          PROVE  FALSE
      BY <1>0, <2>2 DEF PushCall
    <2>3. ASSUME NEW p \in Producer, PushBody(p) PROVE FALSE
      BY <1>0, <2>3 DEF PushBody, NotifyOne
    <2>4. ASSUME NEW only \in BOOLEAN, PopCall(only) PROVE FALSE
      BY <1>0, <2>4 DEF PopCall
    <2>5. ~PopWait /\ ~SpuriousWakeup /\ ~UNCHANGED vars
      BY <1>0 DEF PopWait, SpuriousWakeup, vars
    <2> QED BY <2>1, <2>2, <2>3, <2>4, <2>5 DEF Next
  <1>2. Poppable(lists, internal_only) /\ popped' = Front(lists)
    BY <1>1 DEF PopTake, MustWait
  <1>3. lists \in Lists /\ internal_only \in BOOLEAN
    BY DEF TypeOK, Lists
  <1>4. PICK class \in Class :
          Front(lists) \in MsgOf(class) /\ (internal_only => class = "internal")
    BY <1>2, <1>3, PopLists
  <1>5. Front(lists) \in [internal : BOOLEAN, urgent : BOOLEAN, no : Nat]
    BY Zenon, <1>4 DEF MsgOf
  <1>6. internal_only => Front(lists).internal
    BY Zenon, <1>4 DEF MsgOf
  <1> QED BY <1>2, <1>5, <1>6, QueueAssumption

\* The assertion at the end of pop() holds, and pop(true) returns internal
\* messages only.
THEOREM ReturnSafety == Spec => PopReturnsMessage
  BY InitType, NextType, NextReturns, PTL DEF Spec, PopReturnsMessage

-----------------------------------------------------------------------------
\* The refinement.  Each list is in the order of arrival, so that its head is
\* the oldest message of its class.

Ordered(s, max) ==
  \A i \in 1..Len(s) :
    /\ s[i].no <= max
    /\ \A j \in 1..Len(s) : i < j => s[i].no < s[j].no

InOrder == \A class \in Class : Ordered(lists[class], pushed)

\* The messages that arrived and were not delivered.
Msgs == UNION {Elements(lists[class]) : class \in Class}

\* push() changes the list of the message's class and no other.
LEMMA PushFields ==
  ASSUME NEW q \in Lists, NEW class \in Class, NEW no \in Nat
  PROVE  /\ Push(q, Msg(class, no))[class] = Append(q[class], Msg(class, no))
         /\ \A c \in Class \ {class} : Push(q, Msg(class, no))[c] = q[c]
  <1> DEFINE m == Msg(class, no)
             Appended(s) == Append(s, m)
  <1>1. \/ class = "internal" /\ Push(q, m) = [q EXCEPT !.internal = Appended(@)]
        \/ class = "urgent" /\ Push(q, m) = [q EXCEPT !.urgent = Appended(@)]
        \/ class = "regular" /\ Push(q, m) = [q EXCEPT !.regular = Appended(@)]
    BY PushLists
  <1>2. q = [internal |-> q.internal, urgent |-> q.urgent, regular |-> q.regular]
    BY DEF Lists
  <1> HIDE DEF m, Appended
  <1>3. /\ Push(q, m)[class] = Appended(q[class])
        /\ \A c \in Class \ {class} : Push(q, m)[c] = q[c]
    BY <1>1, <1>2 DEF Class
  <1> QED BY <1>3 DEF m, Appended

\* pop() takes the head of one list, and those before it are empty.
LEMMA PopFields ==
  ASSUME NEW q \in Lists, NEW only \in BOOLEAN, Poppable(q, only)
  PROVE  \E class \in Class :
           /\ q[class] # << >> /\ Front(q) = Head(q[class])
           /\ Rest(q)[class] = Tail(q[class])
           /\ \A c \in Class \ {class} : Rest(q)[c] = q[c]
           /\ class # "internal" => q["internal"] = << >>
           /\ class = "regular" => q["urgent"] = << >>
  <1> DEFINE First(s) == Head(s)
             Others(s) == Tail(s)
  <1>1. \/ /\ q.internal # << >> /\ Front(q) = First(q.internal)
           /\ Rest(q) = [q EXCEPT !.internal = Others(@)]
        \/ /\ q.internal = << >> /\ q.urgent # << >>
           /\ Front(q) = First(q.urgent)
           /\ Rest(q) = [q EXCEPT !.urgent = Others(@)]
        \/ /\ q.internal = << >> /\ q.urgent = << >> /\ q.regular # << >>
           /\ Front(q) = First(q.regular)
           /\ Rest(q) = [q EXCEPT !.regular = Others(@)]
    BY PopByClass
  <1>2. q = [internal |-> q.internal, urgent |-> q.urgent, regular |-> q.regular]
    BY DEF Lists
  <1> HIDE DEF First, Others
  <1>3. \E class \in Class :
           /\ q[class] # << >> /\ Front(q) = First(q[class])
           /\ Rest(q)[class] = Others(q[class])
           /\ \A c \in Class \ {class} : Rest(q)[c] = q[c]
           /\ class # "internal" => q["internal"] = << >>
           /\ class = "regular" => q["urgent"] = << >>
    BY <1>1, <1>2 DEF Class
  <1> QED BY <1>3 DEF First, Others

\* What a message is to the abstract queue.
LEMMA AbsOf ==
  ASSUME NEW class \in Class, NEW m \in MsgOf(class)
  PROVE  /\ Abs(m) = [class |-> class, no |-> m.no]
         /\ m = [internal |-> class = "internal", urgent |-> class = "urgent",
                 no |-> m.no]
         /\ m.no \in Nat
  <1>1. m.internal = (class = "internal") /\ m.urgent = (class = "urgent")
    BY Zenon DEF MsgOf
  <1>2. m.no \in Nat
    BY DEF MsgOf
  <1>3. m = [internal |-> m.internal, urgent |-> m.urgent, no |-> m.no]
    BY DEF MsgOf
  <1>4. ClassOf(m) = class
    <2>1. CASE class = "internal"
      <3>1. m.internal
        BY Zenon, <1>1, <2>1
      <3> QED BY <2>1, <3>1 DEF ClassOf
    <2>2. CASE class = "urgent"
      <3>1. ~m.internal /\ m.urgent
        BY Zenon, <1>1, <2>2
      <3> QED BY <2>2, <3>1 DEF ClassOf
    <2>3. CASE class = "regular"
      <3>1. ~m.internal /\ ~m.urgent
        BY Zenon, <1>1, <2>3
      <3> QED BY <2>3, <3>1 DEF ClassOf
    <2> QED BY <2>1, <2>2, <2>3 DEF Class
  <1> QED BY <1>1, <1>2, <1>3, <1>4 DEF Abs

\* The elements of a list after push().
LEMMA ElementsAppend ==
  ASSUME NEW S, NEW s \in Seq(S), NEW m \in S
  PROVE  Elements(Append(s, m)) = Elements(s) \cup {m}
  <1> DEFINE t == Append(s, m)
  <1>1. /\ Len(s) \in Nat /\ DOMAIN s = 1..Len(s) /\ DOMAIN t = 1..(Len(s) + 1)
        /\ t[Len(s) + 1] = m /\ \A i \in 1..Len(s) : t[i] = s[i]
    OBVIOUS
  <1> HIDE DEF t
  <1>2. \A i \in DOMAIN t : t[i] = m \/ (i \in DOMAIN s /\ t[i] = s[i])
    BY <1>1
  <1>3. \A i \in DOMAIN s : i \in DOMAIN t /\ t[i] = s[i]
    BY <1>1
  <1>4. Len(s) + 1 \in DOMAIN t
    BY <1>1
  <1>5. Elements(t) = Elements(s) \cup {m}
    BY Zenon, <1>1, <1>2, <1>3, <1>4 DEF Elements
  <1> QED BY <1>5 DEF t

\* The same of pop(): the head is gone, and it was older than the others.
LEMMA ElementsTail ==
  ASSUME NEW S, NEW s \in Seq(S), s # << >>, NEW max, Ordered(s, max),
         \A i \in 1..Len(s) : s[i].no \in Nat
  PROVE  /\ Elements(Tail(s)) = Elements(s) \ {Head(s)}
         /\ Head(s) \in Elements(s)
         /\ \A m \in Elements(s) \ {Head(s)} : Head(s).no < m.no
  <1>1. /\ Len(s) \in Nat /\ Len(s) > 0 /\ Head(s) = s[1]
        /\ DOMAIN s = 1..Len(s) /\ DOMAIN Tail(s) = 1..(Len(s) - 1)
        /\ \A i \in 1..(Len(s) - 1) : Tail(s)[i] = s[i + 1]
    OBVIOUS
  <1>2. \A i \in 2..Len(s) : s[1].no < s[i].no
    BY <1>1 DEF Ordered
  <1>3. \A i \in 2..Len(s) : s[i] # s[1]
    BY <1>1, <1>2
  <1>4. Elements(Tail(s)) = {s[i] : i \in 2..Len(s)}
    <2>1. \A i \in 2..Len(s) : i - 1 \in 1..(Len(s) - 1) /\ s[i] = Tail(s)[i - 1]
      BY <1>1
    <2>2. \A i \in 1..(Len(s) - 1) : i + 1 \in 2..Len(s)
      BY <1>1
    <2>3. \A i \in DOMAIN Tail(s) : i + 1 \in 2..Len(s) /\ Tail(s)[i] = s[i + 1]
      BY <1>1, <2>2
    <2>4. \A i \in 2..Len(s) : i - 1 \in DOMAIN Tail(s) /\ s[i] = Tail(s)[i - 1]
      BY <1>1, <2>1
    <2>5. ASSUME NEW x \in Elements(Tail(s)) PROVE x \in {s[i] : i \in 2..Len(s)}
      <3>1. PICK i \in DOMAIN Tail(s) : x = Tail(s)[i]
        BY DEF Elements
      <3> QED BY <2>3, <3>1
    <2>6. ASSUME NEW x \in {s[i] : i \in 2..Len(s)} PROVE x \in Elements(Tail(s))
      <3>1. PICK i \in 2..Len(s) : x = s[i]
        OBVIOUS
      <3>2. i - 1 \in DOMAIN Tail(s) /\ x = Tail(s)[i - 1]
        BY <2>4, <3>1
      <3> QED BY Zenon, <3>2 DEF Elements
    <2> QED BY <2>5, <2>6
  <1>5. Elements(s) = {s[1]} \cup {s[i] : i \in 2..Len(s)}
    BY <1>1 DEF Elements
  <1> QED BY <1>1, <1>2, <1>3, <1>4, <1>5

\* push() keeps the order of arrival.
LEMMA OrderedAppend ==
  ASSUME NEW S, NEW s \in Seq(S), NEW m \in S, NEW n \in Nat, Ordered(s, n),
         \A x \in S : x.no \in Nat, m.no = n + 1
  PROVE  Ordered(Append(s, m), n + 1)
  BY DEF Ordered

\* And so does pop().
LEMMA OrderedTail ==
  ASSUME NEW S, NEW s \in Seq(S), s # << >>, NEW n \in Nat, Ordered(s, n)
  PROVE  Ordered(Tail(s), n)
  BY DEF Ordered

\* InOrder holds of an empty queue and is kept by every step.
LEMMA InitOrder == Init => InOrder
  BY DEF Init, EmptyQueue, InOrder, Ordered, Class

LEMMA NextOrder == TypeOK /\ InOrder /\ [Next]_vars => InOrder'
  <1> SUFFICES ASSUME TypeOK, InOrder, [Next]_vars PROVE InOrder'
    OBVIOUS
  <1>0. lists \in Lists /\ pushed \in Nat
    BY DEF TypeOK, Lists
  <1>1. ASSUME NEW p \in Producer, PushBody(p) PROVE InOrder'
    <2> DEFINE class == arg[p]
               m == Msg(class, pushed + 1)
    <2>1. class \in Class /\ pushed + 1 \in Nat
      BY <1>0 DEF TypeOK
    <2>2. lists' = Push(lists, m) /\ pushed' = pushed + 1
      BY <1>1 DEF PushBody
    <2>3. /\ lists'[class] = Append(lists[class], m)
          /\ \A c \in Class \ {class} : lists'[c] = lists[c]
      BY <1>0, <2>1, <2>2, PushFields
    <2>4. m \in MsgOf(class) /\ m.no = pushed + 1
      BY <2>1 DEF Msg, MsgOf
    <2>5. \A c \in Class : lists[c] \in Seq(MsgOf(c)) /\ Ordered(lists[c], pushed)
      BY <1>0 DEF Lists, Class, InOrder
    <2>6. \A c : \A x \in MsgOf(c) : x.no \in Nat
      BY DEF MsgOf
    <2> HIDE DEF m, class
    <2>7. Ordered(lists'[class], pushed')
      BY <1>0, <2>1, <2>2, <2>3, <2>4, <2>5, <2>6, OrderedAppend
    <2>8. ASSUME NEW c \in Class \ {class} PROVE Ordered(lists'[c], pushed')
      <3>1. lists[c] \in Seq(MsgOf(c)) /\ Ordered(lists[c], pushed)
        BY <2>5
      <3>2. \A i \in 1..Len(lists[c]) : lists[c][i].no \in Nat
        BY <2>6, <3>1
      <3>3. Ordered(lists[c], pushed + 1)
        BY <1>0, <3>1, <3>2 DEF Ordered
      <3> QED BY <2>2, <2>3, <3>3
    <2> QED BY <2>7, <2>8 DEF InOrder
  <1>2. CASE PopTake
    <2>1. Poppable(lists, internal_only) /\ lists' = Rest(lists) /\ pushed' = pushed
      BY <1>2 DEF PopTake, MustWait
    <2>2. PICK class \in Class :
            /\ lists[class] # << >> /\ lists'[class] = Tail(lists[class])
            /\ \A c \in Class \ {class} : lists'[c] = lists[c]
      <3>1. internal_only \in BOOLEAN
        BY DEF TypeOK
      <3> QED BY <1>0, <2>1, <3>1, PopFields
    <2>3. lists[class] \in Seq(MsgOf(class)) /\ Ordered(lists[class], pushed)
      BY <1>0 DEF Lists, Class, InOrder
    <2>4. Ordered(lists'[class], pushed)
      BY <1>0, <2>2, <2>3, OrderedTail
    <2> QED BY <2>1, <2>2, <2>4 DEF InOrder
  <1>3. ASSUME UNCHANGED <<lists, pushed>> PROVE InOrder'
    BY <1>3 DEF InOrder
  <1>4. ASSUME NEW t \in Thread, Lock(t) PROVE InOrder'
    BY <1>3, <1>4 DEF Lock
  <1>5. ASSUME NEW p \in Producer, NEW class \in Class, PushCall(p, class)
        PROVE  InOrder'
    BY <1>3, <1>5 DEF PushCall
  <1>6. ASSUME NEW only \in BOOLEAN, PopCall(only) PROVE InOrder'
    BY <1>3, <1>6 DEF PopCall
  <1>7. CASE PopWait \/ SpuriousWakeup \/ UNCHANGED vars
    BY <1>3, <1>7 DEF PopWait, SpuriousWakeup, vars
  <1> QED BY <1>1, <1>2, <1>4, <1>5, <1>6, <1>7 DEF Next

\* A pending message is in the list of its class, and is what the abstract
\* queue calls it.
LEMMA MsgsByClass ==
  ASSUME TypeOK, NEW c \in Class, NEW m \in Elements(lists[c])
  PROVE  /\ m \in MsgOf(c) /\ Abs(m) = [class |-> c, no |-> m.no] /\ m.no \in Nat
         /\ m = [internal |-> c = "internal", urgent |-> c = "urgent", no |-> m.no]
  <1>1. lists[c] \in Seq(MsgOf(c))
    BY DEF TypeOK, Class
  <1>2. m \in MsgOf(c)
    BY <1>1 DEF Elements
  <1> QED BY <1>2, AbsOf

\* Two pending messages that are the same to the abstract queue are the same.
LEMMA AbsInjective ==
  ASSUME TypeOK, NEW m \in Msgs, NEW n \in Msgs, Abs(m) = Abs(n)
  PROVE  m = n
  <1>1. PICK c \in Class : m \in Elements(lists[c])
    BY DEF Msgs
  <1>2. PICK d \in Class : n \in Elements(lists[d])
    BY DEF Msgs
  <1>3. Abs(m) = [class |-> c, no |-> m.no] /\ Abs(n) = [class |-> d, no |-> n.no]
    BY <1>1, <1>2, MsgsByClass
  <1>4. c = d /\ m.no = n.no
    <2>1. [class |-> c, no |-> m.no] = [class |-> d, no |-> n.no]
      BY Zenon, <1>3
    <2>2. [class |-> c, no |-> m.no].class = c /\ [class |-> d, no |-> n.no].class = d
      OBVIOUS
    <2>3. [class |-> c, no |-> m.no].no = m.no /\ [class |-> d, no |-> n.no].no = n.no
      OBVIOUS
    <2> QED BY Zenon, <2>1, <2>2, <2>3
  <1> QED BY <1>1, <1>2, <1>4, MsgsByClass

\* push() makes the message arrive.
LEMMA PushArrives ==
  ASSUME TypeOK, NEW p \in Producer, PushBody(p)
  PROVE  /\ Msgs' = Msgs \cup {Msg(arg[p], pushed + 1)}
         /\ Abs(Msg(arg[p], pushed + 1)) = [class |-> arg[p], no |-> pushed + 1]
         /\ arg[p] \in Class /\ pushed' = pushed + 1 /\ popped' = popped
  <1> DEFINE class == arg[p]
             m == Msg(class, pushed + 1)
  <1>1. class \in Class /\ pushed + 1 \in Nat /\ lists \in Lists
    BY DEF TypeOK, Lists
  <1>2. lists' = Push(lists, m) /\ pushed' = pushed + 1 /\ popped' = popped
    BY DEF PushBody
  <1>3. /\ lists'[class] = Append(lists[class], m)
        /\ \A c \in Class \ {class} : lists'[c] = lists[c]
    BY <1>1, <1>2, PushFields
  <1>4. m \in MsgOf(class) /\ m.no = pushed + 1
    BY <1>1 DEF Msg, MsgOf
  <1>5. lists[class] \in Seq(MsgOf(class))
    BY <1>1 DEF Lists, Class
  <1>6. Abs(m) = [class |-> class, no |-> pushed + 1]
    BY <1>1, <1>4, AbsOf
  <1> HIDE DEF m, class
  <1>7. Elements(lists'[class]) = Elements(lists[class]) \cup {m}
    BY <1>3, <1>4, <1>5, ElementsAppend
  <1>8. \A c \in Class \ {class} : Elements(lists'[c]) = Elements(lists[c])
    BY <1>3
  <1>9. Msgs' = Msgs \cup {m}
    BY <1>1, <1>7, <1>8 DEF Msgs
  <1> QED BY <1>1, <1>2, <1>6, <1>9 DEF m, class

\* pop() takes the oldest message of the highest priority there is.
LEMMA PopDelivers ==
  ASSUME TypeOK, InOrder, PopTake
  PROVE  /\ popped' \in Msgs /\ popped' # NoMsg /\ Msgs' = Msgs \ {popped'}
         /\ \A n \in Msgs \ {popped'} : AQ!Before(Abs(popped'), Abs(n))
         /\ pushed' = pushed
  <1>1. /\ Poppable(lists, internal_only) /\ lists' = Rest(lists)
        /\ popped' = Front(lists) /\ pushed' = pushed
    BY DEF PopTake, MustWait
  <1>2. lists \in Lists /\ internal_only \in BOOLEAN
    BY DEF TypeOK, Lists
  <1>3. PICK class \in Class :
          /\ lists[class] # << >> /\ Front(lists) = Head(lists[class])
          /\ Rest(lists)[class] = Tail(lists[class])
          /\ \A c \in Class \ {class} : Rest(lists)[c] = lists[c]
          /\ class # "internal" => lists["internal"] = << >>
          /\ class = "regular" => lists["urgent"] = << >>
    BY <1>1, <1>2, PopFields
  <1> DEFINE m == Head(lists[class])
             E(c) == Elements(lists[c])
  <1>4. lists[class] \in Seq(MsgOf(class)) /\ Ordered(lists[class], pushed)
    BY <1>2 DEF Lists, Class, InOrder
  <1>5. \A i \in 1..Len(lists[class]) : lists[class][i].no \in Nat
    <2>1. \A x \in MsgOf(class) : x.no \in Nat
      BY DEF MsgOf
    <2> QED BY <1>4, <2>1
  <1>6. /\ Elements(Tail(lists[class])) = E(class) \ {m}
        /\ m \in E(class)
        /\ \A n \in E(class) \ {m} : m.no < n.no
    BY <1>3, <1>4, <1>5, ElementsTail
  <1>7. \A c \in Class \ {class} : m \notin E(c)
    <2> SUFFICES ASSUME NEW c \in Class \ {class}, m \in E(c) PROVE FALSE
      OBVIOUS
    <2>1. Abs(m) = [class |-> c, no |-> m.no] /\ Abs(m) = [class |-> class, no |-> m.no]
      BY <1>6, MsgsByClass
    <2> QED BY <2>1
  <1>8. lists'[class] = Tail(lists[class]) /\ \A c \in Class \ {class} : lists'[c] = lists[c]
    BY <1>1, <1>3
  <1>9. popped' = m
    BY <1>1, <1>3
  <1>10. Abs(m) = [class |-> class, no |-> m.no] /\ m \in MsgOf(class) /\ m.no \in Nat
    BY <1>6, MsgsByClass
  <1>11. /\ Elements(lists'[class]) = E(class) \ {m}
         /\ \A c \in Class \ {class} : Elements(lists'[c]) = E(c)
    BY <1>6, <1>8
  <1> HIDE DEF m
  <1>12. Msgs' = Msgs \ {m} /\ m \in Msgs
    <2>1. Msgs = UNION {E(c) : c \in Class}
      BY DEF Msgs
    <2>2. Msgs' = UNION {Elements(lists'[c]) : c \in Class}
      BY DEF Msgs
    <2> HIDE DEF E
    <2> QED BY <1>6, <1>7, <1>11, <2>1, <2>2
  <1>13. ASSUME NEW n \in Msgs \ {m} PROVE AQ!Before(Abs(m), Abs(n))
    <2>1. PICK d \in Class : n \in E(d)
      BY DEF Msgs
    <2>2. Abs(n) = [class |-> d, no |-> n.no]
      BY <2>1, MsgsByClass
    <2>3. lists[d] # << >>
      BY <2>1 DEF Elements
    <2>4. CASE d = class
      <3>1. m.no < n.no
        BY <1>6, <2>1, <2>4
      <3> QED BY <1>10, <2>2, <2>4, <3>1 DEF AQ!Before
    <2>5. CASE d # class
      <3>1. AQ!Priority[class] > AQ!Priority[d]
        BY <1>3, <2>3, <2>5 DEF AQ!Priority, Class
      <3> QED BY <1>10, <2>2, <3>1 DEF AQ!Before
    <2> QED BY <2>4, <2>5
  <1>14. m # NoMsg
    <2>1. m \in [internal : BOOLEAN, urgent : BOOLEAN, no : Nat]
      BY Zenon, <1>10 DEF MsgOf
    <2> QED BY Zenon, <2>1, QueueAssumption
  <1> QED BY <1>1, <1>9, <1>12, <1>13, <1>14

\* Every step of the queue is a step of the abstract queue, or none of it.
LEMMA NextImplements == TypeOK /\ InOrder /\ [Next]_vars => [AQ!Next]_(AQ!vars)
  <1> SUFFICES ASSUME TypeOK, InOrder, [Next]_vars PROVE [AQ!Next]_(AQ!vars)
    OBVIOUS
  <1> DEFINE pending == {Abs(m) : m \in Msgs}
             delivered == IF popped = NoMsg THEN NoMsg ELSE Abs(popped)
  <1>1. ASSUME NEW p \in Producer, PushBody(p) PROVE AQ!Next
    <2> DEFINE a == [class |-> arg[p], no |-> pushed + 1]
               m == Msg(arg[p], pushed + 1)
    <2>1. Msgs' = Msgs \cup {m} /\ Abs(m) = a
      BY <1>1, PushArrives
    <2>2. arg[p] \in Class /\ pushed' = pushed + 1 /\ popped' = popped
      BY Zenon, <1>1, PushArrives
    <2> HIDE DEF m, a
    <2>3. pending' = pending \cup {a}
      BY Zenon, <2>1
    <2>4. delivered' = delivered
      BY <2>2
    <2>5. AQ!Arrive(arg[p])
      BY <2>2, <2>3, <2>4 DEF AQ!Arrive, Msgs, a
    <2> QED BY <2>2, <2>5 DEF AQ!Next, AQ!Class, Class
  <1>2. CASE PopTake
    <2> DEFINE x == popped'
    <2>1. x \in Msgs /\ x # NoMsg /\ Msgs' = Msgs \ {x} /\ pushed' = pushed
      BY <1>2, PopDelivers
    <2>2. \A n \in Msgs \ {x} : AQ!Before(Abs(x), Abs(n))
      BY <1>2, PopDelivers
    <2>3. \A n \in Msgs : Abs(n) = Abs(x) => n = x
      BY <2>1, AbsInjective
    <2>4. delivered' = Abs(x)
      BY <2>1
    <2> HIDE DEF x
    <2>5. pending' = pending \ {Abs(x)} /\ Abs(x) \in pending
      BY Zenon, <2>1, <2>3
    <2>6. \A n \in pending \ {Abs(x)} : AQ!Before(Abs(x), n)
      BY Zenon, <2>2
    <2>7. AQ!Deliver(Abs(x))
      BY <2>1, <2>4, <2>5, <2>6 DEF AQ!Deliver, Msgs
    <2> QED BY <2>5, <2>7 DEF AQ!Next, Msgs
  <1>3. ASSUME UNCHANGED <<lists, pushed, popped>> PROVE UNCHANGED AQ!vars
    <2>1. pending' = pending /\ delivered' = delivered
      BY <1>3 DEF Msgs
    <2> QED BY <1>3, <2>1 DEF AQ!vars, Msgs
  <1>4. ASSUME NEW t \in Thread, Lock(t) PROVE UNCHANGED <<lists, pushed, popped>>
    BY <1>4 DEF Lock
  <1>5. ASSUME NEW p \in Producer, NEW class \in Class, PushCall(p, class)
        PROVE  UNCHANGED <<lists, pushed, popped>>
    BY <1>5 DEF PushCall
  <1>6. ASSUME NEW only \in BOOLEAN, PopCall(only)
        PROVE  UNCHANGED <<lists, pushed, popped>>
    BY <1>6 DEF PopCall
  <1>7. PopWait \/ SpuriousWakeup \/ UNCHANGED vars => UNCHANGED <<lists, pushed, popped>>
    BY DEF PopWait, SpuriousWakeup, vars
  <1> QED BY <1>1, <1>2, <1>3, <1>4, <1>5, <1>6, <1>7 DEF Next

\* queue_t implements the abstract priority queue: each message is delivered
\* once, by priority and oldest first within a priority.
THEOREM Refinement == Spec => ImplementsAbstractQueue
  <1>1. Init => AQ!Init
    <2> SUFFICES ASSUME Init PROVE AQ!Init
      OBVIOUS
    <2>1. \A c \in Class : lists[c] = << >>
      BY DEF Init, EmptyQueue, Class
    <2>2. \A c \in Class : Elements(lists[c]) = {}
      BY <2>1 DEF Elements
    <2>3. {Abs(m) : m \in UNION {Elements(lists[c]) : c \in Class}} = {}
      BY <2>2
    <2> QED BY <2>3 DEF Init, AQ!Init
  <1> QED BY <1>1, InitType, NextType, InitOrder, NextOrder, NextImplements, PTL
        DEF Spec, ImplementsAbstractQueue, AQ!Spec
=============================================================================
