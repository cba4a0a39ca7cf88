------------------------------- MODULE QueueOps -------------------------------
(***************************************************************************)
(* The data of a queue_t (include/skal/queue.hpp, src/skal/queue.cpp): the *)
(* three lists and what each method does to them while it holds mutex_.    *)
(* A message is a record with at least the fields internal and urgent,     *)
(* both Boolean (msg_t's iflag_t::internal and flag_t::urgent).            *)
(***************************************************************************)
EXTENDS Naturals, Sequences

\* A queue_t over the messages of M.
QueueOf(M) == [internal : Seq(M), urgent : Seq(M), regular : Seq(M)]

EmptyQueue == [internal |-> << >>, urgent |-> << >>, regular |-> << >>]

\* Mutant: regular messages are taken in reverse order.
Push_Lifo(q, m) ==
    CASE m.internal -> [q EXCEPT !.internal = Append(@, m)]
      [] ~m.internal /\ m.urgent -> [q EXCEPT !.urgent = Append(@, m)]
      [] ~m.internal /\ ~m.urgent -> [q EXCEPT !.regular = <<m>> \o @]

\* queue_t::push: the internal flag takes precedence over the urgent one.
Push(q, m) ==
    CASE m.internal -> [q EXCEPT !.internal = Append(@, m)]
      [] ~m.internal /\ m.urgent -> [q EXCEPT !.urgent = Append(@, m)]
      [] ~m.internal /\ ~m.urgent -> [q EXCEPT !.regular = Append(@, m)]

\* The negation of the conditions of the two waiting loops of queue_t::pop.
Poppable(q, internal_only) ==
    \/ q.internal # << >>
    \/ ~internal_only /\ (q.urgent # << >> \/ q.regular # << >>)

\* What queue_t::pop returns and leaves behind once a message is Poppable.
Front(q) ==
    CASE q.internal # << >> -> Head(q.internal)
      [] q.internal = << >> /\ q.urgent # << >> -> Head(q.urgent)
      [] q.internal = << >> /\ q.urgent = << >> -> Head(q.regular)

Rest(q) ==
    CASE q.internal # << >> -> [q EXCEPT !.internal = Tail(@)]
      [] q.internal = << >> /\ q.urgent # << >> -> [q EXCEPT !.urgent = Tail(@)]
      [] q.internal = << >> /\ q.urgent = << >> -> [q EXCEPT !.regular = Tail(@)]

Size(q) == Len(q.internal) + Len(q.urgent) + Len(q.regular)

IsFull(q, threshold) == Size(q) >= threshold

IsHalfFull(q, threshold) == Size(q) > threshold \div 2
===============================================================================
