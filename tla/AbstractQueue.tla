----------------------------- MODULE AbstractQueue -----------------------------
(***************************************************************************)
(* What a message queue promises to the worker that owns it, with neither  *)
(* lists nor locks: messages are numbered in the order they arrive, and a  *)
(* pop delivers the oldest message of the highest priority present.        *)
(***************************************************************************)
EXTENDS Naturals

CONSTANT NoMsg

Class == {"internal", "urgent", "regular"}

Priority == [internal |-> 3, urgent |-> 2, regular |-> 1]

VARIABLES
    arrived,   \* how many messages arrived so far
    pending,   \* messages [class, no] that arrived and were not delivered
    delivered  \* the last message delivered

vars == <<arrived, pending, delivered>>

Init ==
    /\ arrived = 0
    /\ pending = {}
    /\ delivered = NoMsg

Arrive(class) ==
    /\ arrived' = arrived + 1
    /\ pending' = pending \cup {[class |-> class, no |-> arrived + 1]}
    /\ UNCHANGED delivered

\* m goes before n.
Before(m, n) ==
    \/ Priority[m.class] > Priority[n.class]
    \/ m.class = n.class /\ m.no < n.no

Deliver(m) ==
    /\ m \in pending
    /\ \A n \in pending \ {m} : Before(m, n)
    /\ pending' = pending \ {m}
    /\ delivered' = m
    /\ UNCHANGED arrived

Next ==
    \/ \E class \in Class : Arrive(class)
    \/ \E m \in pending : Deliver(m)

Spec == Init /\ [][Next]_vars
===============================================================================
