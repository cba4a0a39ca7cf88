--------------------------- MODULE AbstractSemaphore ---------------------------
(***************************************************************************)
(* What a counting semaphore promises: a thread leaves take() only against *)
(* a count, and only a take() with a timeout may leave without one.        *)
(***************************************************************************)
EXTENDS Naturals

CONSTANTS
    Thread,  \* the threads that take
    Timed    \* those that take with a timeout

VARIABLES
    count,   \* posts that were not taken yet
    inside   \* threads in take()

vars == <<count, inside>>

Init == count \in Nat /\ inside = {}

Post == count' = count + 1 /\ UNCHANGED inside

Enter(t) == t \notin inside /\ inside' = inside \cup {t} /\ UNCHANGED count

Take(t) ==
    /\ t \in inside /\ count > 0
    /\ count' = count - 1
    /\ inside' = inside \ {t}

GiveUp(t) ==
    /\ t \in inside \cap Timed
    /\ inside' = inside \ {t}
    /\ UNCHANGED count

Next == Post \/ \E t \in Thread : Enter(t) \/ Take(t) \/ GiveUp(t)

Spec == Init /\ [][Next]_vars
===============================================================================
