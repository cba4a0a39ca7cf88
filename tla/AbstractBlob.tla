----------------------------- MODULE AbstractBlob -----------------------------
(***************************************************************************)
(* What reference counting promises: a blob comes to life with one         *)
(* reference, a reference is only ever gained from one that exists, and    *)
(* the blob ends, once, when the last one is given back.                   *)
(***************************************************************************)
EXTENDS Naturals

CONSTANT Area  \* where blobs can be

VARIABLES
    refs,  \* the references of each blob
    stage  \* "none", "alive" or "ending"

vars == <<refs, stage>>

Init ==
    /\ refs = [a \in Area |-> 0]
    /\ stage = [a \in Area |-> "none"]

Create(a) ==
    /\ stage[a] = "none"
    /\ refs' = [refs EXCEPT ![a] = 1]
    /\ stage' = [stage EXCEPT ![a] = "alive"]

Open(a) ==
    /\ stage[a] = "alive"
    /\ refs' = [refs EXCEPT ![a] = @ + 1]
    /\ UNCHANGED stage

Close(a) ==
    /\ stage[a] = "alive"
    /\ refs' = [refs EXCEPT ![a] = @ - 1]
    /\ stage' = [stage EXCEPT ![a] = IF refs[a] = 1 THEN "ending" ELSE @]

End(a) ==
    /\ stage[a] = "ending"
    /\ stage' = [stage EXCEPT ![a] = "none"]
    /\ UNCHANGED refs

\* A step that changes nothing is a stuttering step of Spec.
Next ==
    /\ vars' # vars
    /\ \E a \in Area : Create(a) \/ Open(a) \/ Close(a) \/ End(a)

Spec == Init /\ [][Next]_vars
===============================================================================
