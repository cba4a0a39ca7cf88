-------------------------------- MODULE MCQueue --------------------------------
(***************************************************************************)
(* Two threads push at most three messages into the queue of one worker.   *)
(***************************************************************************)
EXTENDS Queue, TLC

CONSTANTS p1, p2

MCProducer == {p1, p2}
===============================================================================
