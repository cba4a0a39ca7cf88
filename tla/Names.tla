--------------------------------- MODULE Names ---------------------------------
(***************************************************************************)
(* Names of workers and groups (src/skal/global.cpp).  A name is <<>>, the *)
(* empty string, <<n>>, or <<n, d>>: what is before and what is after '@'. *)
(***************************************************************************)
EXTENDS Sequences

\* The name of the calling thread: that of its worker, or of the thread.
Me(worker, thread) == IF worker = <<>> THEN <<thread>> ELSE worker

\* full_name(), in a process that belongs to domain.
FullName(domain, name) == IF Len(name) = 1 THEN name \o <<domain>> ELSE name

\* What a name stands for does not depend on the process that reads it.
IsFull(name) == Len(name) # 1
===============================================================================
