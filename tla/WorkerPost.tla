------------------------------ MODULE WorkerPost ------------------------------
(***************************************************************************)
(* What any thread can do: send messages, create workers, terminate skal   *)
(* (post(), create(), do_create() and terminate() of src/skal/worker.cpp). *)
(***************************************************************************)
EXTENDS WorkerState

(* post() and send() *)

\* Send the messages of ms one by one, then go on at r.
BeginSend(t, ms, r) ==
    /\ todo' = [todo EXCEPT ![t] = ms]
    /\ ret' = [ret EXCEPT ![t] = r]
    /\ pc' = [pc EXCEPT ![t] = IF ms = {} THEN r ELSE "send"]

\* t takes m from what it has to send and enters post().
Posting(t, m) ==
    /\ pc[t] = "send" /\ Unlocked
    /\ m \in todo[t]
    /\ todo' = [todo EXCEPT ![t] = @ \ {m}]

\* Where t goes when post() returns and rest is what it has still to send.
Return(t, rest) == IF rest = {} THEN ret[t] ELSE "send"

\* An exception leaves what the thread does at at: run() catches those of
\* process_msg and stops the worker, thread_entry_point() the others.
Throw(t, at) ==
    /\ pc' = [pc EXCEPT ![t] = CASE at = "user" -> "user"
                                 [] at \in {"handler", "after"} -> "after"
                                 [] OTHER -> "finish"]
    /\ worker' = IF t \in Name THEN [worker EXCEPT ![t].stop = TRUE] ELSE worker

\* The workers after post() updated the sender's record of its subscriptions.
Recorded(m, registered) ==
    CASE m.from \in registered /\ m.action = "skal-subscribe" ->
           [worker EXCEPT ![m.from].subscriptions = @ \cup {<<m.to, m.filter>>}]
      [] m.from \in registered /\ m.action = "skal-unsubscribe" ->
           [worker EXCEPT ![m.from].subscriptions = @ \ {<<m.to, m.filter>>}]
      [] OTHER -> worker

\* The recipient is full and the message neither internal nor senderless.
TellXoff(m) ==
    /\ IsFull(worker[m.to].queue, Threshold[m.to])
    /\ ~m.internal
    /\ m.from # NoName

\* post() finds no recipient and send() hands the message to send_to_skald(),
\* which is a stub (net.cpp) that drops it.
PostDrop(t, m) ==
    /\ Posting(t, m)
    /\ m.to \notin g_workers
    /\ m.action # "skal-subscribe"
    /\ pc' = [pc EXCEPT ![t] = Return(t, todo[t] \ {m})]
    /\ UNCHANGED <<g_mutex, registerVars, green, called, ret, out, worker>>

\* post() delivers to a recipient with room, or delivers an exempt message.
PostDeliver(t, m) ==
    /\ Posting(t, m)
    /\ m.to \in g_workers
    /\ ~TellXoff(m)
    /\ worker' = [Recorded(m, g_workers) EXCEPT ![m.to].queue = Push(@, m)]
    /\ pc' = [pc EXCEPT ![t] = Return(t, todo[t] \ {m})]
    /\ UNCHANGED <<g_mutex, registerVars, green, called, ret, out>>

\* post() finds the recipient full and decides to tell the sender.
PostFull(t, m) ==
    /\ Posting(t, m)
    /\ m.to \in g_workers
    /\ TellXoff(m)
    /\ g_mutex' = t
    /\ out' = [out EXCEPT ![t] = m]
    /\ worker' = Recorded(m, g_workers)
    /\ pc' = [pc EXCEPT ![t] = "post_push"]
    /\ UNCHANGED <<registerVars, green, called, ret>>

\* It delivers the message all the same.  The recipient may be quick.
PostPush(t) ==
    /\ pc[t] = "post_push"
    /\ worker' = [worker EXCEPT ![out[t].to].queue = Push(@, out[t])]
    /\ pc' = [pc EXCEPT ![t] = "post_xoff"]
    /\ UNCHANGED <<g_mutex, registerVars, green, called, callVars>>

\* The workers after the sender of m was entered in the recipient's ntf_xon_
\* and the xoff put in the sender's queue; a sender that is not registered
\* gets none (send_to_skald()).
XoffTold(m) ==
    LET noted == [worker EXCEPT ![m.to].ntf_xon = @ \cup {m.from}]
        xoffMsg == Internal(m.to, m.from, "skal-xoff")
    IN  IF m.from \in g_workers
          THEN [noted EXCEPT ![m.from].queue = Push(@, xoffMsg)]
          ELSE noted

\* The recipient may be iterating over its ntf_xon_ in send_xon() at this very
\* moment: the new element is then ahead of the iterator or behind it.
PostXoff(t) ==
    LET m == out[t]
        iterating == /\ pc[m.to] = "send" /\ ret[m.to] = "xon_clear"
                     /\ m.from \notin worker[m.to].ntf_xon
    IN  /\ pc[t] = "post_xoff"
        /\ worker' = XoffTold(m)
        /\ \/ UNCHANGED todo
           \/ /\ iterating
              /\ todo' = [todo EXCEPT ![m.to] =
                            @ \cup {Internal(m.to, m.from, "skal-xon")}]
        /\ out' = [out EXCEPT ![t] = NoMsg]
        /\ g_mutex' = NoName
        /\ pc' = [pc EXCEPT ![t] = Return(t, todo[t])]
        /\ UNCHANGED <<registerVars, green, called, ret>>

-------------------------------------------------------------------------------
(* create(), do_create() and terminate() *)

\* The script t is in: process_msg runs at "handler" and, for skal-exit, at
\* "exit_handler".
Calls(t) == IF pc[t] = "exit_handler" THEN ExitScript[t] ELSE Script[t]
NextCall(t) == Calls(t)[called[t] + 1]

\* As in the repository's examples, process_msg returns false on "stop" at
\* once, whatever is left of its script.
Stopping(t) == pc[t] = "handler" /\ worker[t].cur.action = "stop"

\* t makes its next call, which is of the kind call.
MayCall(t, call) ==
    /\ pc[t] \in {"user", "handler", "exit_handler"}
    /\ called[t] < Len(Calls(t)) /\ ~Stopping(t)
    /\ NextCall(t).call = call
    /\ called' = [called EXCEPT ![t] = @ + 1]

CallSend(t) ==
    /\ MayCall(t, "send")
    /\ BeginSend(t, {NextCall(t).msg}, pc[t])
    /\ UNCHANGED <<g_mutex, registerVars, green, out, worker>>

\* do_create() throws terminating_error or duplicate_error.
CallCreateThrows(t) ==
    /\ MayCall(t, "create") /\ Unlocked
    /\ g_state = "terminating" \/ NextCall(t).name \in g_workers
    /\ Throw(t, pc[t])
    /\ UNCHANGED <<g_mutex, registerVars, green, callVars>>

\* do_create() runs the constructor, which starts the thread before the rest
\* of the object is initialised.  An unregistered name has a NewWorker.
CallCreate(t) ==
    /\ MayCall(t, "create") /\ Unlocked
    /\ g_state # "terminating"
    /\ NextCall(t).name \notin g_workers
    /\ g_mutex' = t
    /\ ret' = [ret EXCEPT ![t] = pc[t]]
    /\ pc' = [pc EXCEPT ![t] = "create_emplace", ![NextCall(t).name] = "entry"]
    /\ UNCHANGED <<registerVars, green, todo, out, worker>>

\* g_workers.emplace().  wait() may be iterating over the register without
\* the lock: it meets the new element or not and, if the table is rehashed
\* under it, goes on from its element in the new order and may miss others.
\* (Meeting one twice is as good as once: semaphore_ is taken at most once.)
Emplace(n) ==
    /\ g_workers' = g_workers \cup {n}
    /\ IF pc[Main] = "wait_green" THEN green' \in SUBSET (green \cup {n})
                                  ELSE UNCHANGED green

\* The object under construction goes to the register and create() returns.
CreateEmplace(t, n) ==
    /\ pc[t] = "create_emplace"
    /\ n \notin g_workers /\ pc[n] # "none"
    /\ Emplace(n)
    /\ g_mutex' = NoName
    /\ pc' = [pc EXCEPT ![t] = ret[t]]
    /\ UNCHANGED <<g_state, g_terminated, g_semaphore, called, callVars,
                   worker>>

\* Mutant: the order to terminate is an ordinary message.
TerminateMsg_Regular(t, n) == Regular(t, n, "skal-terminate")

TerminateMsg(t, n) == Internal(t, n, "skal-terminate")

CallTerminate(t) ==
    /\ MayCall(t, "terminate") /\ Unlocked
    /\ g_state' = "terminating"
    /\ worker' = [n \in Name |->
         IF n \in g_workers
           THEN [worker[n] EXCEPT !.queue = Push(@, TerminateMsg(t, n))]
           ELSE worker[n]]
    /\ UNCHANGED <<g_mutex, g_workers, g_terminated, g_semaphore, green, pc,
                   callVars>>

\* post() of a skal-subscribe to a group that does not exist creates it.
PostNewGroupThrows(t, m) ==
    /\ Posting(t, m)
    /\ m.to \notin g_workers /\ m.action = "skal-subscribe"
    /\ g_state = "terminating"
    /\ Throw(t, ret[t])
    /\ UNCHANGED <<g_mutex, registerVars, green, called, ret, out>>

PostNewGroup(t, m) ==
    /\ Posting(t, m)
    /\ m.to \notin g_workers /\ m.action = "skal-subscribe"
    /\ g_state # "terminating"
    /\ g_mutex' = t
    /\ out' = [out EXCEPT ![t] = m]
    /\ pc' = [pc EXCEPT ![t] = "post_emplace", ![m.to] = "entry"]
    /\ UNCHANGED <<registerVars, green, called, ret, worker>>

\* The new group is registered and post() goes on; its queue is empty.
PostEmplace(t) ==
    LET m == out[t]
    IN  /\ pc[t] = "post_emplace"
        /\ Emplace(m.to)
        /\ worker' = [Recorded(m, g_workers') EXCEPT ![m.to].queue = Push(@, m)]
        /\ out' = [out EXCEPT ![t] = NoMsg]
        /\ g_mutex' = NoName
        /\ pc' = [pc EXCEPT ![t] = Return(t, todo[t])]
        /\ UNCHANGED <<g_state, g_terminated, g_semaphore, called, todo,
                       ret>>

===============================================================================
