-------------------------------- MODULE Worker --------------------------------
(***************************************************************************)
(* src/skal/worker.cpp as a whole: the worker register, the life of worker *)
(* threads, the sending of messages with its xoff/xon flow control, and    *)
(* groups.                                                                 *)
(*                                                                         *)
(* Threads interleave.  What a thread does while it holds g_mutex, or to   *)
(* members that only it can see, is one step; a step ends wherever another *)
(* thread can come in: at g_mutex, at a push or a pop of a queue, at a     *)
(* semaphore, and at every access to ntf_xon_ and to g_workers that the    *)
(* code makes without the lock.  A critical section stays open (pc in      *)
(* HoldsLock) only where another thread can act on what it did so far.     *)
(***************************************************************************)
EXTENDS WorkerPost

-------------------------------------------------------------------------------
(* thread_entry_point() and run() *)

\* Mutant: the state is read without taking g_mutex.
MayEnter_NoLock(n) == pc[n] = "entry"

\* lock_t lock(g_mutex), the first thing a worker thread waits for.
MayEnter(n) == pc[n] = "entry" /\ Unlocked

\* The beginning of run(): skal-born goes to skald, which post() never finds,
\* and skal-init to the worker itself.
BeginRun(n, object) ==
    /\ worker' = [worker EXCEPT ![n] =
         [object EXCEPT !.queue = Push(@, Regular(NoName, n, "skal-init"))]]
    /\ pc' = [pc EXCEPT ![n] = "loop"]

\* The thread looks at g_state under the lock, and waits for the green light
\* if skal is initialising.
Entry(n) ==
    /\ MayEnter(n)
    /\ IF g_state = "initialising"
         THEN pc' = [pc EXCEPT ![n] = "green"] /\ UNCHANGED worker
         ELSE BeginRun(n, worker[n])
    /\ UNCHANGED <<g_mutex, registerVars, green, called, callVars>>

TakeGreenLight(n) ==
    /\ pc[n] = "green"
    /\ SemReady(worker[n].semaphore)
    /\ BeginRun(n, [worker[n] EXCEPT !.semaphore = @ - 1])
    /\ UNCHANGED <<g_mutex, registerVars, green, called, callVars>>

\* Mutant: a worker that has been told to stop sending pops any message.
Paused_Never(n, timeout) == FALSE

\* internal_only: some worker told this one to stop, not too long ago.
Paused(n, timeout) == worker[n].xoff # {} /\ ~timeout

\* Mutant: throttled is not reset when the worker resumes.
Throttling_Sticky(n) == worker[n].throttled \/ worker[n].xoff # {}

\* The new value of throttled.
Throttling(n) == worker[n].xoff # {}

\* The top of the loop: notify process_msg of a change, drop the xoffs that
\* timed out, and decide what to pop ("pop_internal": internal_only is set).
\* Any time may have passed since last_xoff_: timeout is either.
Loop(n, timeout) ==
    LET w == worker[n]
        notify(action) == Push(w.queue, Internal(NoName, n, action))
        queue == CASE w.xoff # {} /\ ~w.throttled -> notify("skal-throttle-on")
                   [] w.xoff = {} /\ w.throttled -> notify("skal-throttle-off")
                   [] OTHER -> w.queue
    IN  /\ pc[n] = "loop"
        /\ worker' = [worker EXCEPT ![n].queue = queue,
                                    ![n].throttled = Throttling(n),
                                    ![n].xoff = IF timeout THEN {} ELSE @]
        /\ pc' = [pc EXCEPT ![n] = IF Paused(n, timeout) THEN "pop_internal"
                                                         ELSE "pop"]
        /\ UNCHANGED <<g_mutex, registerVars, green, called, callVars>>

\* queue_.pop(), then process_internal_msg() if the message is internal.  The
\* message goes on to process_msg in either case.
Pop(n) ==
    LET w == worker[n]
        m == Front(w.queue)
        action == IF m.internal THEN m.action ELSE "none"
    IN  /\ pc[n] \in {"pop", "pop_internal"}
        /\ Poppable(w.queue, pc[n] = "pop_internal")
        /\ worker' = [worker EXCEPT
             ![n].queue = Rest(@),
             ![n].cur = m,
             ![n].xoff = CASE action = "skal-xoff" -> @ \cup {m.from}
                           [] action = "skal-xon" -> @ \ {m.from}
                           [] OTHER -> @,
             ![n].stop = action = "skal-terminate"]
        /\ pc' = [pc EXCEPT ![n] = "handler"]
        /\ UNCHANGED <<g_mutex, registerVars, green, called, callVars>>

\* process_msg of an application worker returns; false stops the worker.
HandlerReturn(n, ok) ==
    /\ n \in Client /\ pc[n] = "handler"
    /\ \/ MayCall(n, "return") /\ ok = NextCall(n).ok
       \/ Stopping(n) /\ ~ok /\ UNCHANGED called
       \/ called[n] = Len(Script[n]) /\ ~Stopping(n) /\ ok /\ UNCHANGED called
    /\ worker' = [worker EXCEPT ![n].stop = @ \/ ~ok, ![n].cur = NoMsg]
    /\ pc' = [pc EXCEPT ![n] = "after"]
    /\ UNCHANGED <<g_mutex, registerVars, green, callVars>>

HandlerThrow(n) ==
    /\ n \in Thrower /\ pc[n] = "handler"
    /\ Throw(n, "handler")
    /\ UNCHANGED <<g_mutex, registerVars, green, called, callVars>>

\* What group_t::process makes of the subscribers of g.
GroupAfter(g, m) ==
    CASE m.action = "skal-subscribe" ->
           Subscribe(worker[g].subscribers, m.from, m.filter)
      [] m.action = "skal-unsubscribe" ->
           Unsubscribe(worker[g].subscribers, m.from, m.filter)
      [] OTHER -> worker[g].subscribers

\* The copies it sends of a message that is not skal's own: one per matching
\* subscription, in the group's name; the filter field of a copy tells apart
\* those for the same subscriber.
GroupCopies(g, m) ==
    IF m.action \in SkalAction
      THEN {}
      ELSE {[m EXCEPT !.from = g, !.to = s[1], !.filter = s[2]] :
              s \in Matching(worker[g].subscribers, m.action)}

\* Mutant: a group does not stop with its last subscriber.
LastLeft_Never(g, m) == FALSE

\* The last subscriber left, which ends the group.
LastLeft(g, m) == m.action = "skal-unsubscribe" /\ GroupAfter(g, m) = {}

\* group_t::process, the process_msg of a group.
GroupProcess(g) ==
    LET m == worker[g].cur
    IN  /\ pc[g] = "handler" /\ g \in Group
        /\ BeginSend(g, GroupCopies(g, m), "after")
        /\ worker' = [worker EXCEPT ![g].subscribers = GroupAfter(g, m),
                                    ![g].stop = @ \/ LastLeft(g, m),
                                    ![g].cur = NoMsg]
        /\ UNCHANGED <<g_mutex, registerVars, green, called, out>>

\* Below half its threshold, or stopping, the worker starts send_xon().
After(n) ==
    LET w == worker[n]
    IN  /\ pc[n] = "after"
        /\ IF w.stop \/ ~IsHalfFull(w.queue, Threshold[n])
             THEN BeginSend(n, {Internal(n, s, "skal-xon") : s \in w.ntf_xon},
                            "xon_clear")
             ELSE pc' = [pc EXCEPT ![n] = "loop"] /\ UNCHANGED <<todo, ret>>
        /\ UNCHANGED <<g_mutex, registerVars, green, called, out, worker>>

\* ntf_xon_.clear(), without a lock, when the iteration is over.
XonClear(n) ==
    /\ pc[n] = "xon_clear"
    /\ worker' = [worker EXCEPT ![n].ntf_xon = {}]
    /\ pc' = [pc EXCEPT ![n] = IF worker[n].stop THEN "exit" ELSE "loop"]
    /\ UNCHANGED <<g_mutex, registerVars, green, called, callVars>>

\* Mutant: a worker leaves its subscriptions behind.
Unsubscribes_None(n) == {}

\* One skal-unsubscribe for each group in subscriptions_.
Unsubscribes(n) ==
    {Regular(n, s[1], "skal-unsubscribe") : s \in worker[n].subscriptions}

\* After the loop.
Exit(n) ==
    /\ pc[n] = "exit"
    /\ BeginSend(n, Unsubscribes(n), "exit_handler")
    /\ called' = [called EXCEPT ![n] = 0]
    /\ UNCHANGED <<g_mutex, registerVars, green, out, worker>>

\* process_msg returns from skal-exit; a group forgets its subscribers.
ExitReturn(n) ==
    /\ pc[n] = "exit_handler"
    /\ called[n] = Len(ExitScript[n])
    /\ worker' = [worker EXCEPT ![n].subscribers = {}]
    /\ pc' = [pc EXCEPT ![n] = "finish"]
    /\ UNCHANGED <<g_mutex, registerVars, green, called, callVars>>

\* Mutant: g_mutex is not taken.
MayFinish_NoLock(n) == pc[n] = "finish"

MayFinish(n) == pc[n] = "finish" /\ Unlocked

\* Back in thread_entry_point(): the name goes to g_terminated_workers ...
Finish(n) ==
    /\ MayFinish(n)
    /\ g_mutex' = n
    /\ g_terminated' = Append(g_terminated, n)
    /\ pc' = [pc EXCEPT ![n] = "finish_post"]
    /\ UNCHANGED <<g_state, g_workers, g_semaphore, green, called, callVars,
                   worker>>

\* ... and wait() is told; the thread ends and releases the lock.
FinishPost(n) ==
    /\ pc[n] = "finish_post"
    /\ g_semaphore' = SemPost(g_semaphore)
    /\ g_mutex' = NoName
    /\ pc' = [pc EXCEPT ![n] = "done"]
    /\ UNCHANGED <<g_state, g_workers, g_terminated, green, called, callVars,
                   worker>>

-------------------------------------------------------------------------------
(* wait() *)

WaitStart ==
    /\ MayCall(Main, "wait") /\ Unlocked
    /\ g_state' = "running"
    /\ green' = g_workers
    /\ pc' = [pc EXCEPT ![Main] = "wait_green"]
    /\ UNCHANGED <<g_mutex, g_workers, g_terminated, g_semaphore, callVars,
                   worker>>

\* The green light, one worker after the other, without the lock.
WaitGreen(n) ==
    /\ pc[Main] = "wait_green"
    /\ n \in green
    /\ green' = green \ {n}
    /\ worker' = [worker EXCEPT ![n].semaphore = SemPost(@)]
    /\ UNCHANGED <<g_mutex, registerVars, pc, called, callVars>>

WaitGreenDone ==
    /\ pc[Main] = "wait_green"
    /\ green = {}
    /\ pc' = [pc EXCEPT ![Main] = "wait_take"]
    /\ UNCHANGED <<g_mutex, registerVars, green, called, callVars, worker>>

WaitTake ==
    /\ pc[Main] = "wait_take"
    /\ SemReady(g_semaphore)
    /\ g_semaphore' = g_semaphore - 1
    /\ pc' = [pc EXCEPT ![Main] = "wait_lock"]
    /\ UNCHANGED <<g_mutex, g_state, g_workers, g_terminated, green, called,
                   callVars, worker>>

\* Mutant: the register is cleaned up without the lock.
MayErase_NoLock == pc[Main] = "wait_lock"

MayErase == pc[Main] = "wait_lock" /\ Unlocked

WaitLock ==
    /\ MayErase
    /\ g_mutex' = Main
    /\ pc' = [pc EXCEPT ![Main] = "wait_erase"]
    /\ UNCHANGED <<registerVars, green, called, callVars, worker>>

\* Erasing a worker runs ~worker_t(), which joins its thread with g_mutex
\* held, and destroys the object: the name is as good as new.
WaitErase ==
    LET n == Head(g_terminated)
    IN  /\ pc[Main] = "wait_erase"
        /\ g_terminated # << >>
        /\ pc[n] = "done"
        /\ g_workers' = g_workers \ {n}
        /\ g_terminated' = Tail(g_terminated)
        /\ worker' = [worker EXCEPT ![n] = NewWorker]
        /\ ret' = [ret EXCEPT ![n] = "none"]
        /\ called' = [called EXCEPT ![n] = 0]
        /\ pc' = [pc EXCEPT ![n] = "none"]
        /\ UNCHANGED <<g_mutex, g_state, g_semaphore, green, todo, out>>

\* Mutant: wait() returns as soon as no ended worker is left to erase.
NoMoreWorkers_Reaped == TRUE

NoMoreWorkers == g_workers = {}

WaitCheck ==
    /\ pc[Main] = "wait_erase"
    /\ g_terminated = << >>
    /\ g_mutex' = NoName
    /\ pc' = [pc EXCEPT ![Main] = IF NoMoreWorkers THEN "wait_reset"
                                                    ELSE "wait_take"]
    /\ UNCHANGED <<registerVars, green, called, callVars, worker>>

\* Mutant: the state is not reset.
StateAfterWait_Kept == g_state

StateAfterWait == "initialising"

\* g_state is reset without the lock and wait() returns.
WaitReset ==
    /\ pc[Main] = "wait_reset"
    /\ g_state' = StateAfterWait
    /\ pc' = [pc EXCEPT ![Main] = "user"]
    /\ UNCHANGED <<g_mutex, g_workers, g_terminated, g_semaphore, green, called,
                   callVars, worker>>

-------------------------------------------------------------------------------
Sending(t) ==
    \/ \E m \in todo[t] : PostDrop(t, m)
    \/ \E m \in todo[t] : PostDeliver(t, m)
    \/ \E m \in todo[t] : PostFull(t, m)
    \/ PostPush(t)
    \/ PostXoff(t)
    \/ \E m \in todo[t] : PostNewGroupThrows(t, m)
    \/ \E m \in todo[t] : PostNewGroup(t, m)
    \/ PostEmplace(t)

Calling(t) ==
    \/ CallSend(t)
    \/ CallCreateThrows(t)
    \/ CallCreate(t)
    \/ \E n \in Name : CreateEmplace(t, n)
    \/ CallTerminate(t)

Running(n) ==
    \/ Entry(n) \/ TakeGreenLight(n)
    \/ \E timeout \in BOOLEAN : Loop(n, timeout)
    \/ Pop(n)
    \/ \E ok \in BOOLEAN : HandlerReturn(n, ok)
    \/ HandlerThrow(n)
    \/ GroupProcess(n)
    \/ After(n) \/ XonClear(n)
    \/ Exit(n) \/ ExitReturn(n) \/ Finish(n) \/ FinishPost(n)

Waiting ==
    \/ WaitStart \/ (\E n \in Name : WaitGreen(n)) \/ WaitGreenDone
    \/ WaitTake \/ WaitLock \/ WaitErase \/ WaitCheck \/ WaitReset

\* The application is over.
Finished ==
    /\ \A u \in User : pc[u] = "user" /\ called[u] = Len(Script[u])
    /\ g_workers = {}
    /\ UNCHANGED vars

Next ==
    \/ \E t \in Thread : Sending(t) \/ Calling(t)
    \/ \E n \in Name : Running(n)
    \/ Waiting
    \/ Finished

Spec == Init /\ [][Next]_vars

\* The scheduler runs every thread that can run.
Fairness ==
    /\ \A n \in Name : WF_vars(Sending(n) \/ Calling(n) \/ Running(n))
    /\ \A u \in User : WF_vars(Sending(u) \/ Calling(u))
    /\ WF_vars(Waiting)

FairSpec == Spec /\ Fairness
===============================================================================
