------------------------------ MODULE WorkerState ------------------------------
(***************************************************************************)
(* The state of src/skal/worker.cpp: the worker register, the threads and  *)
(* the worker_t objects, and the application that uses them.               *)
(*                                                                         *)
(* The code of the application (process_msg and the threads outside skal)  *)
(* is given by the constants Script and ExitScript: the calls each thread  *)
(* makes, in that order, cut into calls of process_msg by "return".        *)
(***************************************************************************)
EXTENDS Naturals, Sequences, QueueOps, GroupOps

CONSTANTS
    Client,     \* names of the workers the application creates
    Group,      \* names of groups
    User,       \* threads outside skal; their names are thread ids
    Main,       \* the one that calls wait()
    NoName,     \* an empty sender; also: g_mutex is free
    NoMsg,      \* no message at hand
    Script,     \* the calls of each thread
    ExitScript, \* the calls of process_msg on skal-exit
    Thrower,    \* workers whose process_msg may throw at any point
    Threshold   \* queue_threshold of each worker

Name == Client \cup Group
Thread == Name \cup User

Filter == {NoFilter} \cup BadFilter \cup {p[1] : p \in Matches}

InternalAction == {"skal-xoff", "skal-xon", "skal-terminate",
                   "skal-throttle-on", "skal-throttle-off"}
SkalAction == InternalAction
                \cup {"skal-init", "skal-subscribe", "skal-unsubscribe"}
Action == SkalAction \cup {p[2] : p \in Matches} \cup {"stop"}

\* The parts of a msg_t that worker.cpp looks at.  id tells apart messages of
\* the application that are otherwise alike.  A worker that subscribes says
\* who it is, and only groups are subscribed to.
Message ==
    {m \in [id : Nat, from : Thread \cup {NoName}, to : Thread, action : Action,
            filter : Filter, urgent : BOOLEAN, internal : BOOLEAN] :
       m.action = "skal-subscribe" => m.from \in Thread /\ m.to \in Group}

\* A call of the application, or the end of a call of process_msg.
Call == [call : {"send"}, msg : Message] \cup [call : {"create"}, name : Client]
          \cup [call : {"terminate", "wait"}]
          \cup [call : {"return"}, ok : BOOLEAN]

ASSUME NamesAssumption ==
    /\ Client \cap Group = {} /\ Name \cap User = {}
    /\ Main \in User
    /\ NoName \notin Thread
    /\ NoMsg \notin Message

ASSUME ParamsAssumption ==
    /\ Thrower \subseteq Client
    /\ Threshold \in [Name -> Nat \ {0}]

\* The application sends in its own name or with an empty sender, does not
\* forge the internal flag, gives groups and workers different names, and
\* calls wait() from one thread, which is no worker.
MayBeMadeBy(t, c) ==
    /\ c.call = "send" =>
         /\ c.msg.from \in {t, NoName} /\ c.msg.to \in Name /\ ~c.msg.internal
         /\ c.msg.action = "skal-unsubscribe" => c.msg.from = t
    /\ c.call = "wait" => t = Main
    /\ c.call = "return" => t \in Client

ASSUME ScriptAssumption ==
    /\ Script \in [Thread -> Seq(Call)] /\ ExitScript \in [Thread -> Seq(Call)]
    /\ \A g \in Group : Script[g] = << >> /\ ExitScript[g] = << >>
    /\ \A t \in Thread : \A i \in DOMAIN Script[t] : MayBeMadeBy(t, Script[t][i])
    /\ \A t \in Thread : \A i \in DOMAIN ExitScript[t] :
         MayBeMadeBy(t, ExitScript[t][i]) /\ ExitScript[t][i].call # "return"

VARIABLES
    g_mutex,       \* the thread that holds it, or NoName
    g_state,       \* "initialising", "running" or "terminating"
    g_workers,     \* names in the worker register
    g_terminated,  \* g_terminated_workers
    g_semaphore,   \* its count
    green,         \* workers that wait() has still to give the green light
    pc,            \* where each thread is
    called,        \* how many calls of its script each thread made
    todo,          \* messages each thread is about to send()
    ret,           \* where each thread goes when they are sent
    out,           \* the message each thread has in post(), lock held
    worker         \* the worker_t object of each name

registerVars == <<g_state, g_workers, g_terminated, g_semaphore>>
callVars == <<todo, ret, out>>
vars == <<g_mutex, registerVars, green, pc, called, callVars, worker>>

\* A worker_t with the locals of run() and, for a group, the group_t its
\* process_msg owns.
WorkerObject ==
    [queue : QueueOf(Message),
     semaphore : Nat,                           \* semaphore_, its count
     stop : BOOLEAN, throttled : BOOLEAN,       \* locals of run()
     cur : Message \cup {NoMsg},                \* the message being processed
     xoff : SUBSET (Thread \cup {NoName}),      \* xoff_
     ntf_xon : SUBSET Thread,                   \* ntf_xon_
     subscriptions : SUBSET (Group \X Filter),  \* subscriptions_
     subscribers : SUBSET (Thread \X Filter)]   \* group_t::subscribers_

NewWorker ==
    [queue |-> EmptyQueue, semaphore |-> 0, stop |-> FALSE, throttled |-> FALSE,
     cur |-> NoMsg, xoff |-> {}, ntf_xon |-> {}, subscriptions |-> {},
     subscribers |-> {}]

Init ==
    /\ g_mutex = NoName
    /\ g_state = "initialising"
    /\ g_workers = {}
    /\ g_terminated = << >>
    /\ g_semaphore = 0
    /\ green = {}
    /\ pc = [t \in Thread |-> IF t \in User THEN "user" ELSE "none"]
    /\ called = [t \in Thread |-> 0]
    /\ todo = [t \in Thread |-> {}]
    /\ ret = [t \in Thread |-> "none"]
    /\ out = [t \in Thread |-> NoMsg]
    /\ worker = [n \in Name |-> NewWorker]

Unlocked == g_mutex = NoName

\* Mutant: post() does not count.
SemPost_Lost(count) == count

\* semaphore_t, by its count: when take() goes ahead, and what post() does.
SemReady(count) == count > 0
SemPost(count) == count + 1

\* msg_t::create_internal()
Internal(from, to, action) ==
    [id |-> 0, from |-> from, to |-> to, action |-> action,
     filter |-> NoFilter, urgent |-> FALSE, internal |-> TRUE]

\* msg_t::create() with no flags and no fields
Regular(from, to, action) ==
    [Internal(from, to, action) EXCEPT !.internal = FALSE]
===============================================================================
