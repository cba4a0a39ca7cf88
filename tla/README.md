# A TLA+ verification of skal

Skal is a C++ framework of *workers*: threads with a message queue and a
function, `process_msg`, that is called for each message.  Workers send
messages to each other by name, are throttled when they send too fast, and can
subscribe to *groups* that forward what they receive.  Messages may carry
*blobs*, reference-counted memory areas shared by workers or processes.

This directory models the parts of skal where threads meet and the values that
they exchange, checks them with TLC on small instances, and proves the most
important safety properties with TLAPS for any number of threads and any
application.

Paths below are relative to the repository: `worker.cpp` is
`src/skal/worker.cpp`, `worker.hpp` is `include/skal/worker.hpp`, and so on.

## The system

| Component | State | Operations | What is hard |
|---|---|---|---|
| Worker register and lifecycle (`worker.cpp`) | `g_mutex`, `g_state`, `g_workers`, `g_terminated_workers`, `g_semaphore`, the threads | `create`, `do_create`, `thread_entry_point`, `wait`, `terminate`, `~worker_t` | a thread that starts inside the constructor; a join under the lock the thread needs; `wait()` iterating without the lock; one semaphore count for several ended workers; `terminate()` against `wait()` |
| Run loop and delivery (`worker.cpp`) | `queue_`, `stop`, the message at hand | `run`, `process_internal_msg`, `send`, `post` | iterators into the register used while others are erased; exceptions half-way |
| Flow control (`worker.cpp`) | `xoff_`, `ntf_xon_`, `last_xoff_`, `throttled` | the end of `post`, the top of the loop of `run`, `send_xon` | `ntf_xon_` shared by two threads without a common lock; a pause that must end |
| Groups (`worker.cpp`) | `subscribers_` of the group, `subscriptions_` of the worker | `subscribe`, `unsubscribe`, `process`; creation in `post`; unsubscription in `run` | two records of one fact; a group that stops while a subscription is on its way |
| Queue (`queue.cpp`) | three lists, a mutex, a condition variable | `push`, `pop`, `size`, `is_full`, `is_half_full` | lost wakeups; one condition variable for two conditions; priorities |
| Semaphore, safe mutex (`semaphore.hpp`, `safe-mutex.hpp`) | a count; an owner | `post`, `take`, `take(timeout)`; `lock`, `unlock` | wakeups; the timeout against a late post; unlocking from another thread |
| Blobs (`blob.cpp`) | header (magic, counter, size, mutex), proxies and their mappings, the allocator registry | `create`, `open`, copy, `ref`, `unref`, `map`, `unmap`, destruction | counter against destruction and `open` in other threads and processes; a `map` that fails half-way |
| Messages (`msg.cpp`) | fields, flags, alarms, blobs | constructors, copy, `serialize` and its inverse | what survives a round trip; who owns a reference to a blob |
| Names and URLs (`util.cpp`, `global.cpp`) | the domain, the thread's name, parts of a URL | `full_name`, `me`, `url_t` | parsing and rebuilding agree |
| Network (`net.cpp`) | none | `send_to_skald` | a stub: it drops every message |
| Logging (`log.cpp`) | the minimum level, a mutex, stderr | `skal_log`, `minimum_level`, `process` | a record is stamped before its turn to print comes |
| Date library (`date.h`, vendored) | none | calendar arithmetic, conversion of days, `floor`, `time_of_day`, `to_stream`, `from_stream` | negative numbers and truncating division; era, century and year ends; fields that must agree |
| Alarms | immutable data | | the origin becomes a full name |
| Configuration, errors | compile-time constants, exception types | | nothing that a model checker reaches |

The application calls into `worker.cpp` from the threads of workers and from
threads of its own; `worker.cpp` calls the queue and the semaphore, and drops
what is not for this process.  Groups are workers whose `process_msg` is part
of skal.

What has to be correct:

* *Register*: no worker is used before it is constructed or after it is
  erased; every ended worker is joined without deadlock; `wait()` returns when,
  and only when, no worker is left; `terminate()` ends everything.
* *Flow control*: a paused worker handles only internal messages, is told in
  turn that it is paused and that it is not, and resumes.
* *Groups*: a subscription is honoured until it is given up or its worker ends,
  and a group ends with its last subscriber.
* *Queue*: nobody sleeps on a message it may take; messages come by priority
  and in order.
* *Blobs*: a blob lives as long as a proxy or a reference, and is mapped by one
  thread at a time.
* *Semaphore*: a count is taken once, and no post is lost on a thread that
  sleeps.
* *Messages, names, URLs*: conversions lose nothing, and no reference of a blob.
* *Log*: lines come in the order of their stamps unless statements overlap;
  stamps sort as text.
* *Dates*: days and dates are converted one to one, and a date reads back.

## Modules

| Module | Models |
|---|---|
| `QueueOps` | the data of a `queue_t`: `Push`, `Poppable`, `Front`, `Rest`, `IsFull`, `IsHalfFull` |
| `Queue` | a `queue_t` with its mutex and condition variable, producers and owner |
| `AbstractQueue` | what a queue promises: a priority queue, first in first out within a priority |
| `GroupOps` | the data of a `group_t` |
| `WorkerState` | the variables of `worker.cpp`, the application, and the initial state |
| `WorkerPost` | what any thread can do: `send`/`post`, `create`, `terminate` |
| `Worker` | the thread of a worker, `wait()`, and the specification |
| `WorkerProperties` | the properties of `Worker` |
| `WorkerProofs` | a lemma per action, and the theorems about the life of workers |
| `WorkerFlowProofs` | the theorems about flow control |
| `WorkerGroupProofs` | the theorems about groups |
| `QueueProofs` | the theorems about `Queue` |
| `Blob` | the header of a blob, both allocators, the proxies of all processes |
| `AbstractBlob` | what a blob promises: it exists while it has references |
| `BlobProofs` | the inductive invariant of blobs with a lemma per action, and the theorems about `Blob` |
| `Semaphore` | a `semaphore_t` with its mutex and condition variable, threads in both kinds of `take()` |
| `AbstractSemaphore` | what a semaphore promises: a count |
| `SemaphoreProofs` | the theorems about `Semaphore` |
| `Names` | `me()` and `full_name()` |
| `Message` | `msg_t` objects of several processes, and the references to blobs they hold (with `AbstractBlob`) |
| `Url` | a `url_t` |
| `Log` | threads in `skal_log()` |
| `Calendar` | days, months, years, weekdays, and the dates made of them |
| `Clock` | durations and the time of day |
| `DateText` | `to_stream()` and `from_stream()` |
| `Dates`, `DateFormats` | the system clock going on, and what the date library says of it |
| `CalendarProofs` | the theorems about `Calendar` and `Dates` |
| `ValueProofs` | the theorems about `Message` and `Log` |
| `MCQueue`, `MCBlob`, `MCWorker` | instances for TLC |
| `MCSync`, `MCValues` | instances for TLC of several models, side by side: the queue and the semaphore; messages, blobs, URLs, the log and dates |

### `Queue`

Taking the mutex is a step, and what a thread does while holding it is another.
`cv_.wait()` releases the mutex and sleeps in one step (`PopWait`); it ends
when a push notifies (`NotifyOne`) or for no reason at all
(`SpuriousWakeup`), after which the owner competes for the mutex again and
re-checks its condition.  The final part of `pop()` can return an empty pointer
in the model as in the code; that it never does is a property.

### `Worker`

Variables are those of `worker.cpp` with the same names; `worker[n]` is the
`worker_t` object of name `n`, including the locals of its `run()` and, if `n`
is a group, its `group_t`.  `pc[t]` is where thread `t` is.

| `pc` | In the code |
|---|---|
| `user` | application code of a thread outside skal |
| `entry`, `green` | `thread_entry_point()`: before `g_mutex`; waiting for the green light |
| `loop`, `pop`, `pop_internal` | top of the loop of `run()`; in `queue_.pop(false)`, `pop(true)` |
| `handler`, `exit_handler` | in `process_msg`, the latter with `skal-exit` |
| `after`, `xon_clear`, `exit` | `run()` after `process_msg`; end of `send_xon()`; after the loop |
| `finish`, `finish_post`, `done` | end of `thread_entry_point()` |
| `send`, `post_push`, `post_xoff`, `post_emplace` | sending the messages of `todo[t]`: before `post()`, and inside its critical section |
| `create_emplace` | `do_create()` between the constructor and `emplace()` |
| `wait_green` ... `wait_reset` | `wait()` |

A critical section is one step unless another thread can act on part of it
without the lock: it is then open for several steps, and `g_mutex` says who is
in.  This is the case of `post()` around the push into a full queue (the
recipient may pop, handle the message and be in `send_xon()` before `post()`
notes the sender), of `do_create()` around the constructor (the new thread
runs), of the end of a thread, and of the erasing loop of `wait()`.

The code races in two places, and the model takes every outcome:

* `ntf_xon_` is written by `post()` and read and cleared by its owner in
  `send_xon()` without a common lock.  A new element is ahead of the iterator or
  behind it (`PostXoff`), and `clear()` removes it in either case.  What a torn
  tree would do beyond that is not modelled.
* `wait()` iterates over `g_workers` without the lock.  An element emplaced
  meanwhile is met or not, and a rehash may make the loop miss others
  (`Emplace`).

The clock is abstract: at the top of the loop any time may have passed since
the last xoff (`timeout` in `Loop`).  A set of messages to send is sent in any
order; the code has the order of a `std::set` or a hash table, which is one of
them.  Messages to `skald`, and what is sent to `skald` on behalf of an unknown
recipient, disappear, for `send_to_skald()` is a stub.

The application is a constant: `Script[t]` lists the calls thread `t` makes
(`send`, `create`, `wait`, `terminate`), and "return" marks where one call of
`process_msg` ends.  As in the repository's examples, `process_msg` returns
`false` on a message `stop`; workers in `Thrower` may throw at any point.  The
assumptions on scripts are those of the API: one thread calls `wait()`, only
groups are subscribed to, and the internal flag is not forged.

### `Blob`

An area has a header (`magic`, `ref`, `mutex`, `terminated`) whichever the
allocator; `shm` is the name space of the operating system.  A proxy is used by
one thread at a time, so `pc[p]` is where the thread that uses proxy `p` is:
`none` without a blob, `idle` with one, `mapped` inside a `scoped_map_t`.
`open()` is three steps (look up, check, increment) and so is the end of a blob
(decrement, destructor, removal of the name), because other processes act in
between; `map()` checks `terminated_` in one step and locks in the next.
`create()` and `open()` may fail at every system call.  A call that throws
before it changed anything is no step.

`kept` counts the references that the application took with `ref()` and has not
given back.  It is the application's duty not to give back more than it took.
`Careful` is one more: that a reference exists while `open()` is under way,
which the copy of a proxy and a reference kept for the receiver guarantee.

`~malloc_blob_t` and `~shm_blob_t` unlock a mutex that is not locked, and
`~safe_mutex` destroys a locked one.  Both are undefined for `std::mutex`; the
model takes what a POSIX mutex of the default kind does, which is to be free.
A destructor that cannot map its blob is left out.

`AbstractBlob` has a counter and a stage for each blob: creating, opening and
closing are one step each, and a blob ends after its last reference.  `Blob`
implements it for a careful application.

### `Semaphore`

What a thread does between two waits is one step.  `wait_until()` looks at the
clock before it has the mutex again, so a thread that was notified may still
report a timeout (`TimeOut`): it leaves with the notification, and the count
stays.  `wasted` counts how often that happened, and is the one exception in
`NoPostLost`.  `WorkerState` uses the abstract count that `Semaphore` implements.  skal calls
`take()` only, so what `take(timeout)` loses does not concern its workers.

### `Message`

A message belongs to one thread, so what a member function does to its contents
is one step.  Blobs are shared with other threads and processes: the parser and
the copy constructor open them one after the other, a constructor may throw
half-way (`OpenThrows`), and a destructor closes them one after the other, in
any order, for `std::map` has its own.  Maps are functions from names to values,
and what is serialised of a map is the set of its entries (`Pairs`).
`wire` keeps what was serialised, to be parsed once, more than once or never, in
another process with another domain.  `Foreign` data is of another version or
lacks fields.  `made` and `held` are history: what an object was made from, and
the proxies the application has.

### `Log`

`skal_log()` is three steps: the test against the minimum, the constructor of
`log_t` that stamps the record, and `process()`, which prints the line with the
mutex held.  `seen` is history: how much was on stderr at the test.  The system
clock may be as coarse as it likes, so that records share a stamp.  It is taken
not to be set back: the code reads `system_clock`, which the administrator may
set, and no claim about the order of stamps survives that.

### The date library

The types of `date.h` are the numbers they store, in their width (`UChar`,
`Short`), and division is that of C++ (`Quot`).  A text is a sequence of digits
and marks.  `DateText` follows the two switch statements of `to_stream()` and
`from_stream()`; what a conversion reads is a list of reads, of which `ReadOne`
makes one, with `failbit` and `eofbit`, and `Resolved` turns the fields into a
date in the order of the code.  Everything is a function of the time, so the
state is a clock (`Dates`), and the properties say what becomes of its text and
its fields as it goes on.  skal itself only calls `floor` and
`format("%FT%TZ")`; the rest is checked because it is in the repository.

`Tells` says which dates a format can tell, and names what the library does not
read back: %F fills years -99 to -1 with zeros before the sign, %U and %W look
for week 0 in December of the year before, and %z adds the minutes of a negative
offset to its hours.

## Runs

| Run | Instance | Shows |
|---|---|---|
| `sync`, queue | two producers, three messages of any class | `NoLostWakeup`, the assertion in `pop()`, `PopReturns`, refinement of `AbstractQueue` |
| `sync`, semaphore | two threads in `take()`, two in `take(timeout)`, three posts, a count of 0 or 1 to begin with | no post is lost on a sleeping thread, a count is taken in the end, a timed take returns, refinement of `AbstractSemaphore` |
| `lifecycle` | main creates two workers, both create the same third one, perhaps while the walk of `wait()` is under way; `wait()` twice | the register's safety; no worker runs outside `wait()`; a `wait()` that left no worker without its green light returns, everything joined; the inductive invariant of the proofs |
| `throttle` | two workers and an outside thread, thresholds of one message; one worker may throw | no push into a destroyed queue, alternating notifications, paused workers handle internal messages only |
| `endings` | three applications: two workers that subscribe, send and leave; `terminate()` at any moment against a worker that subscribes, with an invalid filter too, and leaves; `terminate()` against a pause | no dead subscriber; the group ends; everything shuts down; `wait()` returns |
| `values`, messages | two objects in two processes, two blobs, two fields and two blob fields, time to live at its minimum | the parser and copies are faithful, names are full, every reference of a blob belongs to one proxy, also when parsing throws half-way |
| `values`, blobs | three proxies, one malloc area, two shared memory objects and one name; a careful application | counters agree, blobs live exactly as long as they are used, one mapping at a time, names and memory do not leak, failed creations included; refinement of `AbstractBlob` |
| `values`, URLs | two calls on any strings of up to 5 of `:`, `/` and a letter | `url_` reads back as the parts; after a call that threw, with another scheme at most |
| `values`, log | two threads, two statements each, the minimum set once | only overlapping statements are printed out of order |
| `values`, dates | up to 201 days before and after New Year of -100, 0, 1, 1970, 2000 and 2100, and the year 2068, about every 21 hours; 12 formats, 3 offsets from UTC | dates follow each other, days, weekdays and months add up, clock fields add up, texts read back, stamps sort |
| `doc_...` | the smallest application that shows it | the code departs from what a comment or the README says (below) |

Bounds.  Every bound is a length: of the scripts, `MaxPush` in `Queue`, `MaxPost`
in `Semaphore`, and the numbers of calls, edits, references kept and serialised
messages in the modules of `values`.
Three workers are enough for a creator, a created and a bystander; a threshold
of one makes every queue full and not half-full in turn; two subscribers make
"the last one leaves" and "another one is coming" happen in either order.  The
runs on flow control, groups and termination start in `StartedUp`, states that
the start-up explored by `lifecycle` leads to: all workers of an application
run, and main is in `wait()`.

`lifecycle` has two workers in the register before `wait()`, so that the one
that was given its green light first can make the register grow and the walk
miss the other.  What is left behind in that way (`LeftBehind`) waits for ever,
and `wait()` with it: `WaitReturns` as `skal.hpp` promises it is refuted by
`doc_green_light`, and `lifecycle` checks that nothing else keeps `wait()` from
returning (`WaitReturnsOnceStarted`).

Four threads and three posts are enough for a timed take that keeps the
notification another thread needed, followed by a post that repairs it.  Two
objects with two blobs make a constructor throw after it opened one, and one
message be copied while its blobs are closed elsewhere.  A day step that does
not divide the day meets every day at changing hours, and the years are those
where an era, a century, a sign or the two digit years end.

Deadlock is checked in `sync` and `endings`.  In `lifecycle` the program stops
when a worker is left behind; in `throttle` it really may stop too, because
nobody stops workers that wait for messages; in `values` the calls that the
bounds allow are used up.

Areas of blobs are used again once nobody refers to them, and two objects for
one name make a blob meet its successor.  Proxies are symmetric, and so are
objects of shared memory.

`NoRunOutsideWait` is about applications that leave the start of workers to the
thread that calls `wait()` (`OnlyMainStarts`, see the proofs).  `MCWorker` has
TLC evaluate the hypotheses of the theorems on the applications of the runs.

Fairness is weak fairness for each thread: the scheduler runs a thread that can
run.  Nothing is assumed about the order in which threads get a mutex beyond
that, about the clock, or about the application, whose scripts are finite.  In
`Queue` callers are not obliged to call, but a call in progress goes on.

### Where the code and its documentation disagree

| Run | Documentation | Code |
|---|---|---|
| `doc_paused_resumes` | `README.md:170`: a paused worker resumes unconditionally after a timeout | the timeout is only looked at before a `pop(true)` without timeout; two workers that have paused each other sleep for ever |
| `doc_early_terminate` | `skal.hpp:46`: `terminate()` shuts skal down | a later `wait()` overwrites the state |
| `doc_subscription` | `README.md:82`: to subscribe, send `skal-subscribe` | a group that is stopping throws it away |
| `doc_green_light` | `skal.hpp:36`: `wait()` runs skal until all workers are finished | a worker created while `wait()` walks over the register makes it miss another one, which never starts, and `wait()` never returns |
| `doc_empty_wait` | `skal.hpp:38`: without a worker `wait()` returns immediately | it takes the semaphore first, and blocks |
| `doc_pop` | `queue.hpp:81`: `pop(true)` returns an empty pointer if there is no internal message | it waits for one |
| `doc_blob_open` | `blob.hpp:376`: `open()` throws if the blob does not exist | an `open()` that found the name succeeds although the last proxy has begun to destroy the blob |

`TerminateShutsDown` and `WaitReturns` are also checked by `endings`, in
applications that are already running when they end.  The trace of
`doc_green_light` rests on a hash table that is changed while another thread
walks over it, of which the model takes only the mild outcomes (`Emplace`).

More are read off the code, and the model follows the code: messages of outside
threads, which have a name, their thread id, are throttled (`worker.cpp:459`
says not); `wait()` iterates over `g_workers` without the lock (`worker.cpp:23`
says the lock protects all globals); `me()` is the thread id outside skal
(`msg.hpp:77` says the sender is then empty); the
parser leaves miniblobs empty (`msg.cpp:143`: memory is reserved, and the size
stays 0, so `Expected`, what `MadeFaithfully` compares with, has them empty,
while `test-msg.cpp:79` compares with a miniblob it has moved from); `url_t` skips two characters after a single slash, so that `"a:/"`
throws `out_of_range` (`util.hpp:22` says `bad_url`), and a call that throws may
leave another `scheme_` behind.

## Proofs

All theorems hold for every value of the constants that satisfies the
assumptions stated in the modules.

### Workers

`WorkerProofs` proves, for any sets of workers, groups and threads, any
thresholds and any scripts that satisfy the assumptions of `WorkerState`:

| Theorem | States |
|---|---|
| `LifecycleInvariance` | `Spec => []LifecycleInv` |
| `TypeCorrectness` | `Spec => []TypeOK` |
| `ConstructionSafety` | `Spec => []ConstructedBeforeRun` |
| `JoinSafety` | `Spec => []JoinNeverBlocks` |
| `EraseSafety` | `Spec => []NoUseAfterErase` |
| `ReapSafety` | `Spec => []ReapSignalled` |
| `WaitJoinsAll` | `Spec => AllThreadsJoined` |
| `OutsideWaitSafety` | `OnlyMainStarts => (Spec => []NoRunOutsideWait)` |

The inductive invariant is `LifecycleInv == TypeOK /\ InsideCalls /\
RegisterInv`, checked by TLC in run `lifecycle`.

* `InsideCalls` says where threads can be and what they have at hand there: a
  thread inside `post()` has a message, and knows where it returns to.  Without
  it the iterators of `post()` could be anything.
* `MutexHeld` ties `g_mutex` to the thread whose critical section is open; so
  when the lock is free no worker is under construction (`OneConstruction`),
  and a thread past its first lock is registered (`ConstructedBeforeRun`).
* `EndedOnly` says that `g_terminated_workers` names threads that are past
  their last statement or about to release the lock, each once.  While `wait()`
  holds the lock none is about to, hence `JoinNeverBlocks`; and erasing one of
  them concerns no thread that is inside `post()`, hence `NoUseAfterErase`.
* `ReapSignalled` needs the number of counts only to be positive: a thread
  between its two last statements, a count, or `wait()` on its way.

Most actions concern one thread that neither takes nor releases the lock;
`CalmStep` and `RunStep` say once what those preserve.  `ConstructStep`,
`EmplaceStep`, `SendStep` and `WaitStep` do the same for the others, and each
action has one lemma.

`OutsideWaitSafety` is about the applications that are `OnlyMainStarts`: nobody
calls `terminate()`, and the threads outside skal other than the one that calls
`wait()` neither call `create()` nor send `skal-subscribe`, which creates a
group.  Workers may do both.  The code needs the hypothesis.  Once `g_state` is
"terminating" a new thread passes its first test and does not wait for the green
light, so after `terminate()` workers run before `wait()` is called; and `wait()`
looks at the register under the lock but resets `g_state` after it released
it, so a worker that another thread registers in between sees "running" and
runs on when `wait()` has returned.  The inductive invariant is `OutsideWaitInv`,
next to `LifecycleInv`: outside `wait()` every worker thread is at its first
lock or at its semaphore, the semaphore has no count and `g_state` is
"initialising"; a name that is not registered has no count either, so erasing
and creating a worker again leaves no green light behind; and when `wait()` is
about to return, no worker is left and no other thread is about to make one.

### Flow control

`WorkerFlowProofs` proves, under the same assumptions:

| Theorem | States |
|---|---|
| `ThrottleSafety` | `Spec => []ThrottleAlternates` |
| `PauseSafety` | `Spec => PausedOnlyInternal` |

The inductive invariant is `FlowInv`, next to `LifecycleInv`.  A worker about to
pop any message has an empty `xoff_` (only the top of the loop leads there, and
nobody but the worker changes its `xoff_`); the internal list of a queue holds
internal messages only, so that what `pop(true)` returns is internal; the
notifications in it alternate and the last one agrees with `throttled`; and
nobody sends one (`NoneSent`), without which a message from outside could break
the alternation.  `SameFlow` says what most actions do to a worker at most: they
add one internal message that is no notification.  The other three have lemmas
of their own: the top of the loop (`NotifyAlternates`: a notification is added
exactly when `throttled` changes), `pop()` (`TailAlternates`) and the erasure.

### Groups

`WorkerGroupProofs` proves, under the same assumptions:

| Theorem | States |
|---|---|
| `GroupInvariance` | `OrderlySubscriptions => (Spec => []GroupInv)` |
| `SubscriberSafety` | `OrderlySubscriptions => (Spec => []NoDeadSubscriber)` |

`OrderlySubscriptions` says that workers subscribe and unsubscribe with messages
that are not urgent, and do not subscribe in answer to `skal-exit`.  The code
needs it: an urgent `skal-unsubscribe` overtakes the `skal-subscribe` sent
before it, which then subscribes a worker that has no record of it any more; and
what is sent in answer to `skal-exit` comes after the unsubscriptions of
`run()`.

`NoDeadSubscriber` is far from inductive: a subscription is recorded by the
worker in `post()`, carried by a message, entered by the group, and
taken back by messages made from the record when the worker ends.  `GroupInv`
says for each group, worker and filter what the group has now, or will have
when it has handled the messages on their way (`Pending`, which looks for the
last word in the queue and in the hand of the group), and that the worker then
has the subscription on record, or is about to send the message that takes it
back (`Covered`).  It needs to know that subscriptions are handled in the order
in which they are sent: no thread sends one in the name of a worker but that
worker, or ahead of its turn (`SendsInOrder`), so that all are in the regular
list of the group's queue (`GroupOk`); that `post()` has recorded what it pushes
(`RecordedFirst`); and that a name which is not registered has no object
(`NoObject`), so that a life begins without subscriptions.

### Blobs

`BlobProofs` proves, for any processes, proxies, areas and names:

| Theorem | States, if `Careful` |
|---|---|
| `CounterCorrect` | `BlobSpec => []CounterAgrees` |
| `BlobAliveCorrect` | `BlobSpec => []BlobAlive` |
| `OneMappingCorrect` | `BlobSpec => []OneMapping` |
| `NoLeakCorrect` | `BlobSpec => []NoLeak` |
| `NoPanicCorrect` | `BlobSpec => []NoPanic` |
| `RemovesOwnBlobCorrect` | `BlobSpec => RemovesOwnBlob` |
| `RefinesAbstractBlob` | `BlobSpec => ImplementsAbstractBlob` |

`Careful` is the condition on the application that run `doc_blob_open` shows to
be needed: a blob keeps a reference while somebody opens it.  `BlobInv` is the
inductive invariant: the types, what a proxy has at each place of its code
(`ProxyOK`), that the one which creates or destroys a blob is alone with it
(`Alone`), that a name is that of the object it leads to (`Named`), that what is
being opened is referenced (`OpenedAlive`, where `Careful` is used), and that
each pending `unref()` has a reference to give back (`Spared`); and then
`CounterAgrees`, `BlobAlive` and `NoLeak` themselves.  Most actions leave the
life of every area alone and only move one proxy; the others say what one area
gains or loses (`Gains`, `Vanishes` and so on).  What is known of cardinalities
is `Counting`, which follows from the set of proxies being finite.
The refinement maps an area to a reference count and a stage; each action is one
step of `AbstractBlob` for one area or a stutter.

### Queue

`QueueProofs` proves, for any producers, messages and number of pushes:

| Theorem | States |
|---|---|
| `TypeCorrectness` | `Spec => []TypeOK` |
| `WakeupSafety` | `Spec => []NoLostWakeup` |
| `ReturnSafety` | `Spec => PopReturnsMessage` |
| `Refinement` | `Spec => ImplementsAbstractQueue` |

`TypeOK` says also that each list holds messages of its class, and that the
mutex belongs to the thread that is between lock and unlock; with it
`NoLostWakeup` is inductive.  The refinement rests on `TypeOK /\ InOrder`: each
list is in the order of arrival, so the front of the first list that is not
empty is the message that the abstract queue picks, the oldest of the highest
priority.  Elements of the lists are mapped to the set of messages waiting.

### Semaphore

| Theorem | States |
|---|---|
| `TypeCorrectness` | `SemSpec => []SemTypeOK` |
| `PostSafety` | `SemSpec => []NoPostLost` |
| `Refinement` | `SemSpec => ImplementsAbstractSemaphore` |

`NoPostLost` counts threads, so each kind of step has a lemma on the cardinality
of `Notified`: `Post` adds one while somebody sleeps, a take removes at most one
with the count it takes, and a timeout moves one to `wasted`.

### Messages and the log

`ValueProofs` proves, for any objects in any processes, any names, alarms,
fields and blobs, and any numbers of steps:

| Theorem | States |
|---|---|
| `MessageInvariance` | `MsgSpec => []MessageInv` |
| `ReferenceSafety` | `MsgSpec => []RefsAgree` |
| `NameSafety` | `MsgSpec => []NamesAreFull` |
| `FaithfulMaking` | `MsgSpec => MadeFaithfully` |
| `StampSafety` | `LogSpec => []StampsFollowTheOutput` |

They assume `ProperConstants`: objects and blob fields are finitely many, the
names the application gives are sequences, its flags and times to live integers,
and `Foreign` data is of another version or lacks fields.  `MessageInv` has three parts.  `ObjectsOK`: messages are
made of full names, of a sequence of alarms and of maps, and an object under
construction is what is expected of it (`Expected`) but for its blobs, of which
those that are open and those in `todo` are together the expected ones
(`BeingMade`); without it a constructor that returns could have anything.
`WireOK`: what was serialised is the encoding of a known message.  `BlobsOK`:
`RefsAgree`, and a blob that is not alive has no references, so that a new blob
under an old id has the creator's proxy only.  The steps rest on three facts
about the data: a full name stays as it is in whatever domain (`NamesFacts`), a
map is read back from its entries (`PairsFacts`, `DecodedFacts`), and a change
of one proxy of one message changes the number of proxies of a blob by one at
most (`ProxyCount`, `PlaceStep`).

`StampInv` of `Log` says that the clock is not behind any stamp, and that a
stamped record is no older than the lines that were on stderr at its test.

### Calendar

| Theorem | States |
|---|---|
| `DayRoundTrip` | `ToDays(FromDays(z)) = z` for every day `z` of the 162 eras of 400 years about March of year 0 |
| `DatesAreValid` | `FromDays(z)` is a date of the calendar |
| `DateRoundTrip` | `FromDays(ToDays(ymd)) = ymd` for every valid date of these eras |
| `ClockDaysReadBack` | `Spec => []DaysReadBack` |
| `NextDate` | `FromDays(z + 1)` is the successor of `FromDays(z)` and later |
| `NextWeekdayFollows` | the weekday of `z + 1` is the one after that of `z` |
| `DaysFollow` | `Spec => NextDayFollows` |
| `ClockFieldsAgree` | `Spec => []ClockAgrees` |

The years of `date.h` are shorts, hence the range.  The argument follows the
code: a day is an era and a day of it, that day is a year of the era and a day
of the year, and that one is a month counted from March and a day of it.  Each
of the three divisions has a lemma on the remainder it leaves, linear once the
century and the four years the day is in are named.  `NextDate` goes the other
way: the successor of a date is valid and `ToDays` puts it one day later, and
since the conversion is one to one it is the date of the next day.  `DaysFollow`
adds that a step of the clock passes midnight at most once.

### Only model-checked

* Liveness, which is out of the prover's reach: `WaitReturns`,
  `WaitReturnsOnceStarted`, `TerminateShutsDown`, `PopReturns`, `CountIsTaken`
  and `TimedTakeReturns`.
* What is read or written character by character: `UrlReadsBack`,
  `TextReadsBack` and `StampsSort`.
* `CalendarAdds`, a conjunction over all the calendar types.

## Not modelled

* `safe_mutex::try_lock()`, which skal does not call.
* `start_with()` and the setting of the domain, which happens before there are
  workers.
* The registry of allocators, which is filled before `main()`.
* Of a message the time stamp apart from the action, and the bytes of protobuf.
* Of the log the text of a line but for its time stamp.
* Of `date.h` the conversions made by the standard library's locale (%a %b %c %p
  %r %x %X, and those with E or O but %Ez), %I when reading, explicit widths in a
  format, the operators that only forward to another or print, and the types
  that are pairs without arithmetic (`month_day`, `month_weekday` and so on).
* Configuration and errors: constants, exception types, the assertion macro.
* Networking: not implemented in the code.
* The NUMA parameter, which the code ignores; the duration `run()` measures and
  does not use.
* A bound on the length of a queue: xoff is advice, and the code promises none.

## Further work

A proof of `CalendarAdds` of `Dates`, type by type, and of `UrlReadsBack` of
`Url`; a statement of what a serialised miniblob should be, to hold the parser
against.
