# squiz in TLA+

squiz is a C++ library of asynchronous senders: operations that are connected to
a receiver, started, asked to stop at most once, and that complete exactly once.
Much of it is small lock-free protocols, in which a few flags in one atomic word
decide which of several threads delivers the result, destroys the state or
forwards a stop-request. These modules model those protocols, TLC checks them on
small instances, and TLAPS proves their safety properties for all instances.

Paths below are relative to the repository; `include/` stands for
`include/squiz/`. `PROJECT.json` maps every definition to the lines it models.

## The system

### The contract between operations

`include/operation_state.hpp:16-19`: `request_stop()` is called at most once,
after `start()` was called, and before the operation is destroyed; it may come
from another thread and while `start()` is running. A receiver is completed
exactly once, and may destroy the operation there and then. So whatever an
operation does after it has called its receiver, it does to memory that may be
gone. Every parent in the library has to keep this contract towards its
children, and is used by a parent that keeps it. That is why the same three
properties come back in most modules: the result is delivered once and by the
last thread inside (`CompletesLast`, `DeliversLast`), the children are stopped
as the contract allows (`StopCallsAreLegal`, `StopFindsTheChild`; that a request
which the parent forwards, or `when_all`'s `start()` makes, finds the operation
there is left to the parent), and a stop-request ends the operation (`StopCompletes`).

### Components

| Component | State it keeps | Operations | What is hard | What makes it correct |
|---|---|---|---|---|
| `counting_scope.hpp`, the scope | one word: reference count and closed flag; `join_op_` | try to get a reference, copy, drop, close, join, destroy | all of them on different threads; the last drop runs a join that was stored by another | the count is that of references in existence; the join runs once, after all work; nobody is inside a destroyed scope |
| nest, spawn | a reference, a child, allocated memory | connect, start, complete, throw on the way | the order of completing, freeing and dropping the reference | references are carried by work; memory has one owner; the join outlasts both (where nothing throws) |
| spawn_future | a word of flags, the receiver, the result | child completes, future started, dropped or stopped | each of these races with each other one | one owner that frees the state, one completion, no access after either |
| `stop_when`, `when_all`, `first_successful` | a word: flags and a count; results | start, a child completes, stop | children complete inside `start()`; the first failure or success stops the rest while a parent stops all | above, and: the result is whole, is the first success, comes with every child's part |
| `when_all` of children that always succeed | a count; values | the same, without a failure | the last child may complete inside `start()`, and the operation be gone before it returns | the values of all, once |
| `let_value` | five flags; source or body in the same storage | start, the source is replaced by the body, stop | a stop-request while the child is being replaced | it reaches the child that is alive |
| `statement` | two flags; a copied result | the child completes, stop, destroy | the child is destroyed before its result is delivered, perhaps with a stop-request inside it | destroyed once, by whoever leaves it last; the result outlives it |
| `variant_sender`, `cond` | raw storage and the index of what is in it | construct, move, connect, start, stop, destroy | an index of the smallest type, and dispatch by nested switches | the index names the object, for any number of types |
| completion signatures | what each sender declares | composition of all senders | declared apart from what the operation delivers, and for the right environment | whatever is delivered or stored was declared |
| `manual_event_loop` | mutex, condition variable, intrusive list | run, schedule, stop an item, stop run | lost wake-ups; an item removed while dequeued | FIFO; no thread sleeps over work |
| `single_inplace_stop_token`, `stop_token_sender` | one pointer with three special values; three flags | register, deregister, request stop | a callback that deregisters itself, or is deregistered by another thread while it runs | the callback is out of the source before the operation goes; nobody waits for himself |
| `sync_wait` | a stop source, the operation and the loop, in one frame | complete, wake the loop, return | the frame is left by the thread it wakes | it returns, and nobody is left in the frame |
| `detail/atomic_intrusive_queue.hpp` | one pointer, or the mark *inactive* | enqueue, enqueue or become consumer, dequeue all, mark inactive | the same items come back; the consumer goes to sleep | nothing lost, order kept, one consumer |
| `linux/iouring_context.cpp`, the loop | ready queue, two remote queues, eventfd, read outstanding | run, schedule here or remotely, wake up, destroy | going to sleep takes three steps on two queues and the kernel | no sleep over work; no read outlives the context |
| timer operations | flags, two unions of function pointers, membership in queues | start, elapse, stop, on either thread | the stop item overtakes the start item | completes once and last; the pointers suit the queue |
| `detail/intrusive_list.hpp`, `bitset.hpp` | pointers both ways; chunks of bits | insert, remove, join; find the first bit | ends that may be empty; a last chunk partly used | the pointers are one sequence; the bit is the first |
| I/O operations | the same, and entries in the ring | start, complete, stop, cancel, wait for an entry | completion, cancellation and lack of space in any order | the kernel's result is the operation's; an open file has one owner |
| `detail/binned_time_priority_queue.hpp` | bins, a bitset, the active time | add, remove, dequeue due, bound, reindex | bins are relative to an active time that moves | the earliest first; the bound is sound |
| timestamps and `monotonic_clock` | base, last second, reindex timer; seconds and nanoseconds | convert, move the base, arithmetic | saturation; values that outlive the base they count from | no timer early, none slept over |
| `linux/io_uring.cpp` | heads and tails of two shared rings | prepare, enqueue, submit, wait, look at and give back completions | wrap-around; the kernel takes part of what it is told to; system calls that are left out, by the flags of the setup | it reads what was enqueued, once and in order, and nothing waits for a call that is never made |
| setting up a ring, `mmap_region`, `file_handle` | a descriptor and mappings, each in an owner | set up, move, assign, release, destroy | any of the calls fails on the way | released once, and not before |

How they interact: parents call `start()` and `request_stop()` of children and
are called back through receivers; `stop_token_sender`, `sync_wait` and both
loops use stop callbacks; the I/O context shares two `atomic_intrusive_queue`s
with other threads and the two rings with the kernel; its timers are in a
`binned_time_priority_queue` by timestamps that depend on the timer base. All of
the library's shared state is in those places; the remaining headers compute
types, keep storage for one thread at a time, or forward calls.

Two kinds of hard behaviour do not occur: nothing is persistent, so there is no
crash recovery, and there is no network.

## The modules

| Module | Models | Runs |
|---|---|---|
| `Scope` | what a counting scope promises: admitted work, closed, joined | `scope` |
| `CountingScope` | the word and its users; implements `Scope` | `scope` |
| `ScopeWork` | nest, spawn and senders, composed with `CountingScope`; beside them the scope by itself, and a future | `scope`, `scope_spawn_throws` |
| `ScopeFuture` | spawn_future's shared state, its future and operation | `scope` |
| `ScopeProofs` | theorems about the scope, the work and the future | - |
| `StopWhen` | stop_when | `operations` |
| `WhenAll` | when_all | `operations` |
| `FirstSuccessful` | first_successful | `operations` |
| `LetValue` | let_value | `operations` |
| `WhenAllSucceeds` | when_all of children that only succeed | `operations` |
| `Statement` | statement_sender's operation | `operations` |
| `VariantSender` | variant_sender, variant_op, cond and dispatch_index | `operations` |
| `SenderSignatures` | what senders declare, deliver and store | `operations` |
| `StopSource` | single_inplace_stop_source | through the next one and `SyncWait` |
| `StopTokenOp` | stop_token_sender's operation, on a `StopSource` | `operations` |
| `MCOperations` | the nine above side by side: a behaviour is one of them | `operations` |
| `MCOperationsProofs` | theorems about seven of them, through `MCOperations` | - |
| `EventLoop` | what an event loop promises | `loop_and_wait` |
| `ManualEventLoop` | manual_event_loop, link by link; implements `EventLoop` | `loop_and_wait` |
| `SyncWait` | sync_wait, on a `StopSource` and a `ManualEventLoop` | `loop_and_wait` |
| `MCLoopAndWait` | the two above side by side | `loop_and_wait` |
| `MCLoopAndWaitProofs` | theorems about both | - |
| `RemoteQueue` | what a remote queue promises | `atomic_queue` |
| `AtomicQueue` | atomic_intrusive_queue; implements `RemoteQueue` | `atomic_queue` |
| `AtomicQueueProofs` | theorems about `AtomicQueue` | - |
| `IoContext` | the I/O loop with both remote queues | `io_context` |
| `IoContextProofs` | theorems about `IoContext` | - |
| `TimerOp` | schedule_at and schedule_after operations that can be stopped | `io_operations`, `timer_stop_strays` |
| `IoOp` | iouring_operation that can be stopped | `io_operations` |
| `PlainOps` | schedule, schedule_at and iouring_operation that cannot | `io_operations` |
| `FileHandles` | who owns the files that openat and close open and close | `io_operations` |
| `MCIoOperations` | the four above side by side | `io_operations` |
| `MCIoOperationsProofs` | theorems about all four | - |
| `BinnedTimeQueue` | binned_time_priority_queue | `timers`, `timer_queue_early`, `timer_queue_wide` |
| `TimerBase` | timestamps, the reindex timer and the loop over due timers | `timers` |
| `MonotonicClock` | arithmetic of time points | `timers` |
| `ItemLists` | what an intrusive list promises | `timers` |
| `IntrusiveList` | intrusive_list, link by link; implements `ItemLists` | `timers` |
| `Bitset` | bitset, by chunks | `timers` |
| `MCTimers` | the five above side by side | `timers` |
| `MCTimersProofs` | theorems about the clock, the timestamps, the bitset, the lists and the timer queue, through `MCTimers` | - |
| `IoRing` | both rings, by the flags of the setup | `io_context` |
| `RingSetup` | the constructors of io_uring and iouring_context, moving and destroying | `io_context`, `ring_setup_fails` |
| `MCIoContext` | `IoContext`, `IoRing` and `RingSetup` side by side | `io_context` |
| `IoRingProofs` | theorems about `IoRing` and `RingSetup` | - |

The five `MC` modules that put components side by side (`MCOperations`,
`MCLoopAndWait`, `MCIoOperations`, `MCTimers`, `MCIoContext`) choose one `kind` in
`Init` and leave the variables of the others alone: the components do not
interact there, the same questions are asked of each (`CompletesLast`,
`StopCallsAreLegal`, `StopCompletes`, ...), and their state spaces add up and do
not multiply. (`ScopeWork` does the same with its `part`.) Components that do interact are composed by the module of the one
that uses the other: `ScopeWork` on `CountingScope`, `SyncWait` on `StopSource`
and `ManualEventLoop`, `StopTokenOp` on `StopSource`. Every module has a `TypeOk`
of its own. Those of the modules with a theorem are proved, as conjuncts of their
inductive invariants or in a stronger form; those of `VariantSender`,
`SenderSignatures` and the other parts of `MCTimers` hold on the instances of their
runs (add `INVARIANT TypeOk` to the cfg to see it).

### How state and actions correspond to the code

- An atomic word with flags is a set of flags, with a count beside it where the
  code keeps one. In `CountingScope` it is the number that the code has, because
  the arithmetic on it (the closed flag in the low bit, `< 2 * increment` for
  "the last") is what could be wrong.
- Each access to an atomic, each critical section of a mutex and each system
  call is one step. What a thread does between two of them and nobody else
  can see belongs to the step before. A call into a child or a receiver is a
  step of its own where the callee can act before the caller goes on.
- A thread is a `pc` that says where in a handler it is. Children and receivers
  are environment: a child may complete inside `start()`, later on another
  thread, or never, unless it was asked to stop.
- What was destroyed or freed remains as a fact (`destroyed`, `freed`,
  `completed`), and the safety properties say that no thread is at a `pc` that
  would touch it.
- Payloads are gone: a result is a value, an error or *stopped*, from a named
  child. A time is a small number.
- `SenderSignatures` is not about a run of the program but about its types: a
  state is one composition of senders, with the completions each declares and
  delivers in an environment with and without stop-requests, and a step
  composes one more.
- Variables marked *history* are not in the code; properties speak of them.
- The definitions marked *Mutant* stand before the definition that they vary and
  are used by nothing in the module. Each is a way in which the code could be
  wrong, and each makes TLC find one of the properties violated.

All models interleave steps: memory is sequentially consistent. Whether an
access has a strong enough order is outside of their reach; the places where
that is not obvious are listed as a hazard (`when_all.hpp:129`,
`let_value.hpp:278`, `statement.hpp:94`).

## The runs

| Run | What it shows |
|---|---|
| `scope` | the join runs once and last (`JoinRunsLast`); the count is exact and nobody is in a destroyed scope (`IInv`); the word implements `Scope`, whose join completes once the scope is closed and the work has ended (`ImplementsScope`). Of the work: references are carried by the work they protect (`RefsAreCarried`), the join outlasts the work and, but for that of a `spawn()` that throws, its memory (`JoinWaitsForWork`), memory has one owner (`MemoryIsOwned`). Of a future: one completion, one owner that frees the state, no access afterwards (`NoUseAfterEnd`); the assertions of the code (`AssertionsHold`); a stop-request completes the operation at once, a dropped future stops its child (`StopTakesEffect`); nothing is left behind (`EverythingEnds`) |
| `operations` | one completion, last, with the right result (`CompletesLast`, `ResultIsRight`); children are stopped at most once, after their `start()` returned, and, but by the parent's own request and `when_all`'s `start()`, before the operation completes (`StopCallsAreLegal`); what decides the result, or a stop-request, ends the operation (`FirstDecides`, `StopCompletes`); a sender declares what is delivered (`DeliversDeclared`); the index of a variant names its object (`IndexNamesTheObject`) |
| `loop_and_wait` | the pointers are one FIFO queue without what has completed (`PointersFit`, `ImplementsEventLoop`); no wake-up is lost (`StartedCompletes`); `run()` and `sync_wait()` return (`CallsReturn`), and nobody is left in the frame (`FrameIsFree`) |
| `atomic_queue` | one consumer; nothing lost, duplicated or out of order; what was enqueued is run |
| `io_context` | the loop does not sleep over work (`NoWakeUpIsLost`), no read outlives the context (`NoReadOutlives`), scheduled items run, `run()` and the destructor return (`NothingWaitsForever`). Of the rings, until an index is stored past their mapping: the kernel reads what was enqueued, once, in order and whole, and writes to nothing that is still being read (`RingsAgree`); whatever is enqueued completes and is seen, however the ring was set up (`EnqueuedIsHandled`). What a ring holds is released once (`ReleasedOnce`) |
| `io_operations` | function pointers suit the queues that hold the operation; completion is last; what the kernel did is what is delivered, and a file it opened has one owner (`ResultsAreKept`); operations end (`OperationsComplete`). Of the timers all of it until one is removed from the timer queue that has left it |
| `timers` | the queue gives the earliest timer first and a bound to sleep by, over bitsets whose scan finds the first bit (`DequeuesEarliest`); no timer is slept over, runs early or overtakes (`TimersAreOnTime`), and none is left behind (`DueIsRun`); sums exact or saturated, until a part of a second is subtracted or a carry wraps (`CountsExactly`); the lists are sequences (`ImplementsList`) |
| `scope_spawn_throws`, `timer_stop_strays`, `timer_queue_early`, `timer_queue_wide`, `ring_setup_fails` | violated: see below |

The bounds, and why they are enough:

- **Scope**: three references and two copies, so that a get, a copy, a last
  drop, a close and a join can all be under way at once. The theorems remove
  the bound.
- **Work on a scope**: two pieces of work, of which the second may be from a copy
  of the first one's sender, while the owner closes, joins and destroys. Each may
  be nested or spawned, and of a spawn the allocation or the connect may throw.
- **Future**: one child, one future, one stop-request: that is all there can be.
  Both kinds of child and of receiver are initial states.
- **stop_when, let_value, stop_token_sender**: the numbers of threads are those
  of the code, so there is no bound. The stop source has two callers of
  `request_stop()`, of which the second must find nothing to do.
- **when_all, first_successful**: three children, so that one can fail, one race
  with it, and one still have to be stopped; every order in which `start()`
  reaches them. `nothrow` says which children of first_successful have values
  that cannot throw when they are moved: none, two of three, or all.
- **statement**: one child and one stop-request; the three properties of the
  child that the code has branches for are initial states.
- **Variants**: six types, one of them twice; switches of four cases, so that two
  are nested; an index whose largest value is just needed.
- **Signatures**: two compositions deep, up to two values in a result; one type
  whose move may throw, and others.
- **Event loop**: two threads in `run()`, of which one may be stopped, and three
  items: one taken, one removed from between two others, one left over.
- **sync_wait**: one call and one other thread; the sender completes in place,
  there, or on the loop.
- **Queue**: three threads that enqueue and consume in turn and three items that
  come back at once, which is what a wrong compare-and-swap would confuse.
- **I/O loop**: two operations and one stop item, any number of runs, and
  `BatchLimit` 1 for the 100 of the code, so that the limit is met. Each
  remote thread schedules one item at a time.
- **Timer and I/O operations**: two of a sort, each started and stopped on either
  thread; a ring of one entry, so that both an operation and its cancellation
  have to wait for room.
- **Files**: three files on two descriptors, so that a number comes back while
  its first owner may still hold it.
- **Timer queue**: base 4 and four digits for 256 and six; three items, due at
  four times that differ in each of the digits, one of them in the highest, as the
  reindex timer that the context keeps years ahead is; one shift of the origin.
  `SignMajor` is the digit that reaches the sign bit of an `int` (the fourth of
  the code's six, here the third). The times that the queue is *asked* about in
  the passing run are below the digit after it, as the context's are for 2^32
  microseconds, 72 minutes, from its timer base on; what happens after that is
  `timer_queue_wide`. `MayMoveUp` lets items be added that are due before the
  active time, as `timer_queue_early` does.
- **Timer base**: two timers; a second of four nanoseconds, timestamps of two
  nanoseconds that last for seven seconds, due times before the base, near it and
  past the last timestamp; each timer runs once; the clock ends after eleven
  seconds, past the end of the first timestamps.
- **Clock**: seconds in four bits, four nanoseconds in each; durations of both
  signs, of whole seconds and of parts of one, past both ends.
- **Lists**: three items in two lists, so that one is removed from between two
  and each end of a joint may be empty.
- **Bitset**: chunks of three bits; none, part of one, two whole, two and a part.
- **Rings**: two requests, of which one sets fields that the other leaves zero, a
  submission ring of two entries, and a completion ring of one with a backlog.
  Six entries are enqueued until an index is past the mapping, which is three
  rounds of the ring (some thousand entries in the code, as a mapping is whole
  pages). The counters, here modulo eight, do not get as far as to wrap; in the
  theorems they may, as the size of the mapping is a parameter there. Six kinds of setup, each with
  its own rule for when the kernel posts completions.
- **Setting up**: every combination of five arguments that the constructor's
  assertions allow; in `io_context` the failures that the code notices, in
  `ring_setup_fails` all.

`CHECK_DEADLOCK FALSE` is set where the program really stops: when the operation
has completed, the scope or the ring is destroyed, or `run()` has returned for
good. The remote queue, the event loop's runners and the timers go on for ever and
are checked for deadlock.

### Fairness

Threads that are inside a handler go on (weak fairness of each thread's steps):
the operating system schedules them, and no handler loops on an atomic without
somebody else having made progress. A child that was asked to stop completes;
one that was not may run for ever. Where a promise needs more than that, the
property says so: `EverythingEnds` of `ScopeFuture` assumes that the spawned
operation completes and that the future is used or dropped.

Strong fairness is used where the I/O thread or a condition variable serves
several things in turn and an action is enabled time and again rather than
always: taking from a queue that producers change
(`TimerOp`, `IoOp`, `SyncWait`), a mutex that several threads take in turn
(`ManualEventLoop`), and the system call in `IoRing`, which may return early any
number of times but not for ever without taking anything. The I/O loop calls
`submit_and_wait` and its relatives whenever it has nothing to do
(`iouring_context.cpp:274-331`), which is why `IoRing` is fair to that call while
something is in flight, and to `submit()` and `get_events()` not at all.
`MCLoopAndWait` and `MCTimers` make the fairness of a loop depend on its `kind`:
where there is no loop nobody calls `run()`.
Starting, stopping, scheduling and closing are up to the user and have no
fairness. In `TimerBase` the clock moves on until its bound.

## Where the code does not do what it says

Five disagreements have a run. `scope_spawn_throws`, at `counting_scope.hpp:470`:
`spawn()` allocates memory and hands the reference by value to a constructor that
connects the source. If that throws, the reference goes with the parameter, before
the `unique_ptr` of the caller gives the memory back; as the last one it runs the
join, which by `counting_scope.hpp:258-259` completes after "any allocation" was
released. `spawn_future()` does the same at line 600. In the passing run
`JoinWaitsForWork` has this one exception, of memory whose spawn is *throwing*;
`MemoryIsOwned` has none.

`timer_stop_strays`, at `iouring_context.hpp:641`: a remote `request_stop()` sets
its flag, and the timer elapses before it writes `execute_stop`. The I/O thread
leaves the completion to the stop item, by writing `on_stop_after_complete` there,
and `request_stop()` overwrites it: the stop item removes the operation from the
timer queue, which it has left. `intrusive_list::remove()` goes by the links that
the operation left with: a bin can lose all the timers in it, or those before the
item that is linked next, which may have completed and be gone. `TimerOp` has it as
`RemoveStray`, with every loss and every link that is possible; what it claims of
timers in the run `io_operations` it claims until then (`strayed`).

`timer_queue_early`, at
`binned_time_priority_queue.hpp:637`: when an item is due before the active time,
the items of the lower bins are moved to a bin that is not marked as nonempty, and
are not found again. The passing run leaves such items out (`MayMoveUp`).

`timer_queue_wide`, at `binned_time_priority_queue.hpp:763`: the time of the bin
that items were moved down to is computed with a shift of an `int`. In the digit
that has the sign bit, an index from 128 on becomes negative, and the time 2^32
too small (above that digit the shift is undefined). So the loop goes on although
the bin's time has not come, `active_time_` goes past the current time, and an item
can come to rest in a bin where `remove()` does not look for it. The run finds
this with one item and two calls; it takes a program that runs for more
than 2^32 microseconds, 72 minutes. In the passing run items may be due at any time,
but the queue is asked about times below that (`QueueAssumption` of `MCTimers`).

`ring_setup_fails`, at `io_uring.cpp:172`: the constructor of `io_uring` compares
the result of `syscalls::io_uring_setup()` with -1, which is a negated errno, and
the results of `mmap()` with `nullptr`, which is `MAP_FAILED`. So it takes almost
every failure for a success, and reads the masks of the rings from mappings that
are not there, where `io_uring.hpp:34-35` promises an exception. The run
`io_context` has the failures that are noticed, after which `ReleasedOnce` holds.

The others were met on the way to a model that passes. Each is in the model as the
code has it, and the property that would fail says what it leaves out.

1. `stop_when.hpp:126`: `request_stop()` asserts that `children_started_flag` is
   set, which the early returns of `start()` for children that complete
   synchronously never do. The code below the assertion copes; the model does
   not evaluate it.
2. `when_all.hpp:136`: `start()` forwards a failure to the children after the
   word says that it is done, so that the last child can complete the operation
   in between, and its parent destroy it: the children that are asked to stop may
   be gone. `DeliversLast` speaks of the children's threads only, and
   `StopCallsAreLegal` says of `start()`'s requests that there is one per child
   and that it comes after the child was started, not that the child is there.
3. `first_successful.hpp:334`: a success whose value may throw when it is moved
   does not stop the other children. `SuccessStopsTheRest` is about
   children none of whose values can throw (`nothrow`).
4. `iouring_context.cpp:467`: nothing calls `execute_pending_sqe_submission_tasks()`,
   so that operations which wait for room in the submission queue wait for ever.
   `IoOp!StopCompletes` leaves them out.
5. `io_uring.cpp:359`: the index of an entry is written at an unmasked position,
   past the array from the second round on, and past the mapping after as many
   entries as fit in it: a fault, or a write to other memory. Every index inside the
   array was written in the first round, with the value it should have, which is
   why the rings work until then. The model stops there (`EnqueueOutside`), and
   `RingsAgree` and `EnqueuedIsHandled` say nothing of what follows (`outside`).
6. `iouring_context.cpp:216-226`: when the timer base moves, the loop over due
   timers goes on with a timestamp relative to the old base. It runs timers that
   are not due for years, and finds the reindex timer due for ever. It takes half
   of the range of timestamps, some years, to get there.
   `EarlyOnlyAfterReindex` names the exception, and what happens after the base
   has moved is explored only inside the loop that does not end. The timestamps
   also lose the order of timers that were due before the base, or at it, among
   themselves (`iouring_context.cpp:521-523`): `RunsInOrder` leaves them out.
7. `monotonic_clock.hpp:157-188`: subtracting a part of a second adds it. And a
   sum whose carry goes past the last second wraps if there is no whole second to
   add (line 122). The model does both; `CountsExactly` says what a time point is
   until one of them has happened (`lost`), and again from when it is made anew.
8. `when_all.hpp:458`: the operation completes with the exception of a value or
   an error that cannot be moved into its storage, and its storage has room for
   it, but the sender does not declare it, as `let_value` and `statement` do.
   `SenderSignatures!DeliversDeclared` leaves this one out, by name
   (`undeclared`), also in what is composed of such a `when_all`.
9. `io_uring.cpp:487`: `get_events()` does not look at `IORING_SQ_CQ_OVERFLOW`,
   as `submit()` does, so that in the plain setup it does not fetch the kernel's
   backlog. `EnqueuedIsHandled` relies on the waiting calls.
10. `intrusive_list.hpp:98`: `release()` leaves the tail where it is. Nothing calls
   it; it is not in the model.
11. `iouring_context.hpp:482`: the cancellable `schedule()` names
   `state_t::remotely_enqeued`, which does not exist.
12. `iouring_context.hpp:1365`: a close that is dropped before it reaches the kernel
   forgets its descriptor. `FilesHaveOneOwner` counts such files as `abandoned`.

## What is proved

Every safety property that a run checks is also proved, for every value of the
constants, but for those listed at the end of this section. Each proof has one
inductive invariant, which TLC checked before it was proved; its conjuncts are
named in the module, with a comment each. Per module there are an `Init` lemma,
one lemma or step for each action, and theorems that combine them.
The assumptions are the `ASSUME`s of the modelling modules, which say that sets
of objects are finite, that sizes are positive, and that names such as `Null` are
not those of objects; where a theorem has another, it is named below.

`ScopeProofs`, for every finite set of references and of work, and every bound
on copies (`RefsAssumption`, `MaxCopiesAssumption`):

| Theorem | Says |
|---|---|
| `InvariantHolds` | `IInv` is an invariant |
| `CountIsAlwaysExact` | the count in the word is the number of references that exist |
| `JoinAlwaysRunsLast` | the join runs at most once, and after all admitted work |
| `LastAlwaysFindsJoinOp` | whoever takes the count to zero finds `join_op_` |
| `DestructionIsSafe` | nobody accesses a destroyed scope, and the destructor's assertion holds |
| `AdmissionRespectsClose` | no step hands out a reference of a scope that is closed or joined |
| `ScopeIsImplemented` | `CountingScope` implements the safety part of `Scope` |
| `RefsAreAlwaysCarried`, `JoinAlwaysWaitsForWork`, `MemoryIsAlwaysOwned` | references are carried by the work they protect, the join waits for the work (and its memory, but for that of a spawn that throws), and memory has one owner |
| `NothingIsUsedAfterItsEnd`, `AssertionsAlwaysHold` | both invariants of the future |

The invariant `IInv` is the type invariant, `CountIsExact`, and three facts that
tie the count to the threads: the joiner holds the initial reference until it has
stored `join_op_`; a count of zero means that some thread is about to run the
join or has; and a destroyed scope has no thread inside. None of the
properties is inductive alone: that the last thread finds `join_op_` needs the
count to be exact *and* the joiner's reference to be in it until it has
stored. The proof has one lemma on the arithmetic of the word, three on how
the set of references grows and shrinks, and then one step per action of `Next`.
The refinement maps the word's closed flag and count to `Scope`'s sets, every
step to a step or a stutter. For the work, a step is a step of the scope or
leaves the scope alone, so that all of this holds of it too; the rest
(`WorkIInv`) says which states a reference can be in at each phase of its work, and that memory
exists from the allocation to its release on every path, also the throwing ones.

A future has no parameters, and its threads are those of the code: there the
theorems say what the run says. Its invariant is by the two flags that decide who
goes on. Without *waiting* there is no operation to complete, and the user detaches
or frees; with *detached*, `DetachedBy` says of the one who detached and of
the child which of them comes last, and that this one frees; with *waiting* alone,
the child's (or the user's) `set_result()` and the stop request race for the
operation (`Racing`) until the word says which of them completes it.

`AtomicQueueProofs`, for every set of threads and every finite set of items:
`TypesAreKept`, `ThereIsOneConsumer` (`OneConsumer`: a thread is inside a consumer's
method exactly if it is the consumer, and there is one exactly while the queue is
marked active) and `QueueIsAsPromised`, the refinement of `RemoteQueue`.
The first two need the types and that a thread inside `enqueue()` or
`enqueue_or_mark_active()` has an item to enqueue, without which the head need not
be an item after the push. For the third, the links from the head are at every
moment a list without repetitions (`StackIsList`), apart from the batch that was
dequeued and from the items that threads hold (`ItemsAreApart`). That an item which
is pushed is in none of those is what a compare-and-swap on a stale head would
break if items came back too early. The list is read from
the links by a recursive function; `ListFromIs` shows by induction that it gives
the one list there is.

`IoContextProofs`, for every set of operations and stop items and every batch limit
but zero (`BatchesRun`), of the behaviours of the run `io_context`:
`NoWakeUpIsEverLost`, `NoReadEverOutlives`, `DestructorIsAlwaysWoken` and
`TypesAreKept`. To the two properties the invariant adds what is true *between*
the three steps in which the loop goes to sleep: it marks the queues only without
a read outstanding (`MarksWithoutRead`), a stop request is either seen at the next
look or has its wake-up still to come (`StopIsSeen`), and it sleeps with its read
submitted and nothing ready (`SleepsOnRead`).

`MCOperationsProofs`, for every number of children: `CompletionAlwaysLast`,
`StopCallsAlwaysLegal` and `ResultAlwaysRight`, which are `CompletesLast`,
`StopCallsAreLegal` and `ResultIsRight` of the run, for `stop_when`, both
`when_all`s, `first_successful`, `let_value`, `statement` and `stop_token_sender`.
Each operation has an invariant of the same build: which places each thread can be
at; what the word's flags say about those places; for the operations with a
count, that it is the number of children that have not arrived, so that the one
who takes it to zero is the last; who delivers, and that he is alone; which result
is stored; and which thread has the duty to stop the children. The exception
that makes `first_successful` harder is in its invariant too: a last child that
delivers at once leaves the count at one. `StopCallsAlwaysLegal` is what
`StopCallsAreLegal` says and no more: at most one request per child, after its
`start()` returned, and, from every thread but the parent's and the one in
`when_all`'s `start()`, before the operation completes.

`MCIoOperationsProofs`, for every set of operations, every size of the submission
ring and every set of files and descriptors: `FunctionsAlwaysSuitQueues`,
`CompletionAlwaysLast` and `ResultsAreAlwaysKept`. Each operation's invariant
ties its flags to the one queue, ring or thread that holds it, and says what will
come for it (the completion, the stop item, both) and who ends it then. That of the
timers is for as long as none was removed from the timer queue that had left it:
every step from such a state keeps it or is the removal (`strayed`), and the
theorems claim nothing of timers after that (`timer_stop_strays`).
For the files, the descriptors of owners, of opens that are in flight and of closes
that are in flight are counted together.

`MCLoopAndWaitProofs`, for every set of threads in `run()` and every finite set of
items: `ThePointersFit`, `TheLoopIsAsPromised` (the refinement of `EventLoop`) and
`TheFrameIsFree`. The loop's invariant is that there is a sequence of items, without
repetitions, such that `head`, the *next* pointers along it, the last *next* and
the *previous* pointers are those of that sequence (`LoopPath`), that what is not
in it points to nothing of it, and that what was not started, is held by a thread or
has completed is not in it. Lemmas on appending to such a path and removing from
the middle of it serve all actions; `QueueIs` shows that following the pointers
yields it. For `sync_wait()` the invariant says who is bound to store the result,
which places inside `request_stop()` are possible then, and the state of the
stop source.

`IoRingProofs`, for every size of the rings and of the counters, every set
of requests and every kind of setup: `TheRingsAgree` (and
`TheRingsOfTheRunAgree`, the same of the behaviours of the run) and
`WhatIsHeldIsReleasedOnce`. Counters wrap, so the invariant speaks of positions as
places from the head: lemmas show that adding and taking the distance undo each
other modulo the counters, that places less than the size of a ring apart have
different slots, and that a slot stays that of its entry when the head moves.
With them, what is between head and tail is what was enqueued or completed,
and the index array is the identity wherever it was written. Both are until an index
is stored past the mapping, wherever that ends (`Mapped`). The assumption
`Noticed` of `WhatIsHeldIsReleasedOnce` is that no call fails whose failure the
constructor overlooks: with one, the property is false, see `ring_setup_fails`.
The invariant there says in which member each resource is, and that none is held
that the constructor has not come to.

`MCTimersProofs`, for every length of a second and of a granule, every range of
seconds and of timestamps, every set of timers and due times, every bitset,
every finite set of items in two lists, and every base and number of digits of the
times in the queue:

| Theorem | Says |
|---|---|
| `ClockCountsExactly` | a time point is what was added and subtracted, or the end of the range it went past, until a part of a second is subtracted or a carry wraps with no whole second to add (`CountsExactly`) |
| `TimersAreAlwaysOnTime` | the I/O thread sleeps over no timer, and none runs early or overtakes another (`TimersAreOnTime`), by the timestamps made of due times |
| `BitsetFindsFirst` | the scan finds the first bit that is one, in chunks of any size (`Bits!FindsFirst`) |
| `ListsAreAsPromised` | every step of the pointers is a step of `ItemLists`, or leaves the sequences as they are (`ImplementsList`) |
| `EarliestTimerIsDequeued` | whenever it is asked, the queue gives the timer that is due first, of several the one added first; every timer is in the bin where `remove()` looks, and the bound to sleep by is not after any (`DequeuesEarliest`) |

The clock's invariant is only its types and the property; the work is in `Carries`
(floor and carry give the same sum) and `Saturates` (a second past the range is an
instant past it, and nothing else is). Subtraction of whole seconds by their count of
parts is `PartIsSubtracted`. For the timers, `Granules` says that a
timestamp is the least number of granules that reaches the due time and `StampsGrow`
that the cut-offs at both ends keep the order; of the state the proof needs that the
base is behind the clock and that the thread's own timer comes before the timestamps
run out, so that no sleep is by the last timestamp (`TimersFit`, `CurrentFits`,
`ReindexBeforeLast`). `LoopAssumption` has what the code's constants have: a
granule is no longer than a second, and half of the range of timestamps reaches
past the seconds that the base is set back. For the bitset, `LeastNumber` gives a
least element to any set of naturals, from the well-foundedness of `<`. For the
lists, the invariant (`AreLists`) names the sequences: the pointers of each are a
chain both ways (`IsChain`), no item is twice in one (`IsChain`) or in two
(`Apart`), and what the pointers of other items hold is left open. `ChainsJoin` and
`ChainCut` are the two things that operations do to a chain; `ChangeOne` says that
the other lists do not notice. That the refinement mapping, which follows the
links as far as there are items, finds these sequences is `WalkIs`: its recursive
function is that of the beginnings of the sequence, by induction on their lengths
(`Induction`, from `LeastNumber`), and `NoLonger` says that no list has more items
than there are.

The timer queue is the longest of the proofs. Its inductive invariant (`QueueInv`;
TLC checked it on the instance of `timers` first) says that there is a place for
every item such that

- the bins list the items of each place, each once, and the bits and the first bin
  are theirs (`IsFilled`); within a bin items of one time are in the order in which
  they were added (`Order`), the invariant by which ties go to the first added;
- each time, seen from `active_time`, belongs in its place (`Fits`): it has the
  digits of `active_time` above the major of the bin and that of the bin there
  (`Near`), and differs from `active_time` at that digit unless the major is the
  lowest (`Differs`); and no time is before `active_time`.

Items may be in bins of any digit, as the reindex timer is. That the shift of an
`int` is harmless is `DueBin`: if the time of a bin is not past the one that the queue
is asked about, the bin is not above the digit that has the sign bit, and items go
down from there with a smaller shift.

`DequeuesEarliest` alone is not inductive: it does not say where the items are
that the next round moves. From `Fits`, `LaterBins` is why the first bin decides:
what is in a later bin is due later. The digits are by `DivideTwice` (a digit is
what is left of a division of a division), `DigitsCompare` and `EqualAbove`. Of the
operations, `EarlierFits` is `set_earlier_active_time()`: everything stays in place
when the first bin is at or past the target, which is what fails when an addition
moves an item up (`timer_queue_early`). `SpreadLoose` is one round of
`try_dequeue_next_due_by()`, in which the items of the first bin go a digit down
and may belong further down still (`IsLoose`); `DescendedIs` is the whole descent,
which ends within as many rounds as there are digits (`WayDown`), and `DequeuedIs`
the result. `TakenOutIs` and `AddedAgain` are the two loops of `reindex_items()`.
The model's loops are recursive functions over numbers or sets; that they exist is
`RecursionExists`, and `StaysIn` and `Recursive` carry an invariant along them,
each by induction on the number of steps. The theorem has
two premises, both assumptions of the model that the code does not enforce: the
queue is asked about times that leave the sign bit of an int alone, whatever its
items are due at (`QueueAssumption`; `timer_queue_wide` shows what happens
otherwise), and no addition before `active_time` moves an item to a higher bin
(`MayMoveUp`, although `binned_time_priority_queue.hpp:92-103` allows for it;
`timer_queue_early` shows that the items are lost then).

Only model-checked, and why:

- Liveness under fairness, which is beyond this prover: `EnqueuedIsRun`,
  `StartedCompletes`, `CallsReturn`, `StopCompletes`, `FirstDecides`,
  `StopTakesEffect`, `EverythingEnds`, `EnqueuedIsHandled`, `NothingWaitsForever`,
  the liveness part of `Scope`, and `DueIsRun`.
- `DeliversDeclared` and `IndexNamesTheObject`: about given signatures and types,
  for which TLC's enumeration is exhaustive.

## What is not modelled

- Weak memory, see above.
- `child_operation`, `inlinable_operation_state`: how a child finds its receiver
  from its own address; types and offsets.
- `inline_scheduler`: completes inside `start()`, as the children of every
  combinator may.
- Concepts and the type-level helpers that only compute a type: evaluated by the
  compiler. (What the signatures say is in `SenderSignatures`.)
- The cancellable specialization of `schedule()`, which no program can have.
- The sizes that the ring's setup computes, the clamping of its arguments, the
  paths and buffers in the entries: `RingSetup` and `IoRing` have which members
  are set, not to what.
- `std::stop_token` under `stop_token_sender`: the standard library's.
- The tests, the build files and the documentation.

## Plan

Done, in this order: the scope with its abstract specification and proofs;
futures; the combinators (`StopWhen`, `WhenAll`, `FirstSuccessful`, `LetValue`);
work on a scope; the event loop, stop source, stop token operation and
`sync_wait`; the remote queue and the I/O loop; timer and I/O operations; the
timer queue, the timer base, the clock and the rings; one consumer proved. Then
what had been left out: `Statement`, `WhenAllSucceeds`, `VariantSender`,
`SenderSignatures`, `PlainOps`, `FileHandles`, `RingSetup`, the kinds of setup and
the entries of `IoRing`, `IntrusiveList` with `ItemLists`, `Bitset`.

Then the proofs, each with the invariant checked by TLC first: the remote queue as
promised, the I/O loop, work on a scope, futures, the operations for every number
of children, timer and I/O operations with their files, the event loop as promised
and `sync_wait`, the rings and their setup, the clock, the timestamps, the bitset and
the lists as promised, and the timer queue: every item in the bin where it is
looked for, and the earliest first.

Next, of the model:

1. An abstract timer service that `TimerBase` with `BinnedTimeQueue` implements,
   and an abstract ring for `IoRing`.
2. An abstract operation (started, stopped at most once, completes once) that
   `StopWhen`, `WhenAll`, `FirstSuccessful`, `LetValue`, `Statement` and
   `StopTokenOp` implement.
