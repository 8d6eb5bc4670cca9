------------------------------ MODULE IoContext ------------------------------
(***************************************************************************)
(* The loop of iouring_context: one thread calls run(); any thread may     *)
(* schedule an operation, post a stop item, or trigger the stop token of   *)
(* run().  Remote work goes through two queues that the loop marks         *)
(* inactive before it sleeps; whoever enqueues to an inactive queue writes *)
(* to an eventfd, on which the loop keeps a read submitted to io_uring.    *)
(*                                                                         *)
(* A remote queue is a sequence and a flag: AtomicQueue shows that the     *)
(* atomic list behaves like that.  Timers and the operations' own          *)
(* submissions are in TimerOp and IoOp; here io_uring completes nothing    *)
(* but the read.                                                           *)
(***************************************************************************)
EXTENDS Naturals, Sequences, SequencesExt

CONSTANTS Ops,          \* schedule() operations
          Stops,        \* stop items of cancellable operations
          BatchLimit    \* ready items run before the rest is looked at: 100

VARIABLES queue,           \* remote_queue_ and remote_stop_queue_
          inactive,        \* which of them are marked inactive
          ready,           \* ready_to_run_queue_
          ran,             \* items run since the loop last came round
          eventfd,         \* the eventfd has been written since it was read
          read,            \* the read of the eventfd
          stop_requested,  \* the flag of run()
          writers,         \* the remote threads that are about to write to the eventfd
          pc,              \* where the I/O thread is
          done             \* the operations and stop items that have been run

vars == <<queue, inactive, ready, ran, eventfd, read, stop_requested, writers, pc, done>>

Work == "work"
Stop == "stop"
Queues == {Work, Stop}

(* Who writes: the thread that scheduled an item, or on_stop_request. *)
Remotes == Ops \cup Stops \cup {"on_stop"}

Goto(label) == pc' = label

(* is_wake_up_read_submitted_ *)
ReadSubmitted == read # "none"

Init == /\ queue = [q \in Queues |-> <<>>]
        /\ inactive = {}
        /\ ready = <<>>
        /\ ran = 0
        /\ eventfd = FALSE
        /\ read = "none"
        /\ stop_requested = FALSE
        /\ writers = {}
        /\ pc = "out"
        /\ done = {}

Known(i) == i \in done \cup ToSet(queue[Work]) \cup ToSet(queue[Stop]) \cup ToSet(ready)

-----------------------------------------------------------------------------
(* Remote threads *)

(* schedule_now_remote(), schedule_stop_request_remote() *)
Enqueue(q, i) == /\ queue' = [queue EXCEPT ![q] = Append(@, i)]
                 /\ inactive' = inactive \ {q}
                 /\ writers' = IF q \in inactive THEN writers \cup {i} ELSE writers

ScheduleRemote == /\ \/ \E o \in Ops : ~Known(o) /\ Enqueue(Work, o)
                     \/ \E s \in Stops : ~Known(s) /\ Enqueue(Stop, s)
                  /\ UNCHANGED <<ready, ran, eventfd, read, stop_requested, pc, done>>

(* schedule_now() on the I/O thread, from an item that is running *)
ScheduleLocal == /\ pc = "ready"
                 /\ ran > 0
                 /\ \E o \in Ops : ~Known(o) /\ ready' = Append(ready, o)
                 /\ UNCHANGED <<queue, inactive, ran, eventfd, read, stop_requested,
                                writers, pc, done>>

(* Mutant: the flag is set without a wake-up. *)
RequestStopSilently == /\ pc # "out"
                       /\ ~stop_requested
                       /\ stop_requested' = TRUE
                       /\ UNCHANGED <<queue, inactive, ready, ran, eventfd, read,
                                      writers, pc, done>>

(* on_stop_request: the flag, and then always a wake-up. *)
RequestStop == /\ pc # "out"
               /\ ~stop_requested
               /\ stop_requested' = TRUE
               /\ writers' = writers \cup {"on_stop"}
               /\ UNCHANGED <<queue, inactive, ready, ran, eventfd, read, pc, done>>

(* wake_up_io_thread() *)
WakeUp(w) == /\ w \in writers
             /\ writers' = writers \ {w}
             /\ eventfd' = TRUE
             /\ UNCHANGED <<queue, inactive, ready, ran, read, stop_requested, pc, done>>

(* The kernel completes a submitted read when there is something to read,  *)
(* which resets the counter.                                               *)
KernelReads == /\ read = "submitted"
               /\ eventfd
               /\ read' = "completed"
               /\ eventfd' = FALSE
               /\ UNCHANGED <<queue, inactive, ready, ran, stop_requested, writers, pc, done>>

-----------------------------------------------------------------------------
(* run_impl() *)

Run == /\ pc = "out"
       /\ Goto("check")
       /\ UNCHANGED <<queue, inactive, ready, ran, eventfd, read, stop_requested, writers, done>>

(* run() returns when its stop callback is gone, which waits for an        *)
(* on_stop_request that is running.                                        *)
Return == /\ pc = "leaving"
          /\ "on_stop" \notin writers
          /\ stop_requested' = FALSE
          /\ Goto("out")
          /\ UNCHANGED <<queue, inactive, ready, ran, eventfd, read, writers, done>>

CheckStop == /\ pc = "check"
             /\ ran' = 0
             /\ Goto(IF stop_requested THEN "leaving" ELSE "ready")
             /\ UNCHANGED <<queue, inactive, ready, eventfd, read, stop_requested, writers, done>>

ExecuteReady == /\ pc = "ready"
                /\ ready # <<>>
                /\ ran < BatchLimit
                /\ ready' = Tail(ready)
                /\ done' = done \cup {Head(ready)}
                /\ ran' = ran + 1
                /\ UNCHANGED <<queue, inactive, eventfd, read, stop_requested, writers, pc>>

LeaveReady == /\ pc = "ready"
              /\ ready = <<>> \/ ran = BatchLimit
              /\ Goto("completions")
              /\ UNCHANGED <<queue, inactive, ready, ran, eventfd, read, stop_requested,
                             writers, done>>

(* The completion queue is empty or holds the completion of the read. *)
ProcessCompletions == /\ pc = "completions"
                      /\ read' = IF read = "completed" THEN "none" ELSE read
                      /\ Goto("remote")
                      /\ UNCHANGED <<queue, inactive, ready, ran, eventfd, stop_requested,
                                     writers, done>>

(* acquire_remote_items(), unless a read will tell that there are some *)
AcquireRemoteItems ==
    /\ pc = "remote"
    /\ Goto("remote_stop")
    /\ IF ReadSubmitted \/ Work \in inactive
       THEN UNCHANGED <<ready, queue>>
       ELSE /\ ready' = ready \o queue[Work]
            /\ queue' = [queue EXCEPT ![Work] = <<>>]
    /\ UNCHANGED <<inactive, ran, eventfd, read, stop_requested, writers, done>>

(* execute_remote_stop_items() *)
ExecuteRemoteStopItems ==
    /\ pc = "remote_stop"
    /\ Goto(IF ready # <<>> THEN "submit"
            ELSE IF ReadSubmitted THEN "wait" ELSE "poll")
    /\ IF ReadSubmitted \/ Stop \in inactive
       THEN UNCHANGED <<done, queue>>
       ELSE /\ done' = done \cup ToSet(queue[Stop])
            /\ queue' = [queue EXCEPT ![Stop] = <<>>]
    /\ UNCHANGED <<inactive, ready, ran, eventfd, read, stop_requested, writers>>

-----------------------------------------------------------------------------
(* The system call at the end of the loop: submits what was prepared. *)

Submitted == read' = IF read = "prepared" THEN "submitted" ELSE read

(* submit(), without waiting *)
Submit == /\ pc = "submit"
          /\ Submitted
          /\ Goto("check")
          /\ UNCHANGED <<queue, inactive, ready, ran, eventfd, stop_requested, writers, done>>

(* submit_and_wait_until(): the call itself ... *)
StartWaiting == /\ pc = "wait"
                /\ Submitted
                /\ Goto("waiting")
                /\ UNCHANGED <<queue, inactive, ready, ran, eventfd, stop_requested,
                               writers, done>>

(* ... which returns when there is a completion, ... *)
WaitReturns == /\ pc = "waiting"
               /\ read = "completed"
               /\ Goto("check")
               /\ UNCHANGED <<queue, inactive, ready, ran, eventfd, read, stop_requested,
                              writers, done>>

(* ... when a signal interrupts it, ... *)
WaitIsInterrupted == /\ pc = "waiting"
                     /\ Goto("check")
                     /\ UNCHANGED <<queue, inactive, ready, ran, eventfd, read,
                                    stop_requested, writers, done>>

(* ... or when the next timer is due: the loop goes to the timers and on   *)
(* from there, past its condition.                                         *)
WaitTimesOut == /\ pc = "waiting"
                /\ Goto("completions")
                /\ UNCHANGED <<queue, inactive, ready, ran, eventfd, read, stop_requested,
                               writers, done>>

(* submit_and_get_events(), get_events(): with no completion to process,   *)
(* the queues are marked inactive.                                         *)
Poll == /\ pc = "poll"
        /\ Goto(IF read = "completed" THEN "check" ELSE "mark_work")
        /\ UNCHANGED <<queue, inactive, ready, ran, eventfd, read, stop_requested,
                       writers, done>>

(* The call fails: the loop comes round again without having marked. *)
PollFails == /\ pc = "poll"
             /\ Goto("check")
             /\ UNCHANGED <<queue, inactive, ready, ran, eventfd, read, stop_requested,
                            writers, done>>

(* is_inactive() or try_mark_inactive(), which fails for a queue that is   *)
(* not empty                                                               *)
TryMark(q) == IF q \in inactive \/ queue[q] # <<>> THEN UNCHANGED inactive
                                                   ELSE inactive' = inactive \cup {q}

MarkWork == /\ pc = "mark_work"
            /\ TryMark(Work)
            /\ Goto(IF Work \in inactive' THEN "mark_stop" ELSE "check")
            /\ UNCHANGED <<queue, ready, ran, eventfd, read, stop_requested, writers, done>>

(* Mutant: the read is submitted although the stop queue is not marked. *)
MarkStopUnchecked == /\ pc = "mark_stop"
                     /\ TryMark(Stop)
                     /\ read' = "prepared"
                     /\ Goto("check")
                     /\ UNCHANGED <<queue, ready, ran, eventfd, stop_requested, writers, done>>

(* try_submit_wait_for_wake_up() follows when both are marked. *)
MarkStop == /\ pc = "mark_stop"
            /\ TryMark(Stop)
            /\ read' = IF Stop \in inactive' THEN "prepared" ELSE read
            /\ Goto("check")
            /\ UNCHANGED <<queue, ready, ran, eventfd, stop_requested, writers, done>>

-----------------------------------------------------------------------------
(* ~iouring_context(): a read that is still submitted is woken and waited  *)
(* for, as the kernel would write to a member.                             *)

Destroyable == /\ pc = "out"
               /\ writers = {}
               /\ \A q \in Queues : queue[q] = <<>>
               /\ ready = <<>>

(* Mutant: the destructor leaves the read to the kernel. *)
DestroyAtOnce == /\ Destroyable
                 /\ Goto("destroyed")
                 /\ UNCHANGED <<queue, inactive, ready, ran, eventfd, read, stop_requested,
                                writers, done>>

Destroy == /\ Destroyable
           /\ eventfd' = (eventfd \/ ReadSubmitted)
           /\ Goto(IF ReadSubmitted THEN "dtor" ELSE "destroyed")
           /\ UNCHANGED <<queue, inactive, ready, ran, read, stop_requested, writers, done>>

DestructorWaits == /\ pc = "dtor"
                   /\ read' = IF read = "prepared" THEN "submitted"
                              ELSE IF read = "completed" THEN "none" ELSE read
                   /\ Goto(IF read' = "none" THEN "destroyed" ELSE "dtor")
                   /\ UNCHANGED <<queue, inactive, ready, ran, eventfd, stop_requested,
                                  writers, done>>

-----------------------------------------------------------------------------
LoopStep == \/ CheckStop \/ ExecuteReady \/ LeaveReady \/ ProcessCompletions
            \/ AcquireRemoteItems \/ ExecuteRemoteStopItems
            \/ Submit \/ StartWaiting \/ WaitReturns
            \/ Poll \/ MarkWork \/ MarkStop
            \/ Return \/ DestructorWaits

Alive == pc \notin {"dtor", "destroyed"}

Next == \/ Alive /\ (ScheduleRemote \/ RequestStop)
        \/ ScheduleLocal
        \/ \E w \in Remotes : WakeUp(w)
        \/ KernelReads
        \/ Run \/ LoopStep
        \/ WaitIsInterrupted \/ WaitTimesOut \/ PollFails
        \/ Destroy

(* The I/O thread and the kernel go on, a writer writes.  No interruption  *)
(* and no timer is assumed to end a wait, and nobody has to call anything. *)
Fairness == /\ WF_vars(LoopStep)
            /\ WF_vars(KernelReads)
            /\ \A w \in Remotes : WF_vars(WakeUp(w))

Spec == Init /\ [][Next]_vars /\ Fairness

-----------------------------------------------------------------------------
(* Properties *)

Items == Ops \cup Stops

(* The members hold what their types allow. *)
TypeOk == /\ queue \in [Queues -> Seq(Items)]
          /\ inactive \subseteq Queues
          /\ ready \in Seq(Ops)
          /\ ran \in 0..BatchLimit
          /\ eventfd \in BOOLEAN
          /\ read \in {"none", "prepared", "submitted", "completed"}
          /\ stop_requested \in BOOLEAN
          /\ writers \subseteq Remotes
          /\ pc \in {"out", "check", "ready", "completions", "remote", "remote_stop",
                     "submit", "wait", "waiting", "poll", "mark_work", "mark_stop",
                     "leaving", "dtor", "destroyed"}
          /\ done \subseteq Items

(* A mark is a promise: a queue that is inactive is empty, and while the   *)
(* loop relies on its read both queues are inactive or a wake-up is on the *)
(* way.                                                                    *)
WakeUpIsComing == eventfd \/ writers # {} \/ read = "completed"

ReadGuardsQueues ==
    /\ \A q \in inactive : queue[q] = <<>>
    /\ ReadSubmitted => inactive = Queues \/ WakeUpIsComing

(* The loop never sleeps while an item or a stop request waits for it,     *)
(* unless a wake-up is on the way.                                         *)
NoSleepOverWork ==
    pc \in {"wait", "waiting"} =>
        /\ ready = <<>>
        /\ ReadSubmitted
        /\ (stop_requested \/ \E q \in Queues : queue[q] # <<>>) => WakeUpIsComing

(* No wake-up is lost between the marks, the read and the wait. *)
NoWakeUpIsLost == ReadGuardsQueues /\ NoSleepOverWork

(* After the destructor the kernel has no read left that would write to    *)
(* wake_up_read_storage_.                                                  *)
NoReadOutlives == pc = "destroyed" => ~ReadSubmitted

(* Whatever was scheduled is run while the loop runs: it is, or run() is   *)
(* asked to stop first.                                                    *)
ScheduledIsRun == \A i \in Items :
    (Known(i) /\ pc # "out") ~> (i \in done \/ stop_requested \/ pc = "out")

(* run() returns promptly after its stop token was triggered. *)
StopReturns == stop_requested ~> (pc \in {"out", "dtor", "destroyed"})

(* The destructor comes to an end. *)
DestructorReturns == (pc = "dtor") ~> (pc = "destroyed")

(* Nothing that was scheduled, and neither call, is kept waiting by an     *)
(* event that does not come.                                               *)
NothingWaitsForever == ScheduledIsRun /\ StopReturns /\ DestructorReturns
=============================================================================
