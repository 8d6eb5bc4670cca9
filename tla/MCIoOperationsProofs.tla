------------------------- MODULE MCIoOperationsProofs -------------------------
(***************************************************************************)
(* The operations of iouring_context, for any number of them and any size  *)
(* of the submission queue: timers, cancellable requests and those that    *)
(* cannot be cancelled find the function that fits the queue, complete     *)
(* once and last, and lose no result; a file has one owner.                *)
(*                                                                         *)
(* Each kind has an invariant that says, of one operation, what of its     *)
(* queue, its flags, its stop item, the thread inside request_stop() and   *)
(* the I/O thread goes together.                                           *)
(***************************************************************************)
EXTENDS MCIoOperations, FiniteSetTheorems, TLAPS

Waits(s) == "stop_enqueued" \in s
Ended(s) == "completed" \in s

-----------------------------------------------------------------------------
(* Timers *)

TimerDoes(l, o) == t_io = <<l, o>>
TimerRemoves(o) == TimerDoes("remove_local", o) \/ TimerDoes("remove_time_op", o)
TimerBusy(o) == \E l \in Timer!IoLabels : TimerDoes(l, o)

(* The completion has happened or is the next thing that happens. *)
TimerResolved(o) == \/ t_outcome[o] # "none"
                    \/ TimerDoes("set_value", o) \/ TimerDoes("set_stopped", o)

(* A stop item will come out of its queue. *)
TimerStopComes(o) == t_caller[o] \in {"set_function", "post"} \/ o \in t_posted

TimerQueued(o) ==
    /\ t_where[o] = "unstarted" =>
          /\ t_caller[o] = "idle" /\ t_state[o] = {} /\ o \notin t_posted
          /\ ~TimerResolved(o) /\ ~TimerBusy(o) /\ ~t_remote_enqueued[o]
    /\ Ended(t_state[o]) => t_where[o] = "none"
    /\ t_where[o] = "none" /\ ~TimerBusy(o) /\ ~TimerResolved(o) => TimerStopComes(o)

TimerRuns(o) ==
    /\ TimerBusy(o) => t_outcome[o] = "none"
    /\ TimerDoes("hand_over", o) => t_where[o] = "none" /\ TimerStopComes(o)
    /\ TimerDoes("add_completed", o) =>
          /\ t_where[o] = "none" /\ ~Ended(t_state[o])
          /\ Waits(t_state[o]) => TimerStopComes(o)
          /\ t_caller[o] = "returned" => o \in t_posted
    /\ TimerRemoves(o) => o \notin t_posted /\ t_caller[o] = "returned"

TimerStops(o) ==
    /\ t_caller[o] \in {"idle", "add_stop"} => ~Waits(t_state[o]) /\ o \notin t_posted
    /\ TimerStopComes(o) => Waits(t_state[o]) /\ ~TimerResolved(o) /\ ~TimerRemoves(o)
    /\ o \in t_posted => t_caller[o] = "returned"
    /\ t_caller[o] = "post" \/ o \in t_posted => t_execute_stop[o] # "unset"
    /\ t_caller[o] = "returned" =>
          o \in t_posted \/ TimerResolved(o) \/ TimerRemoves(o)
    /\ t_execute_stop[o] = "on_stop_after_complete" => t_where[o] = "none"

TimerEnds(o) ==
    /\ Ended(t_state[o]) /\ ~Waits(t_state[o]) => TimerResolved(o) \/ TimerRemoves(o)
    /\ TimerResolved(o) => /\ t_where[o] = "none"
                           /\ Ended(t_state[o]) \/ t_caller[o] = "returned"

TimersFit ==
    /\ Timer!TypeOk
    /\ ~t_strayed
    /\ Timer!ExecuteSuitsQueue
    /\ \A o \in Ops : /\ t_where[o] # "lost" /\ t_outcome[o] # "twice"
                     /\ TimerQueued(o) /\ TimerRuns(o) /\ TimerStops(o) /\ TimerEnds(o)

(* When a timer was removed that had left the queue, only the types hold.  *)
TimerInv == Timer!TypeOk /\ (t_strayed \/ TimersFit)

-----------------------------------------------------------------------------
(* Cancellable requests *)

RequestDoes(l, o) == r_io = <<l, o>>
RequestBusy(o) == \E l \in {"add_completed", "set_value", "set_stopped"} : RequestDoes(l, o)
RequestResolved(o) == \/ r_outcome[o] # "none"
                      \/ RequestDoes("set_value", o) \/ RequestDoes("set_stopped", o)
RequestStopComes(o) == r_caller[o] = "post" \/ o \in r_posted
WithKernel(o) == r_where[o] \in {"prepared", "kernel"}

RequestQueued(o) ==
    /\ r_where[o] = "unstarted" =>
          /\ r_caller[o] = "idle" /\ r_state[o] = {}
          /\ ~RequestResolved(o) /\ ~RequestBusy(o) /\ r_cqe[o] = "none"
          /\ ~r_remote_enqueued[o] /\ ~r_sqe_submitted[o]
    /\ Ended(r_state[o]) => r_where[o] = "none"
    /\ r_cqe[o] # "none" => r_where[o] = "none" /\ r_sqe_submitted[o]
    /\ r_sqe_submitted[o] => WithKernel(o) \/ r_cqe[o] # "none"

(* Out of all queues, but not completed: the kernel's answer is stored, or *)
(* the kernel never had it. *)
RequestBetween(o) ==
    r_where[o] = "none" /\ ~RequestBusy(o) /\ ~RequestResolved(o) /\ o \notin r_cancelWaiting =>
        /\ RequestStopComes(o)
        /\ Ended(r_state[o]) \/ ~r_sqe_submitted[o]

RequestRuns(o) ==
    /\ RequestBusy(o) => r_outcome[o] = "none"
    /\ RequestDoes("add_completed", o) =>
          /\ r_where[o] = "none" /\ ~Ended(r_state[o]) /\ r_cqe[o] # "none"
          /\ o \notin r_cancelWaiting
          /\ Waits(r_state[o]) => RequestStopComes(o)
          /\ r_caller[o] = "returned" => o \in r_posted
    /\ RequestDoes("set_value", o) => r_cqe[o] = "result"
    /\ RequestDoes("set_stopped", o) => r_cqe[o] # "result"

RequestStops(o) ==
    /\ r_caller[o] \in {"idle", "add_stop"} =>
          ~Waits(r_state[o]) /\ o \notin r_posted \cup r_cancelWaiting
    /\ RequestStopComes(o) => /\ Waits(r_state[o]) /\ ~RequestResolved(o)
                              /\ o \notin r_cancelWaiting
    /\ o \in r_posted => r_caller[o] = "returned"
    /\ r_caller[o] = "returned" =>
          \/ o \in r_posted \cup r_cancelWaiting
          \/ RequestResolved(o)
          \/ WithKernel(o) /\ r_fn[o] = "no_races_with_stop"
    /\ WithKernel(o) /\ r_fn[o] # "when_op_completed" =>
          r_caller[o] = "returned" /\ ~RequestStopComes(o)
    /\ o \in r_cancelWaiting => /\ WithKernel(o) \/ r_where[o] = "none"
                                /\ r_fn[o] = "stop_waiting_for_sqes"
    /\ WithKernel(o) => (r_fn[o] = "stop_waiting_for_sqes" <=> o \in r_cancelWaiting)

RequestEnds(o) ==
    /\ Ended(r_state[o]) => RequestResolved(o) \/ RequestStopComes(o)
    /\ Ended(r_state[o]) /\ RequestStopComes(o) =>
          r_cqe[o] # "none" /\ r_result[o] = r_cqe[o]
    /\ RequestResolved(o) => /\ r_where[o] = "none"
                             /\ o \notin r_cancelWaiting
                             /\ Ended(r_state[o]) \/ r_caller[o] = "returned"

RequestOk(o) == /\ RequestQueued(o) /\ RequestBetween(o) /\ RequestRuns(o)
                /\ RequestStops(o) /\ RequestEnds(o)

RequestInv == /\ Request!TypeOk
              /\ Request!FunctionsSuitQueues
              /\ Request!KernelDecides
              /\ \A o \in Ops : RequestOk(o)

-----------------------------------------------------------------------------
(* Operations that are never stopped *)

PlainInv == /\ Plain!TypeOk
            /\ p_fn \in [Ops -> {"unset", "set_value", "on_io_thread", "when_sqes_available",
                                 "when_op_completed"}]
            /\ p_completions \in [Ops -> Nat]
            /\ Plain!FunctionsSuitQueues
            /\ Plain!CompletesLast
            /\ \A o \in Ops : p_where[o] = "unstarted" /\ p_class[o] = "schedule"
                                  => p_fn[o] = "set_value"

-----------------------------------------------------------------------------
(* Files *)

(* What is owned is open, under the number by which it is owned. *)
Valid(owner) == /\ owner.file \in 1..f_files
                /\ owner.fd \in {3, 4} /\ f_table[owner.fd] = owner.file
                /\ owner.file \notin f_abandoned
OwnedOrNone(owner) == owner = Files!Invalid \/ Valid(owner)

OwnersAreValid == /\ \A h \in Ops : OwnedOrNone(f_handle[h])
                  /\ \A o \in Ops : OwnedOrNone(f_opening[o].owns)
                  /\ OwnedOrNone(f_closing["close"].owns)

Apart(a, b) == a.file = b.file => a.file = 0

OwnersAreApart ==
    /\ \A h \in Ops, g \in Ops : h # g => Apart(f_handle[h], f_handle[g])
    /\ \A o \in Ops, p \in Ops : o # p => Apart(f_opening[o].owns, f_opening[p].owns)
    /\ \A h \in Ops, o \in Ops : Apart(f_handle[h], f_opening[o].owns)
    /\ \A h \in Ops : Apart(f_handle[h], f_closing["close"].owns)
    /\ \A o \in Ops : Apart(f_opening[o].owns, f_closing["close"].owns)

Owned(f) == \/ \E h \in Ops : f_handle[h].file = f
            \/ \E o \in Ops : f_opening[o].owns.file = f
            \/ f_closing["close"].owns.file = f

OpenFilesAreOwned ==
    /\ f_abandoned \subseteq 1..f_files
    /\ \A d \in {3, 4} : f_table[d] \in 0..f_files
    /\ \A d, e \in {3, 4} : f_table[d] = f_table[e] /\ d # e => f_table[d] = 0
    /\ \A d \in {3, 4} : f_table[d] \in f_abandoned \cup {0} \/ Owned(f_table[d])

(* An operation has a file exactly while it is between its two ends. *)
StatesSuitOwners ==
    /\ \A o \in Ops : f_opening[o].at = "idle" <=> f_opening[o].owns = Files!Invalid
    /\ f_closing["close"].at = "none" <=> f_closing["close"].owns = Files!Invalid

FilesInv == /\ Files!TypeOk
            /\ ~f_wrong
            /\ OwnersAreValid
            /\ OwnersAreApart
            /\ OpenFilesAreOwned
            /\ StatesSuitOwners

IInv == TimerInv /\ RequestInv /\ PlainInv /\ FilesInv

-----------------------------------------------------------------------------
(* Timers *)

LEMMA TimerInit == Timer!Init => TimerInv
<1>. SUFFICES ASSUME Timer!Init PROVE TimerInv
  OBVIOUS
<1>1. Timer!TypeOk
  BY DEF Timer!Init, Timer!TypeOk, Timer!Idle
<1>2. TimersFit
  BY <1>1 DEF Timer!Init, Timer!Idle, Timer!IoLabels, TimersFit, Timer!ExecuteSuitsQueue,
     TimerQueued, TimerRuns, TimerStops, TimerEnds, TimerBusy, TimerDoes, TimerRemoves,
     TimerResolved, TimerStopComes, Ended, Waits
<1>. QED
  BY <1>1, <1>2 DEF TimerInv

(* On the way to the timer queue *)
LEMMA TimerStarts ==
  ASSUME TimersFit,
         \/ Timer!AcquireRemoteItems
         \/ \E o \in Ops : \/ Timer!StartOnIoThread(o) \/ Timer!StartRemotely(o)
                           \/ Timer!WhenOnIoContext(o)
  PROVE  TimersFit'
<1>. USE DEF TimersFit, Timer!TypeOk, Timer!ExecuteSuitsQueue, TimerQueued, TimerRuns,
         TimerStops, TimerEnds, TimerBusy, TimerDoes, TimerRemoves, TimerResolved,
         TimerStopComes, Ended, Waits, Timer!At, Timer!Started, Timer!stopVars, Timer!Idle,
         Timer!IoLabels, Timer!queueVars
<1>1. CASE Timer!AcquireRemoteItems
  BY <1>1 DEF Timer!AcquireRemoteItems, Timer!Acquired
<1>2. ASSUME NEW o \in Ops, Timer!StartOnIoThread(o) PROVE TimersFit'
  BY <1>2 DEF Timer!StartOnIoThread
<1>3. ASSUME NEW o \in Ops, Timer!StartRemotely(o) PROVE TimersFit'
  BY <1>3 DEF Timer!StartRemotely
<1>4. ASSUME NEW o \in Ops, Timer!WhenOnIoContext(o) PROVE TimersFit'
  BY <1>4 DEF Timer!WhenOnIoContext
<1>. QED
  BY <1>1, <1>2, <1>3, <1>4

(* The timer elapses, and completes what is not being stopped. *)
LEMMA TimerElapses ==
  ASSUME TimersFit, NEW o \in Ops,
         Timer!WhenTimerElapsed(o) \/ Timer!AddCompleted(o) \/ Timer!HandOver(o) \/ Timer!Complete(o)
  PROVE  TimersFit'
<1>. USE DEF TimersFit, Timer!TypeOk, Timer!ExecuteSuitsQueue, TimerQueued, TimerRuns,
         TimerStops, TimerEnds, TimerBusy, TimerDoes, TimerRemoves, TimerResolved,
         TimerStopComes, Ended, Waits, Timer!At, Timer!Started, Timer!stopVars, Timer!Idle,
         Timer!IoLabels, Timer!queueVars
<1>1. CASE Timer!WhenTimerElapsed(o)
  BY <1>1 DEF Timer!WhenTimerElapsed
<1>2. CASE Timer!AddCompleted(o)
  BY <1>2 DEF Timer!AddCompleted
<1>3. CASE Timer!HandOver(o)
  BY <1>3 DEF Timer!HandOver
<1>4. CASE Timer!Complete(o)
  BY <1>4 DEF Timer!Complete
<1>. QED
  BY <1>1, <1>2, <1>3, <1>4

(* A thread is inside request_stop(). *)
LEMMA TimerIsAskedToStop ==
  ASSUME TimersFit, NEW o \in Ops,
         Timer!RequestStop(o) \/ Timer!AddStopEnqueued(o) \/ Timer!SetExecuteStop(o) \/ Timer!Post(o)
  PROVE  TimersFit'
<1>. USE DEF TimersFit, Timer!TypeOk, Timer!ExecuteSuitsQueue, TimerQueued, TimerRuns,
         TimerStops, TimerEnds, TimerBusy, TimerDoes, TimerRemoves, TimerResolved,
         TimerStopComes, Ended, Waits, Timer!At, Timer!Started, Timer!stopVars, Timer!Idle,
         Timer!IoLabels, Timer!queueVars
<1>1. CASE Timer!RequestStop(o)
  BY <1>1 DEF Timer!RequestStop
<1>2. CASE Timer!AddStopEnqueued(o)
  BY <1>2 DEF Timer!AddStopEnqueued
<1>3. CASE Timer!SetExecuteStop(o)
  BY <1>3 DEF Timer!SetExecuteStop
<1>4. CASE Timer!Post(o)
  BY <1>4 DEF Timer!Post
<1>. QED
  BY <1>1, <1>2, <1>3, <1>4

(* The I/O thread stops the operation. *)
LEMMA TimerIsStopped ==
  ASSUME TimersFit, NEW o \in Ops,
         Timer!RequestStopLocally(o) \/ Timer!ExecuteStop(o) \/ Timer!Remove(o)
  PROVE  TimersFit'
<1>. USE DEF TimersFit, Timer!TypeOk, Timer!ExecuteSuitsQueue, TimerQueued, TimerRuns,
         TimerStops, TimerEnds, TimerBusy, TimerDoes, TimerRemoves, TimerResolved,
         TimerStopComes, Ended, Waits, Timer!At, Timer!Started, Timer!stopVars, Timer!Idle,
         Timer!IoLabels, Timer!queueVars
<1>1. CASE Timer!RequestStopLocally(o)
  BY <1>1 DEF Timer!RequestStopLocally, Timer!OnStopBeforeComplete, Timer!Acquired
<1>2. CASE Timer!ExecuteStop(o)
  BY <1>2 DEF Timer!ExecuteStop, Timer!OnStopBeforeComplete, Timer!Acquired
<1>3. CASE Timer!Remove(o)
  BY <1>3 DEF Timer!Remove
<1>. QED
  BY <1>1, <1>2, <1>3

(* The types hold whatever happens. *)
LEMMA TimerTypes == Timer!TypeOk /\ Timer!Next => Timer!TypeOk'
<1>. SUFFICES ASSUME Timer!TypeOk, Timer!Next PROVE Timer!TypeOk'
  OBVIOUS
<1>. USE DEF Timer!TypeOk, Timer!At, Timer!Started, Timer!stopVars, Timer!Idle,
         Timer!IoLabels, Timer!queueVars
<1>1. CASE Timer!AcquireRemoteItems
  BY <1>1 DEF Timer!AcquireRemoteItems, Timer!Acquired
<1>2. SUFFICES ASSUME NEW o \in Ops,
                      \/ Timer!StartOnIoThread(o) \/ Timer!StartRemotely(o)
                      \/ Timer!WhenTimerElapsed(o)
                      \/ Timer!RequestStop(o) \/ Timer!RequestStopLocally(o)
                      \/ Timer!IoStep(o) \/ Timer!CallerStep(o)
               PROVE  Timer!TypeOk'
  BY <1>1 DEF Timer!Next
<1>3. CASE Timer!StartOnIoThread(o)
  BY <1>3 DEF Timer!StartOnIoThread
<1>4. CASE Timer!StartRemotely(o)
  BY <1>4 DEF Timer!StartRemotely
<1>5. CASE Timer!WhenOnIoContext(o)
  BY <1>5 DEF Timer!WhenOnIoContext
<1>6. CASE Timer!WhenTimerElapsed(o)
  BY <1>6 DEF Timer!WhenTimerElapsed
<1>7. CASE Timer!AddCompleted(o)
  BY <1>7 DEF Timer!AddCompleted
<1>8. CASE Timer!HandOver(o)
  BY <1>8 DEF Timer!HandOver
<1>9. CASE Timer!RequestStop(o)
  BY <1>9 DEF Timer!RequestStop
<1>10. CASE Timer!AddStopEnqueued(o)
  BY <1>10 DEF Timer!AddStopEnqueued
<1>11. CASE Timer!SetExecuteStop(o)
  BY <1>11 DEF Timer!SetExecuteStop
<1>12. CASE Timer!Post(o)
  BY <1>12 DEF Timer!Post
<1>13. CASE Timer!RequestStopLocally(o)
  BY <1>13 DEF Timer!RequestStopLocally, Timer!OnStopBeforeComplete, Timer!Acquired
<1>14. CASE Timer!ExecuteStop(o)
  BY <1>14 DEF Timer!ExecuteStop, Timer!OnStopBeforeComplete, Timer!Acquired
<1>15. CASE Timer!Remove(o)
  BY <1>15 DEF Timer!Remove
<1>16. CASE Timer!RemoveStray(o)
  BY <1>16 DEF Timer!RemoveStray
<1>17. CASE Timer!Complete(o)
  BY <1>17 DEF Timer!Complete
<1>. QED
  BY <1>2, <1>3, <1>4, <1>5, <1>6, <1>7, <1>8, <1>9, <1>10, <1>11, <1>12, <1>13, <1>14,
     <1>15, <1>16, <1>17
  DEF Timer!IoStep, Timer!CallerStep

(* What has strayed stays so. *)
LEMMA StrayedStays == Timer!TypeOk /\ t_strayed /\ Timer!Next => t_strayed'
BY DEF Timer!Next, Timer!IoStep, Timer!CallerStep, Timer!queueVars, Timer!TypeOk,
   Timer!AcquireRemoteItems, Timer!StartOnIoThread, Timer!StartRemotely,
   Timer!WhenOnIoContext, Timer!WhenTimerElapsed, Timer!AddCompleted, Timer!HandOver,
   Timer!RequestStop, Timer!AddStopEnqueued, Timer!SetExecuteStop, Timer!Post,
   Timer!RequestStopLocally, Timer!ExecuteStop, Timer!Remove, Timer!RemoveStray,
   Timer!Complete

-----------------------------------------------------------------------------
(* Requests *)

LEMMA RequestInit == Request!Init => RequestInv
BY SqSizeAssumption DEF Request!Init, Request!Idle, RequestInv, Request!TypeOk,
   Request!FunctionsSuitQueues, Request!KernelDecides, Request!CompletionFns, RequestOk,
   RequestQueued, RequestBetween, RequestRuns, RequestStops, RequestEnds, RequestBusy,
   RequestDoes, RequestResolved, RequestStopComes, WithKernel, Ended, Waits

(* All that is in a queue goes on. *)
LEMMA RequestsMove ==
  ASSUME RequestInv, Request!AcquireRemoteItems \/ Request!SubmitSqes
  PROVE  RequestInv'
<1>. USE SqSizeAssumption DEF RequestInv, Request!TypeOk, Request!FunctionsSuitQueues,
         Request!KernelDecides, Request!CompletionFns, RequestOk, RequestQueued,
         RequestBetween, RequestRuns, RequestStops, RequestEnds, RequestBusy,
         RequestDoes, RequestResolved, RequestStopComes, WithKernel, Ended, Waits,
         Request!At, Request!Started, Request!Idle, Request!queueVars,
         Request!stopVars, Request!ringVars, Request!resultVars
<1>1. CASE Request!AcquireRemoteItems
  BY <1>1 DEF Request!AcquireRemoteItems, Request!Acquired
<1>2. CASE Request!SubmitSqes
  BY <1>2 DEF Request!SubmitSqes
<1>. QED
  BY <1>1, <1>2

(* A start on the I/O thread goes to the kernel, or waits until there is room. *)
LEMMA RequestStartsOnIoThread ==
  ASSUME RequestInv, NEW o \in Ops, Request!StartOnIoThread(o)
  PROVE  RequestInv'
<1>. USE SqSizeAssumption DEF RequestInv, Request!TypeOk, Request!FunctionsSuitQueues,
         Request!KernelDecides, Request!CompletionFns, RequestOk, RequestQueued,
         RequestBetween, RequestRuns, RequestStops, RequestEnds, RequestBusy,
         RequestDoes, RequestResolved, RequestStopComes, WithKernel, Ended, Waits,
         Request!At, Request!Started, Request!Idle, Request!queueVars,
         Request!stopVars, Request!ringVars, Request!resultVars,
         Request!StartOnIoThread, Request!TrySubmitSqe
<1>1. CASE Request!SqeSpace
  <2>1. r_sq + 1 \in 0..SqSize
    BY <1>1 DEF Request!SqeSpace
  <2>2. r_sqe_submitted' = [r_sqe_submitted EXCEPT ![o] = TRUE]
    BY <1>1
  <2>3. r_sqe_submitted' \in [Ops -> BOOLEAN]
    BY <2>2
  <2>4. Request!TypeOk'
    BY <1>1, <2>1, <2>3
  <2>5. Request!FunctionsSuitQueues' /\ Request!KernelDecides'
    BY <1>1
  <2>6. \A p \in Ops : RequestOk(p)'
    BY <1>1
  <2>. QED
    BY <2>4, <2>5, <2>6
<1>2. CASE ~Request!SqeSpace
  <2>1. Request!TypeOk'
    BY <1>2
  <2>2. Request!FunctionsSuitQueues' /\ Request!KernelDecides'
    BY <1>2
  <2>3. \A p \in Ops : RequestOk(p)'
    BY <1>2
  <2>. QED
    BY <2>1, <2>2, <2>3
<1>. QED
  BY <1>1, <1>2

(* A start on another thread goes through the remote queue ... *)
LEMMA RequestStartsRemotely ==
  ASSUME RequestInv, NEW o \in Ops,
         Request!StartRemotely(o)
  PROVE  RequestInv'
<1>. USE SqSizeAssumption DEF RequestInv, Request!TypeOk, Request!FunctionsSuitQueues,
         Request!KernelDecides, Request!CompletionFns, RequestOk, RequestQueued,
         RequestBetween, RequestRuns, RequestStops, RequestEnds, RequestBusy,
         RequestDoes, RequestResolved, RequestStopComes, WithKernel, Ended, Waits,
         Request!At, Request!Started, Request!Idle, Request!queueVars,
         Request!stopVars, Request!ringVars, Request!resultVars
<1>1. CASE Request!StartRemotely(o)
  BY <1>1 DEF Request!StartRemotely
<1>. QED
  BY <1>1

(* ... and from there to the kernel, unless it is to be stopped. *)
LEMMA RequestComesToIoThread ==
  ASSUME RequestInv, NEW o \in Ops, Request!WhenOnIoThread(o)
  PROVE  RequestInv'
<1>. USE SqSizeAssumption DEF RequestInv, Request!TypeOk, Request!FunctionsSuitQueues,
         Request!KernelDecides, Request!CompletionFns, RequestOk, RequestQueued,
         RequestBetween, RequestRuns, RequestStops, RequestEnds, RequestBusy,
         RequestDoes, RequestResolved, RequestStopComes, WithKernel, Ended, Waits,
         Request!At, Request!Started, Request!Idle, Request!queueVars,
         Request!stopVars, Request!ringVars, Request!resultVars,
         Request!WhenOnIoThread, Request!TrySubmitSqe
<1>1. CASE Waits(r_state[o])
  <2>1. Request!TypeOk'
    BY <1>1
  <2>2. Request!FunctionsSuitQueues' /\ Request!KernelDecides'
    BY <1>1
  <2>3. \A p \in Ops : RequestOk(p)'
    BY <1>1
  <2>. QED
    BY <2>1, <2>2, <2>3
<1>2. CASE ~Waits(r_state[o]) /\ Request!SqeSpace
  <2>1. r_sq + 1 \in 0..SqSize
    BY <1>2 DEF Request!SqeSpace
  <2>2. r_sqe_submitted' = [r_sqe_submitted EXCEPT ![o] = TRUE]
    BY <1>2
  <2>3. r_sqe_submitted' \in [Ops -> BOOLEAN]
    BY <2>2
  <2>4. Request!TypeOk'
    BY <1>2, <2>1, <2>3
  <2>5. Request!FunctionsSuitQueues' /\ Request!KernelDecides'
    BY <1>2
  <2>6. \A p \in Ops : RequestOk(p)'
    BY <1>2
  <2>. QED
    BY <2>4, <2>5, <2>6
<1>3. CASE ~Waits(r_state[o]) /\ ~Request!SqeSpace
  <2>1. Request!TypeOk'
    BY <1>3
  <2>2. Request!FunctionsSuitQueues' /\ Request!KernelDecides'
    BY <1>3
  <2>3. \A p \in Ops : RequestOk(p)'
    BY <1>3
  <2>. QED
    BY <2>1, <2>2, <2>3
<1>. QED
  BY <1>1, <1>2, <1>3

(* The kernel completes the operation, before a stop request or after it. *)
LEMMA RequestRacesWithStop ==
  ASSUME RequestInv, NEW o \in Ops, Request!WhenOpCompleted(o)
  PROVE  RequestInv'
<1>. USE SqSizeAssumption DEF RequestInv, Request!TypeOk, Request!FunctionsSuitQueues,
         Request!KernelDecides, Request!CompletionFns, RequestOk, RequestQueued,
         RequestBetween, RequestRuns, RequestStops, RequestEnds, RequestBusy,
         RequestDoes, RequestResolved, RequestStopComes, WithKernel, Ended, Waits,
         Request!At, Request!Started, Request!Idle, Request!queueVars,
         Request!stopVars, Request!ringVars, Request!resultVars,
         Request!WhenOpCompleted, Request!FromKernel
<1>1. CASE Waits(r_state[o])
  <2>1. Request!TypeOk'
    BY <1>1
  <2>2. Request!FunctionsSuitQueues' /\ Request!KernelDecides'
    BY <1>1
  <2>3. \A p \in Ops : RequestOk(p)'
    BY <1>1
  <2>. QED
    BY <2>1, <2>2, <2>3
<1>2. CASE ~Waits(r_state[o])
  <2>1. Request!TypeOk'
    BY <1>2
  <2>2. Request!FunctionsSuitQueues' /\ Request!KernelDecides'
    BY <1>2
  <2>3. \A p \in Ops : RequestOk(p)'
    BY <1>2
  <2>. QED
    BY <2>1, <2>2, <2>3
<1>. QED
  BY <1>1, <1>2

(* The other functions that the kernel's answer may find. *)
LEMMA RequestIsAnswered ==
  ASSUME RequestInv, NEW o \in Ops,
         Request!WhenOpCompletedNoRaces(o) \/ Request!WhenOpCompletedStopWaiting(o) \/ Request!AddCompleted(o) \/ Request!Complete(o)
  PROVE  RequestInv'
<1>. USE SqSizeAssumption DEF RequestInv, Request!TypeOk, Request!FunctionsSuitQueues,
         Request!KernelDecides, Request!CompletionFns, RequestOk, RequestQueued,
         RequestBetween, RequestRuns, RequestStops, RequestEnds, RequestBusy,
         RequestDoes, RequestResolved, RequestStopComes, WithKernel, Ended, Waits,
         Request!At, Request!Started, Request!Idle, Request!queueVars,
         Request!stopVars, Request!ringVars, Request!resultVars
<1>1. CASE Request!WhenOpCompletedNoRaces(o)
  BY <1>1 DEF Request!WhenOpCompletedNoRaces, Request!FromKernel, Request!Deliver
<1>2. CASE Request!WhenOpCompletedStopWaiting(o)
  BY <1>2 DEF Request!WhenOpCompletedStopWaiting, Request!FromKernel, Request!Deliver
<1>3. CASE Request!AddCompleted(o)
  BY <1>3 DEF Request!AddCompleted, Request!Deliver
<1>4. CASE Request!Complete(o)
  BY <1>4 DEF Request!Complete
<1>. QED
  BY <1>1, <1>2, <1>3, <1>4

(* A thread is inside request_stop(). *)
LEMMA RequestIsAskedToStop ==
  ASSUME RequestInv, NEW o \in Ops,
         Request!RequestStop(o) \/ Request!AddStopEnqueued(o) \/ Request!Post(o)
  PROVE  RequestInv'
<1>. USE SqSizeAssumption DEF RequestInv, Request!TypeOk, Request!FunctionsSuitQueues,
         Request!KernelDecides, Request!CompletionFns, RequestOk, RequestQueued,
         RequestBetween, RequestRuns, RequestStops, RequestEnds, RequestBusy,
         RequestDoes, RequestResolved, RequestStopComes, WithKernel, Ended, Waits,
         Request!At, Request!Started, Request!Idle, Request!queueVars,
         Request!stopVars, Request!ringVars, Request!resultVars
<1>1. CASE Request!RequestStop(o)
  BY <1>1 DEF Request!RequestStop
<1>2. CASE Request!AddStopEnqueued(o)
  BY <1>2 DEF Request!AddStopEnqueued
<1>3. CASE Request!Post(o)
  BY <1>3 DEF Request!Post
<1>. QED
  BY <1>1, <1>2, <1>3

(* request_stop() on the I/O thread: a cancel is sent, or waits, or the  *)
(* operation is taken out of its queue. *)
LEMMA RequestStopsLocally ==
  ASSUME RequestInv, NEW o \in Ops, Request!RequestStopLocally(o)
  PROVE  RequestInv'
<1>. USE SqSizeAssumption DEF RequestInv, Request!TypeOk, Request!FunctionsSuitQueues,
         Request!KernelDecides, Request!CompletionFns, RequestOk, RequestQueued,
         RequestBetween, RequestRuns, RequestStops, RequestEnds, RequestBusy,
         RequestDoes, RequestResolved, RequestStopComes, WithKernel, Ended, Waits,
         Request!At, Request!Started, Request!Idle, Request!queueVars,
         Request!stopVars, Request!ringVars, Request!resultVars,
         Request!RequestStopLocally, Request!RequestStopFromIoThread,
         Request!SubmitCancel, Request!AwaitCancelSqe, Request!Withdraw,
         Request!Acquired, Request!Deliver
<1>1. CASE Ended(r_state[o])
  <2>1. Request!TypeOk'
    BY <1>1
  <2>2. Request!FunctionsSuitQueues' /\ Request!KernelDecides'
    BY <1>1
  <2>3. \A p \in Ops : RequestOk(p)'
    BY <1>1
  <2>. QED
    BY <2>1, <2>2, <2>3
<1>2. CASE ~Ended(r_state[o]) /\ Request!SubmitCancel(o)
  <2>1. Request!TypeOk'
    BY <1>2
  <2>2. Request!FunctionsSuitQueues' /\ Request!KernelDecides'
    BY <1>2
  <2>3. \A p \in Ops : RequestOk(p)'
    BY <1>2
  <2>. QED
    BY <2>1, <2>2, <2>3
<1>3. CASE ~Ended(r_state[o]) /\ Request!AwaitCancelSqe(o)
  <2>1. Request!TypeOk'
    BY <1>3
  <2>2. Request!FunctionsSuitQueues' /\ Request!KernelDecides'
    BY <1>3
  <2>3. \A p \in Ops : RequestOk(p)'
    BY <1>3
  <2>. QED
    BY <2>1, <2>2, <2>3
<1>4. CASE ~Ended(r_state[o]) /\ Request!Withdraw(o)
  <2>1. Request!TypeOk'
    BY <1>4
  <2>2. Request!FunctionsSuitQueues' /\ Request!KernelDecides'
    BY <1>4
  <2>3. \A p \in Ops : RequestOk(p)'
    BY <1>4
  <2>. QED
    BY <2>1, <2>2, <2>3
<1>. QED
  BY <1>1, <1>2, <1>3, <1>4

(* The same for a stop item, which may find the result stored. *)
LEMMA RequestIsStopped ==
  ASSUME RequestInv, NEW o \in Ops, Request!WhenStopRequestOnIoThread(o)
  PROVE  RequestInv'
<1>. USE SqSizeAssumption DEF RequestInv, Request!TypeOk, Request!FunctionsSuitQueues,
         Request!KernelDecides, Request!CompletionFns, RequestOk, RequestQueued,
         RequestBetween, RequestRuns, RequestStops, RequestEnds, RequestBusy,
         RequestDoes, RequestResolved, RequestStopComes, WithKernel, Ended, Waits,
         Request!At, Request!Started, Request!Idle, Request!queueVars,
         Request!stopVars, Request!ringVars, Request!resultVars,
         Request!WhenStopRequestOnIoThread, Request!RequestStopFromIoThread,
         Request!SubmitCancel, Request!AwaitCancelSqe, Request!Withdraw,
         Request!Acquired, Request!Deliver
<1>1. CASE Ended(r_state[o])
  <2>1. Request!TypeOk'
    BY <1>1
  <2>2. Request!FunctionsSuitQueues' /\ Request!KernelDecides'
    BY <1>1
  <2>3. \A p \in Ops : RequestOk(p)'
    BY <1>1
  <2>. QED
    BY <2>1, <2>2, <2>3
<1>2. CASE ~Ended(r_state[o]) /\ Request!SubmitCancel(o)
  <2>1. Request!TypeOk'
    BY <1>2
  <2>2. Request!FunctionsSuitQueues' /\ Request!KernelDecides'
    BY <1>2
  <2>3. \A p \in Ops : RequestOk(p)'
    BY <1>2
  <2>. QED
    BY <2>1, <2>2, <2>3
<1>3. CASE ~Ended(r_state[o]) /\ Request!AwaitCancelSqe(o)
  <2>1. Request!TypeOk'
    BY <1>3
  <2>2. Request!FunctionsSuitQueues' /\ Request!KernelDecides'
    BY <1>3
  <2>3. \A p \in Ops : RequestOk(p)'
    BY <1>3
  <2>. QED
    BY <2>1, <2>2, <2>3
<1>4. CASE ~Ended(r_state[o]) /\ Request!Withdraw(o)
  <2>1. Request!TypeOk'
    BY <1>4
  <2>2. Request!FunctionsSuitQueues' /\ Request!KernelDecides'
    BY <1>4
  <2>3. \A p \in Ops : RequestOk(p)'
    BY <1>4
  <2>. QED
    BY <2>1, <2>2, <2>3
<1>. QED
  BY <1>1, <1>2, <1>3, <1>4, ZenonT(40)

-----------------------------------------------------------------------------
(* Operations that are never stopped *)

LEMMA PlainInit == Plain!Init => PlainInv
BY SqSizeAssumption DEF Plain!Init, PlainInv, Plain!TypeOk, Plain!FunctionsSuitQueues,
   Plain!CompletesLast

(* All that is in a queue goes on. *)
LEMMA PlainMoves ==
  ASSUME PlainInv, Plain!AcquireRemoteItems \/ Plain!SubmitSqes
  PROVE  PlainInv'
<1>. USE SqSizeAssumption
     DEF PlainInv, Plain!TypeOk, Plain!FunctionsSuitQueues, Plain!CompletesLast
<1>1. CASE Plain!AcquireRemoteItems
  BY <1>1 DEF Plain!AcquireRemoteItems
<1>2. CASE Plain!SubmitSqes
  BY <1>2 DEF Plain!SubmitSqes
<1>. QED
  BY <1>1, <1>2

(* An operation starts, and goes on to the timers or to the kernel. *)
LEMMA PlainStarts ==
  ASSUME PlainInv, NEW o \in Ops, Plain!StartOnIoThread(o) \/ Plain!StartRemotely(o)
  PROVE  PlainInv'
<1>. USE SqSizeAssumption
     DEF PlainInv, Plain!TypeOk, Plain!FunctionsSuitQueues, Plain!CompletesLast, Plain!At
<1>1. CASE Plain!StartOnIoThread(o)
  BY <1>1 DEF Plain!StartOnIoThread, Plain!OnIoThread, Plain!WhenOnIoContext,
     Plain!WhenOnIoThread
<1>2. CASE Plain!StartRemotely(o)
  BY <1>2 DEF Plain!StartRemotely
<1>. QED
  BY <1>1, <1>2

(* The loop calls the function that it holds. *)
LEMMA PlainRuns ==
  ASSUME PlainInv, NEW o \in Ops, Plain!Step(o)
  PROVE  PlainInv'
<1>. USE SqSizeAssumption
     DEF PlainInv, Plain!TypeOk, Plain!FunctionsSuitQueues, Plain!CompletesLast, Plain!At,
         Plain!Complete
<1>1. CASE Plain!Execute(o)
  BY <1>1 DEF Plain!Execute, Plain!OnIoThread, Plain!WhenOnIoContext,
     Plain!WhenOnIoThread
<1>2. CASE Plain!ExecuteDue(o)
  BY <1>2 DEF Plain!ExecuteDue
<1>3. CASE Plain!WhenOpCompleted(o)
  BY <1>3 DEF Plain!WhenOpCompleted
<1>. QED
  BY <1>1, <1>2, <1>3 DEF Plain!Step

-----------------------------------------------------------------------------
(* Files *)

(* The number that the kernel gives to the next file is a free one. *)
LEMMA FreeNumber ==
  ASSUME Files!Free # {}
  PROVE  Files!Min(Files!Free) \in {3, 4} /\ f_table[Files!Min(Files!Free)] = 0
<1>1. \E d \in Files!Free : \A e \in Files!Free : d <= e
  BY DEF Files!Free, Files!NoFile
<1>. QED
  BY <1>1 DEF Files!Free, Files!NoFile, Files!Min

(* What is left to show of the open files is that each still has an owner. *)
LEMMA OpenFilesStayOwned ==
  ASSUME f_abandoned' \subseteq 1..f_files',
         \A d \in {3, 4} : f_table'[d] \in 0..f_files',
         \A d, e \in {3, 4} : f_table'[d] = f_table'[e] /\ d # e => f_table'[d] = 0,
         \A f : \A d \in {3, 4} :
            f_table'[d] = f /\ f \notin f_abandoned' \cup {0} => Owned(f)'
  PROVE  OpenFilesAreOwned'
<1>1. ASSUME NEW d \in {3, 4}
      PROVE  f_table'[d] \in f_abandoned' \cup {0} \/ Owned(f_table[d])'
  <2>1. PICK f : f_table'[d] = f
    OBVIOUS
  <2>2. f \in f_abandoned' \cup {0} \/ Owned(f)'
    BY <2>1
  <2>. QED
    BY ONLY <2>1, <2>2 DEF Owned
<1>. QED
  BY <1>1 DEF OpenFilesAreOwned

(* A close of what an owner has, if anything, meets the right file, and    *)
(* touches nobody else's, ...                                              *)
LEMMA FileIsClosed ==
  ASSUME FilesInv, NEW gone, OwnedOrNone(gone), Files!CloseIn(gone),
         UNCHANGED <<f_files, f_abandoned>>
  PROVE  /\ f_table' \in [{3, 4} -> 0..3]
         /\ ~f_wrong'
         /\ \A owner : Valid(owner) /\ Apart(owner, gone) => Valid(owner)'
         /\ \A d \in {3, 4} : \/ f_table'[d] = 0
                              \/ f_table'[d] = f_table[d] /\ f_table[d] # gone.file
<1>1. /\ f_table \in [{3, 4} -> 0..3] /\ f_files \in 0..3
      /\ f_table' = [d \in {3, 4} |-> IF d = gone.fd THEN 0 ELSE f_table[d]]
  BY DEF Files!CloseIn, Files!NoFile, FilesInv, Files!TypeOk
<1>2. f_table' \in [{3, 4} -> 0..3]
  BY ONLY <1>1
<1>3. ~f_wrong'
  <2>1. gone.fd # -1 => f_table[gone.fd] = gone.file
    BY ONLY OwnedOrNone(gone) DEF OwnedOrNone, Valid, Files!Invalid
  <2>2. ~f_wrong /\ f_wrong' = (f_wrong \/ (gone.fd # -1 /\ f_table[gone.fd] # gone.file))
    BY DEF Files!CloseIn, FilesInv
  <2>. QED
    BY ONLY <2>1, <2>2
<1>4. ASSUME NEW owner, Valid(owner), Apart(owner, gone) PROVE Valid(owner)'
  <2>1. owner.fd # gone.fd /\ owner.fd \in {3, 4}
    BY ONLY <1>1, <1>4, OwnedOrNone(gone) DEF Valid, Apart, OwnedOrNone, Files!Invalid
  <2>2. f_table'[owner.fd] = f_table[owner.fd]
    BY ONLY <1>1, <2>1
  <2>. QED
    BY <1>4, <2>1, <2>2 DEF Valid
<1>5. ASSUME NEW d \in {3, 4}, f_table'[d] # 0
      PROVE  f_table'[d] = f_table[d] /\ f_table[d] # gone.file
  <2>1. f_table'[d] = f_table[d] /\ d # gone.fd
    BY ONLY <1>1, <1>5
  <2>2. CASE Valid(gone)
    BY ONLY <1>5, <2>1, <2>2, FilesInv DEF FilesInv, OpenFilesAreOwned, Valid
  <2>3. CASE gone = Files!Invalid
    BY ONLY <1>5, <2>1, <2>3 DEF Files!Invalid, Files!NoFile
  <2>. QED
    BY ONLY <2>2, <2>3, OwnedOrNone(gone) DEF OwnedOrNone
<1>. QED
  BY ONLY <1>2, <1>3, <1>4, <1>5

(* ... so that what stays open has its owner, if the other owners stay.    *)
LEMMA OthersStayOwned ==
  ASSUME FilesInv, NEW gone, UNCHANGED <<f_files, f_abandoned>>,
         \A d \in {3, 4} : \/ f_table'[d] = 0
                           \/ f_table'[d] = f_table[d] /\ f_table[d] # gone.file,
         \A f : f # 0 /\ f # gone.file /\ Owned(f) => Owned(f)'
  PROVE  OpenFilesAreOwned'
<1>1. f_files \in Nat
  BY DEF FilesInv, Files!TypeOk
<1>2. /\ f_abandoned \subseteq 1..f_files
      /\ \A d \in {3, 4} : f_table'[d] \in 0..f_files
  BY ONLY <1>1, FilesInv, \A d \in {3, 4} : f_table'[d] = 0 \/ f_table'[d] = f_table[d]
     DEF FilesInv, OpenFilesAreOwned
<1>3. \A d, e \in {3, 4} : f_table'[d] = f_table'[e] /\ d # e => f_table'[d] = 0
  BY ONLY FilesInv, \A d \in {3, 4} : f_table'[d] = 0 \/ f_table'[d] = f_table[d]
     DEF FilesInv, OpenFilesAreOwned
<1>4. ASSUME NEW f, NEW d \in {3, 4}, f_table'[d] = f, f \notin f_abandoned' \cup {0}
      PROVE  Owned(f)'
  <2>1. f_table[d] = f /\ f # 0 /\ f # gone.file /\ f \notin f_abandoned
    BY <1>4
  <2>2. Owned(f)
    BY ONLY <2>1, FilesInv DEF FilesInv, OpenFilesAreOwned
  <2>. QED
    BY <2>1, <2>2
<1>. QED
  BY ONLY OpenFilesStayOwned, <1>2, <1>3, <1>4, UNCHANGED <<f_files, f_abandoned>>

(* An owner may also pass a file on, when nothing is closed.               *)
LEMMA KeptFilesStayOwned ==
  ASSUME FilesInv, UNCHANGED <<f_table, f_files, f_abandoned>>,
         \A f : f # 0 /\ Owned(f) => Owned(f)'
  PROVE  OpenFilesAreOwned'
<1>1. ASSUME NEW d \in {3, 4}
      PROVE  f_table[d] \in f_abandoned \cup {0} \/ Owned(f_table[d])'
  <2>1. PICK f : f_table[d] = f
    OBVIOUS
  <2>2. f \in f_abandoned \cup {0} \/ Owned(f)'
    BY <2>1 DEF FilesInv, OpenFilesAreOwned
  <2>. QED
    BY ONLY <2>1, <2>2, UNCHANGED f_table DEF Owned
<1>. QED
  BY <1>1 DEF FilesInv, OpenFilesAreOwned

(* openat: the kernel takes a free number for a file that nobody has. *)
LEMMA FileOpenInKernel ==
  ASSUME FilesInv, NEW o \in Ops, Files!OpenInKernel(o)
  PROVE  FilesInv'
<1>1. PICK m \in {3, 4} : m = Files!Min(Files!Free) /\ f_table[m] = 0
  BY FreeNumber DEF Files!OpenInKernel
<1>2. /\ f_files + 1 \in 1..3 /\ f_files' = f_files + 1 /\ f_files \in 0..3
      /\ UNCHANGED <<f_handle, f_closing, f_abandoned, f_wrong>>
  BY DEF Files!OpenInKernel, FilesInv, Files!TypeOk
<1>3. f_table \in [{3, 4} -> 0..3] /\ f_table' = [f_table EXCEPT ![m] = f_files + 1]
  BY <1>1 DEF Files!OpenInKernel, FilesInv, Files!TypeOk
<1>4. PICK new : new = [fd |-> m, file |-> f_files + 1]
  OBVIOUS
<1>5. /\ f_opening \in [Ops -> [at : {"idle", "reported"}, owns : Files!Owner]]
      /\ f_opening' = [f_opening EXCEPT ![o] = [at |-> "reported", owns |-> new]]
  BY <1>1, <1>4 DEF Files!OpenInKernel, FilesInv, Files!TypeOk
<1>6. f_opening[o].owns = Files!Invalid
  BY DEF Files!OpenInKernel, FilesInv, StatesSuitOwners
<1>7. \A owner : Valid(owner) => Valid(owner)' /\ owner.file # f_files + 1
  BY ONLY <1>1, <1>2, <1>3 DEF Valid
<1>8. \A f : f # 0 /\ Owned(f) => Owned(f)'
  BY ONLY <1>2, <1>5, <1>6 DEF Owned, Files!Invalid, Files!NoFile
<1>9. Files!TypeOk'
  <2>1. new \in Files!Owner
    BY ONLY <1>1, <1>2, <1>4 DEF Files!Owner
  <2>2. f_opening' \in [Ops -> [at : {"idle", "reported"}, owns : Files!Owner]]
    BY ONLY <1>5, <2>1
  <2>3. f_table' \in [{3, 4} -> 0..3] /\ f_files' \in 0..3
    BY ONLY <1>1, <1>2, <1>3
  <2>. QED
    BY ONLY <1>2, <2>2, <2>3, FilesInv DEF FilesInv, Files!TypeOk, Files!Owner
<1>10. ~f_wrong'
  BY ONLY <1>2, FilesInv DEF FilesInv
<1>11. OwnersAreValid'
  <2>1. f_abandoned \subseteq 1..f_files
    BY ONLY FilesInv DEF FilesInv, OpenFilesAreOwned
  <2>2. Valid(new)'
    BY ONLY <1>1, <1>2, <1>3, <1>4, <2>1 DEF Valid
  <2>3. f_opening'[o].owns = new /\ \A p \in Ops : p # o => f_opening'[p] = f_opening[p]
    BY ONLY <1>5
  <2>. QED
    BY ONLY <1>2, <1>7, <2>2, <2>3, FilesInv DEF FilesInv, OwnersAreValid, OwnedOrNone
<1>12. OwnersAreApart'
  <2>1. /\ \A h \in Ops : f_handle[h].file \in {0} \cup 1..f_files
        /\ \A p \in Ops : f_opening[p].owns.file \in {0} \cup 1..f_files
        /\ f_closing["close"].owns.file \in {0} \cup 1..f_files
    BY ONLY FilesInv DEF FilesInv, OwnersAreValid, OwnedOrNone, Valid, Files!Invalid,
       Files!NoFile
  <2>2. f_files + 1 \notin {0} \cup 1..f_files
    BY ONLY <1>2
  <2>3. /\ f_opening'[o].owns.file = f_files + 1
        /\ \A p \in Ops : p # o => f_opening'[p] = f_opening[p]
        /\ f_handle' = f_handle /\ f_closing' = f_closing
    BY ONLY <1>2, <1>4, <1>5
  <2>. QED
    BY ONLY <2>1, <2>2, <2>3, FilesInv DEF FilesInv, OwnersAreApart, Apart
<1>13. OpenFilesAreOwned'
  <2>1. \A d \in {3, 4} : \/ d = m /\ f_table'[d] = f_files + 1
                          \/ d # m /\ f_table'[d] = f_table[d]
    BY ONLY <1>3
  <2>2. f_opening'[o].owns.file = f_files + 1
    BY ONLY <1>4, <1>5
  <2>3. ASSUME NEW f, NEW d \in {3, 4}, f_table'[d] = f, f \notin f_abandoned \cup {0}
        PROVE  Owned(f)'
    <3>1. CASE d = m
      BY ONLY <2>1, <2>2, <2>3, <3>1 DEF Owned
    <3>2. CASE d # m
      <4>1. Owned(f)
        BY ONLY <2>1, <2>3, <3>2, FilesInv DEF FilesInv, OpenFilesAreOwned
      <4>. QED
        BY ONLY <1>8, <2>3, <4>1
    <3>. QED
      BY ONLY <3>1, <3>2
  <2>4. \A d, e \in {3, 4} : f_table'[d] = f_table'[e] /\ d # e => f_table'[d] = 0
    BY ONLY <1>2, <2>1, FilesInv DEF FilesInv, OpenFilesAreOwned
  <2>5. /\ \A d \in {3, 4} : f_table'[d] \in 0..f_files'
        /\ f_abandoned' \subseteq 1..f_files'
    BY ONLY <1>2, <2>1, FilesInv DEF FilesInv, OpenFilesAreOwned
  <2>. QED
    BY ONLY OpenFilesStayOwned, <1>2, <2>3, <2>4, <2>5
<1>14. StatesSuitOwners'
  <2>1. new # Files!Invalid
    BY ONLY <1>2, <1>4 DEF Files!Invalid, Files!NoFile
  <2>. QED
    BY ONLY <1>2, <1>5, <2>1, FilesInv DEF FilesInv, StatesSuitOwners
<1>. QED
  BY ONLY <1>9, <1>10, <1>11, <1>12, <1>13, <1>14 DEF FilesInv

(* The file moves on to a handle, ... *)
LEMMA FileOpenCompletes ==
  ASSUME FilesInv, NEW o \in Ops, NEW h \in Ops, Files!OpenCompletes(o, h)
  PROVE  FilesInv'
<1>1. PICK moved : moved = f_opening[o].owns
  OBVIOUS
<1>2. /\ f_handle \in [Ops -> Files!Owner] /\ f_handle[h] = Files!Invalid
      /\ f_handle' = [f_handle EXCEPT ![h] = moved]
  BY <1>1 DEF FilesInv, Files!TypeOk, Files!OpenCompletes
<1>3. /\ f_opening \in [Ops -> [at : {"idle", "reported"}, owns : Files!Owner]]
      /\ f_opening' = [f_opening EXCEPT ![o] = [at |-> "idle", owns |-> Files!Invalid]]
  BY DEF FilesInv, Files!TypeOk, Files!OpenCompletes
<1>4. UNCHANGED <<f_table, f_files, f_closing, f_abandoned, f_wrong>>
  BY DEF Files!OpenCompletes
<1>5. /\ f_handle'[h] = moved
      /\ \A g \in Ops : g # h => f_handle'[g] = f_handle[g]
      /\ f_opening'[o].owns = Files!Invalid
      /\ \A p \in Ops : p # o => f_opening'[p] = f_opening[p]
  BY ONLY <1>2, <1>3
<1>6. Files!TypeOk'
  <2>1. moved \in Files!Owner /\ Files!Invalid \in Files!Owner
    BY ONLY <1>1, <1>3 DEF Files!Owner, Files!Invalid, Files!NoFile
  <2>2. /\ f_handle' \in [Ops -> Files!Owner]
        /\ f_opening' \in [Ops -> [at : {"idle", "reported"}, owns : Files!Owner]]
    BY ONLY <1>2, <1>3, <2>1
  <2>. QED
    BY ONLY <1>4, <2>2, FilesInv DEF FilesInv, Files!TypeOk, Files!Owner
<1>7. ~f_wrong'
  BY ONLY <1>4, FilesInv DEF FilesInv
<1>8. OwnersAreValid'
  BY ONLY <1>1, <1>4, <1>5, FilesInv DEF FilesInv, OwnersAreValid, OwnedOrNone, Valid
<1>9. OwnersAreApart'
  BY ONLY <1>1, <1>4, <1>5, FilesInv DEF FilesInv, OwnersAreApart, Apart, Files!Invalid,
     Files!NoFile
<1>10. OpenFilesAreOwned'
  <2>1. ASSUME NEW f, f # 0, Owned(f) PROVE Owned(f)'
    BY ONLY <1>1, <1>2, <1>4, <1>5, <2>1 DEF Owned, Files!Invalid, Files!NoFile
  <2>. QED
    BY ONLY <1>4, <2>1, FilesInv, KeptFilesStayOwned
<1>11. StatesSuitOwners'
  BY ONLY <1>3, <1>4, FilesInv DEF FilesInv, StatesSuitOwners
<1>. QED
  BY ONLY <1>6, <1>7, <1>8, <1>9, <1>10, <1>11 DEF FilesInv

(* ... or is closed. *)
LEMMA FileOpenIsDiscarded ==
  ASSUME FilesInv, NEW o \in Ops, Files!OpenIsDiscarded(o)
  PROVE  FilesInv'
<1>1. PICK gone : gone = f_opening[o].owns
  OBVIOUS
<1>2. /\ f_opening \in [Ops -> [at : {"idle", "reported"}, owns : Files!Owner]]
      /\ f_opening' = [f_opening EXCEPT ![o] = [at |-> "idle", owns |-> Files!Invalid]]
  BY DEF FilesInv, Files!TypeOk, Files!OpenIsDiscarded
<1>3. UNCHANGED <<f_files, f_handle, f_closing, f_abandoned>>
  BY DEF Files!OpenIsDiscarded
<1>4. /\ f_opening'[o].owns = Files!Invalid
      /\ \A p \in Ops : p # o => f_opening'[p] = f_opening[p]
  BY ONLY <1>2
<1>5. OwnedOrNone(gone) /\ Files!CloseIn(gone)
  BY <1>1 DEF Files!OpenIsDiscarded, FilesInv, OwnersAreValid
<1>6. /\ f_table' \in [{3, 4} -> 0..3]
      /\ ~f_wrong'
      /\ \A owner : Valid(owner) /\ Apart(owner, gone) => Valid(owner)'
      /\ \A d \in {3, 4} : \/ f_table'[d] = 0
                           \/ f_table'[d] = f_table[d] /\ f_table[d] # gone.file
  BY ONLY <1>3, <1>5, FilesInv, FileIsClosed
<1>7. Files!TypeOk'
  <2>1. f_opening' \in [Ops -> [at : {"idle", "reported"}, owns : Files!Owner]]
    BY ONLY <1>2 DEF Files!Owner, Files!Invalid, Files!NoFile
  <2>2. f_wrong' \in BOOLEAN
    BY <1>5 DEF Files!CloseIn
  <2>. QED
    BY ONLY <1>3, <1>6, <2>1, <2>2, FilesInv DEF FilesInv, Files!TypeOk, Files!Owner
<1>8. OwnersAreValid'
  BY ONLY <1>1, <1>3, <1>4, <1>6, FilesInv DEF FilesInv, OwnersAreValid, OwnersAreApart,
     OwnedOrNone, Apart
<1>9. OwnersAreApart'
  BY ONLY <1>3, <1>4, FilesInv DEF FilesInv, OwnersAreApart, Apart, Files!Invalid,
     Files!NoFile
<1>10. OpenFilesAreOwned'
  <2>1. ASSUME NEW f, f # gone.file, Owned(f) PROVE Owned(f)'
    BY ONLY <1>1, <1>3, <1>4, <2>1 DEF Owned
  <2>. QED
    BY ONLY <1>3, <1>6, <2>1, FilesInv, OthersStayOwned
<1>11. StatesSuitOwners'
  BY ONLY <1>2, <1>3, FilesInv DEF FilesInv, StatesSuitOwners
<1>. QED
  BY ONLY <1>6, <1>7, <1>8, <1>9, <1>10, <1>11 DEF FilesInv

(* A handle closes the file that is its own. *)
LEMMA FileClose ==
  ASSUME FilesInv, NEW h \in Ops, Files!Close(h)
  PROVE  FilesInv'
<1>1. PICK gone : gone = f_handle[h]
  OBVIOUS
<1>2. /\ f_handle \in [Ops -> Files!Owner]
      /\ f_handle' = [f_handle EXCEPT ![h] = Files!Invalid]
  BY DEF FilesInv, Files!TypeOk, Files!Close
<1>3. UNCHANGED <<f_files, f_opening, f_closing, f_abandoned>>
  BY DEF Files!Close
<1>4. /\ f_handle'[h] = Files!Invalid
      /\ \A g \in Ops : g # h => f_handle'[g] = f_handle[g]
  BY ONLY <1>2
<1>5. OwnedOrNone(gone) /\ Files!CloseIn(gone)
  BY <1>1 DEF Files!Close, FilesInv, OwnersAreValid
<1>6. /\ f_table' \in [{3, 4} -> 0..3]
      /\ ~f_wrong'
      /\ \A owner : Valid(owner) /\ Apart(owner, gone) => Valid(owner)'
      /\ \A d \in {3, 4} : \/ f_table'[d] = 0
                           \/ f_table'[d] = f_table[d] /\ f_table[d] # gone.file
  BY ONLY <1>3, <1>5, FilesInv, FileIsClosed
<1>7. Files!TypeOk'
  <2>1. f_handle' \in [Ops -> Files!Owner]
    BY ONLY <1>2 DEF Files!Owner, Files!Invalid, Files!NoFile
  <2>2. f_wrong' \in BOOLEAN
    BY <1>5 DEF Files!CloseIn
  <2>. QED
    BY ONLY <1>3, <1>6, <2>1, <2>2, FilesInv DEF FilesInv, Files!TypeOk, Files!Owner
<1>8. OwnersAreValid'
  BY ONLY <1>1, <1>3, <1>4, <1>6, FilesInv DEF FilesInv, OwnersAreValid, OwnersAreApart,
     OwnedOrNone, Apart
<1>9. OwnersAreApart'
  BY ONLY <1>3, <1>4, FilesInv DEF FilesInv, OwnersAreApart, Apart, Files!Invalid,
     Files!NoFile
<1>10. OpenFilesAreOwned'
  <2>1. ASSUME NEW f, f # gone.file, Owned(f) PROVE Owned(f)'
    BY ONLY <1>1, <1>3, <1>4, <2>1 DEF Owned
  <2>. QED
    BY ONLY <1>3, <1>6, <2>1, FilesInv, OthersStayOwned
<1>11. StatesSuitOwners'
  BY ONLY <1>3, FilesInv DEF FilesInv, StatesSuitOwners
<1>. QED
  BY ONLY <1>6, <1>7, <1>8, <1>9, <1>10, <1>11 DEF FilesInv

(* An assignment closes what was there, unless it is to itself. *)
LEMMA FileAssign ==
  ASSUME FilesInv, NEW h \in Ops, NEW o \in Ops, Files!Assign(h, o)
  PROVE  FilesInv'
<1>1. PICK gone : gone = IF h = o THEN Files!Invalid ELSE f_handle[h]
  OBVIOUS
<1>2. /\ f_handle \in [Ops -> Files!Owner]
      /\ f_handle' = [g \in Ops |-> IF g = h THEN f_handle[o] ELSE IF g = o THEN Files!Invalid ELSE f_handle[g]]
  BY DEF Files!Assign, FilesInv, Files!TypeOk
<1>3. UNCHANGED <<f_files, f_opening, f_closing, f_abandoned>>
  BY DEF Files!Assign
<1>4. /\ f_handle'[h] = f_handle[o]
      /\ h # o => f_handle'[o] = Files!Invalid
      /\ \A g \in Ops : g # h /\ g # o => f_handle'[g] = f_handle[g]
  BY ONLY <1>2
<1>5. OwnedOrNone(gone) /\ Files!CloseIn(gone)
  <2>1. Files!CloseIn(gone)
    BY <1>1, <1>2, Files!Assign(h, o) DEF Files!Assign
  <2>2. OwnedOrNone(gone)
    BY ONLY <1>1, FilesInv DEF FilesInv, OwnersAreValid, OwnedOrNone
  <2>. QED
    BY ONLY <2>1, <2>2
<1>6. /\ f_table' \in [{3, 4} -> 0..3]
      /\ ~f_wrong'
      /\ \A owner : Valid(owner) /\ Apart(owner, gone) => Valid(owner)'
      /\ \A d \in {3, 4} : \/ f_table'[d] = 0
                           \/ f_table'[d] = f_table[d] /\ f_table[d] # gone.file
  BY ONLY <1>3, <1>5, FilesInv, FileIsClosed
<1>7. Files!TypeOk'
  <2>1. f_handle' \in [Ops -> Files!Owner]
    BY ONLY <1>2 DEF Files!Owner, Files!Invalid, Files!NoFile
  <2>2. f_wrong' \in BOOLEAN
    BY <1>5 DEF Files!CloseIn
  <2>. QED
    BY ONLY <1>3, <1>6, <2>1, <2>2, FilesInv DEF FilesInv, Files!TypeOk, Files!Owner
<1>8. OwnersAreValid'
  <2>1. \A g \in Ops : g = o \/ g # h => Apart(f_handle[g], gone)
    BY ONLY <1>1, FilesInv DEF FilesInv, OwnersAreApart, Apart, Files!Invalid, Files!NoFile
  <2>2. /\ \A p \in Ops : Apart(f_opening[p].owns, gone)
        /\ Apart(f_closing["close"].owns, gone)
    BY ONLY <1>1, FilesInv DEF FilesInv, OwnersAreApart, Apart, Files!Invalid, Files!NoFile
  <2>3. /\ \A p \in Ops : OwnedOrNone(f_opening[p].owns)'
        /\ OwnedOrNone(f_closing["close"].owns)'
    BY ONLY <1>3, <1>6, <2>2, FilesInv DEF FilesInv, OwnersAreValid, OwnedOrNone
  <2>4. ASSUME NEW g \in Ops PROVE OwnedOrNone(f_handle[g])'
    BY ONLY <1>4, <1>6, <2>1, FilesInv DEF FilesInv, OwnersAreValid, OwnedOrNone
  <2>. QED
    BY ONLY <2>3, <2>4 DEF OwnersAreValid
<1>9. OwnersAreApart'
  BY ONLY <1>3, <1>4, FilesInv DEF FilesInv, OwnersAreApart, Apart, Files!Invalid,
     Files!NoFile
<1>10. OpenFilesAreOwned'
  <2>1. ASSUME NEW f, f # 0, f # gone.file, Owned(f) PROVE Owned(f)'
    BY ONLY <1>1, <1>3, <1>4, <2>1 DEF Owned
  <2>. QED
    BY ONLY <1>3, <1>6, <2>1, FilesInv, OthersStayOwned
<1>11. StatesSuitOwners'
  BY ONLY <1>3, FilesInv DEF FilesInv, StatesSuitOwners
<1>. QED
  BY ONLY <1>6, <1>7, <1>8, <1>9, <1>10, <1>11 DEF FilesInv

(* A swap only changes which handle has which file. *)
LEMMA FileSwap ==
  ASSUME FilesInv, NEW h \in Ops, NEW o \in Ops, Files!Swap(h, o)
  PROVE  FilesInv'
<1>1. /\ f_handle \in [Ops -> Files!Owner]
      /\ f_handle' = [g \in Ops |-> IF g = o THEN f_handle[h] ELSE IF g = h THEN f_handle[o] ELSE f_handle[g]]
  BY DEF Files!Swap, FilesInv, Files!TypeOk
<1>2. UNCHANGED <<f_table, f_files, f_opening, f_closing, f_abandoned, f_wrong>>
  BY DEF Files!Swap
<1>3. /\ f_handle'[o] = f_handle[h] /\ f_handle'[h] = f_handle[o]
      /\ \A g \in Ops : g # h /\ g # o => f_handle'[g] = f_handle[g]
  BY ONLY <1>1
<1>4. Files!TypeOk'
  <2>1. f_handle' \in [Ops -> Files!Owner]
    BY ONLY <1>1
  <2>. QED
    BY ONLY <1>2, <2>1, FilesInv DEF FilesInv, Files!TypeOk, Files!Owner
<1>5. ~f_wrong'
  BY ONLY <1>2, FilesInv DEF FilesInv
<1>6. OwnersAreValid'
  BY ONLY <1>2, <1>3, FilesInv DEF FilesInv, OwnersAreValid, OwnedOrNone, Valid
<1>7. OwnersAreApart'
  BY ONLY <1>2, <1>3, FilesInv DEF FilesInv, OwnersAreApart, Apart
<1>8. OpenFilesAreOwned'
  <2>1. ASSUME NEW f, Owned(f) PROVE Owned(f)'
    BY ONLY <1>2, <1>3, <2>1 DEF Owned
  <2>. QED
    BY ONLY <1>2, <2>1, FilesInv, KeptFilesStayOwned
<1>9. StatesSuitOwners'
  BY ONLY <1>2, FilesInv DEF FilesInv, StatesSuitOwners
<1>. QED
  BY ONLY <1>4, <1>5, <1>6, <1>7, <1>8, <1>9 DEF FilesInv

(* close(): the number goes from the handle to the sender, ... *)
LEMMA FileRelease ==
  ASSUME FilesInv, NEW h \in Ops, Files!Release(h, "close")
  PROVE  FilesInv'
<1>1. PICK moved : moved = f_handle[h]
  OBVIOUS
<1>2. /\ f_handle \in [Ops -> Files!Owner] /\ moved # Files!Invalid
      /\ f_handle' = [f_handle EXCEPT ![h] = Files!Invalid]
  BY <1>1 DEF FilesInv, Files!TypeOk, Files!Release
<1>3. /\ f_closing \in [{"close"} -> [at : {"none", "sender", "operation"}, owns : Files!Owner]]
      /\ f_closing["close"].at = "none"
      /\ f_closing' = [f_closing EXCEPT !["close"] = [at |-> "sender", owns |-> moved]]
  BY <1>1 DEF FilesInv, Files!TypeOk, Files!Release
<1>4. UNCHANGED <<f_table, f_files, f_opening, f_abandoned, f_wrong>>
  BY DEF Files!Release
<1>5. /\ f_handle'[h] = Files!Invalid
      /\ \A g \in Ops : g # h => f_handle'[g] = f_handle[g]
      /\ f_closing'["close"] = [at |-> "sender", owns |-> moved]
  BY ONLY <1>2, <1>3
<1>6. f_closing["close"].owns = Files!Invalid
  BY ONLY <1>3, FilesInv DEF FilesInv, StatesSuitOwners
<1>7. Files!TypeOk'
  <2>1. moved \in Files!Owner /\ Files!Invalid \in Files!Owner
    BY ONLY <1>1, <1>2 DEF Files!Owner, Files!Invalid, Files!NoFile
  <2>2. /\ f_handle' \in [Ops -> Files!Owner]
        /\ f_closing' \in [{"close"} -> [at : {"none", "sender", "operation"}, owns : Files!Owner]]
    BY ONLY <1>2, <1>3, <2>1
  <2>. QED
    BY ONLY <1>4, <2>2, FilesInv DEF FilesInv, Files!TypeOk, Files!Owner
<1>8. ~f_wrong'
  BY ONLY <1>4, FilesInv DEF FilesInv
<1>9. OwnersAreValid'
  BY ONLY <1>1, <1>4, <1>5, FilesInv DEF FilesInv, OwnersAreValid, OwnedOrNone, Valid
<1>10. OwnersAreApart'
  BY ONLY <1>1, <1>4, <1>5, FilesInv DEF FilesInv, OwnersAreApart, Apart, Files!Invalid,
     Files!NoFile
<1>11. OpenFilesAreOwned'
  <2>1. ASSUME NEW f, f # 0, Owned(f) PROVE Owned(f)'
    BY ONLY <1>1, <1>4, <1>5, <1>6, <2>1 DEF Owned, Files!Invalid, Files!NoFile
  <2>. QED
    BY ONLY <1>4, <2>1, FilesInv, KeptFilesStayOwned
<1>12. StatesSuitOwners'
  BY ONLY <1>2, <1>4, <1>5, FilesInv DEF FilesInv, StatesSuitOwners
<1>. QED
  BY ONLY <1>7, <1>8, <1>9, <1>10, <1>11, <1>12 DEF FilesInv

(* ... from there to the operation, ... *)
LEMMA FileConnect ==
  ASSUME FilesInv, Files!Connect("close")
  PROVE  FilesInv'
<1>1. /\ f_closing \in [{"close"} -> [at : {"none", "sender", "operation"}, owns : Files!Owner]]
      /\ f_closing["close"].at = "sender"
      /\ f_closing' = [f_closing EXCEPT !["close"].at = "operation"]
  BY DEF FilesInv, Files!TypeOk, Files!Connect
<1>2. UNCHANGED <<f_table, f_files, f_handle, f_opening, f_abandoned, f_wrong>>
  BY DEF Files!Connect
<1>3. /\ f_closing'["close"].at = "operation"
      /\ f_closing'["close"].owns = f_closing["close"].owns
  BY ONLY <1>1
<1>4. Files!TypeOk'
  <2>1. f_closing' \in [{"close"} -> [at : {"none", "sender", "operation"}, owns : Files!Owner]]
    BY ONLY <1>1
  <2>. QED
    BY ONLY <1>2, <2>1, FilesInv DEF FilesInv, Files!TypeOk, Files!Owner
<1>5. ~f_wrong'
  BY ONLY <1>2, FilesInv DEF FilesInv
<1>6. OwnersAreValid'
  BY ONLY <1>2, <1>3, FilesInv DEF FilesInv, OwnersAreValid, OwnedOrNone, Valid
<1>7. OwnersAreApart'
  BY ONLY <1>2, <1>3, FilesInv DEF FilesInv, OwnersAreApart, Apart
<1>8. OpenFilesAreOwned'
  BY ONLY <1>2, <1>3, FilesInv DEF FilesInv, OpenFilesAreOwned, Owned
<1>9. StatesSuitOwners'
  BY ONLY <1>1, <1>2, <1>3, FilesInv DEF FilesInv, StatesSuitOwners
<1>. QED
  BY ONLY <1>4, <1>5, <1>6, <1>7, <1>8, <1>9 DEF FilesInv

(* ... which closes the file ... *)
LEMMA FileCloseCompletes ==
  ASSUME FilesInv, Files!CloseCompletes("close")
  PROVE  FilesInv'
<1>1. PICK gone : gone = f_closing["close"].owns
  OBVIOUS
<1>2. /\ f_closing \in [{"close"} -> [at : {"none", "sender", "operation"}, owns : Files!Owner]]
      /\ f_closing' = [f_closing EXCEPT !["close"] = [at |-> "none", owns |-> Files!Invalid]]
  BY DEF FilesInv, Files!TypeOk, Files!CloseCompletes
<1>3. UNCHANGED <<f_files, f_handle, f_opening, f_abandoned>>
  BY DEF Files!CloseCompletes
<1>4. f_closing'["close"] = [at |-> "none", owns |-> Files!Invalid]
  BY ONLY <1>2
<1>5. OwnedOrNone(gone) /\ Files!CloseIn(gone)
  BY <1>1 DEF Files!CloseCompletes, FilesInv, OwnersAreValid
<1>6. /\ f_table' \in [{3, 4} -> 0..3]
      /\ ~f_wrong'
      /\ \A owner : Valid(owner) /\ Apart(owner, gone) => Valid(owner)'
      /\ \A d \in {3, 4} : \/ f_table'[d] = 0
                           \/ f_table'[d] = f_table[d] /\ f_table[d] # gone.file
  BY ONLY <1>3, <1>5, FilesInv, FileIsClosed
<1>7. Files!TypeOk'
  <2>1. f_closing' \in [{"close"} -> [at : {"none", "sender", "operation"}, owns : Files!Owner]]
    BY ONLY <1>2 DEF Files!Owner, Files!Invalid, Files!NoFile
  <2>2. f_wrong' \in BOOLEAN
    BY <1>5 DEF Files!CloseIn
  <2>. QED
    BY ONLY <1>3, <1>6, <2>1, <2>2, FilesInv DEF FilesInv, Files!TypeOk, Files!Owner
<1>8. OwnersAreValid'
  BY ONLY <1>1, <1>3, <1>4, <1>6, FilesInv DEF FilesInv, OwnersAreValid, OwnersAreApart,
     OwnedOrNone
<1>9. OwnersAreApart'
  BY ONLY <1>3, <1>4, FilesInv DEF FilesInv, OwnersAreApart, Apart, Files!Invalid,
     Files!NoFile
<1>10. OpenFilesAreOwned'
  <2>1. ASSUME NEW f, f # gone.file, Owned(f) PROVE Owned(f)'
    BY ONLY <1>1, <1>3, <2>1 DEF Owned
  <2>. QED
    BY ONLY <1>3, <1>6, <2>1, FilesInv, OthersStayOwned
<1>11. StatesSuitOwners'
  BY ONLY <1>3, <1>4, FilesInv DEF FilesInv, StatesSuitOwners
<1>. QED
  BY ONLY <1>6, <1>7, <1>8, <1>9, <1>10, <1>11 DEF FilesInv

(* ... or forgets it, while it stays open. *)
LEMMA FileCloseIsDropped ==
  ASSUME FilesInv, Files!CloseIsDropped("close")
  PROVE  FilesInv'
<1>1. PICK lost : lost = f_closing["close"].owns
  OBVIOUS
<1>2. /\ f_closing \in [{"close"} -> [at : {"none", "sender", "operation"}, owns : Files!Owner]]
      /\ f_closing["close"].at # "none"
      /\ f_closing' = [f_closing EXCEPT !["close"] = [at |-> "none", owns |-> Files!Invalid]]
  BY DEF FilesInv, Files!TypeOk, Files!CloseIsDropped
<1>3. /\ UNCHANGED <<f_table, f_files, f_handle, f_opening, f_wrong>>
      /\ f_abandoned' = f_abandoned \cup {lost.file}
  BY <1>1 DEF Files!CloseIsDropped
<1>4. f_closing'["close"] = [at |-> "none", owns |-> Files!Invalid]
  BY ONLY <1>2
<1>5. Valid(lost)
  BY ONLY <1>1, <1>2, FilesInv DEF FilesInv, StatesSuitOwners, OwnersAreValid, OwnedOrNone
<1>6. \A owner : Valid(owner) /\ Apart(owner, lost) => Valid(owner)'
  <2>1. f_files \in 0..3
    BY ONLY FilesInv DEF FilesInv, Files!TypeOk
  <2>. QED
    BY ONLY <1>3, <2>1 DEF Valid, Apart
<1>7. Files!TypeOk'
  <2>1. f_closing' \in [{"close"} -> [at : {"none", "sender", "operation"}, owns : Files!Owner]]
    BY ONLY <1>2 DEF Files!Owner, Files!Invalid, Files!NoFile
  <2>2. f_abandoned' \subseteq 1..3
    <3>1. f_files \in 0..3 /\ f_abandoned \subseteq 1..3
      BY ONLY FilesInv DEF FilesInv, Files!TypeOk
    <3>2. lost.file \in 1..f_files
      BY ONLY <1>5 DEF Valid
    <3>3. lost.file \in 1..3
      BY ONLY <3>1, <3>2
    <3>4. f_abandoned' = f_abandoned \cup {lost.file}
      BY ONLY <1>3
    <3>. QED
      BY ONLY <3>1, <3>3, <3>4
  <2>. QED
    BY ONLY <1>3, <2>1, <2>2, FilesInv DEF FilesInv, Files!TypeOk, Files!Owner
<1>8. ~f_wrong'
  BY ONLY <1>3, FilesInv DEF FilesInv
<1>9. OwnersAreValid'
  BY ONLY <1>1, <1>3, <1>4, <1>6, FilesInv DEF FilesInv, OwnersAreValid, OwnersAreApart,
     OwnedOrNone
<1>10. OwnersAreApart'
  BY ONLY <1>3, <1>4, FilesInv DEF FilesInv, OwnersAreApart, Apart, Files!Invalid,
     Files!NoFile
<1>11. OpenFilesAreOwned'
  <2>1. ASSUME NEW f, f # lost.file, Owned(f) PROVE Owned(f)'
    BY ONLY <1>1, <1>3, <2>1 DEF Owned
  <2>2. ASSUME NEW f, NEW d \in {3, 4}, f_table'[d] = f, f \notin f_abandoned' \cup {0}
        PROVE  Owned(f)'
    BY ONLY <1>3, <2>1, <2>2, FilesInv DEF FilesInv, OpenFilesAreOwned
  <2>3. /\ f_abandoned' \subseteq 1..f_files'
        /\ \A d \in {3, 4} : f_table'[d] \in 0..f_files'
        /\ \A d, e \in {3, 4} : f_table'[d] = f_table'[e] /\ d # e => f_table'[d] = 0
    BY ONLY <1>3, <1>5, FilesInv DEF FilesInv, OpenFilesAreOwned, Valid
  <2>. QED
    BY ONLY <2>2, <2>3, OpenFilesStayOwned
<1>12. StatesSuitOwners'
  BY ONLY <1>3, <1>4, FilesInv DEF FilesInv, StatesSuitOwners
<1>. QED
  BY ONLY <1>7, <1>8, <1>9, <1>10, <1>11, <1>12 DEF FilesInv

(* Nothing is open, and nothing is owned. *)
LEMMA FilesInit == Files!Init => FilesInv
<1>. SUFFICES ASSUME Files!Init PROVE FilesInv
  OBVIOUS
<1>. USE DEF Files!Init, Files!Invalid, Files!NoFile
<1>1. Files!Invalid \in Files!Owner
  BY DEF Files!Owner
<1>2. Files!TypeOk
  <2>1. f_opening \in [Ops -> [at : {"idle", "reported"}, owns : Files!Owner]]
    BY <1>1
  <2>2. f_closing \in [{"close"} -> [at : {"none", "sender", "operation"},
                                    owns : Files!Owner]]
    BY <1>1
  <2>3. f_table \in [{3, 4} -> 0..3]
    OBVIOUS
  <2>4. f_handle \in [Ops -> Files!Owner]
    BY <1>1
  <2>5. f_files \in 0..3 /\ f_abandoned \subseteq 1..3
    BY ONLY Files!Init DEF Files!Init
  <2>6. f_wrong \in BOOLEAN
    BY ONLY Files!Init DEF Files!Init
  <2>. QED
    BY ONLY <2>1, <2>2, <2>3, <2>4, <2>5, <2>6 DEF Files!TypeOk
<1>3. OwnersAreValid
  BY DEF OwnersAreValid, OwnedOrNone
<1>4. OwnersAreApart
  BY DEF OwnersAreApart, Apart
<1>5. OpenFilesAreOwned
  BY DEF OpenFilesAreOwned
<1>6. StatesSuitOwners
  BY DEF StatesSuitOwners
<1>. QED
  BY <1>2, <1>3, <1>4, <1>5, <1>6 DEF FilesInv

(* Counting owners: the invariant leaves exactly one to an open file whose *)
(* close was not dropped, and none to any other.                           *)
LEMMA OwnersAreCounted ==
  ASSUME FilesInv
  PROVE  Files!FilesHaveOneOwner
<1>. USE DEF Files!Owners, Files!Invalid, Files!NoFile
<1>1. ASSUME NEW f \in 1..f_files, f \notin f_abandoned, NEW d \in {3, 4}, f_table[d] = f
      PROVE  Cardinality(Files!Owners(f)) = 1
  <2>1. f # 0 /\ Owned(f)
    BY <1>1 DEF FilesInv, Files!TypeOk, OpenFilesAreOwned
  <2>2. CASE \E h \in Ops : f_handle[h].file = f
    <3>1. PICK h \in Ops : f_handle[h].file = f
      BY <2>2
    <3>2. Files!Owners(f) = {<<"handle", h>>}
      BY <2>1, <3>1 DEF FilesInv, OwnersAreApart, Apart
    <3>. QED
      BY <3>2, FS_Singleton
  <2>3. CASE \E o \in Ops : f_opening[o].owns.file = f
    <3>1. PICK o \in Ops : f_opening[o].owns.file = f
      BY <2>3
    <3>2. Files!Owners(f) = {<<"open", o>>}
      BY <2>1, <3>1 DEF FilesInv, OwnersAreApart, Apart
    <3>. QED
      BY <3>2, FS_Singleton
  <2>4. CASE f_closing["close"].owns.file = f
    <3>1. Files!Owners(f) = {<<"close", "close">>}
      BY <2>1, <2>4 DEF FilesInv, OwnersAreApart, Apart
    <3>. QED
      BY <3>1, FS_Singleton
  <2>. QED
    BY <2>1, <2>2, <2>3, <2>4 DEF Owned
<1>2. ASSUME NEW f \in 1..f_files, f \in f_abandoned \/ \A d \in {3, 4} : f_table[d] # f
      PROVE  Cardinality(Files!Owners(f)) = 0
  <2>1. f # 0
    BY <1>2 DEF FilesInv, Files!TypeOk
  <2>2. ~Owned(f)
    BY <1>2, <2>1 DEF FilesInv, OwnersAreValid, OwnedOrNone, Valid, Owned
  <2>3. Files!Owners(f) = {}
    BY <2>2 DEF Owned
  <2>. QED
    BY <2>3, FS_EmptySet
<1>3. ASSUME NEW f \in 1..f_files
      PROVE  Cardinality(Files!Owners(f)) =
                IF f \notin f_abandoned /\ \E d \in {3, 4} : f_table[d] = f THEN 1 ELSE 0
  <2>1. CASE f \notin f_abandoned /\ \E d \in {3, 4} : f_table[d] = f
    BY ONLY <1>1, <2>1
  <2>2. CASE ~(f \notin f_abandoned /\ \E d \in {3, 4} : f_table[d] = f)
    BY ONLY <1>2, <1>3, <2>2
  <2>. QED
    BY ONLY <2>1, <2>2
<1>4. ~f_wrong
  BY DEF FilesInv
<1>5. ASSUME NEW S PROVE Files!Cardinality(S) = Cardinality(S)
  BY DEF Files!Cardinality, Cardinality
<1>. QED
  BY ONLY <1>3, <1>4, <1>5 DEF Files!FilesHaveOneOwner

-----------------------------------------------------------------------------
(* All kinds *)

(* Every kind starts well ... *)
LEMMA InitIInv == Init => IInv
BY TimerInit, RequestInit, PlainInit, FilesInit DEF Init, IInv

(* ... and each step of a kind keeps what holds of that kind: timers, ... *)
LEMMA TimerStep == TimerInv /\ Timer!Next => TimerInv'
<1>1. TimersFit /\ Timer!Next => t_strayed' \/ TimersFit'
  <2>1. ASSUME NEW o \in Ops, Timer!RemoveStray(o) PROVE t_strayed'
    BY <2>1 DEF Timer!RemoveStray
  <2>. QED
    BY <2>1, TimerStarts, TimerElapses, TimerIsAskedToStop, TimerIsStopped
    DEF Timer!Next, Timer!IoStep, Timer!CallerStep
<1>. QED
  BY <1>1, TimerTypes, StrayedStays DEF TimerInv

(* ... cancellable requests, ... *)
LEMMA RequestStep == RequestInv /\ Request!Next => RequestInv'
BY RequestsMove, RequestStartsOnIoThread, RequestStartsRemotely,
   RequestComesToIoThread, RequestRacesWithStop, RequestIsAnswered,
   RequestIsAskedToStop, RequestStopsLocally, RequestIsStopped DEF Request!Next,
   Request!Completion, Request!IoStep, Request!CallerStep

(* ... those that are never stopped, ... *)
LEMMA PlainStep == PlainInv /\ Plain!Next => PlainInv'
BY PlainMoves, PlainStarts, PlainRuns DEF Plain!Next

(* ... and files. *)
LEMMA FilesStep == FilesInv /\ Files!Next => FilesInv'
BY FileOpenInKernel, FileOpenCompletes, FileOpenIsDiscarded, FileClose, FileAssign,
   FileSwap, FileRelease, FileConnect, FileCloseCompletes, FileCloseIsDropped
DEF Files!Next

(* A kind that is not the behaviour's stays as it is. *)
LEMMA OthersStay ==
  /\ TimerInv /\ UNCHANGED timerVars => TimerInv'
  /\ RequestInv /\ UNCHANGED requestVars => RequestInv'
  /\ PlainInv /\ UNCHANGED plainVars => PlainInv'
  /\ FilesInv /\ UNCHANGED fileVars => FilesInv'
<1>1. TimerInv /\ UNCHANGED timerVars => TimerInv'
  BY DEF timerVars, TimerInv, TimersFit, Timer!TypeOk, Timer!ExecuteSuitsQueue, TimerQueued,
     TimerRuns, TimerStops, TimerEnds, TimerBusy, TimerDoes, TimerRemoves,
     TimerResolved, TimerStopComes
<1>2. RequestInv /\ UNCHANGED requestVars => RequestInv'
  BY DEF requestVars, RequestInv, Request!TypeOk, Request!FunctionsSuitQueues,
     Request!KernelDecides, RequestOk, RequestQueued, RequestBetween, RequestRuns,
     RequestStops, RequestEnds, RequestBusy, RequestDoes, RequestResolved,
     RequestStopComes, WithKernel
<1>3. PlainInv /\ UNCHANGED plainVars => PlainInv'
  BY DEF plainVars, PlainInv, Plain!TypeOk, Plain!FunctionsSuitQueues,
     Plain!CompletesLast
<1>4. FilesInv /\ UNCHANGED fileVars => FilesInv'
  BY DEF fileVars, FilesInv, Files!TypeOk, OwnersAreValid, OwnedOrNone, Valid,
     OwnersAreApart, OpenFilesAreOwned, Owned, StatesSuitOwners
<1>. QED
  BY <1>1, <1>2, <1>3, <1>4

(* So all of it is inductive. *)
LEMMA StepIInv == IInv /\ [Next]_vars => IInv'
<1>1. ASSUME IInv, Next PROVE IInv'
  BY <1>1, TimerStep, RequestStep, PlainStep, FilesStep, OthersStay DEF Next, IInv
<1>2. ASSUME IInv, UNCHANGED vars PROVE IInv'
  BY <1>2, OthersStay DEF vars, IInv
<1>. QED
  BY <1>1, <1>2

-----------------------------------------------------------------------------
(* The unions and the flags of an operation, which iouring_context reuses  *)
(* for one purpose after the other, always hold what the queue around the  *)
(* operation is about to call, however starts and stops race: for timers,  *)
(* until a stop item removes one that has left the timer queue already.    *)
THEOREM FunctionsAlwaysSuitQueues == Spec => []FunctionsSuitQueues
<1>1. IInv => FunctionsSuitQueues
  BY DEF IInv, TimerInv, TimersFit, Timer!ExecuteSuitsQueue, RequestInv, PlainInv,
     FilesInv, FunctionsSuitQueues, TypeOk
<1>. QED
  BY InitIInv, StepIInv, <1>1, PTL DEF Spec

(* An operation completes once, and nothing of the context, of the kernel  *)
(* or of a thread inside request_stop() comes back to it: I/O operations,  *)
(* those that cannot be cancelled and, until a stop item removes a timer   *)
(* that has left the timer queue already, timers.                          *)
THEOREM CompletionAlwaysLast == Spec => []CompletesLast
<1>1. TimerInv => Timer!CompletesLast
  BY DEF TimerInv, TimersFit, Timer!TypeOk, Timer!CompletesLast, TimerStops, TimerEnds,
     TimerResolved, TimerDoes, TimerStopComes, Ended, Waits
<1>2. RequestInv => Request!CompletesLast
  BY DEF RequestInv, Request!TypeOk, Request!CompletesLast, RequestOk, RequestStops,
     RequestEnds, RequestResolved, RequestDoes, RequestStopComes, Ended, Waits
<1>3. IInv => CompletesLast
  BY <1>1, <1>2 DEF IInv, PlainInv, CompletesLast
<1>. QED
  BY InitIInv, StepIInv, <1>3, PTL DEF Spec

(* A stop request loses no result of the kernel's, and each file that was  *)
(* opened has one owner, which closes that file and no other.              *)
THEOREM ResultsAreAlwaysKept == Spec => []ResultsAreKept
<1>1. IInv => ResultsAreKept
  BY OwnersAreCounted DEF IInv, RequestInv, ResultsAreKept
<1>. QED
  BY InitIInv, StepIInv, <1>1, PTL DEF Spec
=============================================================================
