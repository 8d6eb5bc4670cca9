--------------------------------- MODULE IoOp ---------------------------------
(***************************************************************************)
(* The cancellable I/O operation of iouring_context, the base of openat,   *)
(* read and write.  It goes through the remote queue, perhaps through the  *)
(* queue of operations that wait for a submission-queue entry (SQE), then  *)
(* to the kernel.  A stop request sends a second SQE after it, the         *)
(* ASYNC_CANCEL, for which there may be no room either.  The functions to  *)
(* call next live in two unions: `fn' is execute, submit_sqes or           *)
(* handle_completion, `stopFn' is execute_stop or submit_cancel_sqes.      *)
(*                                                                         *)
(* The kernel and the other users of the ring are environment.  The I/O    *)
(* thread runs one function at a time, in any order: IoContext is about    *)
(* the loop itself.                                                        *)
(***************************************************************************)
EXTENDS Naturals

CONSTANTS Ops,
          SqSize            \* the entries of the submission queue, not 0

VARIABLES where,            \* the queue that holds each operation
          fn,               \* the function of operation_base
          stopFn,           \* the function of stoppable_operation_base
          posted,           \* in the remote stop queue
          cancelWaiting,    \* in waiting_for_cancel_sqes_queue_
          cancel,           \* where the ASYNC_CANCEL of each operation is
          sq,               \* entries that the kernel has not been given
          state,            \* state_, as the set of its flags
          remote_enqueued,  \* remote_enqueued_
          sqe_submitted,    \* sqe_submitted_
          result,           \* result_, the stored result
          cqe,              \* what the kernel reported
          outcome,          \* what each operation completed with
          caller,           \* where a remote request_stop() of each one is
          io                \* what the I/O thread does, and for which operation

vars == <<where, fn, stopFn, posted, cancelWaiting, cancel, sq, state, remote_enqueued,
          sqe_submitted, result, cqe, outcome, caller, io>>

queueVars == <<where, fn, remote_enqueued, sqe_submitted>>
stopVars == <<stopFn, posted, cancelWaiting>>
ringVars == <<cancel, sq>>
resultVars == <<result, cqe, outcome>>

Idle == <<"idle">>

At(f, o, v) == [f EXCEPT ![o] = v]

Init == /\ where = [o \in Ops |-> "unstarted"]
        /\ fn = [o \in Ops |-> "unset"]
        /\ stopFn = [o \in Ops |-> "unset"]
        /\ posted = {}
        /\ cancelWaiting = {}
        /\ cancel = [o \in Ops |-> "none"]
        /\ sq = 0
        /\ state = [o \in Ops |-> {}]
        /\ remote_enqueued = [o \in Ops |-> FALSE]
        /\ sqe_submitted = [o \in Ops |-> FALSE]
        /\ result = [o \in Ops |-> "unset"]
        /\ cqe = [o \in Ops |-> "none"]
        /\ outcome = [o \in Ops |-> "none"]
        /\ caller = [o \in Ops |-> "idle"]
        /\ io = Idle

Started(o) == where[o] # "unstarted"

-----------------------------------------------------------------------------
(* To the kernel *)

(* available_sqe_space() > 0: whoever waits already goes first. *)
SqeSpace == /\ \A o \in Ops : where[o] # "waiting"
            /\ cancelWaiting = {}
            /\ sq < SqSize

(* try_submit_sqe() and submit_sqe() *)
TrySubmitSqe(o) ==
    IF SqeSpace
    THEN /\ where' = At(where, o, "prepared")
         /\ fn' = At(fn, o, "when_op_completed")
         /\ sqe_submitted' = At(sqe_submitted, o, TRUE)
         /\ sq' = sq + 1
    ELSE /\ where' = At(where, o, "waiting")
         /\ fn' = At(fn, o, "when_sqes_available")
         /\ UNCHANGED <<sqe_submitted, sq>>

(* start() *)
StartOnIoThread(o) ==
    /\ io = Idle
    /\ ~Started(o)
    /\ TrySubmitSqe(o)
    /\ UNCHANGED <<remote_enqueued, stopVars, cancel, state, resultVars, caller, io>>

StartRemotely(o) ==
    /\ ~Started(o)
    /\ where' = At(where, o, "remote")
    /\ fn' = At(fn, o, "when_on_io_thread")
    /\ remote_enqueued' = At(remote_enqueued, o, TRUE)
    /\ UNCHANGED <<sqe_submitted, stopVars, ringVars, state, resultVars, caller, io>>

Acquired == [o \in Ops |-> IF where[o] = "remote" THEN "ready" ELSE where[o]]

AcquireRemoteItems ==
    /\ io = Idle
    /\ where' = Acquired
    /\ UNCHANGED <<fn, remote_enqueued, sqe_submitted, stopVars, ringVars, state,
                   resultVars, caller, io>>

(* when_on_io_thread(): a stop request that is under way completes it. *)
WhenOnIoThread(o) ==
    /\ io = Idle
    /\ where[o] = "ready"
    /\ remote_enqueued' = At(remote_enqueued, o, FALSE)
    /\ IF "stop_enqueued" \in state[o]
       THEN /\ where' = At(where, o, "none")
            /\ UNCHANGED <<fn, sqe_submitted, sq>>
       ELSE TrySubmitSqe(o)
    /\ UNCHANGED <<stopVars, cancel, state, resultVars, caller, io>>

(* The loop gives the kernel all it has. *)
SubmitSqes ==
    /\ io = Idle
    /\ where' = [o \in Ops |-> IF where[o] = "prepared" THEN "kernel" ELSE where[o]]
    /\ cancel' = [o \in Ops |-> IF cancel[o] = "prepared" THEN "kernel" ELSE cancel[o]]
    /\ sq' = 0
    /\ UNCHANGED <<fn, remote_enqueued, sqe_submitted, stopVars, state, resultVars,
                   caller, io>>

-----------------------------------------------------------------------------
(* From the kernel *)

(* deliver_result() *)
Deliver(o, r) ==
    io' = <<IF r = "canceled" THEN "set_stopped" ELSE "set_value", o>>

(* A completion-queue entry for the operation, with what the kernel says. *)
FromKernel(o, r) == /\ io = Idle
                    /\ where[o] = "kernel"
                    /\ r \in {"result", "canceled"}
                    /\ r = "canceled" => cancel[o] = "kernel"
                    /\ where' = At(where, o, "none")
                    /\ cqe' = At(cqe, o, r)

(* when_op_completed(): the load, and what follows when it decides ... *)
WhenOpCompleted(o) == \E r \in {"result", "canceled"} :
    /\ fn[o] = "when_op_completed"
    /\ FromKernel(o, r)
    /\ IF "stop_enqueued" \in state[o]
       THEN /\ state' = At(state, o, state[o] \cup {"completed"})
            /\ result' = At(result, o, r)
            /\ UNCHANGED io
       ELSE /\ io' = <<"add_completed", o>>
            /\ UNCHANGED <<state, result>>
    /\ UNCHANGED <<fn, remote_enqueued, sqe_submitted, stopVars, ringVars, outcome, caller>>

(* ... and the fetch_add() that decides the race with request_stop() *)
AddCompleted(o) ==
    /\ io = <<"add_completed", o>>
    /\ state' = At(state, o, state[o] \cup {"completed"})
    /\ IF "stop_enqueued" \in state[o]
       THEN result' = At(result, o, cqe[o]) /\ io' = Idle
       ELSE Deliver(o, cqe[o]) /\ UNCHANGED result
    /\ UNCHANGED <<queueVars, stopVars, ringVars, cqe, outcome, caller>>

(* when_op_completed_no_races_with_stop() *)
WhenOpCompletedNoRaces(o) == \E r \in {"result", "canceled"} :
    /\ fn[o] = "no_races_with_stop"
    /\ FromKernel(o, r)
    /\ Deliver(o, r)
    /\ UNCHANGED <<fn, remote_enqueued, sqe_submitted, stopVars, ringVars, state, result,
                   outcome, caller>>

(* Mutant: the operation completes although its cancel still waits. *)
WhenOpCompletedAtOnce(o) == \E r \in {"result", "canceled"} :
    /\ fn[o] = "stop_waiting_for_sqes"
    /\ FromKernel(o, r)
    /\ Deliver(o, r)
    /\ UNCHANGED <<fn, remote_enqueued, sqe_submitted, stopVars, ringVars, state, result,
                   outcome, caller>>

(* when_op_completed_with_stop_waiting_for_sqes() *)
WhenOpCompletedStopWaiting(o) == \E r \in {"result", "canceled"} :
    /\ fn[o] = "stop_waiting_for_sqes"
    /\ FromKernel(o, r)
    /\ result' = At(result, o, r)
    /\ stopFn' = At(stopFn, o, "for_stop_already_completed")
    /\ UNCHANGED <<fn, remote_enqueued, sqe_submitted, posted, cancelWaiting, ringVars,
                   state, outcome, caller, io>>

(* The completion; the operation may be destroyed in this step. *)
Complete(o) == /\ io \in {<<"set_value", o>>, <<"set_stopped", o>>}
               /\ outcome' = At(outcome, o, IF outcome[o] # "none" THEN "twice"
                                            ELSE IF io[1] = "set_value" THEN "value"
                                                                        ELSE "stopped")
               /\ io' = Idle
               /\ UNCHANGED <<queueVars, stopVars, ringVars, state, result, cqe, caller>>

-----------------------------------------------------------------------------
(* request_stop(), once, after start() *)

(* From a remote thread: the first load *)
RequestStop(o) ==
    /\ Started(o)
    /\ caller[o] = "idle"
    /\ caller' = At(caller, o, IF "completed" \in state[o] THEN "returned" ELSE "add_stop")
    /\ UNCHANGED <<queueVars, stopVars, ringVars, state, resultVars, io>>

AddStopEnqueued(o) ==
    /\ caller[o] = "add_stop"
    /\ state' = At(state, o, state[o] \cup {"stop_enqueued"})
    /\ caller' = At(caller, o, IF "completed" \in state[o] THEN "returned" ELSE "post")
    /\ UNCHANGED <<queueVars, stopVars, ringVars, resultVars, io>>

(* execute_stop is written here only, before the item can come out. *)
Post(o) ==
    /\ caller[o] = "post"
    /\ stopFn' = At(stopFn, o, "when_stop_request")
    /\ posted' = posted \cup {o}
    /\ caller' = At(caller, o, "returned")
    /\ UNCHANGED <<queueVars, cancelWaiting, ringVars, state, resultVars, io>>

(* request_stop_from_io_thread() with room for an ASYNC_CANCEL, ... *)
SubmitCancel(o) == /\ sqe_submitted[o]
                   /\ sq < SqSize
                   /\ cancel' = At(cancel, o, "prepared")
                   /\ sq' = sq + 1
                   /\ fn' = At(fn, o, "no_races_with_stop")
                   /\ UNCHANGED <<where, stopFn, cancelWaiting, io>>

(* Mutant: the function for the completion is left as it was. *)
AwaitCancelSqeOnly(o) == /\ sqe_submitted[o]
                         /\ sq >= SqSize
                         /\ stopFn' = At(stopFn, o, "for_stop")
                         /\ cancelWaiting' = cancelWaiting \cup {o}
                         /\ UNCHANGED <<where, fn, ringVars, io>>

(* ... without, ... *)
AwaitCancelSqe(o) == /\ sqe_submitted[o]
                     /\ sq >= SqSize
                     /\ stopFn' = At(stopFn, o, "for_stop")
                     /\ cancelWaiting' = cancelWaiting \cup {o}
                     /\ fn' = At(fn, o, "stop_waiting_for_sqes")
                     /\ UNCHANGED <<where, ringVars, io>>

(* ... and before the kernel knows of the operation: it leaves the remote, *)
(* ready or waiting queue, or the queue it has left already.               *)
Withdraw(o) == /\ ~sqe_submitted[o]
               /\ where' = [IF remote_enqueued[o] THEN Acquired ELSE where
                            EXCEPT ![o] = "none"]
               /\ io' = <<"set_stopped", o>>
               /\ UNCHANGED <<fn, stopFn, cancelWaiting, ringVars>>

RequestStopFromIoThread(o) == SubmitCancel(o) \/ AwaitCancelSqe(o) \/ Withdraw(o)

(* From the I/O thread *)
RequestStopLocally(o) ==
    /\ io = Idle
    /\ Started(o)
    /\ caller[o] = "idle"
    /\ caller' = At(caller, o, "returned")
    /\ IF "completed" \in state[o]
       THEN UNCHANGED <<where, fn, stopFn, cancelWaiting, ringVars, io>>
       ELSE RequestStopFromIoThread(o)
    /\ UNCHANGED <<remote_enqueued, sqe_submitted, posted, state, resultVars>>

(* Mutant: a stop item that finds the operation completed stops it. *)
StopWins(o) ==
    /\ io = Idle
    /\ o \in posted
    /\ posted' = posted \ {o}
    /\ IF "completed" \in state[o]
       THEN /\ io' = <<"set_stopped", o>>
            /\ UNCHANGED <<where, fn, stopFn, cancelWaiting, ringVars>>
       ELSE RequestStopFromIoThread(o)
    /\ UNCHANGED <<remote_enqueued, sqe_submitted, state, resultVars, caller>>

(* when_stop_request_on_io_thread(), for an item of the remote stop queue *)
WhenStopRequestOnIoThread(o) ==
    /\ io = Idle
    /\ o \in posted
    /\ posted' = posted \ {o}
    /\ IF "completed" \in state[o]
       THEN /\ Deliver(o, result[o])
            /\ UNCHANGED <<where, fn, stopFn, cancelWaiting, ringVars>>
       ELSE RequestStopFromIoThread(o)
    /\ UNCHANGED <<remote_enqueued, sqe_submitted, state, resultVars, caller>>

-----------------------------------------------------------------------------
(* when_sqes_available(), when_sqes_available_for_stop() and their         *)
(* relatives are no actions: execute_pending_sqe_submission_tasks(), which *)
(* would call them, is itself called by nothing.                           *)

Completion(o) == \/ WhenOpCompleted(o) \/ WhenOpCompletedNoRaces(o)
                 \/ WhenOpCompletedStopWaiting(o)

IoStep(o) == \/ WhenOnIoThread(o) \/ AddCompleted(o) \/ WhenStopRequestOnIoThread(o)
             \/ Complete(o)

CallerStep(o) == AddStopEnqueued(o) \/ Post(o)

Next == \/ AcquireRemoteItems
        \/ SubmitSqes
        \/ \E o \in Ops : \/ StartOnIoThread(o) \/ StartRemotely(o)
                          \/ RequestStop(o) \/ RequestStopLocally(o)
                          \/ Completion(o) \/ IoStep(o) \/ CallerStep(o)

(* The loop comes to everything that is queued; a thread inside            *)
(* request_stop() goes on; the kernel ends what it is told to cancel.      *)
(* What nobody cancels (a read of a silent pipe) may take for ever.        *)
Fairness == /\ SF_vars(AcquireRemoteItems)
            /\ SF_vars(SubmitSqes)
            /\ \A o \in Ops : /\ SF_vars(IoStep(o))
                              /\ SF_vars(cancel[o] = "kernel" /\ Completion(o))
                              /\ WF_vars(CallerStep(o))

Spec == Init /\ [][Next]_vars /\ Fairness

-----------------------------------------------------------------------------
(* Properties *)

CompletionFns == {"when_op_completed", "no_races_with_stop", "stop_waiting_for_sqes"}

(* Members hold what their types allow; an operation completes once; the   *)
(* ring is never asked for more entries than it has.                       *)
TypeOk == /\ where \in [Ops -> {"unstarted", "remote", "ready", "waiting", "prepared",
                                "kernel", "none"}]
          /\ fn \in [Ops -> {"unset", "when_on_io_thread", "when_sqes_available"}
                            \cup CompletionFns]
          /\ stopFn \in [Ops -> {"unset", "when_stop_request", "for_stop",
                                 "for_stop_already_completed"}]
          /\ posted \subseteq Ops
          /\ cancelWaiting \subseteq Ops
          /\ cancel \in [Ops -> {"none", "prepared", "kernel"}]
          /\ sq \in 0..SqSize
          /\ state \in [Ops -> SUBSET {"stop_enqueued", "completed"}]
          /\ remote_enqueued \in [Ops -> BOOLEAN]
          /\ sqe_submitted \in [Ops -> BOOLEAN]
          /\ result \in [Ops -> {"unset", "result", "canceled"}]
          /\ cqe \in [Ops -> {"none", "result", "canceled"}]
          /\ outcome \in [Ops -> {"none", "value", "stopped"}]
          /\ caller \in [Ops -> {"idle", "add_stop", "post", "returned"}]
          /\ io \in {Idle} \cup ({"add_completed", "set_value", "set_stopped"} \X Ops)

(* Each union holds the function that the queue around it will call, and   *)
(* the flags say which queue that is: otherwise a function is called with  *)
(* the arguments of another one.                                           *)
FunctionsSuitQueues ==
    \A o \in Ops :
        /\ where[o] \in {"remote", "ready"} =>
              fn[o] = "when_on_io_thread" /\ remote_enqueued[o] /\ ~sqe_submitted[o]
        /\ where[o] = "waiting" =>
              fn[o] = "when_sqes_available" /\ ~remote_enqueued[o] /\ ~sqe_submitted[o]
        /\ where[o] \in {"prepared", "kernel"} =>
              fn[o] \in CompletionFns /\ ~remote_enqueued[o] /\ sqe_submitted[o]
        /\ o \in posted => stopFn[o] = "when_stop_request"
        /\ o \in cancelWaiting =>
              stopFn[o] = (IF where[o] = "none" THEN "for_stop_already_completed"
                                                ELSE "for_stop")

(* A completion comes last: no queue and no thread holds the operation.    *)
CompletesLast ==
    \A o \in Ops :
        (io \in {<<"set_value", o>>, <<"set_stopped", o>>} \/ outcome[o] # "none") =>
            /\ where[o] = "none"
            /\ o \notin posted \cup cancelWaiting
            /\ \/ caller[o] \in {"idle", "returned"}
               \/ caller[o] = "add_stop" /\ "completed" \in state[o]

(* What the kernel has done is not lost to a stop request: a result is     *)
(* delivered as a result, a cancellation as set_stopped().                 *)
KernelDecides ==
    \A o \in Ops : (outcome[o] # "none" /\ cqe[o] # "none") =>
        ((outcome[o] = "value") <=> (cqe[o] = "result"))

(* An operation that is asked to stop completes, unless the ring has no    *)
(* room to tell the kernel so.                                             *)
StopCompletes ==
    \A o \in Ops : ("stop_enqueued" \in state[o] \/ caller[o] = "returned")
                       ~> (outcome[o] # "none" \/ o \in cancelWaiting)
=============================================================================
