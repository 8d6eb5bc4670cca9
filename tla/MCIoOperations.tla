---------------------------- MODULE MCIoOperations ----------------------------
(***************************************************************************)
(* The operations of iouring_context, side by side for one run: a          *)
(* behaviour is two cancellable timers, two cancellable I/O operations,    *)
(* two operations that cannot be cancelled, or the files that openat and   *)
(* close open and close, and a property says of every kind what its module *)
(* says.                                                                   *)
(***************************************************************************)
EXTENDS Naturals

CONSTANTS Ops, SqSize

ASSUME SqSizeAssumption == SqSize \in Nat \ {0}

VARIABLES kind,
          t_where, t_execute, t_execute_stop, t_posted, t_state,
          t_remote_enqueued, t_outcome, t_caller, t_io, t_strayed,
          r_where, r_fn, r_stopFn, r_posted, r_cancelWaiting, r_cancel, r_sq,
          r_state, r_remote_enqueued, r_sqe_submitted, r_result, r_cqe,
          r_outcome, r_caller, r_io,
          p_class, p_where, p_fn, p_sq, p_completions,
          f_table, f_files, f_handle, f_opening, f_closing, f_abandoned, f_wrong

Timer == INSTANCE TimerOp WITH
             where <- t_where, execute <- t_execute,
             execute_stop <- t_execute_stop, posted <- t_posted,
             state <- t_state, remote_enqueued <- t_remote_enqueued,
             outcome <- t_outcome, caller <- t_caller, io <- t_io,
             strayed <- t_strayed

Request == INSTANCE IoOp WITH
               where <- r_where, fn <- r_fn, stopFn <- r_stopFn,
               posted <- r_posted, cancelWaiting <- r_cancelWaiting,
               cancel <- r_cancel, sq <- r_sq, state <- r_state,
               remote_enqueued <- r_remote_enqueued,
               sqe_submitted <- r_sqe_submitted, result <- r_result,
               cqe <- r_cqe, outcome <- r_outcome, caller <- r_caller,
               io <- r_io

Plain == INSTANCE PlainOps WITH
             class <- p_class, where <- p_where, fn <- p_fn, sq <- p_sq,
             completions <- p_completions

Files == INSTANCE FileHandles WITH
             Handles <- Ops, Opens <- Ops, Closes <- {"close"},
             Descriptors <- {3, 4}, MaxFiles <- 3,
             table <- f_table, files <- f_files, handle <- f_handle,
             opening <- f_opening, closing <- f_closing,
             abandoned <- f_abandoned, wrong <- f_wrong

timerVars == <<t_where, t_execute, t_execute_stop, t_posted, t_state,
               t_remote_enqueued, t_outcome, t_caller, t_io, t_strayed>>
requestVars == <<r_where, r_fn, r_stopFn, r_posted, r_cancelWaiting, r_cancel,
                 r_sq, r_state, r_remote_enqueued, r_sqe_submitted, r_result,
                 r_cqe, r_outcome, r_caller, r_io>>
plainVars == <<p_class, p_where, p_fn, p_sq, p_completions>>
fileVars == <<f_table, f_files, f_handle, f_opening, f_closing, f_abandoned, f_wrong>>
vars == <<kind, timerVars, requestVars, plainVars, fileVars>>

Init == /\ kind \in {"timers", "requests", "plain", "files"}
        /\ Timer!Init /\ Request!Init /\ Plain!Init /\ Files!Init
        /\ kind # "plain" => p_class = [o \in Ops |-> "schedule"]

Next == \/ /\ kind = "timers"
           /\ Timer!Next
           /\ UNCHANGED <<kind, requestVars, plainVars, fileVars>>
        \/ /\ kind = "requests"
           /\ Request!Next
           /\ UNCHANGED <<kind, timerVars, plainVars, fileVars>>
        \/ /\ kind = "plain"
           /\ Plain!Next
           /\ UNCHANGED <<kind, timerVars, requestVars, fileVars>>
        \/ /\ kind = "files"
           /\ Files!Next
           /\ UNCHANGED <<kind, timerVars, requestVars, plainVars>>

(* Nothing is asked of operations that were not started. *)
Spec == Init /\ [][Next]_vars /\ Timer!Fairness /\ Request!Fairness

-----------------------------------------------------------------------------
(* Properties *)

(* The state has the types of the code's members. *)
TypeOk == Timer!TypeOk /\ Request!TypeOk /\ Plain!TypeOk /\ Files!TypeOk

(* The function pointers and the flags of an operation fit the queue that  *)
(* holds it: execute and execute_stop of a timer, and the two unions of an *)
(* I/O operation, are each used for several functions in turn.  Of timers  *)
(* it is said only until a stop item takes one out of the timer queue that *)
(* has left it already (run timer_stop_strays).                            *)
FunctionsSuitQueues == /\ TypeOk
                       /\ Timer!ExecuteSuitsQueue
                       /\ Request!FunctionsSuitQueues
                       /\ Plain!FunctionsSuitQueues

(* A completion comes last: no queue of the context, no stop item, no call *)
(* of the kernel's and no request_stop() on another thread comes back to   *)
(* an operation that has completed and may be destroyed.  Again, of timers *)
(* only until a stop item takes out one that has left the queue.           *)
CompletesLast == /\ Timer!CompletesLast
                 /\ Request!CompletesLast
                 /\ Plain!CompletesLast

(* What the kernel has done is not lost to a stop request: a result is     *)
(* delivered as a result, a cancellation as set_stopped().  And the file   *)
(* that it opened has one owner then, which closes that file and no other. *)
ResultsAreKept == Request!KernelDecides /\ Files!FilesHaveOneOwner

(* A timer completes when its time comes or when it is asked to stop,      *)
(* unless a stop item took out one that had left the queue; and an I/O     *)
(* operation that is asked to stop completes, unless the request to cancel *)
(* it waits for room in the submission queue.                              *)
OperationsComplete == Timer!StartedCompletes /\ Request!StopCompletes
=============================================================================
