------------------------------- MODULE TimerOp -------------------------------
(***************************************************************************)
(* The cancellable schedule_at and schedule_after operations of            *)
(* iouring_context.  An operation may be started and stopped on the I/O    *)
(* thread or on another one; from there it goes through the remote queue,  *)
(* and a stop request through the remote stop queue.  The operation holds  *)
(* the functions to call when it comes out of either, as plain members.    *)
(*                                                                         *)
(* The I/O thread runs one function at a time, in any order the loop may   *)
(* come to them: IoContext is about the loop itself, and time passes as it *)
(* likes here.                                                             *)
(***************************************************************************)
EXTENDS Naturals, FiniteSets

CONSTANT Ops

VARIABLES where,            \* the queue that holds each operation
          execute,          \* what to call when it comes out of that queue
          execute_stop,     \* what to call when its stop item comes out
          posted,           \* the operations whose stop item is queued
          state,            \* state_, as the set of its flags
          remote_enqueued,  \* remote_enqueued_
          outcome,          \* what each operation completed with
          caller,           \* where a remote request_stop() of each one is
          io,               \* what the I/O thread does, and for which operation
          strayed           \* whether an operation was taken out of the timer
                            \* queue that was not in it (history)

vars == <<where, execute, execute_stop, posted, state, remote_enqueued, outcome,
          caller, io, strayed>>

queueVars == <<where, execute, remote_enqueued, strayed>>
stopVars == <<execute_stop, posted>>

Idle == <<"idle">>

At(f, o, v) == [f EXCEPT ![o] = v]

Init == /\ where = [o \in Ops |-> "unstarted"]
        /\ execute = [o \in Ops |-> "unset"]
        /\ execute_stop = [o \in Ops |-> "unset"]
        /\ posted = {}
        /\ state = [o \in Ops |-> {}]
        /\ remote_enqueued = [o \in Ops |-> FALSE]
        /\ outcome = [o \in Ops |-> "none"]
        /\ caller = [o \in Ops |-> "idle"]
        /\ io = Idle
        /\ strayed = FALSE

Started(o) == where[o] # "unstarted"

-----------------------------------------------------------------------------
(* start_impl() *)

StartOnIoThread(o) == /\ io = Idle
                      /\ ~Started(o)
                      /\ where' = At(where, o, "timer")
                      /\ execute' = At(execute, o, "when_timer_elapsed")
                      /\ UNCHANGED <<stopVars, state, remote_enqueued, outcome, caller, io, strayed>>

StartRemotely(o) == /\ ~Started(o)
                    /\ where' = At(where, o, "remote")
                    /\ execute' = At(execute, o, "when_on_io_context")
                    /\ remote_enqueued' = At(remote_enqueued, o, TRUE)
                    /\ UNCHANGED <<stopVars, state, outcome, caller, io, strayed>>

-----------------------------------------------------------------------------
(* The queues, on the I/O thread *)

Acquired == [o \in Ops |-> IF where[o] = "remote" THEN "ready" ELSE where[o]]

AcquireRemoteItems == /\ io = Idle
                      /\ where' = Acquired
                      /\ UNCHANGED <<execute, stopVars, state, remote_enqueued, outcome,
                                     caller, io, strayed>>

(* when_on_io_context(): from the ready queue to the timer queue *)
WhenOnIoContext(o) == /\ io = Idle
                      /\ where[o] = "ready"
                      /\ where' = At(where, o, "timer")
                      /\ execute' = At(execute, o, "when_timer_elapsed")
                      /\ remote_enqueued' = At(remote_enqueued, o, FALSE)
                      /\ UNCHANGED <<stopVars, state, outcome, caller, io, strayed>>

(* when_timer_elapsed(): the load ... *)
WhenTimerElapsed(o) ==
    /\ io = Idle
    /\ where[o] = "timer"
    /\ where' = At(where, o, "none")
    /\ io' = <<IF "stop_enqueued" \in state[o] THEN "hand_over" ELSE "add_completed", o>>
    /\ UNCHANGED <<execute, stopVars, state, remote_enqueued, outcome, caller, strayed>>

(* ... and the exchange that decides the race with request_stop() *)
AddCompleted(o) ==
    /\ io = <<"add_completed", o>>
    /\ state' = At(state, o, state[o] \cup {"completed"})
    /\ io' = <<IF "stop_enqueued" \in state[o] THEN "hand_over" ELSE "set_value", o>>
    /\ UNCHANGED <<queueVars, stopVars, outcome, caller>>

(* The stop item is to complete the operation. *)
HandOver(o) == /\ io = <<"hand_over", o>>
               /\ execute_stop' = At(execute_stop, o, "on_stop_after_complete")
               /\ io' = Idle
               /\ UNCHANGED <<queueVars, posted, state, outcome, caller>>

-----------------------------------------------------------------------------
(* request_stop(), once, after start() *)

(* From a remote thread: the first load *)
RequestStop(o) ==
    /\ Started(o)
    /\ caller[o] = "idle"
    /\ caller' = At(caller, o, IF "completed" \in state[o] THEN "returned" ELSE "add_stop")
    /\ UNCHANGED <<queueVars, stopVars, state, outcome, io>>

AddStopEnqueued(o) ==
    /\ caller[o] = "add_stop"
    /\ state' = At(state, o, state[o] \cup {"stop_enqueued"})
    /\ caller' = At(caller, o, IF "completed" \in state[o] THEN "returned" ELSE "set_function")
    /\ UNCHANGED <<queueVars, stopVars, outcome, io>>

(* A plain write, after the flag that the I/O thread reads is set. *)
SetExecuteStop(o) == /\ caller[o] = "set_function"
                     /\ execute_stop' = At(execute_stop, o, "on_stop_before_complete")
                     /\ caller' = At(caller, o, "post")
                     /\ UNCHANGED <<queueVars, posted, state, outcome, io>>

(* Mutant: nothing is posted when the timer has elapsed meanwhile. *)
PostUnlessElapsed(o) == /\ caller[o] = "post"
                        /\ posted' = IF where[o] = "none" THEN posted ELSE posted \cup {o}
                        /\ caller' = At(caller, o, "returned")
                        /\ UNCHANGED <<queueVars, execute_stop, state, outcome, io>>

(* schedule_stop_request_remote() *)
Post(o) == /\ caller[o] = "post"
           /\ posted' = posted \cup {o}
           /\ caller' = At(caller, o, "returned")
           /\ UNCHANGED <<queueVars, execute_stop, state, outcome, io>>

(* on_stop_before_complete(): where the operation is to be taken out of.   *)
OnStopBeforeComplete(o) ==
    /\ where' = IF remote_enqueued[o] THEN Acquired ELSE where
    /\ io' = <<IF remote_enqueued[o] THEN "remove_local"
               ELSE IF "completed" \in state[o] THEN "set_stopped"
               ELSE "remove_time_op", o>>

(* From the I/O thread *)
RequestStopLocally(o) ==
    /\ io = Idle
    /\ Started(o)
    /\ caller[o] = "idle"
    /\ caller' = At(caller, o, "returned")
    /\ IF "completed" \in state[o] THEN UNCHANGED <<where, io>>
                                   ELSE OnStopBeforeComplete(o)
    /\ UNCHANGED <<execute, remote_enqueued, stopVars, state, outcome, strayed>>

(* The stop item comes out of the remote stop queue. *)
ExecuteStop(o) ==
    /\ io = Idle
    /\ o \in posted
    /\ posted' = posted \ {o}
    /\ IF execute_stop[o] = "on_stop_before_complete"
       THEN OnStopBeforeComplete(o)
       ELSE io' = <<"set_stopped", o>> /\ UNCHANGED where
    /\ UNCHANGED <<execute, remote_enqueued, execute_stop, state, outcome, caller, strayed>>

(* remove_local() and remove_time_op_local() *)
Remove(o) == /\ \/ io = <<"remove_local", o>> /\ where[o] = "ready"
                \/ io = <<"remove_time_op", o>> /\ where[o] = "timer"
             /\ where' = At(where, o, "none")
             /\ io' = <<"set_stopped", o>>
             /\ UNCHANGED <<execute, remote_enqueued, stopVars, state, outcome, caller,
                            strayed>>

(* remove_time_op_local() for an operation that has left the timer queue:  *)
(* its links are those that it left with.  A bin that begins where they    *)
(* point has lost the timers before that, or all; and what they point to   *)
(* is in the queue again, with what follows, though it may have completed. *)
RemoveStray(o) ==
    /\ io = <<"remove_time_op", o>>
    /\ where[o] # "timer"
    /\ \E lost \in SUBSET {p \in Ops : where[p] = "timer"} :
       \E linked \in SUBSET {p \in Ops \ {o} : where[p] \in {"none", "lost"}} :
          where' = [p \in Ops |-> IF p = o THEN "none"
                                 ELSE IF p \in lost THEN "lost"
                                 ELSE IF p \in linked THEN "timer"
                                 ELSE where[p]]
    /\ strayed' = TRUE
    /\ io' = <<"set_stopped", o>>
    /\ UNCHANGED <<execute, remote_enqueued, stopVars, state, outcome, caller>>

(* The completion; the operation may be destroyed in this step. *)
Complete(o) == /\ io \in {<<"set_value", o>>, <<"set_stopped", o>>}
               /\ outcome' = At(outcome, o, IF outcome[o] # "none" THEN "twice"
                                            ELSE IF io[1] = "set_value" THEN "value"
                                                                        ELSE "stopped")
               /\ io' = Idle
               /\ UNCHANGED <<queueVars, stopVars, state, caller>>

-----------------------------------------------------------------------------
IoStep(o) == \/ WhenOnIoContext(o) \/ AddCompleted(o) \/ HandOver(o)
             \/ ExecuteStop(o) \/ Remove(o) \/ RemoveStray(o) \/ Complete(o)

CallerStep(o) == AddStopEnqueued(o) \/ SetExecuteStop(o) \/ Post(o)

Next == \/ AcquireRemoteItems
        \/ \E o \in Ops : \/ StartOnIoThread(o) \/ StartRemotely(o)
                          \/ WhenTimerElapsed(o)
                          \/ RequestStop(o) \/ RequestStopLocally(o)
                          \/ IoStep(o) \/ CallerStep(o)

(* The loop comes to everything that is queued, as IoContext shows; timers *)
(* elapse; a thread inside request_stop() goes on.                         *)
Fairness == /\ SF_vars(AcquireRemoteItems)
            /\ \A o \in Ops : /\ SF_vars(IoStep(o))
                              /\ SF_vars(WhenTimerElapsed(o))
                              /\ WF_vars(CallerStep(o))

Spec == Init /\ [][Next]_vars /\ Fairness

-----------------------------------------------------------------------------
(* Properties *)

IoLabels == {"hand_over", "add_completed", "set_value", "set_stopped", "remove_local",
             "remove_time_op"}

(* Members hold what their types allow. *)
TypeOk == /\ where \in [Ops -> {"unstarted", "remote", "ready", "timer", "lost", "none"}]
          /\ execute \in [Ops -> {"unset", "when_on_io_context", "when_timer_elapsed"}]
          /\ execute_stop \in [Ops -> {"unset", "on_stop_before_complete",
                                       "on_stop_after_complete"}]
          /\ posted \subseteq Ops
          /\ state \in [Ops -> SUBSET {"stop_enqueued", "completed"}]
          /\ remote_enqueued \in [Ops -> BOOLEAN]
          /\ outcome \in [Ops -> {"none", "value", "stopped", "twice"}]
          /\ caller \in [Ops -> {"idle", "add_stop", "set_function", "post", "returned"}]
          /\ io \in {Idle} \cup (IoLabels \X Ops)
          /\ strayed \in BOOLEAN

(* "Need to remove it from the timer-queue", says the code.  It is not so  *)
(* when the timer elapses after a remote request_stop() has set its flag   *)
(* and before it writes execute_stop, over what when_timer_elapsed() wrote.*)
(* From then on nothing can be said of any timer of the context.           *)
RemovesQueued == \A o \in Ops : io = <<"remove_time_op", o>> => where[o] = "timer"

(* execute is one member for two uses, and is set for the queue that holds *)
(* the operation; the flag remote_enqueued_ says which queue that is.      *)
ExecuteSuitsQueue ==
    strayed \/ \A o \in Ops :
        /\ where[o] \in {"remote", "ready"} =>
              execute[o] = "when_on_io_context" /\ remote_enqueued[o]
        /\ where[o] = "timer" =>
              execute[o] = "when_timer_elapsed" /\ ~remote_enqueued[o]

(* An operation completes once, and that comes last: it is in no queue,    *)
(* its stop item neither, and a request_stop() that is still inside it     *)
(* will return without posting anything.                                   *)
CompletesLast ==
    strayed \/ \A o \in Ops :
        (io \in {<<"set_value", o>>, <<"set_stopped", o>>} \/ outcome[o] # "none") =>
            /\ outcome[o] # "twice"
            /\ where[o] = "none"
            /\ o \notin posted
            /\ \/ caller[o] \in {"idle", "returned"}
               \/ caller[o] = "add_stop" /\ "completed" \in state[o]

(* A started operation completes: when its time comes, or when it is       *)
(* asked to stop, whichever thread does what.                              *)
StartedCompletes == \A o \in Ops : Started(o) ~> (outcome[o] # "none" \/ strayed)
=============================================================================
