------------------------------- MODULE SyncWait -------------------------------
(***************************************************************************)
(* sync_wait(): connects and starts a sender, runs a manual_event_loop     *)
(* until the receiver triggers the stop source of the call, and returns    *)
(* the result.  The source, the operation and the loop live in the frame   *)
(* of the call, and are destroyed when it returns.                         *)
(*                                                                         *)
(* The sender completes inside start(), on another thread, or from an item *)
(* that it scheduled on the loop, there or here.  The threads are "main",  *)
(* the runner whose token is stopped, and "worker"; the item is "child".   *)
(***************************************************************************)
EXTENDS ManualEventLoop, StopSource

VARIABLES result,   \* how often the receiver has stored a result
          place     \* where each thread is

vars == <<loopVars, sourceVars, result, place>>

Go(t, label) == place' = [place EXCEPT ![t] = label]

SyncWaitInit == /\ Init
                /\ SourceInit
                /\ result = 0
                /\ place = [main |-> "idle", worker |-> "idle"]

-----------------------------------------------------------------------------
(* The sender *)

StartInline == /\ place["main"] = "idle"
               /\ Go("main", "store_result")
               /\ UNCHANGED <<loopVars, sourceVars, result>>

StartOnLoop == /\ place["main"] = "idle"
               /\ Enqueue("child")
               /\ Go("main", "construct")
               /\ UNCHANGED <<sourceVars, result>>

StartOnWorker == /\ place["main"] = "idle"
                 /\ place' = [main |-> "construct", worker |-> "working"]
                 /\ UNCHANGED <<loopVars, sourceVars, result>>

WorkerCompletes == /\ place["worker"] = "working"
                   /\ Go("worker", "store_result")
                   /\ UNCHANGED <<loopVars, sourceVars, result>>

WorkerSchedules == /\ place["worker"] = "working"
                   /\ Enqueue("child")
                   /\ Go("worker", "returned")
                   /\ UNCHANGED <<sourceVars, result>>

-----------------------------------------------------------------------------
(* receiver::set_result(), on whichever thread *)

StoreResult(t) == /\ place[t] = "store_result"
                  /\ result' = result + 1
                  /\ Go(t, "request_stop")
                  /\ UNCHANGED <<loopVars, sourceVars>>

(* Where a thread goes on: the main thread leaves start() or an item. *)
After(t) == IF t = "worker" THEN "returned"
            ELSE IF pc["main"] = "idle" THEN "construct" ELSE "run"

RequestStop(t) == /\ place[t] = "request_stop"
                  /\ SourceRequestStop(t)
                  /\ Go(t, IF source_state = "callback" THEN "on_stop" ELSE After(t))
                  /\ UNCHANGED <<loopVars, result>>

(* The callback: on_stop of the loop's run() *)
OnStop(t) == /\ place[t] = "on_stop"
             /\ req[t] = "execute"
             /\ TestAndSet("main")
             /\ Go(t, "wake")
             /\ UNCHANGED <<sourceVars, result>>

Wake(t) == /\ place[t] = "wake"
           /\ WakeRunThreads("main")
           /\ Go(t, "callback_done")
           /\ UNCHANGED <<sourceVars, result>>

FinishRequest(t) == /\ place[t] = "callback_done"
                    /\ CallbackReturns(t)
                    /\ Go(t, "finish_request")
                    /\ UNCHANGED <<loopVars, result>>

(* The rest of request_stop() *)
LeaveRequest(t) == /\ place[t] = "finish_request"
                   /\ req[t] = "out"
                   /\ Go(t, After(t))
                   /\ UNCHANGED <<loopVars, sourceVars, result>>

-----------------------------------------------------------------------------
(* run() on the main thread *)

(* The constructor of the stop callback *)
Construct == /\ place["main"] = "construct"
             /\ \/ TryRegisterSucceeds /\ Go("main", "registered")
                \/ TryRegisterFails /\ Go("main", "inline_stop")
             /\ UNCHANGED <<loopVars, result>>

InlineOnStop == /\ place["main"] = "inline_stop"
                /\ TestAndSet("main")
                /\ Go("main", "inline_wake")
                /\ UNCHANGED <<sourceVars, result>>

InlineWake == /\ place["main"] = "inline_wake"
              /\ WakeRunThreads("main")
              /\ Go("main", "inline_done")
              /\ UNCHANGED <<sourceVars, result>>

RunLoop == /\ place["main"] \in {"registered", "inline_done"}
           /\ Run("main")
           /\ Go("main", IF place["main"] = "registered" THEN "run" ELSE "run_stopped")
           /\ UNCHANGED <<sourceVars, result>>

LoopStep == /\ place["main"] \in {"run", "run_stopped"}
            /\ Lock("main") \/ Predicate("main") \/ Block("main") \/ Relock("main")
            /\ UNCHANGED <<sourceVars, result, place>>

ExecuteChild == /\ place["main"] \in {"run", "run_stopped"}
                /\ Execute("main")
                /\ Go("main", "store_result")
                /\ UNCHANGED <<sourceVars, result>>

(* The destructor of the callback, if there is something to deregister *)
DestroyCallback == /\ place["main"] = "run"
                   /\ pc["main"] = "leaving"
                   /\ Deregister("main")
                   /\ Go("main", "deregister")
                   /\ UNCHANGED <<loopVars, result>>

(* sync_wait() moves the result out and destroys its frame. *)
ReturnResult == /\ pc["main"] = "leaving"
                /\ place["main"] \in {"run_stopped", "deregister"}
                /\ dereg["main"] = "out"
                /\ Goto("main", "returned")
                /\ Go("main", "returned")
                /\ UNCHANGED <<queueVars, mut, stopVars, item, outcome, sourceVars, result>>

SpuriousWakeUp == WakeSpuriously("main") /\ UNCHANGED <<sourceVars, result, place>>

-----------------------------------------------------------------------------
Start == StartInline \/ StartOnLoop \/ StartOnWorker

ReceiverStep(t) == \/ StoreResult(t) \/ RequestStop(t) \/ OnStop(t) \/ Wake(t)
                   \/ FinishRequest(t) \/ LeaveRequest(t)
                   \/ SourceStep(t) /\ UNCHANGED <<loopVars, result, place>>

MainStep == \/ Construct \/ InlineOnStop \/ InlineWake \/ RunLoop \/ LoopStep
            \/ ExecuteChild \/ DestroyCallback \/ ReturnResult

SyncWaitNext == \/ Start
                \/ WorkerCompletes \/ WorkerSchedules
                \/ \E t \in Threads : ReceiverStep(t)
                \/ MainStep
                \/ SpuriousWakeUp

(* Both threads go on, and the sender completes at some time.  The mutex   *)
(* is given to a thread that can have it again and again.                  *)
SyncWaitFairness == /\ SF_vars(MainStep)
                    /\ WF_vars(WorkerCompletes \/ WorkerSchedules)
                    /\ \A t \in Threads : SF_vars(ReceiverStep(t))

SyncWaitSpec == SyncWaitInit /\ [][SyncWaitNext]_vars /\ SyncWaitFairness

-----------------------------------------------------------------------------
(* Properties *)

(* The parts have their types, and the receiver stores one result. *)
SyncWaitTypeOk == /\ TypeOk
                  /\ SourceTypeOk
                  /\ result \in 0..1
                  /\ place \in [Threads -> {"idle", "working", "store_result",
                         "request_stop", "on_stop", "wake", "callback_done",
                         "finish_request", "construct", "registered",
                         "inline_stop", "inline_wake", "inline_done", "run",
                         "run_stopped", "deregister", "returned"}]

(* When the frame is destroyed the result is there, the loop is empty, and *)
(* the worker is out of the receiver, the callback and the loop: all it    *)
(* still does with the frame is the notify_one() at the end of             *)
(* request_stop(), which finds nobody waiting.                             *)
FrameIsFree ==
    place["main"] = "returned" =>
        /\ result = 1
        /\ cell[HeadCell] = Null
        /\ mut = Free
        /\ place["worker"] \in {"idle", "finish_request", "returned"}
        /\ req["worker"] \in {"out", "notify"}
        /\ dereg["main"] = "out"

(* sync_wait() returns when its sender completes, wherever that is. *)
Returns == (place["main"] # "idle") ~> (place["main"] = "returned")
=============================================================================
