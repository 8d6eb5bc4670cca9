------------------------------ MODULE StopSource ------------------------------
(***************************************************************************)
(* single_inplace_stop_source and the one single_inplace_stop_callback     *)
(* that may be registered with it.  state_ holds null, the callback, or    *)
(* one of two marks: stop requested, and callback done.                    *)
(*                                                                         *)
(* This module has the steps of the functions for any calling thread; the  *)
(* modules that extend it say which threads call them and what the         *)
(* callback does.  A thread can call deregister_callback() from inside the *)
(* callback that its own request_stop() is running, so it has a place in   *)
(* each function.                                                          *)
(***************************************************************************)
EXTENDS Naturals

CONSTANT Threads

NoThread == "no_thread"

VARIABLES source_state,     \* state_
          stopping_thread,  \* stopping_thread_id_
          req,              \* where each thread is in request_stop()
          dereg             \* where each thread is in deregister_callback()

sourceVars == <<source_state, stopping_thread, req, dereg>>

SourceStates == {"null", "callback", "requested", "done"}

SourceTypeOk == /\ source_state \in SourceStates
                /\ stopping_thread \in Threads \cup {NoThread}
                /\ req \in [Threads -> {"out", "store_id", "execute", "store_done", "notify"}]
                /\ dereg \in [Threads -> {"out", "compare", "load", "blocked"}]

SourceInit == /\ source_state = "null"
              /\ stopping_thread = NoThread
              /\ req = [t \in Threads |-> "out"]
              /\ dereg = [t \in Threads |-> "out"]

StopRequested == source_state \in {"requested", "done"}

-----------------------------------------------------------------------------
(* request_stop() *)

(* The exchange; a second request returns false at once. *)
SourceRequestStop(t) ==
    /\ req[t] = "out"
    /\ IF StopRequested
       THEN UNCHANGED <<source_state, req>>
       ELSE /\ source_state' = "requested"
            /\ req' = [req EXCEPT ![t] = IF source_state = "callback"
                                         THEN "store_id" ELSE "out"]
    /\ UNCHANGED <<stopping_thread, dereg>>

StoreId(t) == /\ req[t] = "store_id"
              /\ stopping_thread' = t
              /\ req' = [req EXCEPT ![t] = "execute"]
              /\ UNCHANGED <<source_state, dereg>>

(* callback->execute() has returned. *)
CallbackReturns(t) == /\ req[t] = "execute"
                      /\ dereg[t] = "out"
                      /\ req' = [req EXCEPT ![t] = "store_done"]
                      /\ UNCHANGED <<source_state, stopping_thread, dereg>>

StoreDone(t) == /\ req[t] = "store_done"
                /\ source_state' = "done"
                /\ req' = [req EXCEPT ![t] = "notify"]
                /\ UNCHANGED <<stopping_thread, dereg>>

(* state_.notify_one(): at most one thread deregisters the callback. *)
Notify(t) == /\ req[t] = "notify"
             /\ req' = [req EXCEPT ![t] = "out"]
             /\ dereg' = [u \in Threads |-> IF dereg[u] = "blocked" THEN "load"
                                                                    ELSE dereg[u]]
             /\ UNCHANGED <<source_state, stopping_thread>>

-----------------------------------------------------------------------------
(* try_register_callback(): FALSE when the callback has to run at once, on *)
(* the calling thread, and there is nothing to deregister later.           *)

TryRegisterSucceeds == /\ source_state = "null"
                       /\ source_state' = "callback"
                       /\ UNCHANGED <<stopping_thread, req, dereg>>

TryRegisterFails == StopRequested /\ UNCHANGED sourceVars

-----------------------------------------------------------------------------
(* deregister_callback() *)

Deregister(t) == /\ dereg[t] = "out"
                 /\ dereg' = [dereg EXCEPT ![t] = "compare"]
                 /\ UNCHANGED <<source_state, stopping_thread, req>>

(* Mutant: a callback that is running is not waited for. *)
CompareNeverWaits(t) ==
    /\ dereg[t] = "compare"
    /\ dereg' = [dereg EXCEPT ![t] = "out"]
    /\ source_state' = IF source_state = "callback" THEN "null" ELSE source_state
    /\ UNCHANGED <<stopping_thread, req>>

(* The exchange, and what it finds: an unused callback is taken out; one   *)
(* that is being run is waited for, except by the thread that runs it.     *)
Compare(t) ==
    /\ dereg[t] = "compare"
    /\ dereg' = [dereg EXCEPT ![t] = IF source_state = "requested" /\ stopping_thread # t
                                     THEN "load" ELSE "out"]
    /\ source_state' = IF source_state = "callback" THEN "null" ELSE source_state
    /\ UNCHANGED <<stopping_thread, req>>

(* state_.wait() blocks only if the value is still the old one. *)
Load(t) == /\ dereg[t] = "load"
           /\ dereg' = [dereg EXCEPT ![t] = IF source_state = "done" THEN "out"
                                                                     ELSE "blocked"]
           /\ UNCHANGED <<source_state, stopping_thread, req>>

-----------------------------------------------------------------------------
SourceStep(t) == StoreId(t) \/ StoreDone(t) \/ Notify(t) \/ Compare(t) \/ Load(t)
=============================================================================
