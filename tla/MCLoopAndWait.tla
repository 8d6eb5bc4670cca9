---------------------------- MODULE MCLoopAndWait ----------------------------
(***************************************************************************)
(* manual_event_loop alone, and inside sync_wait(), side by side for one   *)
(* run: a behaviour is that of a loop with several runners, or of one call *)
(* of sync_wait().                                                         *)
(***************************************************************************)
EXTENDS Naturals, FiniteSets

CONSTANTS Items, Runners, Stoppable

ASSUME NamesAreApart == Items \cap {"null", "head"} = {} /\ "free" \notin Runners
ASSUME ItemsAreFinite == IsFiniteSet(Items)
ASSUME StoppableAssumption == Stoppable \subseteq Runners

VARIABLES kind,
          cell, prev_next, last_next, mut, stop_requested, stopping, pc, item, outcome,
          w_cell, w_prev_next, w_last_next, w_mut, w_stop_requested, w_stopping,
          w_pc, w_item, w_outcome,
          w_source_state, w_stopping_thread, w_req, w_dereg, w_result, w_place

Loop == INSTANCE ManualEventLoop

Wait == INSTANCE SyncWait WITH
            Threads <- {"main", "worker"}, Runners <- {"main"},
            Stoppable <- {"main"}, Items <- {"child"},
            cell <- w_cell, prev_next <- w_prev_next, last_next <- w_last_next,
            mut <- w_mut, stop_requested <- w_stop_requested,
            stopping <- w_stopping, pc <- w_pc, item <- w_item,
            outcome <- w_outcome, source_state <- w_source_state,
            stopping_thread <- w_stopping_thread, req <- w_req,
            dereg <- w_dereg, result <- w_result, place <- w_place

loopVars == <<cell, prev_next, last_next, mut, stop_requested, stopping, pc, item,
              outcome>>
waitVars == <<w_cell, w_prev_next, w_last_next, w_mut, w_stop_requested, w_stopping,
              w_pc, w_item, w_outcome, w_source_state, w_stopping_thread, w_req,
              w_dereg, w_result, w_place>>
vars == <<kind, loopVars, waitVars>>

Init == kind \in {"loop", "sync_wait"} /\ Loop!Init /\ Wait!SyncWaitInit

Next == \/ /\ kind = "loop"
           /\ Loop!Next
           /\ UNCHANGED <<kind, waitVars>>
        \/ /\ kind = "sync_wait"
           /\ Wait!SyncWaitNext
           /\ UNCHANGED <<kind, loopVars>>

(* Nothing is asked of a call of sync_wait() that was not made; a runner   *)
(* of the loop that nobody stops is asked to call run().                   *)
Spec == /\ Init
        /\ [][Next]_vars
        /\ kind = "loop" => Loop!Fairness
        /\ Wait!SyncWaitFairness

-----------------------------------------------------------------------------
(* Properties *)

(* The loop's pointers lead to the queued operations, and nowhere else, so *)
(* that an operation that completed is reached by none of them.            *)
PointersFit == Loop!PointersFit /\ Wait!PointersFit

(* When sync_wait() destroys its frame the result is there, the loop is    *)
(* empty, and the worker is out of all that lived in the frame.            *)
FrameIsFree == Wait!SyncWaitTypeOk /\ Wait!FrameIsFree

(* The pointers implement the queue that the loop promises: operations run *)
(* in order, once, unless they are stopped before anybody took them.       *)
ImplementsEventLoop == Loop!ImplementsEventLoop

(* A started operation completes as long as one runner is never stopped.   *)
StartedCompletes == Loop!StartedCompletes

(* run() returns after its token was triggered, and so sync_wait() returns *)
(* when its sender completes, wherever that is.                            *)
CallsReturn == Loop!StopReturns /\ Wait!Returns
=============================================================================
