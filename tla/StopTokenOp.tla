----------------------------- MODULE StopTokenOp -----------------------------
(***************************************************************************)
(* stop_token_sender on a single_inplace_stop_source: the operation        *)
(* completes with set_value() when the source is asked to stop, with       *)
(* set_stopped() when the operation itself is.  Two threads may call the   *)
(* source's request_stop() at any time; one calls start(); the parent      *)
(* calls the operation's request_stop() at most once, after start()        *)
(* returned.                                                               *)
(***************************************************************************)
EXTENDS StopSource

VARIABLES state,       \* the operation's state_, as the set of its flags
          deregisters, \* callback_ is engaged and holds a pointer to the source
          outcome,     \* what the receiver was completed with
          pc           \* where each thread is in the operation's functions

vars == <<source_state, stopping_thread, req, dereg, state, deregisters, outcome, pc>>

opVars == <<state, deregisters, outcome>>

(* Threads is {"starter", "parent"} and these. *)
Requesters == {"stopper", "second_stopper"}

Goto(t, label) == pc' = [pc EXCEPT ![t] = label]

Init == /\ SourceInit
        /\ state = {}
        /\ deregisters = FALSE
        /\ outcome = "none"
        /\ pc = [t \in Threads |-> "idle"]

-----------------------------------------------------------------------------
(* start() *)

Start == /\ pc["starter"] = "idle"
         /\ Goto("starter", IF StopRequested THEN "deliver" ELSE "emplace")
         /\ UNCHANGED <<sourceVars, opVars>>

(* callback_.emplace(): a source that was asked to stop meanwhile makes    *)
(* the callback run here.                                                  *)
Emplace == /\ pc["starter"] = "emplace"
           /\ \/ /\ TryRegisterSucceeds
                 /\ deregisters' = TRUE
                 /\ Goto("starter", "add_constructed")
              \/ /\ TryRegisterFails
                 /\ Goto("starter", "inline_callback")
                 /\ UNCHANGED deregisters
           /\ UNCHANGED <<state, outcome>>

InlineCallback == /\ pc["starter"] = "inline_callback"
                  /\ state' = state \cup {"invoked"}
                  /\ Goto("starter", "add_constructed")
                  /\ UNCHANGED <<sourceVars, deregisters, outcome>>

AddConstructed == /\ pc["starter"] = "add_constructed"
                  /\ state' = state \cup {"constructed"}
                  /\ Goto("starter", IF state = {"invoked"} THEN "reset" ELSE "returned")
                  /\ UNCHANGED <<sourceVars, deregisters, outcome>>

-----------------------------------------------------------------------------
(* The source's request_stop(), and the callback inside it *)

CallRequestStop(t) == /\ t \in Requesters
                      /\ pc[t] = "idle"
                      /\ SourceRequestStop(t)
                      /\ Goto(t, "callback")
                      /\ UNCHANGED opVars

OnStopCallback(t) == /\ pc[t] = "callback"
                     /\ req[t] = "execute"
                     /\ state' = state \cup {"invoked"}
                     /\ Goto(t, IF state = {"constructed"} THEN "reset" ELSE "returned")
                     /\ UNCHANGED <<sourceVars, deregisters, outcome>>

FinishCallback(t) == /\ pc[t] = "returned"
                     /\ CallbackReturns(t)
                     /\ UNCHANGED <<opVars, pc>>

-----------------------------------------------------------------------------
(* The operation's request_stop() *)

RequestStop == /\ pc["parent"] = "idle"
               /\ pc["starter"] = "returned"
               /\ state' = state \cup {"stop_requested"}
               /\ Goto("parent", IF state = {"constructed"} THEN "reset" ELSE "returned")
               /\ UNCHANGED <<sourceVars, deregisters, outcome>>

-----------------------------------------------------------------------------
(* callback_.reset() and the completion, for the thread that decided it *)

Reset(t) == /\ pc[t] = "reset"
            /\ IF deregisters
               THEN Deregister(t) /\ Goto(t, "resetting")
               ELSE UNCHANGED sourceVars /\ Goto(t, "deliver")
            /\ UNCHANGED opVars

ResetReturns(t) == /\ pc[t] = "resetting"
                   /\ dereg[t] = "out"
                   /\ deregisters' = FALSE
                   /\ Goto(t, "deliver")
                   /\ UNCHANGED <<sourceVars, state, outcome>>

(* set_value or set_stopped; the operation may be destroyed in this step. *)
Deliver(t) == /\ pc[t] = "deliver"
              /\ outcome' = IF outcome # "none" THEN "twice"
                            ELSE IF t = "parent" THEN "stopped" ELSE "value"
              /\ Goto(t, "returned")
              /\ UNCHANGED <<sourceVars, state, deregisters>>

-----------------------------------------------------------------------------
ThreadStep(t) == \/ SourceStep(t) /\ UNCHANGED <<opVars, pc>>
                 \/ OnStopCallback(t) \/ FinishCallback(t)
                 \/ Reset(t) \/ ResetReturns(t) \/ Deliver(t)

Next == \/ Start \/ Emplace \/ InlineCallback \/ AddConstructed
        \/ RequestStop
        \/ \E t \in Threads : CallRequestStop(t) \/ ThreadStep(t)

(* A thread inside one of the functions goes on; nobody has to call one. *)
Fairness == /\ WF_vars(Emplace \/ InlineCallback \/ AddConstructed)
            /\ \A t \in Threads : WF_vars(ThreadStep(t))

Spec == Init /\ [][Next]_vars /\ Fairness

-----------------------------------------------------------------------------
(* Properties *)

(* The members hold what their types allow; a receiver is completed once. *)
TypeOk == /\ SourceTypeOk
          /\ state \subseteq {"constructed", "invoked", "stop_requested"}
          /\ deregisters \in BOOLEAN
          /\ outcome \in {"none", "value", "stopped"}
          /\ pc \in [Threads -> {"idle", "emplace", "inline_callback", "add_constructed",
                                 "callback", "reset", "resetting", "deliver", "returned"}]

Inside(t) == pc[t] \notin {"idle", "callback", "returned"}

(* One thread decides the completion, and when it delivers it the callback *)
(* is out of the source, nobody is about to run it or running it but this  *)
(* thread itself, and no other thread is inside the operation.             *)
CompletesLast ==
    \A t \in Threads :
        /\ pc[t] \in {"reset", "resetting", "deliver"} => outcome = "none"
        /\ pc[t] = "deliver" =>
              /\ source_state # "callback"
              /\ \A u \in Threads \ {t} : ~Inside(u) /\ req[u] \notin {"store_id", "execute"}

(* Asked to stop from either side, the operation completes: the thread     *)
(* that deregisters the callback waits neither for itself nor forever.     *)
StopCompletes ==
    /\ (StopRequested /\ pc["starter"] # "idle") ~> (outcome # "none")
    /\ ("stop_requested" \in state) ~> (outcome # "none")

(* The source's request_stop() returns, although the callback it runs may  *)
(* deregister itself and destroy the operation.                            *)
RequestStopReturns == \A t \in Threads : (req[t] # "out") ~> (req[t] = "out")
=============================================================================
