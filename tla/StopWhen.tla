------------------------------ MODULE StopWhen ------------------------------
(***************************************************************************)
(* stop_when(source, trigger): runs both, asks the other to stop when one  *)
(* completes, and completes with the source's result once both have.       *)
(*                                                                         *)
(* Four threads meet: the one inside start(), those on which the source    *)
(* and the trigger complete (possibly inside their own start() or inside a *)
(* call of their request_stop()), and the one on which the parent calls    *)
(* request_stop().  Every access of state_ is one action.  A child may     *)
(* complete at any time after it was started, once.                        *)
(***************************************************************************)
EXTENDS Naturals

VARIABLES state,     \* state_, as the set of its flags
          stored,    \* result_ holds the source's result
          sent,      \* how often the receiver was completed
          stops,     \* how often request_stop() was called on each child
          pc         \* where each thread is

vars == <<state, stored, sent, stops, pc>>

Children == {"source", "trigger"}
Threads == Children \cup {"starter", "stopper"}

Flags == {"started", "source", "trigger", "stop_requested", "stop_done"}

Goto(t, label) == pc' = [pc EXCEPT ![t] = label]

Init == /\ state = {}
        /\ stored = FALSE
        /\ sent = 0
        /\ stops = [c \in Children |-> 0]
        /\ pc = [t \in Threads |-> "idle"]

-----------------------------------------------------------------------------
(* start() *)

StartSource == /\ pc["starter"] = "idle"
               /\ pc' = [pc EXCEPT !["starter"] = "source_started",
                                   !["source"] = "running"]
               /\ UNCHANGED <<state, stored, sent, stops>>

(* If the source has completed already the trigger is not even started. *)
CheckSource == /\ pc["starter"] = "source_started"
               /\ Goto("starter", IF state = {"source"} THEN "deliver"
                                                        ELSE "start_trigger")
               /\ UNCHANGED <<state, stored, sent, stops>>

StartTrigger == /\ pc["starter"] = "start_trigger"
                /\ pc' = [pc EXCEPT !["starter"] = "trigger_started",
                                    !["trigger"] = "running"]
                /\ UNCHANGED <<state, stored, sent, stops>>

CheckBoth == /\ pc["starter"] = "trigger_started"
             /\ Goto("starter", IF state = {"source", "trigger"} THEN "deliver"
                                                                 ELSE "add_started")
             /\ UNCHANGED <<state, stored, sent, stops>>

(* From here on completions may call request_stop() on the other child;    *)
(* those that came earlier left it to start().                             *)
AddStarted == /\ pc["starter"] = "add_started"
              /\ state' = state \cup {"started"}
              /\ Goto("starter", CASE state = {"source", "trigger"} -> "deliver"
                                   [] state = {"source"} -> "stop_trigger"
                                   [] state = {"trigger"} -> "stop_source"
                                   [] OTHER -> "returned")
              /\ UNCHANGED <<stored, sent, stops>>

-----------------------------------------------------------------------------
(* Completion of a child *)

(* Mutant: the completion does not wait for a running request_stop() call. *)
OtherIsDoneEarly(c) ==
    \E other \in Children \ {c} : {"started", other} \subseteq state

(* Mutant: a completion after an accepted stop request is not the last.    *)
OtherIsDoneUnlessStopped(c) ==
    \E other \in Children \ {c} : state = {"started", other, "stop_done"}

(* The other child has completed, and whoever had to stop this one has     *)
(* finished doing so: this completion is the last event.                   *)
OtherIsDone(c) ==
    \E other \in Children \ {c}, how \in {"stop_done", "stop_requested"} :
        state = {"started", other, how}

(* set_result: the last child completes the receiver at once; otherwise    *)
(* the source stores its result.                                           *)
ChildCompletes(c) == /\ pc[c] = "running"
                     /\ stored' = (stored \/ (c = "source" /\ ~OtherIsDone(c)))
                     /\ Goto(c, IF OtherIsDone(c) THEN "forward" ELSE "add_completed")
                     /\ UNCHANGED <<state, sent, stops>>

(* Mutant: a completion inside start() asks the other child to stop. *)
AddCompletedEagerly(c) == /\ pc[c] = "add_completed"
                          /\ state' = state \cup {c}
                          /\ Goto(c, IF OtherIsDone(c) THEN "deliver"
                                     ELSE IF ~(state \subseteq {"started"}) THEN "returned"
                                     ELSE IF c = "source" THEN "stop_trigger"
                                                          ELSE "stop_source")
                          /\ UNCHANGED <<stored, sent, stops>>

(* source_completed, trigger_completed *)
AddCompleted(c) == /\ pc[c] = "add_completed"
                   /\ state' = state \cup {c}
                   /\ Goto(c, IF OtherIsDone(c) THEN "deliver"
                              ELSE IF state # {"started"} THEN "returned"
                              ELSE IF c = "source" THEN "stop_trigger"
                                                   ELSE "stop_source")
                   /\ UNCHANGED <<stored, sent, stops>>

-----------------------------------------------------------------------------
(* Steps that start() and the completions share *)

StopChild(t) == \E c \in Children :
                    /\ pc[t] = IF c = "source" THEN "stop_source" ELSE "stop_trigger"
                    /\ stops' = [stops EXCEPT ![c] = @ + 1]
                    /\ Goto(t, "add_stop_done")
                    /\ UNCHANGED <<state, stored, sent>>

(* Mutant: a child that completed inside request_stop() is not noticed. *)
AddStopDoneOnly(t) == /\ pc[t] = "add_stop_done"
                      /\ state' = state \cup {"stop_done"}
                      /\ Goto(t, "returned")
                      /\ UNCHANGED <<stored, sent, stops>>

AddStopDone(t) == /\ pc[t] = "add_stop_done"
                  /\ state' = state \cup {"stop_done"}
                  /\ Goto(t, IF state = {"started", "source", "trigger"}
                             THEN "deliver" ELSE "returned")
                  /\ UNCHANGED <<stored, sent, stops>>

(* deliver_result, or the source's result forwarded without being stored.  *)
(* The parent may destroy the operation inside this step.                  *)
Deliver(t) == /\ pc[t] \in {"deliver", "forward"}
              /\ sent' = sent + 1
              /\ Goto(t, "returned")
              /\ UNCHANGED <<state, stored, stops>>

-----------------------------------------------------------------------------
(* request_stop(): by contract at most once, after start() has returned    *)

RequestStop == /\ pc["stopper"] = "idle"
               /\ pc["starter"] = "returned"
               /\ IF state = {"started"}
                  THEN /\ state' = {"started", "stop_requested"}
                       /\ Goto("stopper", "outer_source")
                  ELSE UNCHANGED state /\ Goto("stopper", "returned")
               /\ UNCHANGED <<stored, sent, stops>>

StopSource == /\ pc["stopper"] = "outer_source"
              /\ stops' = [stops EXCEPT !["source"] = @ + 1]
              /\ Goto("stopper", "outer_trigger")
              /\ UNCHANGED <<state, stored, sent>>

StopTrigger == /\ pc["stopper"] = "outer_trigger"
               /\ stops' = [stops EXCEPT !["trigger"] = @ + 1]
               /\ Goto("stopper", "returned")
               /\ UNCHANGED <<state, stored, sent>>

-----------------------------------------------------------------------------
StarterStep == StartSource \/ CheckSource \/ StartTrigger \/ CheckBoth \/ AddStarted

SharedStep(t) == StopChild(t) \/ AddStopDone(t) \/ Deliver(t)

Next == \/ StarterStep
        \/ \E c \in Children : ChildCompletes(c) \/ AddCompleted(c)
        \/ \E t \in Threads : SharedStep(t)
        \/ RequestStop
        \/ StopSource \/ StopTrigger

(* A thread inside one of the functions goes on; a child that was asked to *)
(* stop completes.  A child that was not asked may run forever, and nobody *)
(* is obliged to start the operation or to request a stop.                 *)
Fairness ==
    /\ WF_vars(CheckSource \/ StartTrigger \/ CheckBoth \/ AddStarted)
    /\ \A t \in Threads : WF_vars(SharedStep(t))
    /\ WF_vars(StopSource \/ StopTrigger)
    /\ \A c \in Children : /\ WF_vars(AddCompleted(c))
                           /\ WF_vars(stops[c] > 0 /\ ChildCompletes(c))

Spec == Init /\ [][Next]_vars /\ Fairness

-----------------------------------------------------------------------------
(* Properties *)

Labels == {"idle", "source_started", "start_trigger", "trigger_started",
           "add_started", "deliver", "forward", "stop_source", "stop_trigger",
           "returned", "running", "add_completed", "add_stop_done",
           "outer_source", "outer_trigger"}

(* The state has the types of the code's members; neither child is asked   *)
(* to stop twice.                                                          *)
TypeOk == /\ state \subseteq Flags
          /\ stored \in BOOLEAN
          /\ sent \in 0..1
          /\ stops \in [Children -> 0..1]
          /\ pc \in [Threads -> Labels]

Finished(c) == pc[c] = "returned" \/ pc[c] \in {"deliver", "forward"}

(* The receiver is completed when both children are done (the trigger may  *)
(* never have been started), with a result, and then no thread but the     *)
(* parent's own request_stop() touches the operation or a child again.     *)
CompletesLast ==
    /\ \A t \in Threads :
          pc[t] \in {"deliver", "forward"} =>
             /\ Finished("source")
             /\ Finished("trigger") \/ pc["trigger"] = "idle"
             /\ stored \/ (t = "source" /\ pc[t] = "forward")
    /\ sent > 0 => /\ pc["starter"] = "returned"
                   /\ pc["source"] = "returned"
                   /\ pc["trigger"] \in {"idle", "returned"}

(* A child is asked to stop only after its start() returned, never by a    *)
(* completion that runs while start() is still starting children, and only *)
(* before the operation, which it is part of, completes; and no flag is    *)
(* added to a state that has it, which would carry into the next.  (While  *)
(* the parent's request_stop() stops both, the parent keeps the operation.)*)
StopCallsAreLegal ==
    /\ \A c \in Children : stops[c] > 0 => "started" \in state
    /\ \A t \in Threads :
          /\ pc[t] \in {"stop_source", "stop_trigger"} => sent = 0
          /\ pc[t] \in {"stop_source", "stop_trigger", "add_stop_done"} =>
                "stop_done" \notin state /\ "stop_requested" \notin state
          /\ pc[t] = "add_completed" => t \notin state

(* As soon as one child completes, or a stop request is accepted, the      *)
(* operation completes: whoever is left is asked to stop and waited for.   *)
CompletesAfterFirst ==
    \A c \in Children : (pc[c] = "add_completed") ~> (sent = 1)
StopCompletes == ("stop_requested" \in state) ~> (sent = 1)
=============================================================================
