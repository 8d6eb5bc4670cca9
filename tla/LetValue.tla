------------------------------- MODULE LetValue -------------------------------
(***************************************************************************)
(* let_value(source, factory): when the source completes with a value, the *)
(* source is destroyed, the factory makes the body from the value, and the *)
(* body is constructed in its place and started; the operation completes   *)
(* with the body's result.  A stop request must reach whichever of the two *)
(* is there, and never touch one that is being replaced.                   *)
(*                                                                         *)
(* The threads are the one on which the source completes, which constructs *)
(* and starts the body; the one on which the body completes, at any time   *)
(* after it was started; and the one on which the parent calls             *)
(* request_stop(), at most once and after start().  Every access of state_ *)
(* and every call is one action; an exchange that fails is retried and     *)
(* changes nothing.                                                        *)
(***************************************************************************)
EXTENDS Naturals, Sequences

VARIABLES flags,       \* state_: its five flags
          child,       \* the child operation alive in the storage
          outcome,     \* what each child completed with
          stored,      \* result_storage_: what it holds of the body's result
          sent,        \* the completions of the receiver
          stops,       \* how often request_stop() was called on each child
          pc           \* where each thread is

vars == <<flags, child, outcome, stored, sent, stops, pc>>

Children == {"source", "body"}
Threads == Children \cup {"stopper"}

Goto(t, label) == pc' = [pc EXCEPT ![t] = label]

Init == /\ flags = {}
        /\ child = "source"
        /\ outcome = [c \in Children |-> "none"]
        /\ stored = "none"
        /\ sent = <<>>
        /\ stops = [c \in Children |-> 0]
        /\ pc = [t \in Threads |-> "idle"]

Start == /\ pc["source"] = "idle"
         /\ Goto("source", "running")
         /\ UNCHANGED <<flags, child, outcome, stored, sent, stops>>

-----------------------------------------------------------------------------
(* Completion of the source *)

Results == {"value", "error", "stopped"}

SourceFails == /\ pc["source"] = "running"
               /\ \E r \in {"error", "stopped"} :
                     outcome' = [outcome EXCEPT !["source"] = r]
               /\ Goto("source", "send_own")
               /\ UNCHANGED <<flags, child, stored, sent, stops>>

(* The source may not be destroyed when request_stop() is calling it.      *)
SourceSucceeds == /\ pc["source"] = "running"
                  /\ flags' = flags \cup {"src_done"}
                  /\ outcome' = [outcome EXCEPT !["source"] = "value"]
                  /\ Goto("source", IF "stop_requested" \in flags THEN "send_stopped"
                                                                  ELSE "store_value")
                  /\ UNCHANGED <<child, stored, sent, stops>>

DestructSource == /\ pc["source"] = "store_value"
                  /\ child' = "none"
                  /\ Goto("source", "construct")
                  /\ UNCHANGED <<flags, outcome, stored, sent, stops>>

(* The body may complete from here on, before this thread goes on.         *)
StartBody == /\ pc["source"] = "construct"
             /\ child' = "body"
             /\ pc' = [pc EXCEPT !["source"] = "add_started", !["body"] = "running"]
             /\ UNCHANGED <<flags, outcome, stored, sent, stops>>

(* Moving the value, the factory or the body's construction may throw. *)
StartBodyThrows == /\ pc["source"] \in {"store_value", "construct"}
                   /\ Goto("source", "send_error")
                   /\ UNCHANGED <<flags, child, outcome, stored, sent, stops>>

AddStarted ==
    /\ pc["source"] = "add_started"
    /\ flags' = flags \cup {"body_started"}
    /\ Goto("source", IF flags = {"src_done", "stop_requested"} THEN "stop_body"
                      ELSE IF "body_done" \in flags THEN "dispatch"
                      ELSE "returned")
    /\ UNCHANGED <<child, outcome, stored, sent, stops>>

AddStopDone ==
    /\ pc["source"] = "add_stop_done"
    /\ flags' = flags \cup {"stop_done"}
    /\ Goto("source", IF "body_done" \in flags THEN "dispatch" ELSE "returned")
    /\ UNCHANGED <<child, outcome, stored, sent, stops>>

-----------------------------------------------------------------------------
(* Completion of the body *)

(* The thread that started the body has returned, or will not come back.   *)
CanCompleteInline ==
    flags \in {{"src_done", "body_started"},
               {"src_done", "body_started", "stop_requested", "stop_done"}}

BodyCompletes ==
    /\ pc["body"] = "running"
    /\ \E r \in Results : outcome' = [outcome EXCEPT !["body"] = r]
    /\ Goto("body", IF CanCompleteInline THEN "send_own" ELSE "store")
    /\ UNCHANGED <<flags, child, stored, sent, stops>>

(* A result that cannot be moved is replaced by the exception. *)
StoreResult == /\ pc["body"] = "store"
               /\ stored' \in {outcome["body"], "error"}
               /\ Goto("body", "add_done")
               /\ UNCHANGED <<flags, child, outcome, sent, stops>>

AddDone == /\ pc["body"] = "add_done"
           /\ flags' = flags \cup {"body_done"}
           /\ Goto("body", IF CanCompleteInline THEN "dispatch" ELSE "returned")
           /\ UNCHANGED <<child, outcome, stored, sent, stops>>

-----------------------------------------------------------------------------
(* request_stop(): each branch ends the loop with the value of state_ that *)
(* was loaded last.                                                        *)

RequestStop ==
    /\ pc["stopper"] = "idle" /\ pc["source"] # "idle"
    /\ IF "body_done" \in flags THEN Goto("stopper", "returned") /\ UNCHANGED flags
       ELSE IF "body_started" \in flags THEN Goto("stopper", "stop_body") /\ UNCHANGED flags
       ELSE /\ flags' = flags \cup {"stop_requested"}
            /\ Goto("stopper", IF "src_done" \in flags THEN "returned" ELSE "stop_source")
    /\ UNCHANGED <<child, outcome, stored, sent, stops>>

Target(t) == IF pc[t] = "stop_source" THEN "source" ELSE "body"

StopChild(t) ==
    /\ pc[t] \in {"stop_source", "stop_body"}
    /\ stops' = [stops EXCEPT ![Target(t)] = @ + 1]
    /\ Goto(t, IF t = "source" THEN "add_stop_done" ELSE "returned")
    /\ UNCHANGED <<flags, child, outcome, stored, sent>>

Completing(t) == pc[t] \in {"send_error", "send_stopped", "send_own", "dispatch"}

(* The parent may destroy the operation inside this step, if it is not     *)
(* still calling request_stop().                                           *)
Complete(t) ==
    /\ Completing(t)
    /\ sent' = Append(sent, CASE pc[t] = "send_error"   -> "error"
                              [] pc[t] = "send_stopped" -> "stopped"
                              [] pc[t] = "send_own"     -> outcome[t]
                              [] pc[t] = "dispatch"     -> stored)
    /\ Goto(t, "returned")
    /\ UNCHANGED <<flags, child, outcome, stored, stops>>

-----------------------------------------------------------------------------
SourceStep == \/ DestructSource \/ StartBody \/ StartBodyThrows
              \/ AddStarted \/ AddStopDone
BodyStep == StoreResult \/ AddDone

Next == \/ Start \/ SourceFails \/ SourceSucceeds \/ SourceStep
        \/ BodyCompletes \/ BodyStep \/ RequestStop
        \/ \E t \in Threads : StopChild(t) \/ Complete(t)

(* A thread inside one of the functions goes on, and a child that was      *)
(* asked to stop completes.  A child that was not asked may run forever.   *)
Fairness == /\ WF_vars(SourceStep) /\ WF_vars(BodyStep)
            /\ \A t \in Threads : WF_vars(StopChild(t) \/ Complete(t))
            /\ WF_vars(stops["source"] > 0 /\ (SourceSucceeds \/ SourceFails))
            /\ WF_vars(stops["body"] > 0 /\ BodyCompletes)

Spec == Init /\ [][Next]_vars /\ Fairness

-----------------------------------------------------------------------------
(* Properties *)

Flags == {"src_done", "body_started", "body_done", "stop_requested", "stop_done"}

(* The state has the types of the code's members, and the stages follow    *)
(* one another.                                                            *)
TypeOk == /\ flags \subseteq Flags
          /\ "body_started" \in flags \/ "body_done" \in flags => "src_done" \in flags
          /\ "stop_done" \in flags => {"body_started", "stop_requested"} \subseteq flags
          /\ child \in {"none"} \cup Children
          /\ outcome \in [Children -> {"none"} \cup Results]
          /\ stored \in {"none"} \cup Results
          /\ sent \in Seq({"none"} \cup Results)
          /\ stops \in [Children -> Nat]
          /\ pc \in [Threads -> {"idle", "running", "store_value", "construct",
                                 "add_started", "stop_body", "stop_source",
                                 "add_stop_done", "store", "add_done", "returned",
                                 "send_error", "send_stopped", "send_own", "dispatch"}]

(* The operation completes once, and whichever thread completes it is the  *)
(* last inside: neither the source's nor the body's thread touches the     *)
(* operation state afterwards.                                             *)
CompletesLast ==
    /\ Len(sent) <= 1
    /\ \A t \in Children : Completing(t) =>
          /\ sent = <<>>
          /\ \A c \in Children \ {t} : pc[c] \in {"idle", "returned"}
    /\ sent # <<>> => \A c \in Children : pc[c] \in {"idle", "returned"}

(* Whoever is about to ask a child to stop finds it alive: the source is   *)
(* not destroyed, nor the body still under construction, and the call is   *)
(* the only one that child gets.                                           *)
StopFindsTheChild ==
    /\ \A t \in Threads :
          pc[t] \in {"stop_source", "stop_body"} => /\ child = Target(t)
                                                   /\ stops[Target(t)] = 0
    /\ stops["source"] + stops["body"] <= 1

(* The operation completes with the body's result, or the source's own if  *)
(* it failed; with stopped in place of a value of the source only after a  *)
(* stop request, and with an error of its own when a move throws.          *)
ResultIsTheChilds ==
    sent # <<>> /\ sent[1] # "error" =>
       \/ child = "body" /\ sent[1] = outcome["body"]
       \/ child = "source" /\ sent[1] = "stopped"
          /\ (outcome["source"] = "stopped" \/ "stop_requested" \in flags)

(* A stop request completes the operation, at whatever stage it comes,     *)
(* although neither child would complete without being asked.              *)
StopCompletes == (pc["stopper"] # "idle") ~> (sent # <<>>)
=============================================================================
