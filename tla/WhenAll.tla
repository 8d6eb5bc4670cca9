------------------------------- MODULE WhenAll -------------------------------
(***************************************************************************)
(* when_all(children...): starts every child, asks all of them to stop     *)
(* when the first one fails (completes with an error or stopped, or its    *)
(* value cannot be moved), and completes when all have: with the first     *)
(* failure, or with all the values.                                        *)
(*                                                                         *)
(* The threads are the one inside start(), those on which the children     *)
(* complete, at any time after they were started, and the one on which the *)
(* parent calls request_stop(), at most once and after start() returned.   *)
(* Every access of state_ and every call of a child is one action.  The    *)
(* packed word is a record: three flags, and the children yet to arrive.   *)
(***************************************************************************)
EXTENDS Naturals, Sequences

CONSTANT N                   \* sizeof...(ChildSenders), not 0

VARIABLES word,              \* state_: started, failed, stop_requested, count
          error,             \* error_or_stopped_: the child whose failure it holds
          values,            \* the children whose values value_results_ holds
          sent,              \* the completions of the receiver
          stops,             \* how often request_stop() was called on each child
          pc,                \* where each thread is
          next               \* the child a thread will start or stop next

vars == <<word, error, values, sent, stops, pc, next>>

Children == 1..N
Starter == 0
Stopper == N + 1
Threads == 0..N + 1
NoChild == 0

Goto(t, label) == pc' = [pc EXCEPT ![t] = label]

(* request_stop_on_all_children() begins at the first child. *)
BeginStopping(t) == /\ Goto(t, "stopping")
                    /\ next' = [next EXCEPT ![t] = 1]

Init == /\ word = [started |-> FALSE, failed |-> FALSE,
                   stop_requested |-> FALSE, count |-> N]
        /\ error = NoChild
        /\ values = {}
        /\ sent = <<>>
        /\ stops = [i \in Children |-> 0]
        /\ pc = [t \in Threads |-> "idle"]
        /\ next = [t \in Threads |-> 1]

-----------------------------------------------------------------------------
(* start() *)

StartChild == /\ pc[Starter] = "idle"
              /\ LET i == next[Starter]
                     label == IF i = N THEN "add_started" ELSE "idle"
                 IN  /\ pc' = [pc EXCEPT ![i] = "running", ![Starter] = label]
                     /\ next' = [next EXCEPT ![Starter] = i + 1]
              /\ UNCHANGED <<word, error, values, sent, stops>>

(* Completions that came earlier left the stop requests, or the delivery   *)
(* of the result, to start().                                              *)
AddStarted == /\ pc[Starter] = "add_started"
              /\ word' = [word EXCEPT !.started = TRUE]
              /\ IF word.count >= 1 /\ word.failed
                 THEN BeginStopping(Starter)
                 ELSE /\ Goto(Starter, IF word.count = 0 THEN "deliver" ELSE "returned")
                      /\ UNCHANGED next
              /\ UNCHANGED <<error, values, sent, stops>>

-----------------------------------------------------------------------------
(* Completion of child i *)

ChildSucceeds(i) == /\ pc[i] = "running"
                    /\ values' = values \cup {i}
                    /\ Goto(i, "arrive")
                    /\ UNCHANGED <<word, error, sent, stops, next>>

(* try_set_failure_flag begins with a load. *)
ChildFails(i) == /\ pc[i] = "running"
                 /\ Goto(i, IF word.failed THEN "arrive" ELSE "set_failed")
                 /\ UNCHANGED <<word, error, values, sent, stops, next>>

(* Mutant: the failure that has nobody to stop is not stored. *)
SetFailedUnstored(i) ==
    /\ pc[i] = "set_failed"
    /\ word' = [word EXCEPT !.failed = TRUE]
    /\ IF ~word.failed /\ word.started /\ ~word.stop_requested /\ word.count >= 2
       THEN BeginStopping(i)
       ELSE Goto(i, "arrive") /\ UNCHANGED next
    /\ UNCHANGED <<error, values, sent, stops>>

(* The fetch_or decides which failure is the first; it stops the others    *)
(* unless start() or an earlier request_stop() does.                       *)
SetFailed(i) ==
    /\ pc[i] = "set_failed"
    /\ word' = [word EXCEPT !.failed = TRUE]
    /\ IF /\ ~word.failed
          /\ word.started /\ ~word.stop_requested
          /\ word.count >= 2
       THEN BeginStopping(i)
       ELSE /\ Goto(i, IF word.failed THEN "arrive" ELSE "store_error")
            /\ UNCHANGED next
    /\ UNCHANGED <<error, values, sent, stops>>

StoreError(i) == /\ pc[i] = "store_error"
                 /\ error' = i
                 /\ Goto(i, "arrive")
                 /\ UNCHANGED <<word, values, sent, stops, next>>

Arrive(i) == /\ pc[i] = "arrive"
             /\ word' = [word EXCEPT !.count = @ - 1]
             /\ Goto(i, IF word.count < 2 /\ word.started THEN "deliver"
                                                          ELSE "returned")
             /\ UNCHANGED <<error, values, sent, stops, next>>

-----------------------------------------------------------------------------
(* Steps that several threads share *)

(* request_stop_on_all_children(): children that have completed included.  *)
StopChild(t) ==
    /\ pc[t] = "stopping"
    /\ stops' = [stops EXCEPT ![next[t]] = @ + 1]
    /\ next' = [next EXCEPT ![t] = @ + 1]
    /\ IF next[t] < N THEN UNCHANGED pc
       ELSE Goto(t, IF t \in Children THEN "store_error" ELSE "returned")
    /\ UNCHANGED <<word, error, values, sent>>

(* deliver_result: the parent may destroy the operation inside this step.  *)
Deliver(t) == /\ pc[t] = "deliver"
              /\ sent' = Append(sent, IF error # NoChild THEN "error" ELSE "values")
              /\ Goto(t, "returned")
              /\ UNCHANGED <<word, error, values, stops, next>>

RequestStop ==
    /\ pc[Stopper] = "idle" /\ pc[Starter] = "returned"
    /\ word' = [word EXCEPT !.stop_requested = TRUE]
    /\ IF ~word.failed /\ word.count >= 1
       THEN BeginStopping(Stopper)
       ELSE Goto(Stopper, "returned") /\ UNCHANGED next
    /\ UNCHANGED <<error, values, sent, stops>>

-----------------------------------------------------------------------------
ChildStep(i) == SetFailed(i) \/ StoreError(i) \/ Arrive(i)
ChildCompletes(i) == ChildSucceeds(i) \/ ChildFails(i)

Next == \/ StartChild \/ AddStarted
        \/ \E i \in Children : ChildCompletes(i) \/ ChildStep(i)
        \/ \E t \in Threads : StopChild(t) \/ Deliver(t)
        \/ RequestStop

(* A thread inside one of the functions goes on; a child that was asked to *)
(* stop completes.  A child that was not asked may run forever, and the    *)
(* parent is not obliged to start the operation or to request a stop.      *)
Fairness == /\ WF_vars(AddStarted)
            /\ WF_vars(pc[Starter] = "idle" /\ next[Starter] > 1 /\ StartChild)
            /\ \A i \in Children : /\ WF_vars(ChildStep(i))
                                   /\ WF_vars(stops[i] > 0 /\ ChildCompletes(i))
            /\ \A t \in Threads : WF_vars(StopChild(t) \/ Deliver(t))

Spec == Init /\ [][Next]_vars /\ Fairness

-----------------------------------------------------------------------------
(* Properties *)

Labels == {"idle", "running", "add_started", "stopping", "set_failed",
           "store_error", "arrive", "deliver", "returned"}

(* The state has the types of the code's members. *)
TypeOk == /\ word \in [started : BOOLEAN, failed : BOOLEAN,
                       stop_requested : BOOLEAN, count : 0..N]
          /\ error \in 0..N
          /\ values \subseteq Children
          /\ sent \in Seq({"error", "values"})
          /\ stops \in [Children -> Nat]
          /\ pc \in [Threads -> Labels]
          /\ next \in [Threads -> 1..N + 1]

(* The result is delivered once, by the last event: every child has        *)
(* arrived, and the first failure, or else every value, is there to be     *)
(* delivered.  No child's thread touches the operation afterwards.         *)
DeliversLast ==
    /\ \A t \in Threads :
          pc[t] = "deliver" =>
             /\ sent = <<>>
             /\ \A i \in Children : pc[i] = "returned" \/ i = t
             /\ \A s \in Threads : pc[s] = "deliver" => s = t
    /\ Len(sent) <= 1
    /\ sent # <<>> => \A i \in Children : pc[i] = "returned"

(* What is delivered is a failure exactly if a child failed, and the       *)
(* values only if every child has stored its own.                          *)
ResultIsComplete ==
    /\ \A t \in Threads :
          pc[t] = "deliver" => IF word.failed THEN error # NoChild
                                              ELSE values = Children
    /\ sent # <<>> => (sent[1] = "error" <=> word.failed)

(* request_stop() is called at most once on each child, and only when      *)
(* start() of all of them has returned; a child's thread that stops the    *)
(* others does so before the operation, which they are part of, completes. *)
(* The same is not so of start(), which does it after the word says that   *)
(* it is done; the parent's request_stop() relies on the parent.           *)
StopCallsAreLegal == \A i \in Children : /\ stops[i] <= 1
                                         /\ stops[i] = 1 => word.started
                                         /\ pc[i] = "stopping" => sent = <<>>

(* After the first failure, or a stop request of the parent, the whole     *)
(* operation completes although the other children would run forever.      *)
FailureStopsTheRest == word.failed ~> (sent # <<>>)
StopCompletes == word.stop_requested ~> (sent # <<>>)
=============================================================================
