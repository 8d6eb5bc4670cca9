--------------------------- MODULE FirstSuccessful ---------------------------
(***************************************************************************)
(* first_successful(children...): starts every child, asks the others to   *)
(* stop when the first one completes with a value, and completes when all  *)
(* have: with that value, or with the last failure (error or stopped).     *)
(*                                                                         *)
(* The threads are the one inside start(), those on which the children     *)
(* complete, at any time after they were started, and the one on which the *)
(* parent calls request_stop(), at most once and after start() returned.   *)
(* Every access of state_ and every call of a child is one action; a loop  *)
(* around a weak exchange is the one step in which it ends, its failed     *)
(* attempts change nothing.  The packed word is a record: three flags, and *)
(* the children yet to arrive.                                             *)
(***************************************************************************)
EXTENDS Naturals, Sequences

CONSTANT N                   \* sizeof...(ChildSenders), at least 2

VARIABLES word,          \* state_: started, has_value, stop_requested, count
          seen,          \* old_state, as loaded by the last child to fail
          outcome,       \* what each child completed with
          result,        \* result_variant_: the child whose result it holds
          sent,          \* the completions of the receiver: whose result
          stops,         \* how often request_stop() was called on each child
          pc,            \* where each thread is
          next,          \* the child a thread will start or stop next
          nothrow        \* the children whose values can be moved without
                         \* throwing: fixed by the types of the values

vars == <<word, seen, outcome, result, sent, stops, pc, next>>

Children == 1..N
Starter == 0
Stopper == N + 1
Threads == 0..N + 1
NoChild == 0

Goto(t, label) == pc' = [pc EXCEPT ![t] = label]

BeginStopping(t) == /\ Goto(t, "stopping")
                    /\ next' = [next EXCEPT ![t] = 1]

Init == /\ word = [started |-> FALSE, has_value |-> FALSE,
                   stop_requested |-> FALSE, count |-> N]
        /\ seen = word
        /\ outcome = [i \in Children |-> "none"]
        /\ result = NoChild
        /\ sent = <<>>
        /\ stops = [i \in Children |-> 0]
        /\ pc = [t \in Threads |-> "idle"]
        /\ next = [t \in Threads |-> 1]
        /\ nothrow \in SUBSET Children

-----------------------------------------------------------------------------
(* start() *)

StartChild == /\ pc[Starter] = "idle"
              /\ LET i == next[Starter]
                     label == IF i = N THEN "add_started" ELSE "idle"
                 IN  /\ pc' = [pc EXCEPT ![i] = "running", ![Starter] = label]
                     /\ next' = [next EXCEPT ![Starter] = i + 1]
              /\ UNCHANGED <<word, seen, outcome, result, sent, stops>>

(* The loop ends when all children are complete, when one has succeeded    *)
(* (the others are stopped before the flag is set), or by setting the flag.*)
AddStarted ==
    /\ pc[Starter] = "add_started"
    /\ IF word.count > 0 /\ word.has_value
       THEN BeginStopping(Starter) /\ UNCHANGED word
       ELSE /\ word' = [word EXCEPT !.started = TRUE]
            /\ Goto(Starter, IF word.count = 0 THEN "deliver" ELSE "returned")
            /\ UNCHANGED next
    /\ UNCHANGED <<seen, outcome, result, sent, stops>>

AddStartedAfterStopping ==
    /\ pc[Starter] = "add_started_late"
    /\ word' = [word EXCEPT !.started = TRUE]
    /\ Goto(Starter, IF word.count = 0 THEN "deliver" ELSE "returned")
    /\ UNCHANGED <<seen, outcome, result, sent, stops, next>>

-----------------------------------------------------------------------------
(* Child i completes with a value *)

CanCompleteInline == word.count < 2 /\ word.started

ChildSucceeds(i) ==
    /\ pc[i] = "running"
    /\ outcome' = [outcome EXCEPT ![i] = "value"]
    /\ Goto(i, IF word.has_value THEN "arrive"
               ELSE IF CanCompleteInline THEN "complete_inline"
               ELSE "set_value")
    /\ UNCHANGED <<word, seen, result, sent, stops, next>>

(* The count and the flag change together, so that a later request_stop()  *)
(* leaves the children alone.                                              *)
CompleteInline(i) ==
    /\ pc[i] = "complete_inline"
    /\ word' = [word EXCEPT !.has_value = TRUE, !.count = @ - 1]
    /\ Goto(i, "deliver_own")
    /\ UNCHANGED <<seen, outcome, result, sent, stops, next>>

(* A value that may throw is moved aside before the flag is set. *)
EmplaceThrows(i) == /\ pc[i] = "set_value" /\ i \notin nothrow
                    /\ outcome' = [outcome EXCEPT ![i] = "failure"]
                    /\ Goto(i, "failed")
                    /\ UNCHANGED <<word, seen, result, sent, stops, next>>

(* The fetch_or decides which value is the first.  Only the path of values *)
(* that cannot throw completes inline here, or stops the other children.   *)
SetHasValue(i) ==
    /\ pc[i] = "set_value"
    /\ word' = [word EXCEPT !.has_value = TRUE]
    /\ Goto(i, IF word.has_value THEN "arrive"
               ELSE IF i \in nothrow /\ CanCompleteInline THEN "deliver_own"
               ELSE IF i \in nothrow /\ word.started /\ ~word.stop_requested
                    THEN "store_and_stop"
               ELSE "store")
    /\ UNCHANGED <<seen, outcome, result, sent, stops, next>>

StoreValue(i) == /\ pc[i] \in {"store", "store_and_stop"}
                 /\ result' = i
                 /\ IF pc[i] = "store_and_stop"
                    THEN BeginStopping(i)
                    ELSE Goto(i, "arrive") /\ UNCHANGED next
                 /\ UNCHANGED <<word, seen, outcome, sent, stops>>

(* The winner is done with its children, or another value is discarded. *)
Arrive(i) == /\ pc[i] = "arrive"
             /\ word' = [word EXCEPT !.count = @ - 1]
             /\ Goto(i, IF CanCompleteInline THEN "deliver" ELSE "returned")
             /\ UNCHANGED <<seen, outcome, result, sent, stops, next>>

-----------------------------------------------------------------------------
(* Child i completes with an error or stopped: handle_non_value_result     *)

ChildFails(i) == /\ pc[i] = "running"
                 /\ outcome' = [outcome EXCEPT ![i] = "failure"]
                 /\ Goto(i, "failed")
                 /\ UNCHANGED <<word, seen, result, sent, stops, next>>

NotTheLast(i) == /\ pc[i] = "failed"
                 /\ word.count >= 2
                 /\ word' = [word EXCEPT !.count = @ - 1]
                 /\ Goto(i, "returned")
                 /\ UNCHANGED <<seen, outcome, result, sent, stops, next>>

TheLast(i) ==
    /\ pc[i] = "failed"
    /\ word.count < 2
    /\ seen' = word
    /\ Goto(i, IF word.has_value
               THEN IF word.started THEN "deliver" ELSE "arrive"
               ELSE IF word.started THEN "store_count" ELSE "store_failure")
    /\ UNCHANGED <<word, outcome, result, sent, stops, next>>

StoreFailure(i) == /\ pc[i] = "store_failure"
                   /\ result' = i
                   /\ Goto(i, "arrive")
                   /\ UNCHANGED <<word, seen, outcome, sent, stops, next>>

(* A plain store: a stop request that came after the load is overwritten.  *)
StoreCount(i) == /\ pc[i] = "store_count"
                 /\ word' = [seen EXCEPT !.count = @ - 1]
                 /\ Goto(i, "deliver_own")
                 /\ UNCHANGED <<seen, outcome, result, sent, stops, next>>

-----------------------------------------------------------------------------
(* Steps that several threads share *)

AfterStopping(t) == IF t = Starter THEN "add_started_late"
                    ELSE IF t = Stopper THEN "returned" ELSE "arrive"

(* request_stop_on_all_children(), or all but the child that succeeded.    *)
StopChild(t) ==
    /\ pc[t] = "stopping"
    /\ stops' = [stops EXCEPT ![next[t]] = IF next[t] = t THEN @ ELSE @ + 1]
    /\ next' = [next EXCEPT ![t] = @ + 1]
    /\ IF next[t] < N THEN UNCHANGED pc ELSE Goto(t, AfterStopping(t))
    /\ UNCHANGED <<word, seen, outcome, result, sent>>

(* The stored result is delivered, or a child's own without storing it.    *)
(* The parent may destroy the operation inside this step.                  *)
Deliver(t) == /\ pc[t] \in {"deliver", "deliver_own"}
              /\ sent' = Append(sent, IF pc[t] = "deliver" THEN result ELSE t)
              /\ Goto(t, "returned")
              /\ UNCHANGED <<word, seen, outcome, result, stops, next>>

RequestStop ==
    /\ pc[Stopper] = "idle" /\ pc[Starter] = "returned"
    /\ word' = [word EXCEPT !.stop_requested = TRUE]
    /\ IF word.count >= 1 /\ ~word.has_value
       THEN BeginStopping(Stopper)
       ELSE Goto(Stopper, "returned") /\ UNCHANGED next
    /\ UNCHANGED <<seen, outcome, result, sent, stops>>

-----------------------------------------------------------------------------
ChildStep(i) == \/ CompleteInline(i) \/ EmplaceThrows(i)
                \/ SetHasValue(i) \/ StoreValue(i) \/ Arrive(i)
                \/ NotTheLast(i) \/ TheLast(i) \/ StoreFailure(i) \/ StoreCount(i)
ChildCompletes(i) == ChildSucceeds(i) \/ ChildFails(i)

Step == \/ StartChild \/ AddStarted \/ AddStartedAfterStopping
        \/ \E i \in Children : ChildCompletes(i) \/ ChildStep(i)
        \/ \E t \in Threads : StopChild(t) \/ Deliver(t)
        \/ RequestStop

Next == Step /\ UNCHANGED nothrow

(* A thread inside one of the functions goes on; a child that was asked to *)
(* stop completes.  A child that was not asked may run forever, and the    *)
(* parent is not obliged to start the operation or to request a stop.      *)
Fairness == /\ WF_vars(AddStarted \/ AddStartedAfterStopping)
            /\ WF_vars(next[Starter] > 1 /\ StartChild)
            /\ \A i \in Children : /\ WF_vars(ChildStep(i))
                                   /\ WF_vars(stops[i] > 0 /\ ChildCompletes(i))
            /\ \A t \in Threads : WF_vars(StopChild(t) \/ Deliver(t))

Spec == Init /\ [][Next]_<<vars, nothrow>> /\ Fairness

-----------------------------------------------------------------------------
(* Properties *)

Words == [started : BOOLEAN, has_value : BOOLEAN,
          stop_requested : BOOLEAN, count : 0..N]
Labels == {"idle", "running", "add_started", "add_started_late", "stopping",
           "complete_inline", "set_value", "store", "store_and_stop",
           "arrive", "failed", "store_failure", "store_count", "deliver",
           "deliver_own", "returned"}

(* The state has the types of the code's members. *)
TypeOk == /\ word \in Words /\ seen \in Words
          /\ outcome \in [Children -> {"none", "value", "failure"}]
          /\ result \in 0..N
          /\ sent \in Seq(Children)
          /\ stops \in [Children -> Nat]
          /\ pc \in [Threads -> Labels]
          /\ next \in [Threads -> 1..N + 1]

Delivering(t) == pc[t] \in {"deliver", "deliver_own"}

(* The result is delivered once, by the last event, whichever of the six   *)
(* places in the code does it: every other child has returned, and no      *)
(* thread but the parent's own touches the operation afterwards.           *)
DeliversLast ==
    /\ \A t \in Threads :
          Delivering(t) => /\ sent = <<>>
                           /\ \A s \in Threads \ {t} :
                                 s \in Children => pc[s] = "returned"
                           /\ \A s \in Threads : Delivering(s) => s = t
    /\ Len(sent) <= 1
    /\ sent # <<>> => \A t \in Children \cup {Starter} : pc[t] = "returned"

(* If any child produced a value, a value is delivered, else a failure.    *)
DeliversASuccess ==
    sent # <<>> =>
       (outcome[sent[1]] = "value" <=> \E i \in Children : outcome[i] = "value")

(* request_stop() is called at most once on each child, and only when      *)
(* start() of all of them has returned; start() and a child's thread do so *)
(* before the operation, which the children are part of, completes.  The   *)
(* parent's request_stop() relies on the parent for that.                  *)
StopCallsAreLegal ==
    /\ \A i \in Children :
          /\ stops[i] <= 1
          /\ stops[i] = 1 => pc[Starter] \notin {"idle", "add_started"}
    /\ \A t \in Children \cup {Starter} : pc[t] = "stopping" => sent = <<>>

(* Once a child has succeeded the whole operation completes although the   *)
(* others would run forever: "we need to store the value and send a        *)
(* stop-request to the outstanding operations."  The code only does so for *)
(* values that can be moved without throwing.                              *)
SuccessStopsTheRest ==
    (word.has_value /\ nothrow = Children) ~> (sent # <<>>)

(* A stop request of the parent completes the operation, if it does not    *)
(* come after a first value that stopped nobody.                           *)
StopCompletes ==
    (pc[Stopper] = "stopping" \/ (pc[Stopper] # "idle" /\ nothrow = Children))
       ~> (sent # <<>>)
=============================================================================
