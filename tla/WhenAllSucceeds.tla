--------------------------- MODULE WhenAllSucceeds ---------------------------
(***************************************************************************)
(* when_all(children...) for children that can only succeed: no flags, no  *)
(* failure and nothing for start() to do after the last child was started, *)
(* which may complete the operation before start() returns.                *)
(*                                                                         *)
(* The threads are the one inside start(), those on which the children     *)
(* complete and the one on which the parent calls request_stop(), at most  *)
(* once and after start() returned.                                        *)
(***************************************************************************)
EXTENDS Naturals, Sequences

CONSTANT N                   \* sizeof...(ChildSenders), not 0

VARIABLES state,             \* state_: the children yet to arrive
          values,            \* the children whose values value_results_ holds
          sent,              \* the values delivered to the receiver
          stops,             \* how often request_stop() was called on each child
          pc,                \* where each thread is
          next               \* the child that start() or request_stop() does next

vars == <<state, values, sent, stops, pc, next>>

Children == 1..N
Starter == 0
Stopper == N + 1
Threads == 0..N + 1

Init == /\ state = N
        /\ values = {}
        /\ sent = <<>>
        /\ stops = [i \in Children |-> 0]
        /\ pc = [t \in Threads |-> "idle"]
        /\ next = [t \in {Starter, Stopper} |-> 1]

StartChild ==
    /\ pc[Starter] = "idle"
    /\ LET i == next[Starter]
       IN  /\ pc' = [pc EXCEPT ![i] = "running",
                               ![Starter] = IF i = N THEN "returned" ELSE "idle"]
           /\ next' = [next EXCEPT ![Starter] = i + 1]
    /\ UNCHANGED <<state, values, sent, stops>>

StoreValue(i) == /\ pc[i] = "running"
                 /\ values' = values \cup {i}
                 /\ pc' = [pc EXCEPT ![i] = "arrive"]
                 /\ UNCHANGED <<state, sent, stops, next>>

Arrive(i) == /\ pc[i] = "arrive"
             /\ state' = state - 1
             /\ pc' = [pc EXCEPT ![i] = IF state = 1 THEN "deliver" ELSE "returned"]
             /\ UNCHANGED <<values, sent, stops, next>>

(* deliver_value: the parent may destroy the operation inside this step.   *)
Deliver(i) == /\ pc[i] = "deliver"
              /\ sent' = Append(sent, values)
              /\ pc' = [pc EXCEPT ![i] = "returned"]
              /\ UNCHANGED <<state, values, stops, next>>

(* Children that have completed are asked too. *)
RequestStop ==
    /\ pc[Starter] = "returned" /\ pc[Stopper] = "idle"
    /\ LET i == next[Stopper]
       IN  /\ stops' = [stops EXCEPT ![i] = @ + 1]
           /\ next' = [next EXCEPT ![Stopper] = i + 1]
           /\ pc' = IF i = N THEN [pc EXCEPT ![Stopper] = "returned"] ELSE pc
    /\ UNCHANGED <<state, values, sent>>

-----------------------------------------------------------------------------
Next == \/ StartChild \/ RequestStop
        \/ \E i \in Children : StoreValue(i) \/ Arrive(i) \/ Deliver(i)

(* A thread inside one of the functions goes on, and a child that was      *)
(* asked to stop completes; no child need complete unasked.                *)
Fairness == /\ WF_vars(next[Starter] > 1 /\ StartChild)
            /\ WF_vars(next[Stopper] > 1 /\ RequestStop)
            /\ \A i \in Children : /\ WF_vars(Arrive(i) \/ Deliver(i))
                                   /\ WF_vars(stops[i] > 0 /\ StoreValue(i))

Spec == Init /\ [][Next]_vars /\ Fairness

-----------------------------------------------------------------------------
(* Properties *)

(* The state has the types of the code's members. *)
TypeOk == /\ state \in 0..N
          /\ values \subseteq Children
          /\ sent \in Seq(SUBSET Children)
          /\ stops \in [Children -> Nat]
          /\ pc \in [Threads -> {"idle", "running", "arrive", "deliver", "returned"}]
          /\ next \in [{Starter, Stopper} -> 1..N + 1]

(* The values are delivered once, and by then start() has nothing left to  *)
(* do in the operation and no other child will arrive.                     *)
DeliversLast ==
    /\ Len(sent) <= 1
    /\ \A i \in Children : pc[i] = "deliver" =>
          /\ sent = <<>>
          /\ \A t \in (Children \cup {Starter}) \ {i} : pc[t] = "returned"
    /\ sent # <<>> => \A t \in Children \cup {Starter} : pc[t] = "returned"

(* All the values have been stored when they are delivered. *)
ResultIsComplete == sent # <<>> => sent[1] = Children

(* Each child is asked once, after all were started. *)
StopCallsAreLegal == \A i \in Children : stops[i] <= 1 /\ (stops[i] = 1 => pc[i] # "idle")

(* A stop request completes the operation. *)
StopCompletes == (next[Stopper] > 1) ~> (sent # <<>>)
=============================================================================
