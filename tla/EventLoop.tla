------------------------------ MODULE EventLoop ------------------------------
(***************************************************************************)
(* What manual_event_loop promises to the operations scheduled on it: they *)
(* run in the order in which they were started, each at most once, unless  *)
(* a request_stop() takes them out of the queue first; each completes once *)
(* either way.                                                             *)
(***************************************************************************)
EXTENDS Sequences, SequencesExt

CONSTANT Items       \* the schedule() operations

VARIABLES queue,     \* the operations that are waiting, oldest first
          running,   \* those a thread has taken out to run
          outcome    \* what each operation completed with, or "none"

vars == <<queue, running, outcome>>

Init == /\ queue = <<>>
        /\ running = {}
        /\ outcome = [i \in Items |-> "none"]

Start(i) == /\ i \notin running
            /\ ~Contains(queue, i)
            /\ outcome[i] = "none"
            /\ queue' = Append(queue, i)
            /\ UNCHANGED <<running, outcome>>

Take == /\ queue # <<>>
        /\ queue' = Tail(queue)
        /\ running' = running \cup {Head(queue)}
        /\ UNCHANGED outcome

Execute(i) == /\ i \in running
              /\ running' = running \ {i}
              /\ outcome' = [outcome EXCEPT ![i] = "value"]
              /\ UNCHANGED queue

(* A stop request succeeds exactly for what nobody has taken yet. *)
Cancel(i) == /\ \E n \in DOMAIN queue : queue[n] = i /\ queue' = RemoveAt(queue, n)
             /\ outcome' = [outcome EXCEPT ![i] = "stopped"]
             /\ UNCHANGED running

Next == Take \/ \E i \in Items : Start(i) \/ Execute(i) \/ Cancel(i)

Spec == Init /\ [][Next]_vars
=============================================================================
