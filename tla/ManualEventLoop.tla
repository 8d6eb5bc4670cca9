--------------------------- MODULE ManualEventLoop ---------------------------
(***************************************************************************)
(* manual_event_loop: an intrusive doubly linked queue under a mutex, a    *)
(* condition variable, and threads that call run() until their stop token  *)
(* is triggered.                                                           *)
(*                                                                         *)
(* While a thread holds the mutex only the stop flags can change, so what  *)
(* it does between two reads of its flag is one action.  A cell is where a *)
(* task_base* is stored: the member head, or next of an item; prev_next    *)
(* and last_next are addresses of cells.                                   *)
(***************************************************************************)
EXTENDS Integers, Sequences, SequencesExt, FiniteSets

CONSTANTS Items,       \* the schedule() operations, none named like a cell
          Runners,     \* the threads that call run()
          Stoppable    \* those whose stop token may be triggered

Null == "null"
HeadCell == "head"
Free == "free"

VARIABLES cell,            \* what head and every item's next point to
          prev_next,       \* each item's member; Null when not in the queue
          last_next,       \* the cell that ends the queue
          mut,             \* who holds the mutex
          stop_requested,  \* the atomic_flag of each run()
          stopping,        \* where the call of on_stop is for each run()
          pc,              \* where each runner is
          item,            \* the item a runner has taken
          outcome          \* what each operation completed with

queueVars == <<cell, prev_next, last_next>>
stopVars == <<stop_requested, stopping>>
loopVars == <<cell, prev_next, last_next, mut, stop_requested, stopping, pc,
              item, outcome>>

Cells == Items \cup {HeadCell}

Goto(r, label) == pc' = [pc EXCEPT ![r] = label]

Init == /\ cell = [c \in Cells |-> Null]
        /\ prev_next = [i \in Items |-> Null]
        /\ last_next = HeadCell
        /\ mut = Free
        /\ stop_requested = [r \in Runners |-> FALSE]
        /\ stopping = [r \in Runners |-> "no"]
        /\ pc = [r \in Runners |-> "idle"]
        /\ item = [r \in Runners |-> Null]
        /\ outcome = [i \in Items |-> "unstarted"]

-----------------------------------------------------------------------------
(* The condition variable: a waiting runner that is notified goes on to    *)
(* take the mutex back and to look at the predicate again.                 *)

NotifyAll == pc' = [r \in Runners |-> IF pc[r] = "waiting" THEN "relock" ELSE pc[r]]

NotifyOne == IF \E r \in Runners : pc[r] = "waiting"
             THEN \E r \in Runners : pc[r] = "waiting" /\ Goto(r, "relock")
             ELSE UNCHANGED pc

WakeSpuriously(r) == /\ pc[r] = "waiting"
                     /\ Goto(r, "relock")
                     /\ UNCHANGED <<queueVars, mut, stopVars, item, outcome>>

-----------------------------------------------------------------------------
(* The queue *)

(* Mutant: whether the queue was empty is looked up after the insertion. *)
EnqueueSilently(i) == /\ outcome[i] = "unstarted"
                      /\ mut = Free
                      /\ prev_next' = [prev_next EXCEPT ![i] = last_next]
                      /\ cell' = [cell EXCEPT ![last_next] = i]
                      /\ last_next' = i
                      /\ outcome' = [outcome EXCEPT ![i] = "none"]
                      /\ UNCHANGED <<pc, mut, stopVars, item>>

(* schedule_op::start(), enqueue(): only the first item of an empty queue  *)
(* wakes a runner.                                                         *)
Enqueue(i) == /\ outcome[i] = "unstarted"
              /\ mut = Free
              /\ prev_next' = [prev_next EXCEPT ![i] = last_next]
              /\ cell' = [cell EXCEPT ![last_next] = i]
              /\ last_next' = i
              /\ outcome' = [outcome EXCEPT ![i] = "none"]
              /\ IF cell[HeadCell] = Null THEN NotifyOne ELSE UNCHANGED pc
              /\ UNCHANGED <<mut, stopVars, item>>

(* try_dequeue() of a queue that is not empty *)
Dequeue ==
    LET first == cell[HeadCell]
        second == cell[first]
    IN  /\ cell' = [cell EXCEPT ![HeadCell] = second]
        /\ prev_next' = [i \in Items |-> IF i = first THEN Null
                                         ELSE IF i = second THEN HeadCell
                                         ELSE prev_next[i]]
        /\ last_next' = IF second = Null THEN HeadCell ELSE last_next

(* Mutant: the last item's removal leaves last_next inside it. *)
UnlinkKeepsEnd(i) ==
    /\ cell' = [cell EXCEPT ![prev_next[i]] = cell[i]]
    /\ prev_next' = [j \in Items |-> IF j = i THEN Null
                                     ELSE IF j = cell[i] THEN prev_next[i]
                                     ELSE prev_next[j]]
    /\ UNCHANGED last_next

Unlink(i) ==
    /\ cell' = [cell EXCEPT ![prev_next[i]] = cell[i]]
    /\ last_next' = IF cell[i] = Null THEN prev_next[i] ELSE last_next
    /\ prev_next' = [j \in Items |-> IF j = i THEN Null
                                     ELSE IF j = cell[i] THEN prev_next[i]
                                     ELSE prev_next[j]]

(* Mutant: whether the item has been taken is not checked. *)
TryRemoveTaken(i) ==
    /\ outcome[i] # "unstarted"
    /\ mut = Free
    /\ IF prev_next[i] = Null THEN UNCHANGED queueVars ELSE Unlink(i)
    /\ outcome' = [outcome EXCEPT ![i] = "stopped"]
    /\ UNCHANGED <<mut, stopVars, pc, item>>

(* schedule_op::request_stop(), try_remove(): an item that is not in the   *)
(* queue any more was taken by a runner, which completes it.               *)
TryRemove(i) ==
    /\ outcome[i] # "unstarted"
    /\ mut = Free
    /\ prev_next[i] # Null
    /\ Unlink(i)
    /\ outcome' = [outcome EXCEPT ![i] = "stopped"]
    /\ UNCHANGED <<mut, stopVars, pc, item>>

-----------------------------------------------------------------------------
(* run() and run_impl() *)

(* The callback is registered: if the token is stopped already, on_stop    *)
(* has run on this thread first.                                           *)
Run(r) == /\ pc[r] = "idle"
          /\ stopping[r] # "wake"
          /\ Goto(r, "lock")
          /\ UNCHANGED <<queueVars, mut, stopVars, item, outcome>>

(* Take the first item, and release the mutex. *)
Take(r) == /\ Dequeue
           /\ item' = [item EXCEPT ![r] = cell[HeadCell]]
           /\ mut' = Free
           /\ Goto(r, "executing")

(* The test of the while loop and the first try_dequeue() *)
Lock(r) == /\ pc[r] = "lock"
           /\ mut = Free
           /\ IF stop_requested[r]
              THEN Goto(r, "leaving") /\ UNCHANGED <<queueVars, mut, item>>
              ELSE IF cell[HeadCell] # Null
              THEN Take(r)
              ELSE mut' = r /\ Goto(r, "predicate") /\ UNCHANGED <<queueVars, item>>
           /\ UNCHANGED <<stopVars, outcome>>

(* The predicate of cv.wait() and, when it holds, the second               *)
(* try_dequeue(): an item goes before the stop request.                    *)
Predicate(r) ==
    /\ pc[r] = "predicate"
    /\ IF cell[HeadCell] # Null
       THEN Take(r)
       ELSE IF stop_requested[r]
       THEN mut' = Free /\ Goto(r, "leaving") /\ UNCHANGED <<queueVars, item>>
       ELSE Goto(r, "block") /\ UNCHANGED <<queueVars, mut, item>>
    /\ UNCHANGED <<stopVars, outcome>>

Block(r) == /\ pc[r] = "block"
            /\ mut' = Free
            /\ Goto(r, "waiting")
            /\ UNCHANGED <<queueVars, stopVars, item, outcome>>

Relock(r) == /\ pc[r] = "relock"
             /\ mut = Free
             /\ mut' = r
             /\ Goto(r, "predicate")
             /\ UNCHANGED <<queueVars, stopVars, item, outcome>>

(* item->execute(): set_value; the operation may be destroyed in it. *)
Execute(r) == /\ pc[r] = "executing"
              /\ outcome' = [outcome EXCEPT ![item[r]] = "value"]
              /\ item' = [item EXCEPT ![r] = Null]
              /\ Goto(r, "lock")
              /\ UNCHANGED <<queueVars, mut, stopVars>>

(* run() returns when the destructor of the callback does, which waits for *)
(* an on_stop that is running.                                             *)
Return(r) == /\ pc[r] = "leaving"
             /\ stopping[r] # "wake"
             /\ Goto(r, "returned")
             /\ UNCHANGED <<queueVars, mut, stopVars, item, outcome>>

-----------------------------------------------------------------------------
(* on_stop *)

TestAndSet(r) == /\ r \in Stoppable
                 /\ stopping[r] = "no"
                 /\ pc[r] # "returned"
                 /\ stop_requested' = [stop_requested EXCEPT ![r] = TRUE]
                 /\ stopping' = [stopping EXCEPT ![r] = "wake"]
                 /\ UNCHANGED <<queueVars, mut, pc, item, outcome>>

(* Mutant: the runners are notified without the mutex. *)
WakeWithoutLock(r) == /\ stopping[r] = "wake"
                      /\ stopping' = [stopping EXCEPT ![r] = "done"]
                      /\ NotifyAll
                      /\ UNCHANGED <<queueVars, mut, stop_requested, item, outcome>>

WakeRunThreads(r) == /\ stopping[r] = "wake"
                     /\ mut = Free
                     /\ stopping' = [stopping EXCEPT ![r] = "done"]
                     /\ NotifyAll
                     /\ UNCHANGED <<queueVars, mut, stop_requested, item, outcome>>

-----------------------------------------------------------------------------
RunnerStep(r) == \/ Lock(r) \/ Predicate(r) \/ Block(r) \/ Relock(r)
                 \/ Execute(r) \/ Return(r)

Next == \/ \E i \in Items : Enqueue(i) \/ TryRemove(i)
        \/ \E r \in Runners : \/ Run(r) \/ RunnerStep(r) \/ WakeSpuriously(r)
                              \/ TestAndSet(r) \/ WakeRunThreads(r)

(* Threads inside run() and on_stop go on; one that waits for the mutex    *)
(* gets it if it is free again and again; items do not run forever; a      *)
(* runner that nobody stops calls run().  No wake-up is assumed but those  *)
(* the code causes, and nobody has to start or to stop anything.           *)
Fairness == \A r \in Runners :
                /\ SF_loopVars(Lock(r) \/ Relock(r) \/ WakeRunThreads(r))
                /\ WF_loopVars(Predicate(r) \/ Block(r) \/ Execute(r) \/ Return(r))
                /\ WF_loopVars(r \notin Stoppable /\ Run(r))

Spec == Init /\ [][Next]_loopVars /\ Fairness

-----------------------------------------------------------------------------
(* The queue as it can be read from the pointers *)

Length == Cardinality({i \in Items : prev_next[i] # Null})

Nth[n \in 1..Cardinality(Items) + 1] ==
    LET before == IF n = 1 THEN HeadCell ELSE Nth[n - 1]
    IN  IF before = Null THEN Null ELSE cell[before]

Queue == [n \in 1..Length |-> Nth[n]]

Completed(i) == outcome[i] \in {"value", "stopped"}

-----------------------------------------------------------------------------
(* Properties *)

Labels == {"idle", "lock", "predicate", "block", "waiting", "relock",
           "executing", "leaving", "returned"}

(* Members hold what their types allow, and a runner holds an item exactly *)
(* while it executes one.                                                  *)
TypeOk == /\ cell \in [Cells -> Items \cup {Null}]
          /\ prev_next \in [Items -> Cells \cup {Null}]
          /\ last_next \in Cells
          /\ mut \in Runners \cup {Free}
          /\ stop_requested \in [Runners -> BOOLEAN]
          /\ stopping \in [Runners -> {"no", "wake", "done"}]
          /\ pc \in [Runners -> Labels]
          /\ item \in [Runners -> Items \cup {Null}]
          /\ outcome \in [Items -> {"unstarted", "none", "value", "stopped"}]
          /\ \A r \in Runners : (item[r] # Null) <=> (pc[r] = "executing")

(* The three kinds of pointers describe one queue: prev_next is the        *)
(* address of the pointer that leads to the item, last_next that of the    *)
(* null pointer at the end.                                                *)
ListIsWellFormed ==
    /\ \A n \in 1..Length :
          /\ Queue[n] \in Items
          /\ prev_next[Queue[n]] = IF n = 1 THEN HeadCell ELSE Queue[n - 1]
    /\ last_next = IF Length = 0 THEN HeadCell ELSE Queue[Length]
    /\ cell[last_next] = Null

(* An operation that completed, and so may be gone, is reached by no       *)
(* pointer of the loop: neither in the queue nor in a runner's hands.      *)
CompletedIsForgotten ==
    \A i \in Items : Completed(i) => /\ prev_next[i] = Null
                                      /\ last_next # i
                                      /\ \A c \in Cells : cell[c] = i =>
                                            c # HeadCell /\ prev_next[c] = Null
                                      /\ \A r \in Runners : item[r] # i

(* The loop's pointers lead to the queued operations, and nowhere else. *)
PointersFit == TypeOk /\ ListIsWellFormed /\ CompletedIsForgotten

(* A started operation completes as long as one runner is never stopped.   *)
StartedCompletes ==
    Stoppable # Runners => \A i \in Items : (outcome[i] = "none") ~> Completed(i)

(* run() returns after its token was triggered. *)
StopReturns == \A r \in Runners : (stop_requested[r] /\ pc[r] # "idle")
                                       ~> (pc[r] = "returned")

(* The pointers implement the queue that the loop promises. *)
Promised == INSTANCE EventLoop
            WITH queue <- Queue,
                 running <- {item[r] : r \in Runners} \ {Null},
                 outcome <- [i \in Items |-> IF Completed(i) THEN outcome[i] ELSE "none"]
ImplementsEventLoop == Promised!Spec
=============================================================================
