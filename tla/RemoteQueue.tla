----------------------------- MODULE RemoteQueue -----------------------------
(***************************************************************************)
(* What atomic_intrusive_queue promises: items come out in the order in    *)
(* which they went in, none is lost, and of all the threads that find the  *)
(* queue inactive exactly one becomes its consumer.                        *)
(***************************************************************************)
EXTENDS Sequences

CONSTANTS Threads, Items

VARIABLES queue,      \* the items in the queue, oldest first
          batch,      \* those the consumer has taken out and not yet run
          consumer    \* the thread that dequeues, or NoThread: inactive

vars == <<queue, batch, consumer>>

NoThread == "no_thread"

Init == queue = <<>> /\ batch = <<>> /\ consumer = NoThread

(* The next thread that enqueues something becomes the consumer. *)
Claim(t) == consumer' = IF consumer = NoThread THEN t ELSE consumer

Enqueue(t, i) == /\ queue' = Append(queue, i)
                 /\ Claim(t)
                 /\ UNCHANGED batch

(* enqueue_or_mark_active(): the caller keeps the item and runs it. *)
KeepAndClaim(t, i) == /\ consumer = NoThread
                      /\ consumer' = t
                      /\ batch' = Append(batch, i)
                      /\ UNCHANGED queue

DequeueAll == /\ consumer # NoThread
              /\ batch' = batch \o queue
              /\ queue' = <<>>
              /\ UNCHANGED consumer

RunFirst == /\ batch # <<>>
            /\ batch' = Tail(batch)
            /\ UNCHANGED <<queue, consumer>>

MarkInactive == /\ queue = <<>>
                /\ batch = <<>>
                /\ consumer' = NoThread
                /\ UNCHANGED <<queue, batch>>

Next == \/ \E t \in Threads, i \in Items : Enqueue(t, i) \/ KeepAndClaim(t, i)
        \/ DequeueAll \/ RunFirst \/ MarkInactive

Spec == Init /\ [][Next]_vars
=============================================================================
