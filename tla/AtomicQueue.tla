----------------------------- MODULE AtomicQueue -----------------------------
(***************************************************************************)
(* atomic_intrusive_queue: a stack of items linked by their own next       *)
(* members, whose head is exchanged atomically.  Any thread may enqueue;   *)
(* the consumer takes the whole stack, reverses it and runs the items.     *)
(* When it finds nothing it marks the queue inactive, and the thread whose *)
(* enqueue() finds that mark becomes the consumer.  An item that was run   *)
(* may be enqueued again, so the head may come back to an old value        *)
(* between a thread's load and its exchange.                               *)
(***************************************************************************)
EXTENDS Naturals, Sequences, SequencesExt, FiniteSets

CONSTANTS Threads, Items

Null == "null"
Inactive == "inactive"
NoThread == "no_thread"

ASSUME NamesAreApart == /\ Items \cap {Null, Inactive} = {}
                        /\ NoThread \notin Threads
ASSUME ItemsAreFinite == IsFiniteSet(Items)

VARIABLES head,      \* head_
          next,      \* each item's Next member
          free,      \* the items nobody is enqueuing and that are not queued
          mine,      \* the item each thread is enqueuing
          old,       \* what each thread loaded from head_
          pc,        \* where each thread is
          batch,     \* what the consumer dequeued and has not run yet
          consumer   \* the thread that may call the consumer's methods

vars == <<head, next, free, mine, old, pc, batch, consumer>>

Goto(t, label) == pc' = [pc EXCEPT ![t] = label]

Init == /\ head = Inactive
        /\ next = [i \in Items |-> Null]
        /\ free = Items
        /\ mine = [t \in Threads |-> Null]
        /\ old = [t \in Threads |-> Null]
        /\ pc = [t \in Threads |-> "idle"]
        /\ batch = <<>>
        /\ consumer = NoThread

-----------------------------------------------------------------------------
(* Producers *)

(* The relaxed load of enqueue() or of enqueue_or_mark_active() *)
Load(t, i) == /\ pc[t] = "idle"
              /\ i \in free
              /\ free' = free \ {i}
              /\ mine' = [mine EXCEPT ![t] = i]
              /\ old' = [old EXCEPT ![t] = head]
              /\ pc' \in {[pc EXCEPT ![t] = l] : l \in {"enqueue", "or_mark_active"}}
              /\ UNCHANGED <<head, next, batch, consumer>>

(* The item is linked to what was loaded ... *)
Linked(t) == [next EXCEPT ![mine[t]] = IF old[t] = Inactive THEN Null ELSE old[t]]

(* ... and if the head has changed since, the loop goes round. *)
Retry(t) == /\ pc[t] \in {"enqueue", "or_mark_active"}
            /\ head # old[t]
            /\ old' = [old EXCEPT ![t] = head]
            /\ UNCHANGED <<head, next, free, mine, pc, batch, consumer>>

(* Mutant: the mark is overwritten and nobody becomes the consumer. *)
PushUnnoticed(t) == /\ pc[t] = "enqueue" \/ (pc[t] = "or_mark_active" /\ old[t] # Inactive)
                    /\ head = old[t]
                    /\ head' = mine[t]
                    /\ next' = Linked(t)
                    /\ mine' = [mine EXCEPT ![t] = Null]
                    /\ Goto(t, "idle")
                    /\ UNCHANGED <<free, old, batch, consumer>>

Push(t) == /\ pc[t] = "enqueue" \/ (pc[t] = "or_mark_active" /\ old[t] # Inactive)
           /\ head = old[t]
           /\ head' = mine[t]
           /\ next' = Linked(t)
           /\ mine' = [mine EXCEPT ![t] = Null]
           /\ consumer' = IF old[t] = Inactive THEN t ELSE consumer
           /\ Goto(t, IF old[t] = Inactive THEN "consume" ELSE "idle")
           /\ UNCHANGED <<free, old, batch>>

(* enqueue_or_mark_active() returns false: the caller has the item and the *)
(* queue.                                                                  *)
MarkActive(t) == /\ pc[t] = "or_mark_active"
                 /\ old[t] = Inactive
                 /\ head = Inactive
                 /\ head' = Null
                 /\ next' = [next EXCEPT ![mine[t]] = Null]
                 /\ mine' = [mine EXCEPT ![t] = Null]
                 /\ batch' = Append(batch, mine[t])
                 /\ consumer' = t
                 /\ Goto(t, "consume")
                 /\ UNCHANGED <<free, old>>

-----------------------------------------------------------------------------
(* The consumer *)

(* The items from the first on, each linked to the one that comes after it *)
IsList(s, first, link) ==
    /\ IF s = <<>> THEN first \in {Null, Inactive} ELSE first = s[1]
    /\ \A n \in 1..Len(s) : link[s[n]] = IF n < Len(s) THEN s[n + 1] ELSE Null

ListFrom(first, link) ==
    CHOOSE s \in SeqOf(Items, Cardinality(Items)) : IsList(s, first, link)

(* The stack that starts at the head, newest first *)
Stack == ListFrom(head, next)

(* Mutant: the items are handed out as they lie on the stack. *)
DequeueUnreversed(t) == /\ pc[t] = "consume"
                        /\ head # Null
                        /\ batch' = batch \o Stack
                        /\ head' = Null
                        /\ UNCHANGED <<next, free, mine, old, pc, consumer>>

(* Mutant: only the item at the head is handed over. *)
DequeueHeadOnly(t) == /\ pc[t] = "consume"
                      /\ head # Null
                      /\ batch' = Append(batch, head)
                      /\ head' = Null
                      /\ UNCHANGED <<next, free, mine, old, pc, consumer>>

(* dequeue_all(): the items are the consumer's from the exchange on, so    *)
(* that reversing them is part of it.                                      *)
DequeueAll(t) == /\ pc[t] = "consume"
                 /\ head # Null
                 /\ batch' = batch \o Reverse(Stack)
                 /\ head' = Null
                 /\ UNCHANGED <<next, free, mine, old, pc, consumer>>

(* The item is run, and its owner may enqueue it again. *)
RunFirst(t) == /\ pc[t] = "consume"
               /\ batch # <<>>
               /\ batch' = Tail(batch)
               /\ free' = free \cup {Head(batch)}
               /\ UNCHANGED <<head, next, mine, old, pc, consumer>>

(* try_mark_inactive(): the load *)
TryMarkInactive(t) == /\ pc[t] = "consume"
                      /\ batch = <<>>
                      /\ Goto(t, IF head = Null THEN "mark_inactive" ELSE "consume")
                      /\ UNCHANGED <<head, next, free, mine, old, batch, consumer>>

(* The strong exchange *)
MarkInactive(t) == /\ pc[t] = "mark_inactive"
                   /\ IF head = Null
                      THEN /\ head' = Inactive
                           /\ consumer' = NoThread
                           /\ Goto(t, "idle")
                      ELSE Goto(t, "consume") /\ UNCHANGED <<head, consumer>>
                   /\ UNCHANGED <<next, free, mine, old, batch>>

-----------------------------------------------------------------------------
ProducerStep(t) == Retry(t) \/ Push(t) \/ MarkActive(t)
ConsumerStep(t) == DequeueAll(t) \/ RunFirst(t) \/ TryMarkInactive(t) \/ MarkInactive(t)

Next == \E t \in Threads : \/ \E i \in Items : Load(t, i)
                           \/ ProducerStep(t)
                           \/ ConsumerStep(t)

(* Each thread takes its next step; the consumer dequeues and runs what it *)
(* took before it can rest.  Nobody has to enqueue.                        *)
Fairness == \A t \in Threads :
                /\ WF_vars(ProducerStep(t) \/ MarkInactive(t))
                /\ WF_vars(DequeueAll(t))
                /\ WF_vars(RunFirst(t))

Spec == Init /\ [][Next]_vars /\ Fairness

-----------------------------------------------------------------------------
(* Properties *)

(* The members hold what their types allow. *)
TypeOk == /\ head \in Items \cup {Null, Inactive}
          /\ next \in [Items -> Items \cup {Null}]
          /\ mine \in [Threads -> Items \cup {Null}]
          /\ old \in [Threads -> Items \cup {Null, Inactive}]
          /\ pc \in [Threads -> {"idle", "enqueue", "or_mark_active", "consume",
                                 "mark_inactive"}]
          /\ consumer \in Threads \cup {NoThread}

(* The mark says whether there is a consumer, and there is one at most:    *)
(* whoever is in a consumer's method is it.                                *)
OneConsumer ==
    /\ (head = Inactive) <=> (consumer = NoThread)
    /\ \A t \in Threads : pc[t] \in {"consume", "mark_inactive"} <=> consumer = t

(* What was enqueued is run at some time: nothing stays in a queue that    *)
(* its consumer has left.                                                  *)
EnqueuedIsRun == \A i \in Items : (i \in ToSet(Stack)) ~> (i \in free)

(* The stack of next pointers implements the promised queue. *)
Promised == INSTANCE RemoteQueue WITH queue <- Reverse(Stack)
ImplementsRemoteQueue == Promised!Spec
=============================================================================
