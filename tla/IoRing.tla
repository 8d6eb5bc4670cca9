-------------------------------- MODULE IoRing --------------------------------
(***************************************************************************)
(* io_uring: the two rings that one thread shares with the kernel.  The    *)
(* thread writes an entry and its index, publishes the tail in a system    *)
(* call, and the kernel takes as many entries as it is told to, or fewer.  *)
(* What it completes, it puts in the other ring, or in a backlog of its    *)
(* own while that is full (IORING_FEAT_NODROP).  The thread goes through a *)
(* view of that ring and then gives its entries back.                      *)
(*                                                                         *)
(* Depending on the flags of the setup, a thread of the kernel polls the   *)
(* submission ring until it falls asleep, or completions wait until the    *)
(* thread makes a system call of the right kind; a flag in the ring may    *)
(* tell that there is a reason for one.                                    *)
(*                                                                         *)
(* Positions are counters that wrap, of which the low bits say where.      *)
(***************************************************************************)
EXTENDS Naturals, Sequences, Functions

CONSTANTS Requests,         \* each one named for its operation
          Setups,           \* the flags of the setup to look at, one at a time
          SqSize, CqSize,   \* sq_entry_count_, cq_entry_count_
          Mapped,           \* positions from the start of the index array to the
                            \* end of the mapping, of which it is the last part
          Wrap              \* the counters are modulo this (2^32 in the code)

ASSUME SizeAssumption == /\ SqSize \in Nat \ {0} /\ CqSize \in Nat \ {0}
                         /\ Mapped \in Nat /\ Mapped >= SqSize
                         /\ Wrap \in Nat
                         /\ Wrap > SqSize /\ Wrap > CqSize
                         /\ Wrap % SqSize = 0 /\ Wrap % CqSize = 0

VARIABLES setup,            \* setup_flags_
          sqes,             \* sq_entries_
          index_array,      \* sq_index_array_
          sqe_head,         \* sqe_head_: the first unflushed entry
          sqe_tail,         \* sqe_tail_
          outside,          \* an index was stored past the mapping (history)
          sq_tail,          \* *sq_tail_, which the kernel reads
          sq_head,          \* *sq_head_, which the kernel writes
          to_submit,        \* what the system call was told to take
          call,             \* the system call the thread is in, or about to make
          sq_thread,        \* the kernel's own thread
          kernel,           \* what the kernel works on
          work,             \* what it is done with and has not yet posted
          backlog,          \* what it has completed without room in the ring
          cqes,             \* cq_entries_
          cq_head, cq_tail, \* *cq_head_, *cq_tail_
          view,             \* the completion_queue_view, and how far it is read
          pending,          \* what was enqueued and not taken (history)
          completed         \* what is in the ring and was not given back (history)

sqVars == <<sqes, index_array, sqe_head, sqe_tail, outside, sq_tail>>
callVars == <<to_submit, call, sq_thread>>
kernelVars == <<kernel, work>>
cqVars == <<backlog, cqes, cq_tail>>
vars == <<setup, sqVars, sq_head, callVars, kernelVars, cqVars, cq_head, view, pending,
          completed>>

None == "none"
NoView == [head |-> 0, count |-> 0, next |-> 0]

Plus(i, n) == (i + n) % Wrap
Minus(i, j) == (i + Wrap - j) % Wrap

Init == /\ setup \in Setups
        /\ sqes = [i \in 0..(SqSize - 1) |-> [user_data |-> None, fields |-> {}]]
        /\ index_array = [i \in 0..(SqSize - 1) |-> 0]
        /\ sqe_head = 0 /\ sqe_tail = 0 /\ sq_tail = 0 /\ sq_head = 0
        /\ outside = FALSE
        /\ to_submit = 0 /\ call = "none"
        /\ sq_thread = IF setup = "sqpoll" THEN "awake" ELSE "none"
        /\ kernel = {} /\ work = {} /\ backlog = <<>>
        /\ cqes = [i \in 0..(CqSize - 1) |-> None]
        /\ cq_head = 0 /\ cq_tail = 0
        /\ view = NoView
        /\ pending = <<>> /\ completed = <<>>

(* The entries of the view that are still to be handled *)
Unread == {completed[i] : i \in (view.next + 1)..Len(completed)}

InFlight == Range(pending) \cup kernel \cup work \cup Range(backlog) \cup Unread

-----------------------------------------------------------------------------
(* The submission queue *)

(* submission_queue_unsubmitted() *)
Unsubmitted == Minus(sqe_tail, sq_head)

(* What a request needs in its entry, and prepare_*_op(), which clears the *)
(* entry first for what an earlier request left there                      *)
Fields(r) ==
    {"opcode", "user_data"} \cup
    CASE r \in {"READ", "WRITE"} -> {"fd", "off", "addr", "len"}
      [] r = "CLOSE"             -> {"fd"}
      [] r = "ASYNC_CANCEL"      -> {"addr"}
      [] r = "OPENAT"            -> {"fd", "op_flags", "addr", "len"}
      [] r = "TIMEOUT"           -> {"op_flags", "off", "addr", "len"}

Clear(sqe) == [sqe EXCEPT !.fields = {}]
Fill(r, sqe) == [sqe EXCEPT !.user_data = r, !.fields = @ \cup Fields(r)]
Prepare(r, sqe) == Fill(r, Clear(sqe))

MayEnqueue(r) == call = "none" /\ r \notin InFlight /\ Unsubmitted < SqSize

(* The store of the index.  The position is not masked: past the array it  *)
(* is not seen by the kernel.                                              *)
StoreIndex(slot) ==
    /\ sqe_tail < Mapped
    /\ index_array' = IF sqe_tail < SqSize THEN [index_array EXCEPT ![sqe_tail] = slot]
                                           ELSE index_array

(* Mutant: the entry is that of the first unflushed position. *)
EnqueueAtHead(r) ==
    LET slot == sqe_head % SqSize
    IN /\ MayEnqueue(r)
       /\ sqes' = [sqes EXCEPT ![slot] = Prepare(r, @)]
       /\ StoreIndex(slot)
       /\ sqe_tail' = Plus(sqe_tail, 1)
       /\ pending' = Append(pending, r)
       /\ UNCHANGED <<setup, sqe_head, outside, sq_tail, sq_head, callVars, kernelVars,
                      cqVars, cq_head, view, completed>>

(* get_next_submission_entry() and enqueue_entry_for_submission()          *)
Enqueue(r) ==
    LET slot == sqe_tail % SqSize
    IN /\ MayEnqueue(r)
       /\ sqes' = [sqes EXCEPT ![slot] = Prepare(r, @)]
       /\ StoreIndex(slot)
       /\ sqe_tail' = Plus(sqe_tail, 1)
       /\ pending' = Append(pending, r)
       /\ UNCHANGED <<setup, sqe_head, outside, sq_tail, sq_head, callVars, kernelVars,
                      cqVars, cq_head, view, completed>>

(* The same past the end of the mapping: a fault, or a write to what lies  *)
(* behind it.  Anything may happen, and nothing is followed from there.    *)
EnqueueOutside(r) ==
    /\ MayEnqueue(r)
    /\ sqe_tail >= Mapped
    /\ outside' = TRUE
    /\ UNCHANGED <<setup, sqes, index_array, sqe_head, sqe_tail, sq_tail, sq_head, callVars,
                   kernelVars, cqVars, cq_head, view, pending, completed>>

-----------------------------------------------------------------------------
(* System calls *)

(* The flags that the kernel sets in *sq_flags_ *)
TaskRunFlag == setup = "coop_flag" /\ work # {}
OverflowFlag == backlog # <<>>
NeedWakeupFlag == sq_thread \in {"dozing", "asleep"}

(* Mutant: only what was enqueued since the last call is counted. *)
FlushNewOnly == /\ sqe_head' = sqe_tail
                /\ sq_tail' = sqe_tail
                /\ to_submit' = Minus(sqe_tail, sqe_head)

(* flush_submission_queue() *)
Flush == /\ sqe_head' = sqe_tail
         /\ sq_tail' = sqe_tail
         /\ to_submit' = Unsubmitted

(* submit(): no call, unless there is something to submit, or the kernel   *)
(* says that it has something to post.                                     *)
Submit ==
    /\ call = "none" /\ view = NoView
    /\ Flush
    /\ call' = IF setup = "sqpoll" /\ Unsubmitted > 0 THEN "submit_if_asleep"
               ELSE IF setup = "iopoll" \/ TaskRunFlag \/ OverflowFlag THEN "events"
               ELSE IF Unsubmitted > 0 THEN "submit" ELSE "none"
    /\ UNCHANGED <<setup, sqes, index_array, sqe_tail, outside, sq_head, sq_thread,
                   kernelVars, cqVars, cq_head, view, pending, completed>>

(* submit_and_wait() and its relatives always make the call.               *)
SubmitAndWait ==
    /\ call = "none" /\ view = NoView
    /\ Flush
    /\ call' = IF setup = "sqpoll" /\ Unsubmitted > 0 THEN "events_after_wakeup"
                                                      ELSE "events"
    /\ UNCHANGED <<setup, sqes, index_array, sqe_tail, outside, sq_head, sq_thread,
                   kernelVars, cqVars, cq_head, view, pending, completed>>

(* get_events(): where completions do not come by themselves *)
GetEvents ==
    /\ call = "none" /\ view = NoView
    /\ TaskRunFlag \/ setup \in {"coop", "defer", "iopoll"}
    /\ call' = "events"
    /\ to_submit' = 0
    /\ UNCHANGED <<setup, sqVars, sq_head, sq_thread, kernelVars, cqVars, cq_head, view,
                   pending, completed>>

(* compute_sq_wakeup_flag(), and the wake-up if the flag is set.  By then  *)
(* the kernel's thread may have seen the tail, or gone to sleep.           *)
Wakeup ==
    /\ call \in {"submit_if_asleep", "events_after_wakeup"}
    /\ sq_thread' = IF NeedWakeupFlag THEN "awake" ELSE sq_thread
    /\ call' = IF call = "events_after_wakeup" \/ OverflowFlag THEN "events"
               ELSE IF NeedWakeupFlag THEN "submit" ELSE "none"
    /\ UNCHANGED <<setup, sqVars, sq_head, to_submit, kernelVars, cqVars, cq_head, view,
                   pending, completed>>

InCall == call \in {"submit", "events"}

(* The kernel takes an entry: in the call as many as it is told to.        *)
KernelTakes ==
    /\ IF setup = "sqpoll" THEN sq_thread = "awake" ELSE InCall /\ to_submit > 0
    /\ sq_head # sq_tail
    /\ kernel' = kernel \cup {sqes[index_array[sq_head % SqSize]].user_data}
    /\ sq_head' = Plus(sq_head, 1)
    /\ to_submit' = IF setup = "sqpoll" THEN to_submit ELSE to_submit - 1
    /\ pending' = Tail(pending)
    /\ UNCHANGED <<setup, sqVars, call, sq_thread, work, cqVars, cq_head, view, completed>>

(* Its thread sets the flag, looks again and falls asleep. *)
SqThreadDozes ==
    /\ \/ sq_thread = "awake" /\ sq_head = sq_tail /\ sq_thread' = "dozing"
       \/ sq_thread = "dozing" /\ sq_thread' = IF sq_head = sq_tail THEN "asleep" ELSE "awake"
    /\ UNCHANGED <<setup, sqVars, sq_head, to_submit, call, kernelVars, cqVars, cq_head,
                   view, pending, completed>>

(* The call may return early: interrupted, or for want of resources. *)
CallReturns == /\ InCall
               /\ call' = "none"
               /\ to_submit' = 0
               /\ UNCHANGED <<setup, sqVars, sq_head, sq_thread, kernelVars, cqVars,
                              cq_head, view, pending, completed>>

-----------------------------------------------------------------------------
(* The completion queue *)

Room == Minus(cq_tail, cq_head) < CqSize

Put(r) == /\ cqes' = [cqes EXCEPT ![cq_tail % CqSize] = r]
          /\ cq_tail' = Plus(cq_tail, 1)
          /\ completed' = Append(completed, r)

KernelCompletes(r) ==
    /\ r \in kernel
    /\ kernel' = kernel \ {r}
    /\ work' = work \cup {r}
    /\ UNCHANGED <<setup, sqVars, sq_head, callVars, cqVars, cq_head, view, pending,
                   completed>>

(* Cooperative task running waits for any call of the thread, deferred     *)
(* task running and polled I/O for one that gets events.                   *)
MayPost == CASE setup \in {"plain", "sqpoll"}     -> TRUE
             [] setup \in {"coop", "coop_flag"}   -> InCall
             [] setup \in {"defer", "iopoll"}     -> call = "events"

KernelPosts(r) ==
    /\ r \in work
    /\ MayPost
    /\ work' = work \ {r}
    /\ IF Room /\ backlog = <<>>
       THEN Put(r) /\ UNCHANGED backlog
       ELSE backlog' = Append(backlog, r) /\ UNCHANGED <<cqes, cq_tail, completed>>
    /\ UNCHANGED <<setup, sqVars, sq_head, callVars, kernel, cq_head, view, pending>>

KernelFlushes == /\ backlog # <<>> /\ Room
                 /\ call = "events"
                 /\ Put(Head(backlog))
                 /\ backlog' = Tail(backlog)
                 /\ UNCHANGED <<setup, sqVars, sq_head, callVars, kernelVars, cq_head, view,
                                pending>>

(* get_completion_entries() *)
GetCompletionEntries ==
    /\ call = "none" /\ view = NoView
    /\ cq_tail # cq_head
    /\ view' = [head |-> cq_head, count |-> Minus(cq_tail, cq_head), next |-> 0]
    /\ UNCHANGED <<setup, sqVars, sq_head, callVars, kernelVars, cqVars, cq_head, pending,
                   completed>>

(* operator*() and operator++(): the handler may use the ring. *)
ReadNext == /\ view.next < view.count
            /\ view' = [view EXCEPT !.next = @ + 1]
            /\ UNCHANGED <<setup, sqVars, sq_head, callVars, kernelVars, cqVars, cq_head, pending,
                           completed>>

(* completion_queue_advance(), for all of the view *)
CompletionQueueAdvance ==
    /\ view.count > 0 /\ view.next = view.count
    /\ cq_head' = Plus(cq_head, view.count)
    /\ completed' = SubSeq(completed, view.count + 1, Len(completed))
    /\ view' = NoView
    /\ UNCHANGED <<setup, sqVars, sq_head, callVars, kernelVars, cqVars, pending>>

-----------------------------------------------------------------------------
ThreadStep == \/ Submit \/ SubmitAndWait \/ GetEvents \/ Wakeup \/ CallReturns
              \/ GetCompletionEntries \/ ReadNext \/ CompletionQueueAdvance

KernelStep == \/ KernelTakes \/ KernelFlushes \/ SqThreadDozes
              \/ \E r \in Requests : KernelCompletes(r) \/ KernelPosts(r)

Next == /\ ~outside
        /\ \/ ThreadStep \/ KernelStep
           \/ \E r \in Requests : Enqueue(r) \/ EnqueueOutside(r)

(* The loop goes round: it reads what has completed, and when it has       *)
(* nothing else to do it submits and gets events, as it does before it     *)
(* sleeps.  A call is not for ever told to try again.  The kernel goes on. *)
Fairness ==
    /\ SF_vars(~outside /\ InFlight # {} /\ SubmitAndWait)
    /\ WF_vars(~outside /\ Wakeup) /\ WF_vars(~outside /\ CallReturns)
    /\ SF_vars(~outside /\ GetCompletionEntries) /\ WF_vars(~outside /\ ReadNext)
    /\ WF_vars(~outside /\ CompletionQueueAdvance)
    /\ SF_vars(~outside /\ KernelTakes) /\ SF_vars(~outside /\ KernelFlushes)
    /\ WF_vars(~outside /\ sq_thread = "dozing" /\ SqThreadDozes)
    /\ \A r \in Requests : /\ WF_vars(~outside /\ KernelCompletes(r))
                           /\ SF_vars(~outside /\ KernelPosts(r))

Spec == Init /\ [][Next]_vars /\ Fairness

-----------------------------------------------------------------------------
(* Properties *)

(* Members hold what their types allow, and neither ring is ever asked for *)
(* more than it holds.                                                     *)
TypeOk == /\ setup \in Setups
          /\ \A i \in 0..(SqSize - 1) : sqes[i].user_data \in Requests \cup {None}
          /\ index_array \in [0..(SqSize - 1) -> 0..(SqSize - 1)]
          /\ {sqe_head, sqe_tail, sq_tail, sq_head, cq_head, cq_tail} \subseteq 0..(Wrap - 1)
          /\ Unsubmitted <= SqSize
          /\ setup # "sqpoll" => to_submit <= Minus(sq_tail, sq_head)
          /\ call \in {"none", "submit", "events", "submit_if_asleep",
                       "events_after_wakeup"}
          /\ sq_thread \in (IF setup = "sqpoll" THEN {"awake", "dozing", "asleep"}
                                                ELSE {"none"})
          /\ kernel \cup work \subseteq Requests
          /\ backlog \in Seq(Requests)
          /\ cqes \in [0..(CqSize - 1) -> Requests \cup {None}]
          /\ Minus(cq_tail, cq_head) <= CqSize
          /\ view.next <= view.count /\ view.count <= CqSize

(* The kernel will read what was enqueued, each request once and in that   *)
(* order, in every round: no entry is written over before it has been      *)
(* taken, and none has a field set that its operation does not use.        *)
KernelReadsWhatWasEnqueued ==
    /\ Len(pending) = Unsubmitted
    /\ \A i \in DOMAIN pending :
          LET sqe == sqes[index_array[Plus(sq_head, i - 1) % SqSize]]
          IN  sqe.user_data = pending[i] /\ sqe.fields = Fields(pending[i])

(* The view stays valid until completion_queue_advance(): the kernel does  *)
(* not write to what the thread still reads, and gives each completion     *)
(* once, in order.                                                         *)
ViewIsStable ==
    /\ Len(completed) = Minus(cq_tail, cq_head)
    /\ \A i \in DOMAIN completed : cqes[Plus(cq_head, i - 1) % CqSize] = completed[i]
    /\ view # NoView => view.head = cq_head /\ view.count <= Len(completed)

(* As long as no index was stored past the mapping, thread and kernel      *)
(* agree on what is where in the two rings.                                *)
RingsAgree == outside \/ (TypeOk /\ KernelReadsWhatWasEnqueued /\ ViewIsStable)

(* A call that took only some of the entries leaves none behind, the       *)
(* kernel's thread is woken if it sleeps, and the calls that are left out  *)
(* would have had no effect: whatever is enqueued completes, and its       *)
(* completion is read, unless an index is stored past the mapping.         *)
EnqueuedIsHandled == \A r \in Requests : (r \in InFlight) ~> (r \notin InFlight \/ outside)
=============================================================================
