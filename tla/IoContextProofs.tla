---------------------------- MODULE IoContextProofs ----------------------------
(***************************************************************************)
(* The loop of the context, beside the rings: for any operations, stop     *)
(* items and batch limit, the marks, the read and the wait of run() lose   *)
(* no wake-up, and no read outlives the context.                           *)
(***************************************************************************)
EXTENDS MCIoContext, SequenceTheorems, TLAPS

(* What comes out of the remote queue goes to ready_to_run_queue_. *)
WorkIsOperations == c_queue[Context!Work] \in Seq(Ops)

(* The loop marks the queues only when it has no read, and by the time it  *)
(* comes to the second one, whoever took away the first mark will write.   *)
MarksWithoutRead ==
    /\ c_pc \in {"poll", "mark_work", "mark_stop"} => c_read = "none"
    /\ c_pc = "mark_stop" => Context!Work \in c_inactive \/ c_eventfd \/ c_writers # {}

(* Between two looks at the flag of run(), a stop request is either seen   *)
(* at the next or still has its wake-up, unless nothing is waited for.     *)
InLoop == {"ready", "completions", "remote", "remote_stop", "submit", "wait", "waiting"}

StopIsSeen ==
    c_pc \in InLoop /\ c_stop_requested /\ Context!ReadSubmitted => Context!WakeUpIsComing

(* The loop goes to sleep with nothing to run and with its read.  *)
SleepsOnRead == c_pc \in {"wait", "waiting"} => c_ready = <<>> /\ Context!ReadSubmitted

(* The destructor waits for no read that nothing completes. *)
DestructorIsWoken == c_pc = "dtor" => c_eventfd \/ c_read = "completed"

IInv == /\ Context!TypeOk
        /\ WorkIsOperations
        /\ Context!ReadGuardsQueues
        /\ MarksWithoutRead
        /\ StopIsSeen
        /\ SleepsOnRead
        /\ Context!NoReadOutlives
        /\ DestructorIsWoken

USE DEF Context!Work, Context!Stop, Context!Queues

LEMMA InitIInv == Context!Init => IInv
<1>. SUFFICES ASSUME Context!Init PROVE IInv
  OBVIOUS
<1>1. <<>> \in Seq(Context!Items) /\ <<>> \in Seq(Ops)
  BY EmptySeq
<1>2. Context!TypeOk
  <2>1. c_queue \in [Context!Queues -> Seq(Context!Items)]
    BY <1>1 DEF Context!Init
  <2>2. c_ran \in 0..BatchLimit
    BY BatchesRun DEF Context!Init
  <2>. QED
    BY <1>1, <2>1, <2>2 DEF Context!Init, Context!TypeOk
<1>3. Context!ReadGuardsQueues
  BY DEF Context!Init, Context!ReadGuardsQueues, Context!ReadSubmitted
<1>. QED
  BY <1>1, <1>2, <1>3 DEF Context!Init, IInv, WorkIsOperations, MarksWithoutRead,
     StopIsSeen, InLoop, SleepsOnRead, Context!NoReadOutlives, DestructorIsWoken

-----------------------------------------------------------------------------
(* What no step of a remote thread or of the kernel takes away from the    *)
(* loop: an item that is added without a mark going away without a writer. *)
LEMMA EnqueueKeepsTypes ==
  ASSUME IInv, NEW q \in Context!Queues, NEW i \in Context!Items,
         q = Context!Work => i \in Ops, Context!Enqueue(q, i)
  PROVE  /\ c_queue' \in [Context!Queues -> Seq(Context!Items)]
         /\ c_queue'[Context!Work] \in Seq(Ops)
         /\ c_inactive' \subseteq Context!Queues
         /\ c_writers' \subseteq Context!Remotes
<1>1. Append(c_queue[q], i) \in Seq(Context!Items)
  BY AppendProperties DEF IInv, Context!TypeOk
<1>2. i \in Ops => Append(c_queue[Context!Work], i) \in Seq(Ops)
  BY AppendProperties DEF IInv, WorkIsOperations
<1>. QED
  BY <1>1, <1>2 DEF IInv, Context!TypeOk, WorkIsOperations, Context!Enqueue,
     Context!Items, Context!Remotes

LEMMA ScheduleRemoteIInv ==
  ASSUME IInv, Context!ScheduleRemote
  PROVE  IInv'
<1>1. PICK q \in Context!Queues, i \in Context!Items :
         (q = Context!Work => i \in Ops) /\ Context!Enqueue(q, i)
  BY DEF Context!ScheduleRemote, Context!Items
<1>2. Context!TypeOk' /\ WorkIsOperations'
  BY <1>1, EnqueueKeepsTypes DEF IInv, Context!TypeOk, WorkIsOperations,
     Context!ScheduleRemote, Context!Items
<1>3. Context!ReadGuardsQueues'
  BY <1>1 DEF IInv, Context!TypeOk, Context!ReadGuardsQueues,
     Context!ScheduleRemote, Context!Enqueue, Context!ReadSubmitted,
     Context!WakeUpIsComing
<1>4. MarksWithoutRead'
  BY <1>1 DEF IInv, MarksWithoutRead, Context!ScheduleRemote, Context!Enqueue
<1>5. StopIsSeen' /\ SleepsOnRead' /\ Context!NoReadOutlives' /\ DestructorIsWoken'
  BY <1>1 DEF IInv, StopIsSeen, SleepsOnRead, Context!NoReadOutlives,
     DestructorIsWoken, Context!ScheduleRemote, Context!Enqueue,
     Context!ReadSubmitted, Context!WakeUpIsComing
<1>. QED
  BY <1>2, <1>3, <1>4, <1>5 DEF IInv

LEMMA RemoteStepIInv ==
  ASSUME IInv,
         \/ Context!RequestStop
         \/ \E w \in Context!Remotes : Context!WakeUp(w)
         \/ Context!KernelReads
  PROVE  IInv'
<1>. USE DEF IInv, Context!TypeOk, WorkIsOperations, Context!ReadGuardsQueues,
         MarksWithoutRead, StopIsSeen, SleepsOnRead, Context!NoReadOutlives,
         DestructorIsWoken, Context!ReadSubmitted, Context!WakeUpIsComing
<1>1. CASE Context!RequestStop
  BY <1>1 DEF Context!RequestStop, Context!Remotes
<1>2. ASSUME NEW w \in Context!Remotes, Context!WakeUp(w) PROVE IInv'
  BY <1>2 DEF Context!WakeUp
<1>3. CASE Context!KernelReads
  BY <1>3 DEF Context!KernelReads
<1>. QED
  BY <1>1, <1>2, <1>3

-----------------------------------------------------------------------------
(* The members that the loop changes keep their types. *)
LEMMA ScheduleLocalIInv ==
  ASSUME IInv, Context!ScheduleLocal
  PROVE  IInv'
<1>1. c_ready' \in Seq(Ops)
  BY AppendProperties DEF IInv, Context!TypeOk, Context!ScheduleLocal
<1>. QED
  BY <1>1 DEF Context!ScheduleLocal, IInv, Context!TypeOk, WorkIsOperations,
     Context!ReadGuardsQueues, MarksWithoutRead, StopIsSeen, SleepsOnRead,
     Context!NoReadOutlives, DestructorIsWoken, Context!ReadSubmitted,
     Context!WakeUpIsComing

LEMMA ExecuteReadyIInv ==
  ASSUME IInv, Context!ExecuteReady
  PROVE  IInv'
<1>1. Head(c_ready) \in Ops /\ Tail(c_ready) \in Seq(Ops)
  BY HeadTailProperties DEF IInv, Context!TypeOk, Context!ExecuteReady
<1>2. c_ran + 1 \in 0..BatchLimit
  BY BatchesRun DEF IInv, Context!TypeOk,
     Context!ExecuteReady
<1>. QED
  BY <1>1, <1>2 DEF Context!ExecuteReady, IInv, Context!TypeOk, Context!Items,
     WorkIsOperations, Context!ReadGuardsQueues, MarksWithoutRead, StopIsSeen,
     SleepsOnRead, Context!NoReadOutlives, DestructorIsWoken,
     Context!ReadSubmitted, Context!WakeUpIsComing

LEMMA AcquireRemoteItemsIInv ==
  ASSUME IInv, Context!AcquireRemoteItems
  PROVE  IInv'
<1>1. c_ready \o c_queue[Context!Work] \in Seq(Ops)
  BY ConcatProperties DEF IInv, Context!TypeOk, WorkIsOperations
<1>2. <<>> \in Seq(Context!Items) /\ <<>> \in Seq(Ops)
  BY EmptySeq
<1>3. Context!TypeOk' /\ WorkIsOperations'
  BY <1>1, <1>2 DEF IInv, Context!TypeOk, WorkIsOperations,
     Context!AcquireRemoteItems, Context!Goto
<1>. QED
  BY <1>3 DEF Context!AcquireRemoteItems, Context!Goto, IInv, Context!TypeOk,
     Context!ReadGuardsQueues, MarksWithoutRead, StopIsSeen, InLoop, SleepsOnRead,
     Context!NoReadOutlives, DestructorIsWoken, Context!ReadSubmitted,
     Context!WakeUpIsComing

LEMMA ExecuteRemoteStopItemsIInv ==
  ASSUME IInv, Context!ExecuteRemoteStopItems
  PROVE  IInv'
<1>1. Context!ToSet(c_queue[Context!Stop]) \subseteq Context!Items
  BY ElementOfSeq, LenProperties DEF Context!ToSet, IInv, Context!TypeOk
<1>2. <<>> \in Seq(Context!Items)
  BY EmptySeq
<1>3. Context!TypeOk' /\ WorkIsOperations'
  BY <1>1, <1>2 DEF IInv, Context!TypeOk, WorkIsOperations,
     Context!ExecuteRemoteStopItems, Context!Goto
<1>. QED
  BY <1>3 DEF Context!ExecuteRemoteStopItems, Context!Goto, IInv, Context!TypeOk,
     Context!ReadGuardsQueues, MarksWithoutRead, StopIsSeen, InLoop, SleepsOnRead,
     Context!NoReadOutlives, DestructorIsWoken, Context!ReadSubmitted,
     Context!WakeUpIsComing

(* The steps that only move the loop on, or submit and consume its read. *)
LEMMA LoopMovesIInv ==
  ASSUME IInv,
         \/ Context!Run \/ Context!Return \/ Context!CheckStop
         \/ Context!LeaveReady \/ Context!ProcessCompletions \/ Context!Submit
         \/ Context!StartWaiting \/ Context!WaitReturns
         \/ Context!WaitIsInterrupted \/ Context!WaitTimesOut
         \/ Context!Poll \/ Context!PollFails
         \/ Context!Destroy \/ Context!DestructorWaits
  PROVE  IInv'
<1>. USE DEF IInv, Context!TypeOk, WorkIsOperations, Context!ReadGuardsQueues,
         MarksWithoutRead, StopIsSeen, InLoop, SleepsOnRead, Context!NoReadOutlives,
         DestructorIsWoken, Context!ReadSubmitted, Context!WakeUpIsComing, Context!Goto,
         Context!Submitted
<1>1. CASE Context!Run
  BY <1>1 DEF Context!Run
<1>2. CASE Context!Return
  BY <1>2 DEF Context!Return
<1>3. CASE Context!CheckStop
  BY <1>3, BatchesRun DEF Context!CheckStop
<1>4. CASE Context!LeaveReady
  BY <1>4 DEF Context!LeaveReady
<1>5. CASE Context!ProcessCompletions
  BY <1>5 DEF Context!ProcessCompletions
<1>6. CASE Context!Submit
  BY <1>6 DEF Context!Submit
<1>7. CASE Context!StartWaiting
  BY <1>7 DEF Context!StartWaiting
<1>8. CASE Context!WaitReturns
  BY <1>8 DEF Context!WaitReturns
<1>9. CASE Context!WaitIsInterrupted
  BY <1>9 DEF Context!WaitIsInterrupted
<1>10. CASE Context!WaitTimesOut
  BY <1>10 DEF Context!WaitTimesOut
<1>11. CASE Context!Poll
  BY <1>11 DEF Context!Poll
<1>12. CASE Context!PollFails
  BY <1>12 DEF Context!PollFails
<1>13. CASE Context!Destroy
  BY <1>13 DEF Context!Destroy, Context!Destroyable
<1>14. CASE Context!DestructorWaits
  BY <1>14 DEF Context!DestructorWaits
<1>. QED
  BY <1>1, <1>2, <1>3, <1>4, <1>5, <1>6, <1>7,
     <1>8, <1>9, <1>10, <1>11, <1>12, <1>13, <1>14

(* Marking: the read is prepared only over two marks, or over a first one  *)
(* that was taken away by somebody who writes.                             *)
LEMMA MarksIInv ==
  ASSUME IInv, Context!MarkWork \/ Context!MarkStop
  PROVE  IInv'
<1>. USE DEF IInv, Context!TypeOk, WorkIsOperations, Context!ReadGuardsQueues,
         MarksWithoutRead, StopIsSeen, InLoop, SleepsOnRead, Context!NoReadOutlives,
         DestructorIsWoken, Context!ReadSubmitted, Context!WakeUpIsComing, Context!Goto,
         Context!TryMark
<1>1. CASE Context!MarkWork
  BY <1>1 DEF Context!MarkWork
<1>2. CASE Context!MarkStop
  BY <1>2 DEF Context!MarkStop
<1>. QED
  BY <1>1, <1>2

LEMMA StepIInv == IInv /\ [Context!Next]_contextVars => IInv'
<1>. SUFFICES ASSUME IInv, [Context!Next]_contextVars PROVE IInv'
  OBVIOUS
<1>1. CASE UNCHANGED contextVars
  BY <1>1 DEF contextVars, IInv, Context!TypeOk, WorkIsOperations,
     Context!ReadGuardsQueues, MarksWithoutRead, StopIsSeen, SleepsOnRead,
     Context!NoReadOutlives, DestructorIsWoken, Context!ReadSubmitted,
     Context!WakeUpIsComing
<1>. QED
  BY <1>1, ScheduleRemoteIInv, RemoteStepIInv, ScheduleLocalIInv,
     ExecuteReadyIInv, AcquireRemoteItemsIInv, ExecuteRemoteStopItemsIInv,
     LoopMovesIInv, MarksIInv
  DEF Context!Next, Context!LoopStep

-----------------------------------------------------------------------------
LEMMA IInvHolds == PartsSpec => []IInv
<1>1. PartsInit => IInv
  BY InitIInv DEF PartsInit
<1>2. IInv /\ [PartsNext]_partsVars => IInv'
  <2> SUFFICES ASSUME IInv, [PartsNext]_partsVars PROVE IInv'
    OBVIOUS
  <2>1. [Context!Next]_contextVars
    BY DEF PartsNext, partsVars
  <2>. QED
    BY <2>1, StepIInv
<1>. QED
  BY <1>1, <1>2, PTL DEF PartsSpec

(* The members hold what their types allow. *)
THEOREM TypesAreKept == PartsSpec => []Context!TypeOk
<1>1. IInv => Context!TypeOk
  BY DEF IInv
<1>. QED
  BY <1>1, IInvHolds, PTL

(* However remote threads enqueue and stop between the marks, the read,    *)
(* its submission, time-outs and signals: the loop does not sleep over     *)
(* work or a stop request unless its wake-up is on the way.                *)
THEOREM NoWakeUpIsEverLost == PartsSpec => []NoWakeUpIsLost
<1>1. IInv => NoWakeUpIsLost
  BY DEF IInv, NoWakeUpIsLost, Context!NoWakeUpIsLost, Context!ReadGuardsQueues,
     Context!NoSleepOverWork, StopIsSeen, InLoop, SleepsOnRead
<1>. QED
  BY <1>1, IInvHolds, PTL

(* ~iouring_context() returns only when the kernel has no read that would  *)
(* write to a member.                                                      *)
THEOREM NoReadEverOutlives == PartsSpec => []NoReadOutlives
<1>1. IInv => NoReadOutlives
  BY DEF IInv, NoReadOutlives
<1>. QED
  BY <1>1, IInvHolds, PTL

(* It returns at all: a read that it waits for has been woken, or has      *)
(* completed already.                                                      *)
THEOREM DestructorIsAlwaysWoken == PartsSpec => []DestructorIsWoken
<1>1. IInv => DestructorIsWoken
  BY DEF IInv
<1>. QED
  BY <1>1, IInvHolds, PTL
=============================================================================
