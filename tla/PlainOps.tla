------------------------------- MODULE PlainOps -------------------------------
(***************************************************************************)
(* The operations of iouring_context whose receiver never asks to stop:    *)
(* schedule, schedule_at (and schedule_after), and the base of openat and  *)
(* close.  Each is in one queue at a time and holds the function to call   *)
(* when it comes out: execute, or, in the same union, submit_sqes and      *)
(* handle_completion.                                                      *)
(*                                                                         *)
(* The I/O thread runs one function at a time, in any order the loop may   *)
(* come to them, and time passes as it likes.                              *)
(***************************************************************************)
EXTENDS Naturals

CONSTANTS Ops,
          SqSize            \* the entries of the submission queue, not 0

VARIABLES class,            \* what each operation is
          where,            \* the queue that holds it
          fn,               \* the function it holds
          sq,               \* entries that the kernel has not been given
          completions       \* how often it completed

vars == <<class, where, fn, sq, completions>>

At(f, o, v) == [f EXCEPT ![o] = v]

(* schedule_op has its function from the start. *)
Init == /\ class \in [Ops -> {"schedule", "timer", "request"}]
        /\ where = [o \in Ops |-> "unstarted"]
        /\ fn = [o \in Ops |-> IF class[o] = "schedule" THEN "set_value" ELSE "unset"]
        /\ sq = 0
        /\ completions = [o \in Ops |-> 0]

-----------------------------------------------------------------------------
(* What a timer and a request do on the I/O thread first *)

(* when_on_io_context(): to the timer queue *)
WhenOnIoContext(o) == /\ class[o] = "timer"
                      /\ where' = At(where, o, "timers")
                      /\ fn' = At(fn, o, "set_value")
                      /\ UNCHANGED sq

(* when_on_io_thread() and when_sqes_available(), unless others wait       *)
WhenOnIoThread(o) ==
    /\ class[o] = "request"
    /\ IF sq < SqSize /\ \A p \in Ops : where[p] # "waiting"
       THEN /\ where' = At(where, o, "prepared")
            /\ fn' = At(fn, o, "when_op_completed")
            /\ sq' = sq + 1
       ELSE /\ where' = At(where, o, "waiting")
            /\ fn' = At(fn, o, "when_sqes_available")
            /\ UNCHANGED sq

OnIoThread(o) == WhenOnIoContext(o) \/ WhenOnIoThread(o)

-----------------------------------------------------------------------------
(* start() *)
StartOnIoThread(o) ==
    /\ where[o] = "unstarted"
    /\ \/ class[o] = "schedule" /\ where' = At(where, o, "ready") /\ UNCHANGED <<fn, sq>>
       \/ OnIoThread(o)
    /\ UNCHANGED <<class, completions>>

StartRemotely(o) ==
    /\ where[o] = "unstarted"
    /\ where' = At(where, o, "remote")
    /\ fn' = IF class[o] = "schedule" THEN fn ELSE At(fn, o, "on_io_thread")
    /\ UNCHANGED <<class, sq, completions>>

AcquireRemoteItems ==
    /\ where' = [o \in Ops |-> IF where[o] = "remote" THEN "ready" ELSE where[o]]
    /\ UNCHANGED <<class, fn, sq, completions>>

(* set_value(); the operation may be destroyed in this step. *)
Complete(o) == /\ where' = At(where, o, "none")
               /\ completions' = At(completions, o, completions[o] + 1)
               /\ UNCHANGED <<fn, sq>>

(* The loop calls execute of what is ready ... *)
Execute(o) == /\ where[o] = "ready"
              /\ IF fn[o] = "set_value" THEN Complete(o)
                                        ELSE OnIoThread(o) /\ UNCHANGED completions
              /\ UNCHANGED class

(* ... and of what is due, ... *)
ExecuteDue(o) == where[o] = "timers" /\ Complete(o) /\ UNCHANGED class

(* ... and gives the kernel all it has. *)
SubmitSqes ==
    /\ where' = [o \in Ops |-> IF where[o] = "prepared" THEN "kernel" ELSE where[o]]
    /\ sq' = 0
    /\ UNCHANGED <<class, fn, completions>>

(* when_op_completed(), on a completion-queue entry: on_complete() sends a *)
(* value or an error.                                                      *)
WhenOpCompleted(o) == where[o] = "kernel" /\ Complete(o) /\ UNCHANGED class

(* when_sqes_available() of what waits is called by nobody: see IoOp.      *)

Step(o) == Execute(o) \/ ExecuteDue(o) \/ WhenOpCompleted(o)

Next == \/ AcquireRemoteItems \/ SubmitSqes
        \/ \E o \in Ops : StartOnIoThread(o) \/ StartRemotely(o) \/ Step(o)

Spec == Init /\ [][Next]_vars

-----------------------------------------------------------------------------
(* Properties *)

TypeOk == /\ class \in [Ops -> {"schedule", "timer", "request"}]
          /\ where \in [Ops -> {"unstarted", "remote", "ready", "timers", "waiting",
                                "prepared", "kernel", "none"}]
          /\ sq \in 0..SqSize

(* The function in the union is that of the queue around the operation: a  *)
(* schedule and a timer that is due complete, a timer or a request that    *)
(* comes from another thread goes on, and the kernel's result has a taker. *)
FunctionsSuitQueues ==
    \A o \in Ops :
        /\ where[o] \in {"remote", "ready"} =>
              fn[o] = IF class[o] = "schedule" THEN "set_value" ELSE "on_io_thread"
        /\ where[o] = "timers" => fn[o] = "set_value" /\ class[o] = "timer"
        /\ where[o] = "waiting" => fn[o] = "when_sqes_available"
        /\ where[o] \in {"prepared", "kernel"} => fn[o] = "when_op_completed"

(* An operation completes once, and then no queue holds it.                *)
CompletesLast == \A o \in Ops : completions[o] = IF where[o] = "none" THEN 1 ELSE 0
=============================================================================
