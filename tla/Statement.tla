------------------------------ MODULE Statement ------------------------------
(***************************************************************************)
(* statement_sender(source): destroys the child operation before it        *)
(* delivers the child's result, as the end of a full expression destroys   *)
(* its temporaries.  The parent's request_stop() may be inside the child   *)
(* when the child completes; then whichever of the two leaves last         *)
(* destroys it.                                                            *)
(*                                                                         *)
(* The threads are the one on which the child completes, at any time after *)
(* it was started, and the one on which the parent calls request_stop(),   *)
(* at most once and after start().  Every access of flags and every call   *)
(* is one action.                                                          *)
(***************************************************************************)
EXTENDS Naturals, Sequences

VARIABLES mode,        \* the child: has it a request_stop(), are its results
                       \* copied, can copying throw
          flags,       \* stoppable_state::flags, a set of its two flags
          destroyed,   \* unstoppable_state::destroyed
          stored,      \* the copy of the result, in the state or on the stack
          outcome,     \* what the child completed with
          destructs,   \* how often the child operation was destroyed
          alive,       \* whether the statement's own operation is
          sent,        \* the completions of the receiver
          stops,       \* how often request_stop() was called on the child
          pc           \* where each thread is

vars == <<mode, flags, destroyed, stored, outcome, destructs, alive, sent, stops, pc>>

Threads == {"child", "stopper"}
Results == {"value", "error", "stopped"}

Goto(t, label) == pc' = [pc EXCEPT ![t] = label]

(* Results that are passed by value can be moved without an exception.     *)
Init == /\ mode \in [stoppable : BOOLEAN, copies : BOOLEAN, nothrow : BOOLEAN]
        /\ mode.nothrow \/ mode.copies
        /\ flags = {}
        /\ destroyed = FALSE
        /\ stored = "none" /\ outcome = "none"
        /\ destructs = 0
        /\ alive = TRUE
        /\ sent = <<>>
        /\ stops = 0
        /\ pc = [t \in Threads |-> "idle"]

Start == /\ alive /\ pc["child"] = "idle"
         /\ Goto("child", "running")
         /\ UNCHANGED <<mode, flags, destroyed, stored, outcome, destructs, alive, sent, stops>>

-----------------------------------------------------------------------------
(* set_result() *)

(* Without a race the child is destroyed at once; results that may be      *)
(* references into the child are copied first.                             *)
ChildCompletes ==
    /\ pc["child"] = "running"
    /\ outcome' \in Results
    /\ IF mode.stoppable /\ flags # {}
       THEN /\ Goto("child", "store")
            /\ UNCHANGED flags
       ELSE /\ flags' = IF mode.stoppable THEN {"completed"} ELSE flags
            /\ Goto("child", IF mode.copies THEN "copy" ELSE "destruct")
    /\ UNCHANGED <<mode, destroyed, stored, destructs, alive, sent, stops>>

(* A result that cannot be moved is replaced by the exception. *)
CopyResult ==
    /\ pc["child"] \in {"copy", "store"}
    /\ stored' \in {outcome} \cup (IF mode.nothrow THEN {} ELSE {"exception"})
    /\ Goto("child", IF pc["child"] = "copy" THEN "destruct" ELSE "add_completed")
    /\ UNCHANGED <<mode, flags, destroyed, outcome, destructs, alive, sent, stops>>

AddCompleted ==
    /\ pc["child"] = "add_completed"
    /\ flags' = flags \cup {"completed"}
    /\ Goto("child", IF flags = {} THEN "destruct" ELSE "returned")
    /\ UNCHANGED <<mode, destroyed, stored, outcome, destructs, alive, sent, stops>>

-----------------------------------------------------------------------------
(* request_stop() begins with a load, which may be out of date by the time *)
(* of the addition.                                                        *)

RequestStop ==
    /\ mode.stoppable
    /\ alive /\ pc["stopper"] = "idle" /\ pc["child"] # "idle"
    /\ Goto("stopper", IF flags = {} THEN "add_active" ELSE "returned")
    /\ UNCHANGED <<mode, flags, destroyed, stored, outcome, destructs, alive, sent, stops>>

AddActive ==
    /\ pc["stopper"] = "add_active"
    /\ flags' = flags \cup {"stop_active"}
    /\ Goto("stopper", IF flags = {} THEN "stop_child" ELSE "returned")
    /\ UNCHANGED <<mode, destroyed, stored, outcome, destructs, alive, sent, stops>>

(* The child may complete while it is being asked to stop. *)
StopChild ==
    /\ pc["stopper"] = "stop_child"
    /\ stops' = stops + 1
    /\ Goto("stopper", "in_child")
    /\ UNCHANGED <<mode, flags, destroyed, stored, outcome, destructs, alive, sent>>

SubtractActive ==
    /\ pc["stopper"] = "in_child"
    /\ flags' = flags \ {"stop_active"}
    /\ Goto("stopper", IF flags = {"stop_active", "completed"} THEN "destruct"
                                                              ELSE "returned")
    /\ UNCHANGED <<mode, destroyed, stored, outcome, destructs, alive, sent, stops>>

-----------------------------------------------------------------------------
(* child_base::destruct(), and then the receiver *)
Destruct(t) ==
    /\ pc[t] = "destruct"
    /\ destructs' = destructs + 1
    /\ destroyed' = ~mode.stoppable
    /\ Goto(t, "deliver")
    /\ UNCHANGED <<mode, flags, stored, outcome, alive, sent, stops>>

Deliver(t) ==
    /\ pc[t] = "deliver"
    /\ sent' = Append(sent, IF stored = "none" THEN outcome ELSE stored)
    /\ Goto(t, "returned")
    /\ UNCHANGED <<mode, flags, destroyed, stored, outcome, destructs, alive, stops>>

IsDestroyed == IF mode.stoppable THEN flags # {} ELSE destroyed

(* The parent destroys an operation that it did not start, or one that has *)
(* completed and that it does not call any more.                           *)
DestroyOp ==
    /\ alive
    /\ \/ pc["child"] = "idle"
       \/ sent # <<>> /\ pc["stopper"] \in {"idle", "returned"}
    /\ alive' = FALSE
    /\ destructs' = IF IsDestroyed THEN destructs ELSE destructs + 1
    /\ UNCHANGED <<mode, flags, destroyed, stored, outcome, sent, stops, pc>>

-----------------------------------------------------------------------------
ChildStep == CopyResult \/ AddCompleted
StopperStep == AddActive \/ StopChild \/ SubtractActive

Next == \/ Start \/ ChildCompletes \/ ChildStep
        \/ RequestStop \/ StopperStep
        \/ \E t \in Threads : Destruct(t) \/ Deliver(t)
        \/ DestroyOp

(* A thread inside one of the functions goes on, and a child that was      *)
(* asked to stop completes.                                                *)
Fairness == /\ WF_vars(ChildStep) /\ WF_vars(StopperStep)
            /\ \A t \in Threads : WF_vars(Destruct(t) \/ Deliver(t))
            /\ WF_vars(stops > 0 /\ ChildCompletes)

Spec == Init /\ [][Next]_vars /\ Fairness

-----------------------------------------------------------------------------
(* Properties *)

Labels == {"idle", "running", "copy", "store", "add_completed", "add_active",
           "stop_child", "in_child", "destruct", "deliver", "returned"}

(* The state has the types of the code's members; only one of the two      *)
(* states of statement_op exists.                                          *)
TypeOk == /\ mode \in [stoppable : BOOLEAN, copies : BOOLEAN, nothrow : BOOLEAN]
          /\ flags \subseteq {"completed", "stop_active"}
          /\ destroyed \in BOOLEAN
          /\ IF mode.stoppable THEN ~destroyed ELSE flags = {}
          /\ {stored, outcome} \subseteq {"none", "exception"} \cup Results
          /\ destructs \in Nat /\ alive \in BOOLEAN /\ stops \in Nat
          /\ sent \in Seq(Results \cup {"exception"})
          /\ pc \in [Threads -> Labels]

(* The receiver is told once, when the child is already destroyed and      *)
(* neither thread will touch the child or the operation again; and the     *)
(* child is destroyed exactly once, by the destructor only if it was never *)
(* completed.                                                              *)
CompletesLast ==
    /\ Len(sent) <= 1
    /\ \A t \in Threads : pc[t] \in {"destruct", "deliver"} =>
          /\ alive /\ sent = <<>>
          /\ destructs = (IF pc[t] = "deliver" THEN 1 ELSE 0)
          /\ \A s \in Threads \ {t} : pc[s] \in {"idle", "add_active", "returned"}
    /\ sent # <<>> => pc["child"] = "returned" /\ destructs = 1
    /\ ~alive => destructs = 1

(* request_stop() finds the child alive, and the child is not destroyed    *)
(* until the call has returned.                                            *)
StopFindsTheChild ==
    pc["stopper"] \in {"stop_child", "in_child"} =>
       /\ destructs = 0
       /\ pc["child"] \in {"running", "store", "add_completed", "returned"}
       /\ stops = (IF pc["stopper"] = "in_child" THEN 1 ELSE 0)

(* The result is the child's, or the exception of a move that may throw.   *)
ResultIsTheChilds ==
    sent # <<>> => \/ sent[1] = outcome /\ outcome # "none"
                   \/ sent[1] = "exception" /\ ~mode.nothrow

(* A stop request completes the operation, although the child would run    *)
(* forever without it.                                                     *)
StopCompletes == (pc["stopper"] # "idle") ~> (sent # <<>>)
=============================================================================
