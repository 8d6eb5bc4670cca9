----------------------------- MODULE ScopeFuture -----------------------------
(***************************************************************************)
(* spawn_future(): counting_scope_future_state, which owns the spawned     *)
(* child operation, and counting_scope_future_op, which waits for its      *)
(* result.  Three threads meet here:                                       *)
(*   "user"     spawns, then drops the future, or connects it and starts   *)
(*              the resulting operation (or drops that unstarted);         *)
(*   "child"    whatever thread completes the spawned operation;           *)
(*   "stopper"  the thread on which the operation's parent calls           *)
(*              request_stop(), at most once and after start() returned.   *)
(* Each atomic access of a flag word is one action; a flag word is the set *)
(* of its flags.  The future state must be freed by exactly one of them,   *)
(* whoever comes last, and the receiver completed by exactly one.          *)
(***************************************************************************)
EXTENDS Naturals, Sequences

VARIABLES
    types,   \* what the template parameters fix: child_stoppable (is the child
             \* stoppable?) and stop_possible (may the receiver request a stop?)
    fs,      \* the future state: flags (state_), stored (result_ is set),
             \* receiver (receiver_vtable_ is set), stops (calls of the child's
             \* request_stop) and freed (times it was destroyed)
    op,      \* the future operation: flags (flags_), state_ ("fs" or "null"; the
             \* future's own pointer until it is connected), alive, started and
             \* sent (the completions its receiver got)
    pc       \* where each thread is

vars == <<types, fs, op, pc>>

Threads == {"user", "child", "stopper"}

StateFlags == {"completed", "detached", "waiting", "stop_request_done"}
OpFlags == {"completed", "stop_requested", "stop_request_done"}

(* Mutant: the end of the child's request_stop() is not waited for. *)
FullyDetachedEarly(f) == "detached" \in f

FullyDetached(f) == /\ "detached" \in f
                    /\ types.child_stoppable => "stop_request_done" \in f

Goto(t, label) == pc' = [pc EXCEPT ![t] = label]

SetState(f) == fs' = [fs EXCEPT !.flags = f]
AddState(flag) == SetState(fs.flags \cup {flag})
SetOp(f) == op' = [op EXCEPT !.flags = f]

Init == /\ types \in [child_stoppable : BOOLEAN, stop_possible : BOOLEAN]
        /\ fs = [flags |-> {}, stored |-> FALSE, receiver |-> FALSE,
                 stops |-> 0, freed |-> 0]
        /\ op = [flags |-> {}, state_ |-> "null", alive |-> FALSE,
                 started |-> FALSE, sent |-> <<>>]
        /\ pc = [user |-> "spawn", child |-> "idle", stopper |-> "idle"]

-----------------------------------------------------------------------------
(* The user: spawn_future, then connect and start, or drop *)

(* The scope is closed: a future without a state. *)
SpawnRefused == /\ pc["user"] = "spawn"
                /\ Goto("user", "future")
                /\ UNCHANGED <<types, fs, op>>

(* allocate_and_start: the child may complete before its start() returns.  *)
SpawnStart == /\ pc["user"] = "spawn"
              /\ pc' = [pc EXCEPT !["user"] = "spawning", !["child"] = "running"]
              /\ op' = [op EXCEPT !.state_ = "fs"]
              /\ UNCHANGED <<types, fs>>

SpawnReturns == /\ pc["user"] = "spawning"
                /\ Goto("user", "future")
                /\ UNCHANGED <<types, fs, op>>

Connect == /\ pc["user"] = "future"
           /\ Goto("user", "connected")
           /\ op' = [op EXCEPT !.alive = TRUE]
           /\ UNCHANGED <<types, fs>>

(* ~counting_scope_future, or ~counting_scope_future_op before start().    *)
Drop == /\ pc["user"] \in {"future", "connected"}
        /\ Goto("user", IF op.state_ = "null" THEN "done" ELSE "detach")
        /\ op' = [op EXCEPT !.alive = FALSE]
        /\ UNCHANGED <<types, fs>>

(* start() without a state: completed_flag keeps request_stop() away. *)
StartWithoutState ==
    /\ pc["user"] = "connected" /\ op.state_ = "null"
    /\ op' = [op EXCEPT !.started = TRUE,
                        !.flags = IF types.stop_possible THEN {"completed"} ELSE {}]
    /\ Goto("user", "set_stopped")
    /\ UNCHANGED <<types, fs>>

(* start(): set_receiver stores the receiver and loads the flags. *)
SetReceiver ==
    /\ pc["user"] = "connected" /\ op.state_ = "fs"
    /\ op' = [op EXCEPT !.started = TRUE]
    /\ fs' = [fs EXCEPT !.receiver = TRUE]
    /\ Goto("user", IF fs.flags = {"completed"} THEN "store_waiting"
                                                ELSE "add_waiting")
    /\ UNCHANGED types

SetReceiverStore == /\ pc["user"] = "store_waiting"
                    /\ SetState({"completed", "waiting"})
                    /\ Goto("user", "op_result")
                    /\ UNCHANGED <<types, op>>

SetReceiverAdd == /\ pc["user"] = "add_waiting"
                  /\ AddState("waiting")
                  /\ Goto("user", IF fs.flags = {"completed"} THEN "op_result"
                                                              ELSE "started")
                  /\ UNCHANGED <<types, op>>

(* The parent destroys an operation that has completed, not before its own *)
(* call of request_stop(), if any, has returned.                           *)
DestroyOp == /\ op.alive /\ op.sent # <<>>
             /\ pc["stopper"] \in {"idle", "done"}
             /\ op' = [op EXCEPT !.alive = FALSE]
             /\ UNCHANGED <<types, fs, pc>>

-----------------------------------------------------------------------------
(* detach(), and the part of try_detach() it has in common: stop the child *)
(* and settle with set_result() who frees the state                        *)

DetachLoad == /\ pc["user"] = "detach"
              /\ Goto("user", IF "completed" \in fs.flags THEN "free"
                                                          ELSE "detach_add")
              /\ UNCHANGED <<types, fs, op>>

(* detach() returns; try_detach() returns true to request_stop(). *)
Out(t) == IF t = "stopper" THEN "detached" ELSE "done"

AfterDetach(t) == IF types.child_stoppable THEN "stop_child" ELSE Out(t)

DetachAdd == /\ pc["user"] = "detach_add"
             /\ AddState("detached")
             /\ Goto("user", IF "completed" \in fs.flags THEN "free"
                             ELSE AfterDetach("user"))
             /\ UNCHANGED <<types, op>>

(* child_base::request_stop(); the child may complete before it returns. *)
StopChild(t) == /\ pc[t] = "stop_child"
                /\ fs' = [fs EXCEPT !.stops = @ + 1]
                /\ Goto(t, "stop_sent")
                /\ UNCHANGED <<types, op>>

StopChildLoad(t) == /\ pc[t] = "stop_sent"
                    /\ Goto(t, IF "completed" \in fs.flags THEN "free"
                                                           ELSE "stop_add")
                    /\ UNCHANGED <<types, fs, op>>

StopChildAdd(t) == /\ pc[t] = "stop_add"
                   /\ AddState("stop_request_done")
                   /\ Goto(t, IF "completed" \in fs.flags THEN "free" ELSE Out(t))
                   /\ UNCHANGED <<types, op>>

(* destroy(), called by whoever lost the race to be first. *)
Free(t) == /\ pc[t] = "free"
           /\ fs' = [fs EXCEPT !.freed = @ + 1]
           /\ Goto(t, Out(t))
           /\ UNCHANGED <<types, op>>

(* try_detach() returned true: the operation forgets the state. *)
Detached == /\ pc["stopper"] = "detached"
            /\ op' = [op EXCEPT !.state_ = "null"]
            /\ Goto("stopper", "set_stopped")
            /\ UNCHANGED <<types, fs>>

-----------------------------------------------------------------------------
(* The child completes: counting_scope_future_state::set_result *)

(* Mutant: the completed flag is published before the result is stored. *)
ChildCompletesUnstored ==
    /\ pc["child"] = "running"
    /\ Goto("child",
            IF FullyDetached(fs.flags) THEN "discard"
            ELSE IF fs.flags = {"waiting"} /\ ~types.stop_possible THEN "forward"
            ELSE "publish")
    /\ UNCHANGED <<types, fs, op>>

(* try_begin_set_result: discard the result, hand it straight to a         *)
(* receiver that cannot request a stop, or go on to store it.              *)
ChildCompletes ==
    /\ pc["child"] = "running"
    /\ Goto("child",
            IF FullyDetached(fs.flags) THEN "discard"
            ELSE IF fs.flags = {"waiting"} /\ ~types.stop_possible THEN "forward"
            ELSE "store")
    /\ UNCHANGED <<types, fs, op>>

ChildDiscards == /\ pc["child"] = "discard"
                 /\ AddState("completed")
                 /\ Goto("child", "free")
                 /\ UNCHANGED <<types, op>>

ChildForwards == /\ pc["child"] = "forward"
                 /\ SetState({"waiting", "completed"})
                 /\ Goto("child", "op_result")
                 /\ UNCHANGED <<types, op>>

ChildStores == /\ pc["child"] = "store"
               /\ fs' = [fs EXCEPT !.stored = TRUE]
               /\ Goto("child", "publish")
               /\ UNCHANGED <<types, op>>

(* Mutant: a detached consumer's state is left to the consumer. *)
ChildPublishesOnly ==
    /\ pc["child"] = "publish"
    /\ AddState("completed")
    /\ Goto("child", IF fs.flags = {"waiting"} THEN "op_result" ELSE "done")
    /\ UNCHANGED <<types, op>>

ChildPublishes ==
    /\ pc["child"] = "publish"
    /\ AddState("completed")
    /\ Goto("child", IF fs.flags = {"waiting"} THEN "op_result"
                     ELSE IF FullyDetached(fs.flags) THEN "free" ELSE "done")
    /\ UNCHANGED <<types, op>>

-----------------------------------------------------------------------------
(* counting_scope_future_op::set_result, called by the child, or by        *)
(* set_receiver() when the child had already completed                     *)

BothStopFlags == {"stop_requested", "stop_request_done"}

OpResult(t) ==
    /\ pc[t] = "op_result"
    /\ Goto(t, IF ~types.stop_possible THEN "free_for_result"
               ELSE IF op.flags = BothStopFlags THEN "free_for_stopped"
               ELSE "op_completed")
    /\ UNCHANGED <<types, fs, op>>

(* try_set_completed_flag: the result wins, or request_stop() will finish, *)
(* or has left it to us to finish.                                         *)
OpCompleted(t) ==
    /\ pc[t] = "op_completed"
    /\ SetOp(op.flags \cup {"completed"})
    /\ Goto(t, CASE op.flags = {} -> "free_for_result"
                 [] op.flags = {"stop_requested"} -> "done"
                 [] op.flags = BothStopFlags -> "free_for_stopped"
                 [] OTHER -> "unreachable")
    /\ UNCHANGED <<types, fs>>

(* destroy() and state_ = nullptr, before the receiver hears of it. *)
FreeForReceiver(t) ==
    /\ pc[t] \in {"free_for_result", "free_for_stopped"}
    /\ fs' = [fs EXCEPT !.freed = @ + 1]
    /\ op' = [op EXCEPT !.state_ = "null"]
    /\ Goto(t, IF pc[t] = "free_for_result" THEN "set_result" ELSE "set_stopped")
    /\ UNCHANGED types

CompleteReceiver(t) ==
    /\ pc[t] \in {"set_result", "set_stopped"}
    /\ op' = [op EXCEPT !.sent = Append(@, pc[t])]
    /\ Goto(t, "done")
    /\ UNCHANGED <<types, fs>>

-----------------------------------------------------------------------------
(* counting_scope_future_op::request_stop *)

(* The parent may call it once start() has returned and while it keeps the *)
(* operation alive, whether or not the operation has completed meanwhile.  *)
RequestStop == /\ pc["stopper"] = "idle"
               /\ types.stop_possible
               /\ op.alive /\ op.started
               /\ pc["user"] \in {"started", "done"}
               /\ Goto("stopper", IF op.flags = {} THEN "exchange" ELSE "done")
               /\ UNCHANGED <<types, fs, op>>

StopExchange == /\ pc["stopper"] = "exchange"
                /\ IF op.flags = {}
                   THEN SetOp({"stop_requested"}) /\ Goto("stopper", "try_detach")
                   ELSE UNCHANGED op /\ Goto("stopper", "done")
                /\ UNCHANGED <<types, fs>>

TryDetachLoad == /\ pc["stopper"] = "try_detach"
                 /\ Goto("stopper", IF "completed" \in fs.flags THEN "lost_detach"
                                                                 ELSE "detach_exchange")
                 /\ UNCHANGED <<types, fs, op>>

TryDetachExchange ==
    /\ pc["stopper"] = "detach_exchange"
    /\ IF fs.flags = {"waiting"}
       THEN AddState("detached") /\ Goto("stopper", AfterDetach("stopper"))
       ELSE UNCHANGED fs /\ Goto("stopper", "lost_detach")
    /\ UNCHANGED <<types, op>>

(* try_detach() returned false: set_result() will call, or is calling, the *)
(* operation's set_result; whoever is second finishes.                     *)
LostDetachLoad ==
    /\ pc["stopper"] = "lost_detach"
    /\ Goto("stopper", IF "completed" \in op.flags THEN "free_for_stopped"
                                                    ELSE "stop_done_add")
    /\ UNCHANGED <<types, fs, op>>

(* Mutant: request_stop() does not look at what its fetch_add returned. *)
LostDetachAddOnly == /\ pc["stopper"] = "stop_done_add"
                     /\ SetOp(op.flags \cup {"stop_request_done"})
                     /\ Goto("stopper", "done")
                     /\ UNCHANGED <<types, fs>>

LostDetachAdd ==
    /\ pc["stopper"] = "stop_done_add"
    /\ SetOp(op.flags \cup {"stop_request_done"})
    /\ Goto("stopper", IF "completed" \in op.flags THEN "free_for_stopped"
                                                    ELSE "done")
    /\ UNCHANGED <<types, fs>>

-----------------------------------------------------------------------------
UserStep == \/ SpawnReturns \/ SetReceiverStore \/ SetReceiverAdd
            \/ DetachLoad \/ DetachAdd

(* The choices of the user and of the parent. *)
UserChoice == \/ SpawnRefused \/ SpawnStart \/ Connect \/ Drop
              \/ StartWithoutState \/ SetReceiver \/ DestroyOp

ChildStep == \/ ChildDiscards \/ ChildForwards \/ ChildStores \/ ChildPublishes

StopperStep == \/ StopExchange \/ TryDetachLoad \/ TryDetachExchange \/ Detached
               \/ LostDetachLoad \/ LostDetachAdd

SharedStep(t) == \/ StopChild(t) \/ StopChildLoad(t) \/ StopChildAdd(t)
                 \/ Free(t)
                 \/ OpResult(t) \/ OpCompleted(t)
                 \/ FreeForReceiver(t) \/ CompleteReceiver(t)

Next == \/ UserStep \/ UserChoice
        \/ ChildCompletes \/ ChildStep
        \/ RequestStop \/ StopperStep
        \/ \E t \in Threads : SharedStep(t)

(* A thread inside one of the functions goes on. *)
ThreadsProgress == /\ WF_vars(UserStep) /\ WF_vars(ChildStep) /\ WF_vars(StopperStep)
                   /\ \A t \in Threads : WF_vars(SharedStep(t))

(* The child may run forever, the user keep a future forever, and the      *)
(* parent never request a stop.                                            *)
Spec == Init /\ [][Next]_vars /\ ThreadsProgress

-----------------------------------------------------------------------------
(* Properties *)

Labels == {"spawn", "spawning", "future", "connected", "store_waiting",
           "add_waiting", "started", "detach", "detach_add", "stop_child",
           "stop_sent", "stop_add", "free", "detached", "done", "idle", "running",
           "discard", "forward", "store", "publish", "op_result", "op_completed",
           "free_for_result", "free_for_stopped", "set_result", "set_stopped",
           "exchange", "try_detach", "detach_exchange", "lost_detach",
           "stop_done_add"}

(* The flags, pointers and program counters are those of the code; in      *)
(* particular try_set_completed_flag never reaches std::unreachable().     *)
TypeOk ==
    /\ types \in [child_stoppable : BOOLEAN, stop_possible : BOOLEAN]
    /\ fs \in [flags : SUBSET StateFlags, stored : BOOLEAN, receiver : BOOLEAN,
               stops : 0..1, freed : 0..1]
    /\ op.flags \subseteq OpFlags
    /\ op.state_ \in {"fs", "null"}
    /\ op.alive \in BOOLEAN /\ op.started \in BOOLEAN
    /\ op.sent \in Seq({"set_result", "set_stopped"})
    /\ pc \in [Threads -> Labels]

(* Where a thread's next step reads or writes the future state, and where  *)
(* it touches the future operation.                                        *)
TouchesState(t) ==
    pc[t] \in {"store_waiting", "add_waiting", "detach", "detach_add", "stop_child",
               "stop_sent", "stop_add", "free", "running", "discard", "forward",
               "store", "publish", "free_for_result", "free_for_stopped",
               "try_detach", "detach_exchange"}
TouchesOp(t) ==
    \/ pc[t] \in {"op_result", "op_completed", "free_for_result",
                  "free_for_stopped", "set_result", "set_stopped"}
    \/ t = "stopper" /\ pc[t] \notin {"idle", "done"}

(* The future state is freed at most once and then no thread goes on to    *)
(* touch it, its child, or the receiver's pointer to it.                   *)
NoUseAfterFree ==
    /\ fs.freed <= 1
    /\ fs.freed = 1 => \A t \in Threads : ~TouchesState(t)

(* Once the receiver has been completed its parent may destroy the         *)
(* operation at any time: no thread but one inside request_stop(), which   *)
(* the parent waits for, goes on to touch it.  The operation gave its      *)
(* state up before, or its destructor would detach a second time.          *)
NoUseAfterCompletion ==
    op.sent # <<>> => /\ \A t \in {"user", "child"} : ~TouchesOp(t)
                      /\ op.state_ = "null"

(* The receiver is completed at most once; with set_stopped if a stop      *)
(* request was accepted (its exchange succeeded), else with the result.    *)
CompletesOnce ==
    /\ Len(op.sent) <= 1
    /\ (op.sent # <<>> /\ fs.receiver) =>
          (op.sent[1] = "set_stopped" <=> "stop_requested" \in op.flags)

(* There is one completion and one release, and neither the operation nor  *)
(* the state is touched after it.                                          *)
NoUseAfterEnd == NoUseAfterFree /\ NoUseAfterCompletion /\ CompletesOnce

(* No flag is added to a word that has it, where an addition would carry   *)
(* into the next flag, and the asserts of the functions hold; nor is       *)
(* std::unreachable() reached.                                             *)
AssertionsHold ==
    /\ TypeOk
    /\ pc["user"] = "add_waiting" => fs.flags \in {{}, {"completed"}}
    /\ pc["user"] = "detach" => "waiting" \notin fs.flags
    /\ pc["stopper"] = "detach_exchange" =>
          fs.flags \in {{"waiting"}, {"waiting", "completed"}}
    /\ pc["stopper"] = "stop_done_add" => "stop_request_done" \notin op.flags
    /\ \A t \in Threads :
          /\ pc[t] = "free" \/ pc[t] \in {"free_for_result", "free_for_stopped"}
                => "completed" \in fs.flags
          /\ pc[t] \in {"op_result", "op_completed"} => fs.receiver
          /\ pc[t] = "op_completed" => "completed" \notin op.flags
    /\ pc["user"] = "op_result" => fs.stored

(* The state is freed in the end: neither thread leaves it to the other.   *)
StateIsFreed == (pc["child"] = "running") ~> (fs.freed = 1)

(* An operation that was started completes. *)
OpCompletes == op.started ~> (op.sent # <<>>)

(* Nothing is left behind, if the spawned operation completes some day,    *)
(* stopped or not, and the user does something with the future.            *)
EverythingEnds ==
    /\ WF_vars(ChildCompletes)
    /\ WF_vars(Drop \/ StartWithoutState \/ SetReceiver)
    => StateIsFreed /\ OpCompletes

(* A stop request that was accepted completes the operation at once: the   *)
(* child may well run forever after it was told to stop.                   *)
StopIsPrompt == (pc["stopper"] = "try_detach") ~> (op.sent # <<>>)

(* A future or operation that is dropped while its child runs stops the    *)
(* child, unless the child completes by itself.                            *)
DropStopsChild ==
    (pc["user"] = "detach" /\ types.child_stoppable)
       ~> (fs.stops = 1 \/ "completed" \in fs.flags)

(* A stop request and a drop have their effect whatever the child does.    *)
StopTakesEffect == StopIsPrompt /\ DropStopsChild
=============================================================================
