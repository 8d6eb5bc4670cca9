------------------------------ MODULE ScopeWork ------------------------------
(***************************************************************************)
(* The clients of a counting_scope, composed with it: nest(), whose sender *)
(* and operation carry a scope-ref from the call to the completion of the  *)
(* source, and spawn() and spawn_future(), whose allocated state does.     *)
(* Beside them one future, with the state that it shares with the spawned  *)
(* child; these need no more of the scope than a ref that the state holds. *)
(* For TLC a behaviour is that of the former, or of refs in any hands, or  *)
(* of the future.                                                          *)
(*                                                                         *)
(* A piece of work is identified with the scope-ref it carries, so that a  *)
(* step here is a step of CountingScope, or a move of the ref, which is    *)
(* none, together with a change of the work's phase.                       *)
(***************************************************************************)
EXTENDS CountingScope

CONSTANT Works       \* the work that there is, of all that refs can carry

VARIABLES part,      \* whose behaviour it is: "work", "scope" or "future"
          kind,      \* what each piece of work is: "nest" or "spawn"
          phase,     \* where it is
          memory,    \* the work whose state is allocated by spawn()
          types, fs, op, pc     \* those of the future

Future == INSTANCE ScopeFuture

workVars == <<vars, kind, phase, memory>>
futureVars == <<types, fs, op, pc>>

Phases == {"none", "getting", "sender", "spawning", "constructing", "throwing",
           "op", "running", "completed", "resetting", "releasing", "delivering",
           "delivered"}

(* The piece of work w goes to a phase, and nothing else of it changes.    *)
Enter(w, p) == /\ phase' = [phase EXCEPT ![w] = p]
               /\ UNCHANGED <<kind, memory>>

WorkInit == /\ Init
            /\ kind = [w \in Refs |-> "nest"]
            /\ phase = [w \in Refs |-> "none"]
            /\ memory = {}

-----------------------------------------------------------------------------
(* token.nest(source) and token.spawn(source) *)

Begin(w) == /\ phase[w] = "none"
            /\ TryGetLoad(w)
            /\ phase' = [phase EXCEPT ![w] = "getting"]
            /\ \E k \in {"nest", "spawn"} : kind' = [kind EXCEPT ![w] = k]
            /\ UNCHANGED memory

Retry(w) == TryGetRetry(w) /\ UNCHANGED <<kind, phase, memory>>

Admitted(w) == /\ TryGetExchange(w)
               /\ Enter(w, IF kind[w] = "nest" THEN "sender" ELSE "spawning")

(* spawn() returns false; the nest sender will complete with stopped.      *)
Refused(w) == /\ TryGetRefused(w)
              /\ Enter(w, IF kind[w] = "nest" THEN "sender" ELSE "none")

(* allocate_memory_unique(), which may throw. *)
Allocate(w) == /\ phase[w] = "spawning"
               /\ phase' = [phase EXCEPT ![w] = "constructing"]
               /\ memory' = memory \cup {w}
               /\ UNCHANGED <<vars, kind>>

AllocationThrows(w) == /\ phase[w] = "spawning"
                       /\ Enter(w, "releasing")
                       /\ UNCHANGED vars

(* The constructor of the state connects the source, which may throw: the  *)
(* ref is a parameter of the constructor and goes with it, before the      *)
(* unique_ptr of the caller gives the memory back.                         *)
ConstructorThrows(w) == /\ phase[w] = "constructing"
                        /\ Enter(w, "throwing")
                        /\ UNCHANGED vars

SpawnStart(w) == /\ phase[w] = "constructing"
                 /\ Enter(w, "running")
                 /\ UNCHANGED vars

-----------------------------------------------------------------------------
(* The nest sender and its operation *)

(* A copied sender, or a sender connected as an lvalue: its own ref.       *)
CopySender(w, v) == /\ phase[w] = "sender" /\ phase[v] = "none"
                    /\ Copy(w, v)
                    /\ phase' = [phase EXCEPT ![v] = "sender"]
                    /\ kind' = [kind EXCEPT ![v] = "nest"]
                    /\ UNCHANGED memory

(* The ref moves on: an operation is active if it has one.                 *)
Connect(w) == /\ phase[w] = "sender"
              /\ Enter(w, "op")
              /\ UNCHANGED vars

Active(w) == ref[w] = "held"

(* Mutant: start() starts the source of an operation without a ref too. *)
StartUnconditionally(w) == /\ phase[w] = "op"
                           /\ Enter(w, "running")
                           /\ UNCHANGED vars

Start(w) == /\ phase[w] = "op"
            /\ Enter(w, IF Active(w) THEN "running" ELSE "delivering")
            /\ UNCHANGED vars

(* A sender or an operation that is never started is destroyed. *)
Drop(w) == /\ phase[w] \in {"sender", "op"}
           /\ Enter(w, IF Active(w) THEN "releasing" ELSE "none")
           /\ UNCHANGED vars

-----------------------------------------------------------------------------
(* Completion *)

SourceCompletes(w) == /\ phase[w] = "running"
                      /\ Enter(w, IF kind[w] = "nest" THEN "resetting" ELSE "completed")
                      /\ UNCHANGED vars

(* Mutant: destroy() does not move the ref out of the state, whose         *)
(* destructor then drops it before the memory is given back.               *)
FreeMemoryLast(w) == /\ phase[w] = "completed"
                     /\ IF Active(w) THEN Decrement(w) /\ UNCHANGED <<kind, phase, memory>>
                        ELSE /\ ref[w] = "none"
                             /\ phase' = [phase EXCEPT ![w] = "none"]
                             /\ memory' = memory \ {w}
                             /\ UNCHANGED <<vars, kind>>

(* destroy(): the ref outlives the state and its memory. *)
FreeMemory(w) == /\ phase[w] = "completed"
                 /\ phase' = [phase EXCEPT ![w] = "releasing"]
                 /\ memory' = memory \ {w}
                 /\ UNCHANGED <<vars, kind>>

(* scope_.reset(), or the destructor of a ref. *)
Release(w) == /\ phase[w] \in {"resetting", "releasing", "throwing"}
              /\ Decrement(w)
              /\ UNCHANGED <<kind, phase, memory>>

RunJoin(w) == Execute(w) /\ UNCHANGED <<kind, phase, memory>>

(* Mutant: the memory is not given back when the constructor has thrown. *)
ReleasedLeaking(w) == /\ phase[w] \in {"resetting", "releasing", "throwing"}
                      /\ ref[w] = "none"
                      /\ Enter(w, IF phase[w] = "resetting" THEN "delivering" ELSE "none")
                      /\ UNCHANGED vars

(* A nest operation completes its receiver when the ref is gone; spawn()   *)
(* leaves with the exception, and the unique_ptr frees the memory.         *)
Released(w) == /\ phase[w] \in {"resetting", "releasing", "throwing"}
               /\ ref[w] = "none"
               /\ phase' = [phase EXCEPT ![w] =
                               IF @ = "resetting" THEN "delivering" ELSE "none"]
               /\ memory' = IF phase[w] = "throwing" THEN memory \ {w} ELSE memory
               /\ UNCHANGED <<vars, kind>>

Deliver(w) == /\ phase[w] = "delivering"
              /\ Enter(w, "delivered")
              /\ UNCHANGED vars

(* The nest operation is destroyed, some time after it has completed.      *)
DestroyOp(w) == /\ phase[w] = "delivered"
                /\ Enter(w, "none")
                /\ UNCHANGED vars

OwnerStep == /\ \/ Close \/ StartJoin \/ Destroy
                \/ Decrement(Join) \/ Execute(Join)
             /\ UNCHANGED <<kind, phase, memory>>

-----------------------------------------------------------------------------
WorkStep(w) == \/ Begin(w) \/ Retry(w) \/ Admitted(w) \/ Refused(w)
               \/ Allocate(w) \/ AllocationThrows(w)
               \/ ConstructorThrows(w) \/ SpawnStart(w)
               \/ Connect(w) \/ Start(w) \/ Drop(w)
               \/ SourceCompletes(w) \/ FreeMemory(w) \/ Release(w)
               \/ RunJoin(w) \/ Released(w) \/ Deliver(w) \/ DestroyOp(w)

WorkNext == \/ \E w \in Refs : WorkStep(w)
            \/ \E w, v \in Refs : CopySender(w, v)
            \/ OwnerStep

WorkSpec == WorkInit /\ [][WorkNext]_workVars

PartInit(parts) == /\ part \in parts /\ Future!Init /\ WorkInit
                   /\ part # "future" => /\ ~types.child_stoppable
                                         /\ ~types.stop_possible

PartNext == \/ /\ part = "work"
               /\ WorkNext
               /\ \A w \in Refs \ Works : ref'[w] = "none"
               /\ UNCHANGED <<part, futureVars>>
            \/ /\ part = "scope"
               /\ Next
               /\ UNCHANGED <<part, kind, phase, memory, futureVars>>
            \/ /\ part = "future"
               /\ Future!Next
               /\ UNCHANGED <<part, workVars>>

ScopeRun == /\ PartInit({"work", "scope", "future"})
            /\ [][PartNext]_<<part, workVars, futureVars>>
            /\ (part # "future" => Fairness)
            /\ (part = "future" => Future!ThreadsProgress)

(* The work alone *)
WorkRun == /\ PartInit({"work"})
           /\ [][PartNext]_<<part, workVars, futureVars>>

-----------------------------------------------------------------------------
(* Properties *)

(* The state has the types of the code's members. *)
WorkTypeOk == /\ TypeOk
              /\ kind \in [Refs -> {"nest", "spawn"}]
              /\ phase \in [Refs -> Phases]
              /\ memory \subseteq Refs

(* A ref that counts is in the hands of some work, which will release it,  *)
(* and work that may use what the scope protects carries a ref; but where  *)
(* refs are in any hands, there is no work.                                *)
RefsAreCarried ==
    part = "scope" \/ \A w \in Refs :
       /\ ref[w] = "held" => phase[w] \in {"sender", "spawning", "constructing",
                                           "throwing", "op", "running", "completed",
                                           "resetting", "releasing"}
       /\ ref[w] = "last" => phase[w] \in {"resetting", "releasing", "throwing"}
       /\ phase[w] \in {"spawning", "constructing", "running", "completed"} => Active(w)

(* When the join has completed, no admitted work is running or can still   *)
(* be started, and no memory is left but that of a spawn() whose           *)
(* constructor has thrown, on its way out.                                 *)
JoinWaitsForWork ==
    joinsRun > 0 => /\ memory \subseteq {w \in Refs : phase[w] = "throwing"}
                    /\ \A w \in Refs : ~Active(w)
                    /\ \A w \in Refs :
                          phase[w] \notin {"spawning", "constructing", "running",
                                          "completed"}

(* What the documentation of spawn() guarantees: "any allocation will be   *)
(* released before the associated counting_scope::join() operation         *)
(* completes".  It does not hold when the constructor throws.              *)
AllocationsAreReleased == joinsRun > 0 => memory = {}

(* The memory of every spawned state is given back, and only when the work *)
(* that runs in it has completed or could not be constructed.              *)
MemoryIsOwned ==
    \A w \in Refs :
       w \in memory <=> /\ kind[w] = "spawn"
                       /\ phase[w] \in {"constructing", "throwing", "running",
                                        "completed"}

(* There is one completion of a future and one release of its state, and   *)
(* neither the operation nor the state is touched after it.                *)
NoUseAfterEnd == Future!NoUseAfterEnd

(* No flag is added to a word that has it, the asserts of the functions    *)
(* hold, and std::unreachable() is not reached.                            *)
AssertionsHold == Future!AssertionsHold

(* An accepted stop request completes the operation without the child, and *)
(* a future that is dropped stops its child.                               *)
StopTakesEffect == Future!StopTakesEffect

(* If the child completes some day and the future is used or dropped, the  *)
(* state is freed and the operation, if started, completes.                *)
EverythingEnds == Future!EverythingEnds
=============================================================================
