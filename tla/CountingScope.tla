---------------------------- MODULE CountingScope ----------------------------
(***************************************************************************)
(* squiz::counting_scope and counting_scope_ref.                           *)
(*                                                                         *)
(* One atomic word holds a reference count (in units of 2) and a closed    *)
(* flag (bit 0).  The count starts at one: that reference is the joiner's  *)
(* and start_join() gives it up after it has published join_op_.  Whoever  *)
(* takes the count to zero runs the join operation.                        *)
(*                                                                         *)
(* A member of Refs is one counting_scope_ref, operated on by one thread   *)
(* at a time: inside a nest sender or operation, a spawned operation or a  *)
(* future's state.  Moving a ref changes no shared state and is not a step.*)
(* Each atomic access of the word is one action; the weak CAS of           *)
(* try_get_counting_scope_ref() may fail spuriously.                       *)
(***************************************************************************)
EXTENDS Integers, FiniteSets

CONSTANTS Refs,         \* the scope-refs that clients may hold
          Join,         \* the reference the count starts with
          MaxCopies     \* bound on copies of refs, so that work is finite

ASSUME RefsAssumption == IsFiniteSet(Refs) /\ Join \notin Refs
ASSUME MaxCopiesAssumption == MaxCopies \in Nat

VARIABLES word,         \* ref_count_and_closed_flag_
          joinOp,       \* join_op_: "null" or "join"
          ref,          \* what each reference is doing
          seen,         \* old_state of a try_get in progress
          joinsRun,     \* how often join_op_->execute() was called
          alive,        \* FALSE once the owner has destroyed the scope
          copies        \* copies of refs made so far (bounded by MaxCopies)

vars == <<word, joinOp, ref, seen, joinsRun, alive, copies>>

Holders == Refs \cup {Join}

ref_count_increment == 2
closed_flag == 1

Count(w) == w \div ref_count_increment
Closed(w) == w % ref_count_increment = closed_flag

(* "none": an invalid (null) ref; "trying": try_get has loaded the word;   *)
(* "held": the ref counts; "last": its decrement saw the count at one and  *)
(* the thread is about to call join_op_->execute().                        *)
RefStates == {"none", "trying", "held", "last"}

Init == /\ word = ref_count_increment
        /\ joinOp = "null"
        /\ ref = [x \in Holders |-> IF x = Join THEN "held" ELSE "none"]
        /\ seen = [r \in Refs |-> 0]
        /\ joinsRun = 0
        /\ alive = TRUE
        /\ copies = 0

-----------------------------------------------------------------------------
(* try_get_counting_scope_ref *)

TryGetLoad(r) == /\ alive
                 /\ ref[r] = "none"
                 /\ ref' = [ref EXCEPT ![r] = "trying"]
                 /\ seen' = [seen EXCEPT ![r] = word]
                 /\ UNCHANGED <<word, joinOp, joinsRun, alive, copies>>

IsClosed(w) == Closed(w) \/ w < ref_count_increment

TryGetRefused(r) == /\ ref[r] = "trying"
                    /\ IsClosed(seen[r])
                    /\ ref' = [ref EXCEPT ![r] = "none"]
                    /\ UNCHANGED <<word, joinOp, seen, joinsRun, alive, copies>>

(* Mutant: the check is made once, before the loop, and a failed exchange  *)
(* is retried with the value it has just read.                             *)
TryGetExchangeUnchecked(r) ==
    /\ ref[r] = "trying"
    /\ ~IsClosed(seen[r])
    /\ word' = word + ref_count_increment
    /\ ref' = [ref EXCEPT ![r] = "held"]
    /\ UNCHANGED <<joinOp, seen, joinsRun, alive, copies>>

TryGetExchange(r) == /\ ref[r] = "trying"
                     /\ ~IsClosed(seen[r])
                     /\ word = seen[r]
                     /\ word' = word + ref_count_increment
                     /\ ref' = [ref EXCEPT ![r] = "held"]
                     /\ UNCHANGED <<joinOp, seen, joinsRun, alive, copies>>

(* compare_exchange_weak fails, spuriously or not, and reloads the word. *)
TryGetRetry(r) == /\ ref[r] = "trying"
                  /\ ~IsClosed(seen[r])
                  /\ seen' = [seen EXCEPT ![r] = word]
                  /\ UNCHANGED <<word, joinOp, ref, joinsRun, alive, copies>>

-----------------------------------------------------------------------------
(* Copying and dropping references, closing and joining *)

(* counting_scope_ref's copy constructor: increment_ref_count, even when   *)
(* the scope is closed.                                                    *)
Copy(r, s) == /\ copies < MaxCopies
              /\ ref[r] = "held"
              /\ ref[s] = "none"
              /\ word' = word + ref_count_increment
              /\ ref' = [ref EXCEPT ![s] = "held"]
              /\ copies' = copies + 1
              /\ UNCHANGED <<joinOp, seen, joinsRun, alive>>

(* Mutant: the closed flag is forgotten in the test for the last one. *)
IsLastIgnoringFlag(w) == w = ref_count_increment

(* Mutant: the test is one reference too generous. *)
IsLastOffByOne(w) == w < 3 * ref_count_increment

IsLast(w) == w < 2 * ref_count_increment

(* decrement_ref_count: counting_scope_ref::reset for a client's ref, the  *)
(* end of start_join for the reference the count started with.             *)
Decrement(x) == /\ ref[x] = "held"
                /\ x = Join => joinOp # "null"
                /\ word' = word - ref_count_increment
                /\ ref' = [ref EXCEPT ![x] = IF IsLast(word) THEN "last"
                                                             ELSE "none"]
                /\ UNCHANGED <<joinOp, seen, joinsRun, alive, copies>>

(* join_op_->execute(join_op_): the receiver's set_value runs. *)
Execute(x) == /\ ref[x] = "last"
              /\ joinsRun' = joinsRun + 1
              /\ ref' = [ref EXCEPT ![x] = "none"]
              /\ UNCHANGED <<word, joinOp, seen, alive, copies>>

Close == /\ alive
         /\ word' = IF Closed(word) THEN word ELSE word + closed_flag
         /\ UNCHANGED <<joinOp, ref, seen, joinsRun, alive, copies>>

(* The join operation is started: join_op_ is stored; Decrement(Join) is   *)
(* the rest of start_join.                                                 *)
StartJoin == /\ alive
             /\ joinOp = "null"
             /\ joinOp' = "join"
             /\ UNCHANGED <<word, ref, seen, joinsRun, alive, copies>>

(* is_in_valid_final_state, asserted by the destructor. *)
IsInValidFinalState == \/ Count(word) = 0 /\ joinOp # "null"
                       \/ Count(word) = 1 /\ joinOp = "null"

(* The owner may destroy the scope when its join has completed, or when no *)
(* join was started and no ref is left; nobody is inside a token's call.   *)
OwnerMayDestroy == /\ \A r \in Refs : ref[r] # "trying"
                   /\ \/ joinsRun > 0
                      \/ joinOp = "null" /\ \A r \in Refs : ref[r] = "none"

Destroy == /\ alive
           /\ OwnerMayDestroy
           /\ alive' = FALSE
           /\ UNCHANGED <<word, joinOp, ref, seen, joinsRun, copies>>

-----------------------------------------------------------------------------
RefStep(r) == \/ TryGetLoad(r)
              \/ TryGetRefused(r)
              \/ TryGetExchange(r)
              \/ TryGetRetry(r)

Next == \/ \E r \in Refs : RefStep(r)
        \/ \E r, s \in Refs : Copy(r, s)
        \/ \E x \in Holders : Decrement(x) \/ Execute(x)
        \/ Close
        \/ StartJoin
        \/ Destroy

(* A thread that has begun to drop a reference or to run the join goes on, *)
(* and the work behind every ref ends some day: what a join waits for.     *)
(* Nothing obliges the owner to close, join or destroy.                    *)
Fairness == \A x \in Holders : WF_vars(Decrement(x)) /\ WF_vars(Execute(x))

Spec == Init /\ [][Next]_vars /\ Fairness

-----------------------------------------------------------------------------
(* Properties *)

(* The state has the types of the code's members. *)
TypeOk == /\ word \in Nat
          /\ joinOp \in {"null", "join"}
          /\ ref \in [Holders -> RefStates]
          /\ seen \in [Refs -> Nat]
          /\ joinsRun \in Nat
          /\ alive \in BOOLEAN
          /\ copies \in 0..MaxCopies

Held == {x \in Holders : ref[x] = "held"}

(* The count is the number of references in existence, the joiner's own    *)
(* included: no interleaving of CAS, add and subtract loses one.           *)
CountIsExact == Count(word) = Cardinality(Held)

(* The join operation runs at most once, only when the last ref has gone,  *)
(* and then nobody is about to run it again.                               *)
JoinRunsLast == \/ joinsRun = 0
                \/ /\ joinsRun = 1
                   /\ Held = {}
                   /\ \A x \in Holders : ref[x] # "last"

(* Whoever is about to call join_op_->execute() finds join_op_ stored.     *)
LastFindsJoinOp == \A x \in Holders : ref[x] = "last" => joinOp # "null"

(* No thread goes on to access a scope whose owner has destroyed it, and   *)
(* the destructor's assertion held when it ran.                            *)
DestroyedIsFinal == ~alive => /\ IsInValidFinalState
                              /\ \A r \in Refs : ref[r] = "none"
                              /\ ref[Join] # "last"

(* Why the properties hold: the count is exact, the joiner's reference is  *)
(* in it until join_op_ is stored, and a count of zero means that exactly  *)
(* one thread has run the join or is about to.                             *)
JoinerHoldsUntilStored == /\ ref[Join] # "trying"
                          /\ joinOp = "null" => ref[Join] = "held"

ZeroMeansJoining ==
    \/ /\ Count(word) > 0
       /\ joinsRun = 0
       /\ \A x \in Holders : ref[x] # "last"
    \/ /\ Count(word) = 0
       /\ joinsRun = 1
       /\ \A x \in Holders : ref[x] # "last"
    \/ /\ Count(word) = 0
       /\ joinsRun = 0
       /\ \E x \in Holders : /\ ref[x] = "last"
                            /\ \A y \in Holders \ {x} : ref[y] # "last"

IInv == /\ TypeOk
        /\ CountIsExact
        /\ JoinerHoldsUntilStored
        /\ ZeroMeansJoining
        /\ DestroyedIsFinal

(* A ref is obtained from the scope (as opposed to copied from another     *)
(* one) only in a step that finds it open and not joined.                  *)
AdmitsOnlyWhileOpen ==
    [][\A r \in Refs : ref[r] = "trying" /\ ref'[r] = "held"
                          => ~Closed(word) /\ joinsRun = 0]_vars

-----------------------------------------------------------------------------
(* Refinement: this is an implementation of Scope. *)

Abstract == INSTANCE Scope WITH
    work <- {r \in Refs : ref[r] = "held"},
    open <- ~Closed(word) /\ joinsRun = 0,
    join <- IF joinsRun > 0 THEN "done"
            ELSE IF joinOp # "null" THEN "pending" ELSE "none"

(* Every behaviour of the reference count is one the scope's documentation *)
(* allows, and a join with nothing left to wait for completes.             *)
ImplementsScope == Abstract!Spec

(* The safety part of the same claim. *)
ImplementsScopeSafely == Abstract!Safety
=============================================================================
