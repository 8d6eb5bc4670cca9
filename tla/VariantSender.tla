----------------------------- MODULE VariantSender -----------------------------
(***************************************************************************)
(* variant_sender and variant_op over variant_child_operation: raw storage *)
(* for one of several alternatives and the index of the one that is in it. *)
(* The type is forgotten when an object is made and found again from the   *)
(* index by dispatch_index, so that a wrong index destroys or calls an     *)
(* object as something that it is not.                                     *)
(*                                                                         *)
(* Objects come and go in two places for senders (a variant_sender is      *)
(* moved or copied from one to the other) and one for the operation.       *)
(***************************************************************************)
EXTENDS Naturals, Sequences, FiniteSetsExt

CONSTANTS Alternatives,  \* Senders...: a sequence of types
          IndexMax,      \* the largest value of the smallest type of index
          Chunk          \* the cases of one switch of dispatch_index

VARIABLES senders,       \* the two variant_sender objects
          op,            \* the variant_op object, with what its child does
          throws         \* how many constructors have thrown

vars == <<senders, op, throws>>

MaxThrows == 1

SenderCount == Len(Alternatives)
Indices == 0..SenderCount - 1
TypeAt(i) == Alternatives[i + 1]
Types == {TypeAt(i) : i \in Indices}

(* An object that was moved from is one that can still be destroyed.       *)
None == [type |-> "none", index |-> 0]
NoOp == [type |-> "none", index |-> 0, child |-> "none"]

(* smallest_unsigned_integer_for, with IndexMax for the first limit *)
AsIndex(i) == IF SenderCount - 1 <= IndexMax THEN i % (IndexMax + 1) ELSE i

(* index_of_v: the first match *)
index_of(type) == Min({i \in Indices : TypeAt(i) = type})

(* Mutant: the last case of each switch is lost. *)
DispatchShort(index) ==
    LET from[first \in 0..SenderCount] ==
            IF first >= SenderCount THEN "unreachable"
            ELSE IF index \in first..Min({first + Chunk - 2, SenderCount - 1}) THEN TypeAt(index)
            ELSE from[Min({first + Chunk, SenderCount})]
    IN  from[0]

(* dispatch_index: a switch over the first indices, whose default is one   *)
(* over the rest; the type that func is called for.                        *)
Dispatch(index) ==
    LET from[first \in 0..SenderCount] ==
            IF first >= SenderCount THEN "unreachable"
            ELSE IF index \in first..Min({first + Chunk - 1, SenderCount - 1}) THEN TypeAt(index)
            ELSE from[Min({first + Chunk, SenderCount})]
    IN  from[0]

Init == /\ senders = [s \in 1..2 |-> None]
        /\ op = NoOp
        /\ throws = 0

-----------------------------------------------------------------------------
(* Objects.  A constructor that throws leaves nothing behind.              *)

Empty(s) == senders[s] = None
Put(s, object) == senders' = [senders EXCEPT ![s] = object]

Throws == /\ throws < MaxThrows
          /\ throws' = throws + 1
          /\ UNCHANGED <<senders, op>>

ConstructThrows == (\E s \in 1..2 : Empty(s)) /\ Throws
ConnectThrows == op = NoOp /\ (\E s \in 1..2 : ~Empty(s)) /\ Throws

ConstructFrom(s, type) ==
    /\ Empty(s)
    /\ Put(s, [type |-> type, index |-> AsIndex(index_of(type))])
    /\ UNCHANGED <<op, throws>>

(* in_place_index, as cond() uses it *)
ConstructInPlace(s, i) ==
    /\ Empty(s)
    /\ Put(s, [type |-> TypeAt(i), index |-> AsIndex(i)])
    /\ UNCHANGED <<op, throws>>

(* The move and the copy constructor construct the type that the other's   *)
(* index stands for, and both leave an object behind to be destroyed.      *)
ConstructFromOther(s, o) ==
    /\ Empty(s) /\ ~Empty(o)
    /\ Put(s, [type |-> Dispatch(senders[o].index), index |-> senders[o].index])
    /\ UNCHANGED <<op, throws>>

DestroySender(s) ==
    /\ ~Empty(s)
    /\ senders' = [senders EXCEPT ![s] = IF @.type = Dispatch(@.index)
                                         THEN None ELSE [@ EXCEPT !.type = "confused"]]
    /\ UNCHANGED <<op, throws>>

-----------------------------------------------------------------------------
(* The operation: its child is made in place, and lives as long as it.     *)

Connect(s) ==
    /\ op = NoOp /\ ~Empty(s)
    /\ op' = [type |-> Dispatch(senders[s].index),
              index |-> AsIndex(senders[s].index), child |-> "constructed"]
    /\ UNCHANGED <<senders, throws>>

(* start(), request_stop() and the destructor reach the child by index.    *)
Reach(child, from) ==
    /\ op # NoOp /\ op.child \in from
    /\ op' = IF op.type = Dispatch(op.index) THEN [op EXCEPT !.child = child]
                                             ELSE [op EXCEPT !.type = "confused"]
    /\ UNCHANGED <<senders, throws>>

Start == Reach("started", {"constructed"})
RequestStop == Reach("stopped", {"started"})

(* set_result passes the result on. *)
Complete == /\ op.child \in {"started", "stopped"}
            /\ op' = [op EXCEPT !.child = "done"]
            /\ UNCHANGED <<senders, throws>>

DestroyOp == /\ op.child \in {"constructed", "done"}
             /\ op' = IF op.type = Dispatch(op.index) THEN NoOp
                                                      ELSE [op EXCEPT !.type = "confused"]
             /\ UNCHANGED <<senders, throws>>

-----------------------------------------------------------------------------
Next == \/ \E s \in 1..2 : \/ \E type \in Types : ConstructFrom(s, type)
                           \/ \E i \in Indices : ConstructInPlace(s, i)
                           \/ \E o \in {1, 2} \ {s} : ConstructFromOther(s, o)
                           \/ DestroySender(s)
                           \/ Connect(s)
        \/ ConstructThrows \/ ConnectThrows
        \/ Start \/ RequestStop \/ Complete \/ DestroyOp

Spec == Init /\ [][Next]_vars

-----------------------------------------------------------------------------
(* Properties *)

(* The indices are in range and the child's stages those of an operation.  *)
TypeOk == /\ \A s \in 1..2 : senders[s].index \in Indices
          /\ op.index \in Indices
          /\ op.child \in {"none", "constructed", "started", "stopped", "done"}

(* Whatever constructors, moves, copies and connects came before, the      *)
(* object in the storage is the alternative that the index stands for and  *)
(* that dispatch_index finds: no object is destroyed, started or stopped   *)
(* as one of another type, and the precondition of dispatch_index holds.   *)
IndexNamesTheObject ==
    \A object \in {senders[1], senders[2], op} :
       object.type # "none" => /\ object.type = TypeAt(object.index)
                               /\ Dispatch(object.index) = object.type
=============================================================================
