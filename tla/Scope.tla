-------------------------------- MODULE Scope --------------------------------
(***************************************************************************)
(* What a counting_scope promises its users, without its reference count.  *)
(*                                                                         *)
(* Work is admitted while the scope is open, work that was admitted may    *)
(* fork more work even after close() (a nest sender is copied), and a      *)
(* join completes once, when no work is left, after which the scope is     *)
(* implicitly closed.  CountingScope is shown to implement this module.    *)
(***************************************************************************)
CONSTANT Refs              \* every piece of work that may ever be admitted

VARIABLES work,            \* the work that is in the scope
          open,            \* may new work still be admitted?
          join             \* "none", "pending" or "done"

vars == <<work, open, join>>

Init == /\ work = {}
        /\ open = TRUE
        /\ join = "none"

(* New work enters an open scope. *)
Admit(r) == /\ open
            /\ r \notin work
            /\ work' = work \cup {r}
            /\ UNCHANGED <<open, join>>

(* Work inside the scope brings in more work; closing does not prevent it. *)
Fork(r, s) == /\ r \in work
              /\ s \notin work
              /\ work' = work \cup {s}
              /\ UNCHANGED <<open, join>>

Finish(r) == /\ r \in work
             /\ work' = work \ {r}
             /\ UNCHANGED <<open, join>>

Close == /\ open' = FALSE
         /\ UNCHANGED <<work, join>>

RequestJoin == /\ join = "none"
               /\ join' = "pending"
               /\ UNCHANGED <<work, open>>

(* "The join() operation completes once all of the work added to the scope *)
(* has completed.  The scope becomes implicitly closed."                   *)
CompleteJoin == /\ join = "pending"
                /\ work = {}
                /\ join' = "done"
                /\ open' = FALSE
                /\ UNCHANGED work

Next == \/ \E r \in Refs : Admit(r) \/ Finish(r)
        \/ \E r, s \in Refs : Fork(r, s)
        \/ Close
        \/ RequestJoin
        \/ CompleteJoin

Safety == Init /\ [][Next]_vars

(* A join that has nothing left to wait for does complete. *)
Spec == Safety /\ WF_vars(CompleteJoin)
=============================================================================
