------------------------------ MODULE ScopeProofs ------------------------------
(***************************************************************************)
(* The counting scope, for every finite set of refs: the reference count   *)
(* is exact, the join operation runs once and last, nothing touches a      *)
(* destroyed scope, and the scope implements the safety part of Scope.     *)
(* The work on it, for every finite set of work: each ref is carried by    *)
(* the work that must release it, the memory of spawned work is given      *)
(* back, and the join waits for what was started.  The state that a future *)
(* and its operation share with the spawned child: each ends once, and is  *)
(* not touched afterwards.                                                 *)
(***************************************************************************)
EXTENDS ScopeWork, Sequences, FiniteSetTheorems, TLAPS

-----------------------------------------------------------------------------
(* The scope *)

(* Arithmetic of the packed word: a reference is worth two, the closed     *)
(* flag is the low bit and never disturbs the count.                       *)
LEMMA WordArithmetic ==
  ASSUME NEW w \in Nat
  PROVE  /\ Count(w) \in Nat
         /\ w + ref_count_increment \in Nat
         /\ Count(w + ref_count_increment) = Count(w) + 1
         /\ Closed(w + ref_count_increment) <=> Closed(w)
         /\ Count(w) > 0 => /\ w - ref_count_increment \in Nat
                            /\ Count(w - ref_count_increment) = Count(w) - 1
                            /\ Closed(w - ref_count_increment) <=> Closed(w)
         /\ w + closed_flag \in Nat
         /\ ~Closed(w) => /\ Count(w + closed_flag) = Count(w)
                          /\ Closed(w + closed_flag)
         /\ IsLast(w) <=> Count(w) <= 1
         /\ IsClosed(w) <=> (Closed(w) \/ Count(w) = 0)
BY DEF Count, Closed, ref_count_increment, closed_flag, IsLast, IsClosed

(* There are finitely many references in existence. *)
LEMMA HeldIsFinite == IsFiniteSet(Held)
<1>1. IsFiniteSet(Holders)
  BY RefsAssumption, FS_AddElement DEF Holders
<1>. QED
  BY <1>1, FS_Subset DEF Held

(* A reference that appears is counted once. *)
LEMMA HeldGrows ==
  ASSUME NEW x \in Holders, x \notin Held, Held' = Held \cup {x}
  PROVE  Cardinality(Held') = Cardinality(Held) + 1
BY HeldIsFinite, FS_AddElement

(* A reference that goes away was counted. *)
LEMMA HeldShrinks ==
  ASSUME NEW x \in Holders, x \in Held, Held' = Held \ {x}
  PROVE  /\ Cardinality(Held') = Cardinality(Held) - 1
         /\ Cardinality(Held) > 0
<1>1. Cardinality(Held) \in Nat
  BY HeldIsFinite, FS_CardinalityType
<1>2. Cardinality(Held) # 0
  BY HeldIsFinite, FS_EmptySet
<1>. QED
  BY <1>1, <1>2, HeldIsFinite, FS_RemoveElement

(* With a count of zero there is no reference left. *)
LEMMA ZeroMeansNoneHeld ==
  ASSUME CountIsExact, Count(word) = 0
  PROVE  Held = {}
BY HeldIsFinite, FS_EmptySet DEF CountIsExact

-----------------------------------------------------------------------------
(* The initial state has the joiner's reference and no other. *)
LEMMA InitIInv == Init => IInv
<1>. SUFFICES ASSUME Init PROVE IInv
  OBVIOUS
<1>1. TypeOk
  BY RefsAssumption, MaxCopiesAssumption
  DEF Init, TypeOk, RefStates, Holders, ref_count_increment
<1>2. Count(word) = 1
  BY DEF Init, Count, ref_count_increment
<1>3. Held = {Join}
  BY RefsAssumption DEF Init, Held, Holders
<1>4. CountIsExact
  BY <1>2, <1>3, FS_Singleton DEF CountIsExact
<1>5. JoinerHoldsUntilStored
  BY DEF Init, JoinerHoldsUntilStored, Holders
<1>6. ZeroMeansJoining
  BY <1>2 DEF Init, ZeroMeansJoining, Holders
<1>7. DestroyedIsFinal
  BY DEF Init, DestroyedIsFinal
<1>. QED
  BY <1>1, <1>4, <1>5, <1>6, <1>7 DEF IInv

(* A step of the system keeps the invariant.  What each action owes is the *)
(* type of the new state, the exactness of the count and what a count of   *)
(* zero means.                                                             *)
LEMMA StepIInv == IInv /\ [Next]_vars => IInv'
<1>. SUFFICES ASSUME IInv, [Next]_vars PROVE IInv'
  OBVIOUS
<1>. USE DEF IInv
<1>w. /\ word \in Nat
      /\ Count(word) \in Nat
      /\ word + ref_count_increment \in Nat
      /\ Count(word + ref_count_increment) = Count(word) + 1
      /\ Count(word) > 0 => /\ word - ref_count_increment \in Nat
                            /\ Count(word - ref_count_increment) = Count(word) - 1
      /\ word + closed_flag \in Nat
      /\ ~Closed(word) => Count(word + closed_flag) = Count(word)
      /\ IsLast(word) <=> Count(word) <= 1
      /\ IsClosed(word) <=> (Closed(word) \/ Count(word) = 0)
  BY WordArithmetic DEF TypeOk
<1>n. Cardinality(Held) \in Nat
  BY HeldIsFinite, FS_CardinalityType
<1>j. Join \in Holders /\ Refs \subseteq Holders
  BY DEF Holders
<1>1. ASSUME NEW r \in Refs, TryGetLoad(r) \/ TryGetRefused(r) \/ TryGetRetry(r)
      PROVE  IInv'
  <2>1. TypeOk'
    BY <1>1, <1>j, <1>w DEF TryGetLoad, TryGetRefused, TryGetRetry, TypeOk, RefStates
  <2>2. Held' = Held
    BY <1>1, <1>j DEF TryGetLoad, TryGetRefused, TryGetRetry, TypeOk, Held
  <2>3. CountIsExact'
    BY <1>1, <2>2 DEF TryGetLoad, TryGetRefused, TryGetRetry, CountIsExact
  <2>4. JoinerHoldsUntilStored'
    BY <1>1, <1>j, RefsAssumption
    DEF TryGetLoad, TryGetRefused, TryGetRetry, TypeOk, JoinerHoldsUntilStored
  <2>5. ZeroMeansJoining'
    BY <1>1, <1>j DEF TryGetLoad, TryGetRefused, TryGetRetry, TypeOk, ZeroMeansJoining
  <2>6. DestroyedIsFinal'
    BY <1>1, <1>j, RefsAssumption DEF TryGetLoad, TryGetRefused, TryGetRetry, TypeOk,
       DestroyedIsFinal, IsInValidFinalState
  <2>. QED
    BY <2>1, <2>3, <2>4, <2>5, <2>6
<1>2. ASSUME NEW r \in Refs, TryGetExchange(r)
      PROVE  IInv'
  <2>1. Count(word) > 0
    BY <1>2, <1>w DEF TryGetExchange
  <2>2. TypeOk'
    BY <1>2, <1>j, <1>w DEF TryGetExchange, TypeOk, RefStates
  <2>3. r \notin Held /\ Held' = Held \cup {r}
    BY <1>2, <1>j DEF TryGetExchange, TypeOk, Held
  <2>4. CountIsExact'
    BY <1>2, <1>j, <1>w, <2>3, HeldGrows DEF TryGetExchange, CountIsExact
  <2>5. JoinerHoldsUntilStored'
    BY <1>2, <1>j, RefsAssumption DEF TryGetExchange, TypeOk, JoinerHoldsUntilStored
  <2>6. ZeroMeansJoining'
    BY <1>2, <1>j, <1>w, <2>1 DEF TryGetExchange, TypeOk, ZeroMeansJoining
  <2>7. DestroyedIsFinal'
    BY <1>2 DEF TryGetExchange, DestroyedIsFinal
  <2>. QED
    BY <2>2, <2>4, <2>5, <2>6, <2>7
<1>3. ASSUME NEW r \in Refs, NEW s \in Refs, Copy(r, s)
      PROVE  IInv'
  <2>1. Count(word) > 0
    <3>1. Held # {}
      BY <1>3, <1>j DEF Copy, Held
    <3>. QED
      BY <3>1, <1>w, ZeroMeansNoneHeld
  <2>2. TypeOk'
    BY <1>3, <1>j, <1>w, MaxCopiesAssumption DEF Copy, TypeOk, RefStates
  <2>3. s \notin Held /\ Held' = Held \cup {s}
    BY <1>3, <1>j DEF Copy, TypeOk, Held
  <2>4. CountIsExact'
    BY <1>3, <1>j, <1>w, <2>3, HeldGrows DEF Copy, CountIsExact
  <2>5. JoinerHoldsUntilStored'
    BY <1>3, <1>j, RefsAssumption DEF Copy, TypeOk, JoinerHoldsUntilStored
  <2>6. ZeroMeansJoining'
    BY <1>3, <1>j, <1>w, <2>1 DEF Copy, TypeOk, ZeroMeansJoining
  <2>7. DestroyedIsFinal'
    BY <1>3 DEF Copy, DestroyedIsFinal
  <2>. QED
    BY <2>2, <2>4, <2>5, <2>6, <2>7
<1>4. ASSUME NEW x \in Holders, Decrement(x)
      PROVE  IInv'
  <2>1. x \in Held /\ Held' = Held \ {x}
    BY <1>4 DEF Decrement, TypeOk, Held
  <2>2. Count(word) > 0
    BY <2>1, HeldShrinks DEF CountIsExact
  <2>3. TypeOk'
    BY <1>4, <1>w, <2>2 DEF Decrement, TypeOk, RefStates
  <2>4. CountIsExact'
    BY <1>4, <1>w, <2>1, <2>2, HeldShrinks DEF Decrement, CountIsExact
  <2>5. JoinerHoldsUntilStored'
    BY <1>4, <1>j, RefsAssumption DEF Decrement, TypeOk, JoinerHoldsUntilStored
  <2>6. ZeroMeansJoining'
    <3>1. CASE Count(word) = 1
      BY <1>4, <1>w, <3>1 DEF Decrement, TypeOk, ZeroMeansJoining
    <3>2. CASE Count(word) > 1
      BY <1>4, <1>w, <3>2 DEF Decrement, TypeOk, ZeroMeansJoining
    <3>. QED
      BY <3>1, <3>2, <2>2, <1>w
  <2>7. DestroyedIsFinal'
    <3>1. ~alive => x = Join
      BY <1>4 DEF Decrement, DestroyedIsFinal, Holders
    <3>2. ~alive => FALSE
      BY <3>1, <1>4, <2>2, <1>w DEF Decrement, DestroyedIsFinal, IsInValidFinalState
    <3>. QED
      BY <1>4, <3>2 DEF Decrement, DestroyedIsFinal
  <2>. QED
    BY <2>3, <2>4, <2>5, <2>6, <2>7
<1>5. ASSUME NEW x \in Holders, Execute(x)
      PROVE  IInv'
  <2>1. TypeOk'
    BY <1>5 DEF Execute, TypeOk, RefStates
  <2>2. Held' = Held
    BY <1>5 DEF Execute, TypeOk, Held
  <2>3. CountIsExact'
    BY <1>5, <2>2 DEF Execute, CountIsExact
  <2>4. JoinerHoldsUntilStored'
    BY <1>5, <1>j DEF Execute, TypeOk, JoinerHoldsUntilStored
  <2>5. ZeroMeansJoining'
    BY <1>5 DEF Execute, TypeOk, ZeroMeansJoining
  <2>6. DestroyedIsFinal'
    BY <1>5 DEF Execute, DestroyedIsFinal, IsInValidFinalState, TypeOk, Holders
  <2>. QED
    BY <2>1, <2>3, <2>4, <2>5, <2>6
<1>6. CASE Close
  <2>1. TypeOk'
    BY <1>6, <1>w DEF Close, TypeOk
  <2>2. Held' = Held /\ Count(word') = Count(word)
    BY <1>6, <1>w DEF Close, Held
  <2>. QED
    BY <1>6, <2>1, <2>2
    DEF Close, CountIsExact, JoinerHoldsUntilStored, ZeroMeansJoining, DestroyedIsFinal
<1>7. CASE StartJoin
  BY <1>7
  DEF StartJoin, TypeOk, CountIsExact, Held, JoinerHoldsUntilStored, ZeroMeansJoining,
      DestroyedIsFinal
<1>8. CASE Destroy
  <2>1. /\ TypeOk'
        /\ CountIsExact'
        /\ JoinerHoldsUntilStored'
        /\ ZeroMeansJoining'
    BY <1>8
    DEF Destroy, TypeOk, CountIsExact, Held, JoinerHoldsUntilStored, ZeroMeansJoining
  <2>2. CASE joinsRun > 0
    <3>1. Held = {}
      BY <2>2, ZeroMeansNoneHeld DEF ZeroMeansJoining
    <3>2. Count(word) = 0 /\ \A x \in Holders : ref[x] # "last"
      BY <2>2 DEF ZeroMeansJoining
    <3>3. \A r \in Refs : ref[r] = "none"
      BY <1>8, <1>j, <3>1, <3>2 DEF Destroy, OwnerMayDestroy, Held, TypeOk, RefStates
    <3>4. joinOp # "null"
      BY <1>j, <3>1 DEF JoinerHoldsUntilStored, Held
    <3>. QED
      BY <1>8, <1>j, <2>1, <3>2, <3>3, <3>4 DEF Destroy, DestroyedIsFinal,
         IsInValidFinalState
  <2>3. CASE joinOp = "null" /\ \A r \in Refs : ref[r] = "none"
    <3>1. Held = {Join}
      BY <1>j, <2>3 DEF JoinerHoldsUntilStored, Held, Holders
    <3>2. Count(word) = 1
      BY <3>1, FS_Singleton DEF CountIsExact
    <3>. QED
      BY <1>8, <2>1, <2>3, <3>2
      DEF Destroy, DestroyedIsFinal, IsInValidFinalState, JoinerHoldsUntilStored
  <2>. QED
    BY <1>8, <2>2, <2>3 DEF Destroy, OwnerMayDestroy
<1>9. CASE UNCHANGED vars
  BY <1>9
  DEF vars, TypeOk, CountIsExact, Held, JoinerHoldsUntilStored, ZeroMeansJoining,
      DestroyedIsFinal, IsInValidFinalState
<1>. QED
  BY <1>1, <1>2, <1>3, <1>4, <1>5, <1>6, <1>7, <1>8, <1>9 DEF Next, RefStep

(* The inductive invariant: in every reachable state the count is exact,   *)
(* the joiner's reference is in it until join_op_ is stored, and a count   *)
(* of zero means that exactly one thread has run or will run the join.     *)
THEOREM InvariantHolds == Spec => []IInv
<1>. QED
  BY InitIInv, StepIInv, PTL DEF Spec

(* decrement_ref_count and increment_ref_count never find a count that     *)
(* differs from the number of counting_scope_refs in existence.            *)
THEOREM CountIsAlwaysExact == Spec => []CountIsExact
<1>1. IInv => CountIsExact
  BY DEF IInv
<1>. QED
  BY <1>1, InvariantHolds, PTL

(* The join operation runs at most once and only when no ref is left, so   *)
(* join() never completes while admitted work is outstanding.              *)
THEOREM JoinAlwaysRunsLast == Spec => []JoinRunsLast
<1>1. IInv => JoinRunsLast
  <2>. SUFFICES ASSUME IInv, joinsRun # 0 PROVE JoinRunsLast
    BY DEF JoinRunsLast
  <2>1. /\ Count(word) = 0
        /\ joinsRun = 1
        /\ \A x \in Holders : ref[x] # "last"
    BY DEF IInv, ZeroMeansJoining
  <2>2. Held = {}
    BY <2>1, ZeroMeansNoneHeld DEF IInv
  <2>. QED
    BY <2>1, <2>2 DEF JoinRunsLast
<1>. QED
  BY <1>1, InvariantHolds, PTL

(* The call join_op_->execute(join_op_) never goes through a null pointer. *)
THEOREM LastAlwaysFindsJoinOp == Spec => []LastFindsJoinOp
<1>1. IInv => LastFindsJoinOp
  <2>. SUFFICES ASSUME IInv, NEW x \in Holders, ref[x] = "last"
                PROVE  joinOp # "null"
    BY DEF LastFindsJoinOp
  <2>1. Held = {}
    BY ZeroMeansNoneHeld DEF IInv, ZeroMeansJoining
  <2>. QED
    BY <2>1 DEF IInv, JoinerHoldsUntilStored, Held, Holders
<1>. QED
  BY <1>1, InvariantHolds, PTL

(* No thread touches a scope whose owner has destroyed it, and the         *)
(* destructor's assertion holds whenever the owner may destroy the scope.  *)
THEOREM DestructionIsSafe == Spec => []DestroyedIsFinal
<1>1. IInv => DestroyedIsFinal
  BY DEF IInv
<1>. QED
  BY <1>1, InvariantHolds, PTL

(* A ref obtained through a token comes from a scope that was open and not *)
(* joined at that very step, whatever the token's thread had read before.  *)
THEOREM AdmissionRespectsClose == Spec => AdmitsOnlyWhileOpen
<1>1. IInv /\ [Next]_vars =>
        [\A r \in Refs : ref[r] = "trying" /\ ref'[r] = "held"
                           => ~Closed(word) /\ joinsRun = 0]_vars
  <2>. SUFFICES ASSUME IInv, Next, NEW r \in Refs,
                       ref[r] = "trying", ref'[r] = "held"
                PROVE  ~Closed(word) /\ joinsRun = 0
    OBVIOUS
  <2>. USE DEF IInv, TypeOk
  <2>1. Refs \subseteq Holders
    BY DEF Holders
  <2>2. CASE TryGetExchange(r)
    <3>1. ~Closed(word) /\ Count(word) > 0
      BY <2>2, WordArithmetic DEF TryGetExchange
    <3>. QED
      BY <3>1 DEF ZeroMeansJoining
  <2>3. \A q \in Refs : RefStep(q) => q = r /\ TryGetExchange(r)
    BY <2>1 DEF RefStep, TryGetLoad, TryGetRefused, TryGetRetry, TryGetExchange
  <2>4. \A q, s \in Refs : ~Copy(q, s)
    BY <2>1 DEF Copy
  <2>5. \A x \in Holders : ~Decrement(x) /\ ~Execute(x)
    BY <2>1 DEF Decrement, Execute
  <2>6. ~Close /\ ~StartJoin /\ ~Destroy
    BY DEF Close, StartJoin, Destroy
  <2>. QED
    BY <2>2, <2>3, <2>4, <2>5, <2>6 DEF Next
<1>. QED
  BY <1>1, InvariantHolds, PTL DEF Spec, AdmitsOnlyWhileOpen

-----------------------------------------------------------------------------
(* Names for the abstract state the refinement mapping yields. *)
AbsWork == {r \in Refs : ref[r] = "held"}
AbsOpen == ~Closed(word) /\ joinsRun = 0
AbsJoin == IF joinsRun > 0 THEN "done"
           ELSE IF joinOp # "null" THEN "pending" ELSE "none"

(* Every step of the reference count is a step of the abstract scope or    *)
(* leaves the abstract state alone.                                        *)
LEMMA StepSimulates == IInv /\ [Next]_vars => [Abstract!Next]_(Abstract!vars)
<1>. SUFFICES ASSUME IInv, Next PROVE [Abstract!Next]_(Abstract!vars)
  <2>1. UNCHANGED vars => UNCHANGED Abstract!vars
    BY DEF vars, Abstract!vars
  <2>. QED
    BY <2>1
<1>. USE DEF IInv, TypeOk
<1>j. Join \in Holders /\ Refs \subseteq Holders /\ Join \notin Refs
  BY RefsAssumption DEF Holders
<1>1. ASSUME NEW r \in Refs, TryGetLoad(r) \/ TryGetRefused(r) \/ TryGetRetry(r)
      PROVE  UNCHANGED Abstract!vars
  <2>1. AbsWork' = AbsWork
    BY <1>1, <1>j DEF TryGetLoad, TryGetRefused, TryGetRetry, AbsWork
  <2>. QED
    BY <1>1, <2>1 DEF TryGetLoad, TryGetRefused, TryGetRetry, AbsWork, Abstract!vars
<1>2. ASSUME NEW r \in Refs, TryGetExchange(r)
      PROVE  Abstract!Admit(r)
  <2>1. /\ ~Closed(word) /\ ~Closed(word')
        /\ joinsRun = 0 /\ joinsRun' = 0
    BY <1>2, WordArithmetic DEF TryGetExchange, ZeroMeansJoining
  <2>2. r \notin AbsWork /\ AbsWork' = AbsWork \cup {r}
    BY <1>2, <1>j DEF TryGetExchange, AbsWork
  <2>3. AbsJoin' = AbsJoin
    BY <1>2 DEF TryGetExchange, AbsJoin
  <2>. QED
    BY <2>1, <2>2, <2>3 DEF Abstract!Admit, AbsWork, AbsJoin
<1>3. ASSUME NEW r \in Refs, NEW s \in Refs, Copy(r, s)
      PROVE  Abstract!Fork(r, s)
  <2>1. Closed(word') <=> Closed(word)
    BY <1>3, WordArithmetic DEF Copy
  <2>2. r \in AbsWork /\ s \notin AbsWork /\ AbsWork' = AbsWork \cup {s}
    BY <1>3, <1>j DEF Copy, AbsWork
  <2>. QED
    BY <1>3, <2>1, <2>2 DEF Copy, Abstract!Fork, AbsWork
<1>4. ASSUME NEW r \in Refs, Decrement(r)
      PROVE  Abstract!Finish(r)
  <2>1. Count(word) > 0
    <3>1. Held # {}
      BY <1>4, <1>j DEF Decrement, Held
    <3>. QED
      BY <3>1, WordArithmetic, ZeroMeansNoneHeld
  <2>2. Closed(word') <=> Closed(word)
    BY <1>4, <2>1, WordArithmetic DEF Decrement
  <2>3. r \in AbsWork /\ AbsWork' = AbsWork \ {r}
    BY <1>4, <1>j DEF Decrement, AbsWork
  <2>. QED
    BY <1>4, <2>2, <2>3 DEF Decrement, Abstract!Finish, AbsWork
<1>5. CASE Decrement(Join)
  <2>1. Count(word) > 0
    <3>1. Held # {}
      BY <1>5, <1>j DEF Decrement, Held
    <3>. QED
      BY <3>1, WordArithmetic, ZeroMeansNoneHeld
  <2>2. Closed(word') <=> Closed(word)
    BY <1>5, <2>1, WordArithmetic DEF Decrement
  <2>3. AbsWork' = AbsWork
    BY <1>5, <1>j DEF Decrement, AbsWork
  <2>. QED
    BY <1>5, <2>2, <2>3 DEF Decrement, Abstract!vars, AbsWork
<1>6. ASSUME NEW x \in Holders, Execute(x)
      PROVE  Abstract!CompleteJoin
  <2>1. Count(word) = 0 /\ joinsRun = 0
    BY <1>6 DEF Execute, ZeroMeansJoining
  <2>2. Held = {}
    BY <2>1, ZeroMeansNoneHeld
  <2>3. joinOp # "null"
    BY <2>2, <1>j DEF JoinerHoldsUntilStored, Held
  <2>4. AbsWork = {} /\ AbsWork' = {}
    BY <1>6, <1>j, <2>2 DEF Execute, AbsWork, Held
  <2>. QED
    BY <1>6, <2>1, <2>3, <2>4 DEF Execute, Abstract!CompleteJoin, AbsWork
<1>7. CASE Close
  <2>1. Closed(word')
    BY <1>7, WordArithmetic DEF Close
  <2>. QED
    BY <1>7, <2>1 DEF Close, Abstract!Next, Abstract!Close
<1>8. CASE StartJoin
  <2>1. joinsRun = 0
    <3>1. Held # {}
      BY <1>8, <1>j DEF StartJoin, JoinerHoldsUntilStored, Held
    <3>. QED
      BY <3>1, WordArithmetic, ZeroMeansNoneHeld DEF ZeroMeansJoining
  <2>. QED
    BY <1>8, <2>1 DEF StartJoin, Abstract!Next, Abstract!RequestJoin
<1>9. CASE Destroy
  BY <1>9 DEF Destroy, Abstract!vars
<1>. QED
  BY <1>1, <1>2, <1>3, <1>4, <1>5, <1>6, <1>7, <1>8, <1>9
  DEF Next, RefStep, Holders, Abstract!Next

(* counting_scope implements the scope its documentation describes: work   *)
(* enters only while the scope is open, copies of a nest sender may bring  *)
(* in more, and the join completes when, and only when, none is left.      *)
THEOREM ScopeIsImplemented == Spec => ImplementsScopeSafely
<1>1. Init => Abstract!Init
  BY RefsAssumption
  DEF Init, Abstract!Init, Closed, Holders, ref_count_increment, closed_flag
<1>. QED
  BY <1>1, StepSimulates, InvariantHolds, PTL
  DEF Spec, ImplementsScopeSafely, Abstract!Safety

-----------------------------------------------------------------------------
(* The work: what the scope itself guarantees, the exact count and the     *)
(* join that runs last, holds of it because a step of the work is a step   *)
(* of the scope or none.                                                   *)

(* The states in which a ref can be while its work is in a phase *)
PhasesFitRefs ==
    \A w \in Refs :
       /\ phase[w] \in {"none", "delivering", "delivered"} => ref[w] = "none"
       /\ phase[w] = "getting" => ref[w] = "trying"
       /\ phase[w] \in {"sender", "op"} => ref[w] \in {"held", "none"}
       /\ phase[w] \in {"spawning", "constructing", "running", "completed"}
             => ref[w] = "held"
       /\ phase[w] \in {"resetting", "releasing", "throwing"} => ref[w] # "trying"

(* Only nest() makes senders and operations, and only spawn() a state. *)
PhasesFitKinds ==
    \A w \in Refs : /\ phase[w] \in {"sender", "op"} => kind[w] = "nest"
                    /\ phase[w] \in {"spawning", "constructing", "throwing", "completed"}
                          => kind[w] = "spawn"

WorkIInv == /\ IInv
            /\ WorkTypeOk
            /\ PhasesFitRefs
            /\ PhasesFitKinds
            /\ MemoryIsOwned

LEMMA WorkInitIInv == WorkInit => WorkIInv
<1>. SUFFICES ASSUME WorkInit PROVE WorkIInv
  OBVIOUS
<1>1. IInv
  BY InitIInv DEF WorkInit
<1>2. \A w \in Refs : ref[w] = "none"
  BY RefsAssumption DEF WorkInit, Init, Holders
<1>. QED
  BY <1>1, <1>2 DEF WorkInit, WorkIInv, WorkTypeOk, IInv, Phases, PhasesFitRefs,
     PhasesFitKinds, MemoryIsOwned

-----------------------------------------------------------------------------
(* A step of the work is a step of the scope, or leaves the scope alone. *)
LEMMA WorkStepsTheScope == WorkNext => [Next]_vars
<1>1. ASSUME NEW w \in Refs, WorkStep(w) PROVE [Next]_vars
  <2>1. CASE Begin(w) \/ Retry(w) \/ Admitted(w) \/ Refused(w)
    BY <2>1 DEF Begin, Retry, Admitted, Refused, Next, RefStep
  <2>2. CASE Release(w) \/ RunJoin(w)
    BY <2>2 DEF Release, RunJoin, Next, Holders
  <2>3. CASE Allocate(w) \/ AllocationThrows(w) \/ ConstructorThrows(w)
    BY <2>3 DEF Allocate, AllocationThrows, ConstructorThrows
  <2>4. CASE SpawnStart(w) \/ Connect(w) \/ Start(w) \/ Drop(w)
    BY <2>4 DEF SpawnStart, Connect, Start, Drop
  <2>5. CASE SourceCompletes(w) \/ FreeMemory(w) \/ Released(w) \/ Deliver(w) \/ DestroyOp(w)
    BY <2>5 DEF SourceCompletes, FreeMemory, Released, Deliver, DestroyOp
  <2>. QED
    BY <1>1, <2>1, <2>2, <2>3, <2>4, <2>5 DEF WorkStep
<1>2. ASSUME NEW w \in Refs, NEW v \in Refs, CopySender(w, v) PROVE [Next]_vars
  BY <1>2 DEF CopySender, Next
<1>3. CASE OwnerStep
  BY <1>3 DEF OwnerStep, Next, Holders
<1>. QED
  BY <1>1, <1>2, <1>3 DEF WorkNext

(* What the work adds to the scope's invariant. *)
Carried == WorkTypeOk /\ PhasesFitRefs /\ PhasesFitKinds /\ MemoryIsOwned

(* Entering the scope *)
LEMMA EnteringIsCarried ==
  ASSUME WorkIInv, TypeOk', NEW w \in Refs,
         Begin(w) \/ Retry(w) \/ Admitted(w) \/ Refused(w)
  PROVE  Carried'
<1>. USE DEF WorkIInv, Carried, WorkTypeOk, TypeOk, Phases, PhasesFitRefs,
         PhasesFitKinds, MemoryIsOwned, Holders, Enter
<1>1. CASE Begin(w)
  BY <1>1 DEF Begin, TryGetLoad
<1>2. CASE Retry(w)
  BY <1>2 DEF Retry, TryGetRetry
<1>3. CASE Admitted(w)
  BY <1>3 DEF Admitted, TryGetExchange
<1>4. CASE Refused(w)
  BY <1>4 DEF Refused, TryGetRefused
<1>. QED
  BY <1>1, <1>2, <1>3, <1>4

(* The life of spawned work, and of a nest sender and its operation *)
LEMMA LivingIsCarried ==
  ASSUME WorkIInv, TypeOk', NEW w \in Refs,
         \/ Allocate(w) \/ AllocationThrows(w) \/ ConstructorThrows(w)
         \/ SpawnStart(w) \/ Connect(w) \/ Start(w) \/ Drop(w)
         \/ SourceCompletes(w) \/ FreeMemory(w)
  PROVE  Carried'
<1>. USE DEF WorkIInv, Carried, WorkTypeOk, TypeOk, Phases, PhasesFitRefs,
         PhasesFitKinds, MemoryIsOwned, Holders, Enter, Active, vars
<1>1. CASE Allocate(w)
  BY <1>1 DEF Allocate
<1>2. CASE AllocationThrows(w)
  BY <1>2 DEF AllocationThrows
<1>3. CASE ConstructorThrows(w)
  BY <1>3 DEF ConstructorThrows
<1>4. CASE SpawnStart(w)
  BY <1>4 DEF SpawnStart
<1>5. CASE Connect(w)
  BY <1>5 DEF Connect
<1>6. CASE Start(w)
  BY <1>6 DEF Start
<1>7. CASE Drop(w)
  BY <1>7 DEF Drop
<1>8. CASE SourceCompletes(w)
  BY <1>8 DEF SourceCompletes
<1>9. CASE FreeMemory(w)
  BY <1>9 DEF FreeMemory
<1>. QED
  BY <1>1, <1>2, <1>3, <1>4, <1>5, <1>6, <1>7, <1>8, <1>9

(* Leaving the scope *)
LEMMA LeavingIsCarried ==
  ASSUME WorkIInv, TypeOk', NEW w \in Refs,
         Release(w) \/ RunJoin(w) \/ Released(w) \/ Deliver(w) \/ DestroyOp(w)
  PROVE  Carried'
<1>. USE DEF WorkIInv, Carried, WorkTypeOk, TypeOk, RefStates, Phases, PhasesFitRefs,
         PhasesFitKinds, MemoryIsOwned, Holders, Enter, vars
<1>1. CASE Release(w)
  BY <1>1 DEF Release, Decrement
<1>2. CASE RunJoin(w)
  BY <1>2 DEF RunJoin, Execute
<1>3. CASE Released(w)
  BY <1>3 DEF Released
<1>4. CASE Deliver(w)
  BY <1>4 DEF Deliver
<1>5. CASE DestroyOp(w)
  BY <1>5 DEF DestroyOp
<1>. QED
  BY <1>1, <1>2, <1>3, <1>4, <1>5

(* A copied sender has a ref of its own; the owner has the joiner's only.  *)
LEMMA CopyingIsCarried ==
  ASSUME WorkIInv, TypeOk', NEW w \in Refs, NEW v \in Refs, CopySender(w, v)
  PROVE  Carried'
BY DEF WorkIInv, Carried, WorkTypeOk, TypeOk, Phases, PhasesFitRefs, PhasesFitKinds,
       MemoryIsOwned, Holders, CopySender, Copy

LEMMA OwnerKeepsCarried ==
  ASSUME WorkIInv, TypeOk', OwnerStep
  PROVE  Carried'
<1>1. \A w \in Refs : ref'[w] = ref[w]
  <2>1. \A w \in Refs : w # Join /\ w \in Holders
    BY RefsAssumption DEF Holders
  <2>2. CASE Close \/ StartJoin \/ Destroy
    BY <2>2 DEF Close, StartJoin, Destroy
  <2>3. CASE Decrement(Join) \/ Execute(Join)
    BY <2>1, <2>3 DEF Decrement, Execute, WorkIInv, WorkTypeOk, TypeOk
  <2>. QED
    BY <2>2, <2>3 DEF OwnerStep
<1>. QED
  BY <1>1 DEF WorkIInv, Carried, WorkTypeOk, PhasesFitRefs, PhasesFitKinds,
     MemoryIsOwned, OwnerStep

LEMMA WorkStepIInv == WorkIInv /\ [WorkNext]_workVars => WorkIInv'
<1>. SUFFICES ASSUME WorkIInv, [WorkNext]_workVars PROVE WorkIInv'
  OBVIOUS
<1>1. [Next]_vars
  BY WorkStepsTheScope DEF workVars
<1>2. IInv'
  BY <1>1, StepIInv DEF WorkIInv
<1>3. TypeOk'
  BY <1>2 DEF IInv
<1>4. Carried'
  <2>1. CASE UNCHANGED workVars
    BY <2>1 DEF workVars, vars, WorkIInv, Carried, WorkTypeOk, TypeOk, PhasesFitRefs,
       PhasesFitKinds, MemoryIsOwned
  <2>. QED
    BY <1>3, <2>1, EnteringIsCarried, LivingIsCarried, LeavingIsCarried,
       CopyingIsCarried, OwnerKeepsCarried DEF WorkNext, WorkStep
<1>. QED
  BY <1>2, <1>4 DEF WorkIInv, Carried

-----------------------------------------------------------------------------
(* nest(), spawn() and spawn_future() neither drop a ref twice nor forget  *)
(* one: a ref that counts is carried by work that will release it, and no  *)
(* work runs without one, whatever is copied, thrown or refused.           *)
THEOREM RefsAreAlwaysCarried == WorkSpec => []RefsAreCarried
<1>1. WorkIInv => RefsAreCarried
  BY DEF WorkIInv, WorkTypeOk, Phases, PhasesFitRefs, RefsAreCarried, Active
<1>. QED
  BY WorkInitIInv, WorkStepIInv, <1>1, PTL DEF WorkSpec

(* When join() completes, all admitted work has ended and the memory of    *)
(* each operation that was spawned is released; what counting_scope.hpp    *)
(* promises of any allocation is not so of a spawn() that throws, which    *)
(* may still have to give its own back.                                    *)
THEOREM JoinAlwaysWaitsForWork == WorkSpec => []JoinWaitsForWork
<1>1. WorkIInv => JoinWaitsForWork
  <2>. SUFFICES ASSUME WorkIInv, joinsRun > 0 PROVE JoinWaitsForWork
    BY DEF JoinWaitsForWork
  <2>1. Held = {}
    BY ZeroMeansNoneHeld DEF WorkIInv, IInv, ZeroMeansJoining
  <2>2. \A w \in Refs : ref[w] # "held"
    BY <2>1 DEF Held, Holders
  <2>3. \A w \in Refs :
           phase[w] \notin {"spawning", "constructing", "running", "completed"}
    BY <2>2 DEF WorkIInv, PhasesFitRefs
  <2>4. memory \subseteq {w \in Refs : phase[w] = "throwing"}
    BY <2>3 DEF WorkIInv, WorkTypeOk, MemoryIsOwned
  <2>. QED
    BY <2>2, <2>3, <2>4 DEF JoinWaitsForWork, Active
<1>. QED
  BY WorkInitIInv, WorkStepIInv, <1>1, PTL DEF WorkSpec

(* spawn() allocates once for each piece of work; the memory goes back     *)
(* when the work has completed or its constructor has thrown, not sooner.  *)
THEOREM MemoryIsAlwaysOwned == WorkSpec => []MemoryIsOwned
<1>1. WorkIInv => MemoryIsOwned
  BY DEF WorkIInv
<1>. QED
  BY WorkInitIInv, WorkStepIInv, <1>1, PTL DEF WorkSpec
-----------------------------------------------------------------------------
(* A future, and the state that it shares with the spawned child           *)

(* What TypeOk says, with the few completions that there can be *)
FutureTypes ==
    /\ types \in [child_stoppable : BOOLEAN, stop_possible : BOOLEAN]
    /\ pc \in [Future!Threads -> Future!Labels]
    /\ fs \in [flags : SUBSET Future!StateFlags, stored : BOOLEAN, receiver : BOOLEAN,
               stops : 0..1, freed : 0..1]
    /\ op \in [flags : SUBSET Future!OpFlags, state_ : {"fs", "null"},
               alive : BOOLEAN, started : BOOLEAN,
               sent : {<<>>, <<"set_result">>, <<"set_stopped">>}]

(* The places inside the operation's set_result() and behind it, those of  *)
(* a thread that stops the child, and those of a stop request that has     *)
(* been accepted and that has not detached the state                       *)
ResultPath == {"op_result", "op_completed", "free_for_result", "free_for_stopped",
               "set_result", "set_stopped"}
Stopping == {"stop_child", "stop_sent", "stop_add"}
Accepted == {"try_detach", "detach_exchange", "lost_detach", "stop_done_add"}
Uncompleted == {"idle", "running", "discard", "forward", "store", "publish"}
BeforeStart == {"spawning", "future", "connected", "detach", "detach_add", "free"}

PlacesAreTheirs ==
    /\ pc["user"] \in ResultPath \cup Stopping \cup BeforeStart \cup
          {"spawn", "store_waiting", "add_waiting", "started", "done"}
    /\ pc["child"] \in ResultPath \cup Uncompleted \cup {"free", "done"}
    /\ pc["stopper"] \in Accepted \cup Stopping \cup
          {"idle", "exchange", "free", "detached", "free_for_stopped",
           "set_stopped", "done"}

IsDetached == "detached" \in fs.flags
IsWaiting == "waiting" \in fs.flags

(* A future without a state completes with set_stopped. *)
WithoutState ==
    pc["child"] = "idle" =>
      /\ pc["user"] \in {"spawn", "future", "connected", "set_stopped", "done"}
      /\ pc["stopper"] \in {"idle", "done"}
      /\ fs.flags = {} /\ ~fs.stored /\ ~fs.receiver /\ fs.stops = 0 /\ fs.freed = 0
      /\ op.state_ = "null"
      /\ op.flags = IF op.started /\ types.stop_possible THEN {"completed"} ELSE {}
      /\ pc["user"] \in {"spawn", "future", "connected"} => ~op.started
      /\ pc["stopper"] = "done" => op.started /\ types.stop_possible
      /\ pc["user"] = "set_stopped" => op.started
      /\ op.sent = IF op.started /\ pc["user"] = "done" THEN <<"set_stopped">> ELSE <<>>

(* The child's flag says where it is, and a result is stored before that.  *)
ChildFits ==
    /\ "completed" \in fs.flags <=> pc["child"] \notin Uncompleted
    /\ pc["child"] \in {"running", "discard", "forward", "store"} => ~fs.stored
    /\ pc["child"] = "publish" => fs.stored
    /\ fs.flags = {"completed"} => fs.stored
    /\ pc["child"] \in {"discard", "free"} => Future!FullyDetached(fs.flags)
    /\ pc["child"] = "forward" => fs.flags = {"waiting"} /\ ~types.stop_possible

(* A receiver is registered first, then announced by the waiting flag.     *)
ReceiverFits == pc["child"] # "idle" =>
    /\ pc["user"] # "spawn"
    /\ op.started <=> fs.receiver
    /\ pc["user"] \in ResultPath \cup {"store_waiting", "add_waiting", "started"}
          => fs.receiver
    /\ pc["user"] \in Stopping \cup BeforeStart => ~fs.receiver
    /\ IsWaiting <=> fs.receiver /\ pc["user"] \notin {"store_waiting", "add_waiting"}
    /\ pc["user"] = "store_waiting" => fs.flags = {"completed"}
    /\ ~IsWaiting => /\ op.flags = {} /\ op.sent = <<>> /\ op.state_ = "fs"
                     /\ pc["stopper"] = "idle"
    /\ pc["stopper"] # "idle" => /\ types.stop_possible
                                 /\ pc["user"] \in {"started", "done"}

(* Thread t has detached the state: it stops the child, if that can be     *)
(* stopped, and whoever comes last, of it and the child, frees the state.  *)
DetachedBy(t, out) ==
    /\ pc[t] \in Stopping \cup {"free"} \cup out
    /\ pc[t] \in Stopping =>
          /\ types.child_stoppable /\ "stop_request_done" \notin fs.flags
          /\ pc["child"] \in {"running", "store", "publish", "done"}
    /\ pc[t] = "stop_child" => fs.stops = 0
    /\ pc[t] = "free" => pc["child"] = "done"
    /\ pc[t] \in out => "completed" \in fs.flags \/ Future!FullyDetached(fs.flags)
    /\ pc["child"] \in Uncompleted \cup {"free", "done"}
    /\ pc["child"] \in {"discard", "free"} => pc[t] \in out
    /\ fs.freed = IF pc["child"] = "done" /\ pc[t] \in out THEN 1 ELSE 0

(* Either the user has detached it, who has no operation then, or the      *)
(* stop request of the operation, which completes with set_stopped.        *)
DetachFits == pc["child"] # "idle" =>
    /\ IsDetached /\ IsWaiting =>
          /\ DetachedBy("stopper", {"detached", "set_stopped", "done"})
          /\ pc["user"] = "started"
          /\ op.flags = {"stop_requested"}
          /\ op.state_ = IF pc["stopper"] \in {"set_stopped", "done"} THEN "null" ELSE "fs"
          /\ op.sent = IF pc["stopper"] = "done" THEN <<"set_stopped">> ELSE <<>>
    /\ IsDetached /\ ~IsWaiting => DetachedBy("user", {"done"})
    /\ ~IsDetached =>
          /\ "stop_request_done" \notin fs.flags /\ fs.stops = 0
          /\ pc["user"] \notin Stopping
          /\ pc["stopper"] \notin Stopping \cup {"free", "detached"}
    /\ ~IsDetached /\ ~IsWaiting =>
          /\ pc["child"] \in Uncompleted \cup {"done"}
          /\ pc["user"] \in {"free", "done"} => "completed" \in fs.flags
          /\ fs.freed = IF pc["user"] = "done" THEN 1 ELSE 0

(* A thread that is in the operation's set_result() races with the stop    *)
(* request, until one of them has the last word.                           *)
Racing == \/ op.flags = {} /\ pc["stopper"] \in {"idle", "exchange"}
          \/ op.flags = {"stop_requested"} /\ pc["stopper"] \in Accepted
          \/ op.flags = Future!BothStopFlags /\ pc["stopper"] = "done"

ResultWins == /\ op.flags = IF types.stop_possible THEN {"completed"} ELSE {}
              /\ pc["stopper"] \in {"idle", "exchange", "done"}

Completing(t) ==
    /\ pc[t] \in ResultPath => op.sent = <<>>
    /\ pc[t] \in {"op_result", "op_completed"} => Racing
    /\ pc[t] = "op_completed" => types.stop_possible
    /\ pc[t] \in {"free_for_result", "set_result"} => ResultWins
    /\ pc[t] \in {"free_for_stopped", "set_stopped"} =>
         Future!BothStopFlags \subseteq op.flags /\ pc["stopper"] = "done"

(* After set_result() the operation has its result, or the stop request    *)
(* completes it, or has.                                                   *)
Completed ==
    \/ op.sent = <<"set_result">> /\ ResultWins
    \/ /\ op.sent = <<>>
       /\ op.flags = {"completed", "stop_requested"} /\ pc["stopper"] \in Accepted
    \/ /\ op.sent = IF pc["stopper"] = "done" THEN <<"set_stopped">> ELSE <<>>
       /\ pc["stopper"] \in {"free_for_stopped", "set_stopped", "done"}
       /\ \/ {"completed", "stop_requested"} \subseteq op.flags
          \/ op.flags = Future!BothStopFlags /\ pc["stopper"] = "done"

(* The state is given up before the receiver hears of it. *)
GivenUp == \/ op.sent # <<>>
           \/ \E t \in Future!Threads : pc[t] \in {"set_result", "set_stopped"}

WaitFits == pc["child"] # "idle" /\ IsWaiting /\ ~IsDetached =>
    /\ pc["child"] \notin {"discard", "free"}
    /\ pc["user"] \in ResultPath \cup {"done"} => pc["child"] = "done"
    /\ pc["user"] \in ResultPath => fs.stored /\ pc["stopper"] = "idle"
    /\ ~types.stop_possible => op.flags = {}
    /\ Completing("user") /\ Completing("child")
    /\ pc["child"] \in Uncompleted =>
         /\ op.sent = <<>> /\ pc["user"] = "started"
         /\ Racing /\ pc["stopper"] \notin {"lost_detach", "stop_done_add", "done"}
    /\ pc["child"] = "done" /\ pc["user"] \notin ResultPath => Completed
    /\ fs.freed = IF GivenUp THEN 1 ELSE 0
    /\ op.state_ = IF GivenUp THEN "null" ELSE "fs"

FutureInv == /\ FutureTypes
             /\ PlacesAreTheirs
             /\ WithoutState
             /\ ChildFits
             /\ ReceiverFits
             /\ DetachFits
             /\ WaitFits

(* It holds of a future that nobody has spawned.                           *)
LEMMA FutureInit == Future!Init => FutureInv
<1> SUFFICES ASSUME Future!Init PROVE FutureInv
  OBVIOUS
<1> QED
  BY DEF Future!Init, FutureInv, FutureTypes, PlacesAreTheirs, WithoutState,
     ChildFits, ReceiverFits, DetachFits, DetachedBy, WaitFits, Racing, ResultWins,
     Completing, Completed, GivenUp, IsDetached, IsWaiting, ResultPath, Stopping,
     Accepted, Uncompleted, BeforeStart, Future!Threads, Future!Labels,
     Future!StateFlags, Future!OpFlags, Future!FullyDetached, Future!BothStopFlags,
     Future!Goto, Future!SetState, Future!AddState, Future!SetOp

(* Each step of the user on the way to a receiver or to the end keeps it,  *)
LEMMA UserKeeps == FutureInv /\ (Future!UserStep) => FutureInv'
<1> SUFFICES ASSUME FutureInv, Future!UserStep PROVE FutureInv'
  OBVIOUS
<1> USE DEF FutureInv, FutureTypes, PlacesAreTheirs, WithoutState, ChildFits,
             ReceiverFits, DetachFits, DetachedBy, WaitFits, Racing, ResultWins,
             Completing, Completed, GivenUp, IsDetached, IsWaiting, ResultPath,
             Stopping, Accepted, Uncompleted, BeforeStart, Future!Threads,
             Future!Labels, Future!StateFlags, Future!OpFlags, Future!FullyDetached,
             Future!BothStopFlags, Future!Goto, Future!SetState, Future!AddState,
             Future!SetOp
<1>1. CASE Future!SpawnReturns
  BY <1>1 DEF Future!SpawnReturns
<1>2. CASE Future!SetReceiverStore
  BY <1>2 DEF Future!SetReceiverStore
<1>3. CASE Future!SetReceiverAdd
  BY <1>3 DEF Future!SetReceiverAdd
<1>4. CASE Future!DetachLoad
  BY <1>4 DEF Future!DetachLoad
<1>5. CASE Future!DetachAdd
  BY <1>5 DEF Future!DetachAdd, Future!AfterDetach, Future!Out
<1> QED
  BY <1>1, <1>2, <1>3, <1>4, <1>5 DEF Future!UserStep

(* each step that is the user's or the parent's choice,                    *)
LEMMA ChoiceKeeps == FutureInv /\ (Future!UserChoice) => FutureInv'
<1> SUFFICES ASSUME FutureInv, Future!UserChoice PROVE FutureInv'
  OBVIOUS
<1> USE DEF FutureInv, FutureTypes, PlacesAreTheirs, WithoutState, ChildFits,
             ReceiverFits, DetachFits, DetachedBy, WaitFits, Racing, ResultWins,
             Completing, Completed, GivenUp, IsDetached, IsWaiting, ResultPath,
             Stopping, Accepted, Uncompleted, BeforeStart, Future!Threads,
             Future!Labels, Future!StateFlags, Future!OpFlags, Future!FullyDetached,
             Future!BothStopFlags, Future!Goto, Future!SetState, Future!AddState,
             Future!SetOp
<1>1. CASE Future!SpawnRefused
  BY <1>1 DEF Future!SpawnRefused
<1>2. CASE Future!SpawnStart
  BY <1>2 DEF Future!SpawnStart
<1>3. CASE Future!Connect
  <2>1. FutureTypes'
    BY <1>3 DEF Future!Connect
  <2>2. PlacesAreTheirs'
    BY <1>3 DEF Future!Connect
  <2>3. WithoutState'
    BY <1>3 DEF Future!Connect
  <2>4. ChildFits'
    BY <1>3 DEF Future!Connect
  <2>5. ReceiverFits'
    BY <1>3 DEF Future!Connect
  <2>6. DetachFits'
    BY <1>3 DEF Future!Connect
  <2>7. WaitFits'
    BY <1>3 DEF Future!Connect
  <2> QED
    BY <2>1, <2>2, <2>3, <2>4, <2>5, <2>6, <2>7
<1>4. CASE Future!Drop
  <2>1. CASE op.state_ = "null"
    BY <1>4, <2>1, ZenonT(40) DEF Future!Drop
  <2>2. CASE op.state_ # "null"
    <3>1. FutureTypes'
      BY <1>4, <2>2 DEF Future!Drop
    <3>2. PlacesAreTheirs'
      BY <1>4, <2>2 DEF Future!Drop
    <3>3. WithoutState'
      BY <1>4, <2>2 DEF Future!Drop
    <3>4. ChildFits'
      BY <1>4, <2>2 DEF Future!Drop
    <3>5. ReceiverFits'
      BY <1>4, <2>2 DEF Future!Drop
    <3>6. DetachFits'
      BY <1>4, <2>2 DEF Future!Drop
    <3>7. WaitFits'
      BY <1>4, <2>2 DEF Future!Drop
    <3> QED
      BY <3>1, <3>2, <3>3, <3>4, <3>5, <3>6, <3>7
  <2> QED
    BY <2>1, <2>2
<1>5. CASE Future!StartWithoutState
  BY <1>5 DEF Future!StartWithoutState
<1>6. CASE Future!SetReceiver
  <2>1. FutureTypes'
    BY <1>6 DEF Future!SetReceiver
  <2>2. PlacesAreTheirs'
    BY <1>6 DEF Future!SetReceiver
  <2>3. WithoutState'
    BY <1>6 DEF Future!SetReceiver
  <2>4. ChildFits'
    BY <1>6 DEF Future!SetReceiver
  <2>5. ReceiverFits'
    BY <1>6 DEF Future!SetReceiver
  <2>6. DetachFits'
    BY <1>6 DEF Future!SetReceiver
  <2>7. WaitFits'
    BY <1>6 DEF Future!SetReceiver
  <2> QED
    BY <2>1, <2>2, <2>3, <2>4, <2>5, <2>6, <2>7
<1>7. CASE Future!DestroyOp
  <2>1. FutureTypes'
    BY <1>7 DEF Future!DestroyOp
  <2>2. PlacesAreTheirs'
    BY <1>7 DEF Future!DestroyOp
  <2>3. WithoutState'
    BY <1>7 DEF Future!DestroyOp
  <2>4. ChildFits'
    BY <1>7 DEF Future!DestroyOp
  <2>5. ReceiverFits'
    BY <1>7 DEF Future!DestroyOp
  <2>6. DetachFits'
    BY <1>7 DEF Future!DestroyOp
  <2>7. WaitFits'
    BY <1>7 DEF Future!DestroyOp
  <2> QED
    BY <2>1, <2>2, <2>3, <2>4, <2>5, <2>6, <2>7
<1> QED
  BY <1>1, <1>2, <1>3, <1>4, <1>5, <1>6, <1>7 DEF Future!UserChoice

(* each step of the child,                                                 *)
LEMMA ChildKeeps == FutureInv /\ (Future!ChildCompletes \/ Future!ChildStep) => FutureInv'
<1> SUFFICES ASSUME FutureInv, Future!ChildCompletes \/ Future!ChildStep PROVE FutureInv'
  OBVIOUS
<1> USE DEF FutureInv, FutureTypes, PlacesAreTheirs, WithoutState, ChildFits,
             ReceiverFits, DetachFits, DetachedBy, WaitFits, Racing, ResultWins,
             Completing, Completed, GivenUp, IsDetached, IsWaiting, ResultPath,
             Stopping, Accepted, Uncompleted, BeforeStart, Future!Threads,
             Future!Labels, Future!StateFlags, Future!OpFlags, Future!FullyDetached,
             Future!BothStopFlags, Future!Goto, Future!SetState, Future!AddState,
             Future!SetOp
<1>1. CASE Future!ChildCompletes
  BY <1>1 DEF Future!ChildCompletes
<1>2. CASE Future!ChildDiscards
  BY <1>2 DEF Future!ChildDiscards
<1>3. CASE Future!ChildForwards
  BY <1>3 DEF Future!ChildForwards
<1>4. CASE Future!ChildStores
  <2>1. CASE IsDetached
    <3>1. FutureTypes'
      BY <1>4, <2>1 DEF Future!ChildStores
    <3>2. PlacesAreTheirs'
      BY <1>4, <2>1 DEF Future!ChildStores
    <3>3. WithoutState'
      BY <1>4, <2>1 DEF Future!ChildStores
    <3>4. ChildFits'
      BY <1>4, <2>1 DEF Future!ChildStores
    <3>5. ReceiverFits'
      BY <1>4, <2>1 DEF Future!ChildStores
    <3>6. DetachFits'
      BY <1>4, <2>1 DEF Future!ChildStores
    <3>7. WaitFits'
      BY <1>4, <2>1 DEF Future!ChildStores
    <3> QED
      BY <3>1, <3>2, <3>3, <3>4, <3>5, <3>6, <3>7
  <2>2. CASE ~IsDetached
    <3>1. FutureTypes'
      BY <1>4, <2>2 DEF Future!ChildStores
    <3>2. PlacesAreTheirs'
      BY <1>4, <2>2 DEF Future!ChildStores
    <3>3. WithoutState'
      BY <1>4, <2>2 DEF Future!ChildStores
    <3>4. ChildFits'
      BY <1>4, <2>2 DEF Future!ChildStores
    <3>5. ReceiverFits'
      BY <1>4, <2>2 DEF Future!ChildStores
    <3>6. DetachFits'
      BY <1>4, <2>2 DEF Future!ChildStores
    <3>7. WaitFits'
      BY <1>4, <2>2 DEF Future!ChildStores
    <3> QED
      BY <3>1, <3>2, <3>3, <3>4, <3>5, <3>6, <3>7
  <2> QED
    BY <2>1, <2>2
<1>5. CASE Future!ChildPublishes
  BY <1>5 DEF Future!ChildPublishes
<1> QED
  BY <1>1, <1>2, <1>3, <1>4, <1>5 DEF Future!ChildStep

(* each step of a stop request.                                            *)
LEMMA StopperKeeps == FutureInv /\ (Future!RequestStop \/ Future!StopperStep) => FutureInv'
<1> SUFFICES ASSUME FutureInv, Future!RequestStop \/ Future!StopperStep PROVE FutureInv'
  OBVIOUS
<1> USE DEF FutureInv, FutureTypes, PlacesAreTheirs, WithoutState, ChildFits,
             ReceiverFits, DetachFits, DetachedBy, WaitFits, Racing, ResultWins,
             Completing, Completed, GivenUp, IsDetached, IsWaiting, ResultPath,
             Stopping, Accepted, Uncompleted, BeforeStart, Future!Threads,
             Future!Labels, Future!StateFlags, Future!OpFlags, Future!FullyDetached,
             Future!BothStopFlags, Future!Goto, Future!SetState, Future!AddState,
             Future!SetOp
<1>1. CASE Future!RequestStop
  BY <1>1 DEF Future!RequestStop
<1>2. CASE Future!StopExchange
  <2>1. CASE op.flags = {}
    BY <1>2, <2>1 DEF Future!StopExchange
  <2>2. CASE op.flags # {}
    <3>1. FutureTypes'
      BY <1>2, <2>2 DEF Future!StopExchange
    <3>2. PlacesAreTheirs'
      BY <1>2, <2>2 DEF Future!StopExchange
    <3>3. WithoutState'
      BY <1>2, <2>2 DEF Future!StopExchange
    <3>4. ChildFits'
      BY <1>2, <2>2 DEF Future!StopExchange
    <3>5. ReceiverFits'
      BY <1>2, <2>2 DEF Future!StopExchange
    <3>6. DetachFits'
      BY <1>2, <2>2 DEF Future!StopExchange
    <3>7. WaitFits'
      <4>1. pc["stopper"] = "exchange" /\ UNCHANGED <<types, fs, op>>
        BY <1>2, <2>2 DEF Future!StopExchange
      <4>2. pc' = [pc EXCEPT !["stopper"] = "done"]
        BY <1>2, <2>2 DEF Future!StopExchange
      <4>3. ASSUME pc["child"] # "idle", IsWaiting, ~IsDetached
            PROVE  op.flags = {"completed"} /\ pc["child"] \notin Uncompleted
        BY <2>2, <4>1, <4>3
      <4> QED
        BY <4>1, <4>2, <4>3
    <3> QED
      BY <3>1, <3>2, <3>3, <3>4, <3>5, <3>6, <3>7
  <2> QED
    BY <2>1, <2>2
<1>3. CASE Future!TryDetachLoad
  BY <1>3 DEF Future!TryDetachLoad
<1>4. CASE Future!TryDetachExchange
  BY <1>4 DEF Future!TryDetachExchange, Future!AfterDetach, Future!Out
<1>5. CASE Future!Detached
  BY <1>5 DEF Future!Detached
<1>6. CASE Future!LostDetachLoad
  BY <1>6 DEF Future!LostDetachLoad
<1>7. CASE Future!LostDetachAdd
  BY <1>7 DEF Future!LostDetachAdd
<1> QED
  BY <1>1, <1>2, <1>3, <1>4, <1>5, <1>6, <1>7 DEF Future!StopperStep

LEMMA Appended == \A x : Append(<<>>, x) = <<x>>
OBVIOUS

(* Each step that several threads have in common keeps it.                 *)
LEMMA SharedKeeps == FutureInv /\ (\E t \in Future!Threads : Future!SharedStep(t)) => FutureInv'
<1> SUFFICES ASSUME FutureInv, NEW t \in Future!Threads, Future!SharedStep(t)
             PROVE  FutureInv'
  OBVIOUS
<1> USE DEF FutureInv, FutureTypes, PlacesAreTheirs, WithoutState, ChildFits,
             ReceiverFits, DetachFits, DetachedBy, WaitFits, Racing, ResultWins,
             Completing, Completed, GivenUp, IsDetached, IsWaiting, ResultPath,
             Stopping, Accepted, Uncompleted, BeforeStart, Future!Threads,
             Future!Labels, Future!StateFlags, Future!OpFlags, Future!FullyDetached,
             Future!BothStopFlags, Future!Goto, Future!SetState, Future!AddState,
             Future!SetOp
<1>1. CASE Future!StopChild(t)
  <2>1. CASE t = "user"
    BY <1>1, <2>1 DEF Future!StopChild, Future!Out
  <2>2. CASE t = "child"
    BY <1>1, <2>2 DEF Future!StopChild, Future!Out
  <2>3. CASE t = "stopper"
    BY <1>1, <2>3 DEF Future!StopChild, Future!Out
  <2> QED
    BY <2>1, <2>2, <2>3
<1>2. CASE Future!StopChildLoad(t)
  <2>1. CASE t = "user"
    BY <1>2, <2>1 DEF Future!StopChildLoad, Future!Out
  <2>2. CASE t = "child"
    BY <1>2, <2>2 DEF Future!StopChildLoad, Future!Out
  <2>3. CASE t = "stopper"
    BY <1>2, <2>3 DEF Future!StopChildLoad, Future!Out
  <2> QED
    BY <2>1, <2>2, <2>3
<1>3. CASE Future!StopChildAdd(t)
  <2>1. CASE t = "user"
    BY <1>3, <2>1 DEF Future!StopChildAdd, Future!Out
  <2>2. CASE t = "child"
    BY <1>3, <2>2 DEF Future!StopChildAdd, Future!Out
  <2>3. CASE t = "stopper"
    BY <1>3, <2>3 DEF Future!StopChildAdd, Future!Out
  <2> QED
    BY <2>1, <2>2, <2>3
<1>4. CASE Future!Free(t)
  <2>1. CASE t = "user"
    BY <1>4, <2>1 DEF Future!Free, Future!Out
  <2>2. CASE t = "child"
    BY <1>4, <2>2 DEF Future!Free, Future!Out
  <2>3. CASE t = "stopper"
    BY <1>4, <2>3 DEF Future!Free, Future!Out
  <2> QED
    BY <2>1, <2>2, <2>3
<1>5. CASE Future!OpResult(t)
  <2>1. CASE t = "user"
    BY <1>5, <2>1 DEF Future!OpResult, Future!Out
  <2>2. CASE t = "child"
    BY <1>5, <2>2 DEF Future!OpResult, Future!Out
  <2>3. CASE t = "stopper"
    BY <1>5, <2>3 DEF Future!OpResult, Future!Out
  <2> QED
    BY <2>1, <2>2, <2>3
<1>6. CASE Future!OpCompleted(t)
  <2>1. CASE t = "user"
    BY <1>6, <2>1, SMTT(30) DEF Future!OpCompleted, Future!Out
  <2>2. CASE t = "child"
    BY <1>6, <2>2, SMTT(30) DEF Future!OpCompleted, Future!Out
  <2>3. CASE t = "stopper"
    BY <1>6, <2>3 DEF Future!OpCompleted, Future!Out
  <2> QED
    BY <2>1, <2>2, <2>3
<1>7. CASE Future!FreeForReceiver(t)
  <2>1. CASE t = "user"
    BY <1>7, <2>1 DEF Future!FreeForReceiver, Future!Out
  <2>2. CASE t = "child"
    BY <1>7, <2>2 DEF Future!FreeForReceiver, Future!Out
  <2>3. CASE t = "stopper"
    BY <1>7, <2>3 DEF Future!FreeForReceiver, Future!Out
  <2> QED
    BY <2>1, <2>2, <2>3
<1>8. CASE Future!CompleteReceiver(t)
  <2>1. op.sent = <<>> /\ pc[t] \in {"set_result", "set_stopped"}
    BY <1>8 DEF Future!CompleteReceiver
  <2>2. op' = [op EXCEPT !.sent = <<pc[t]>>]
    BY <1>8, <2>1, Appended DEF Future!CompleteReceiver
  <2>3. UNCHANGED <<types, fs>> /\ pc' = [pc EXCEPT ![t] = "done"]
    BY <1>8 DEF Future!CompleteReceiver
  <2>4. CASE t = "user"
    BY <2>1, <2>2, <2>3, <2>4
  <2>5. CASE t = "child"
    BY <2>1, <2>2, <2>3, <2>5
  <2>6. CASE t = "stopper"
    BY <2>1, <2>2, <2>3, <2>6
  <2> QED
    BY <2>4, <2>5, <2>6
<1> QED
  BY <1>1, <1>2, <1>3, <1>4, <1>5, <1>6, <1>7, <1>8 DEF Future!SharedStep

(* So does every step.                                                     *)
LEMMA FutureStep == FutureInv /\ [Future!Next]_(Future!vars) => FutureInv'
<1> SUFFICES ASSUME FutureInv, [Future!Next]_(Future!vars) PROVE FutureInv'
  OBVIOUS
<1>1. CASE Future!Next
  BY <1>1, UserKeeps, ChoiceKeeps, ChildKeeps, StopperKeeps, SharedKeeps
  DEF Future!Next
<1>2. CASE UNCHANGED Future!vars
  BY <1>2 DEF Future!vars, FutureInv, FutureTypes, PlacesAreTheirs, WithoutState,
     ChildFits, ReceiverFits, DetachFits, DetachedBy, WaitFits, Racing, ResultWins,
     Completing, Completed, GivenUp, IsDetached, IsWaiting, ResultPath, Stopping,
     Accepted, Uncompleted, BeforeStart, Future!Threads, Future!Labels,
     Future!StateFlags, Future!OpFlags, Future!FullyDetached, Future!BothStopFlags,
     Future!Goto, Future!SetState, Future!AddState, Future!SetOp
<1> QED
  BY <1>1, <1>2

LEMMA PartStep ==
    FutureInv /\ [PartNext]_<<part, workVars, futureVars>> => FutureInv'
BY FutureStep DEF PartNext, futureVars, Future!vars

(* Neither the state that a future shares with the spawned operation nor   *)
(* the operation that waits for it is touched when it is gone, and each    *)
(* ends once, whoever of the child, the user and a stop request comes last.*)
THEOREM NothingIsUsedAfterItsEnd == ScopeRun => []NoUseAfterEnd
<1>1. FutureInv => NoUseAfterEnd
  <2> SUFFICES ASSUME FutureInv PROVE NoUseAfterEnd
    OBVIOUS
  <2> USE DEF FutureInv, FutureTypes, PlacesAreTheirs, WithoutState, ChildFits,
             ReceiverFits, DetachFits, DetachedBy, WaitFits, Racing, ResultWins,
             Completing, Completed, GivenUp, IsDetached, IsWaiting, ResultPath,
             Stopping, Accepted, Uncompleted, BeforeStart, Future!Threads,
             Future!Labels, Future!StateFlags, Future!OpFlags, Future!FullyDetached,
             Future!BothStopFlags, Future!Goto, Future!SetState, Future!AddState,
             Future!SetOp
  <2>1. Future!NoUseAfterFree
    BY DEF Future!NoUseAfterFree, Future!TouchesState
  <2>2. Future!NoUseAfterCompletion
    BY DEF Future!NoUseAfterCompletion, Future!TouchesOp
  <2>3. Future!CompletesOnce
    <3>1. CASE op.sent = <<>>
      BY <3>1 DEF Future!CompletesOnce
    <3>2. CASE op.sent = <<"set_result">>
      <4>1. Len(op.sent) = 1 /\ op.sent[1] = "set_result"
        BY <3>2
      <4> QED
        BY <3>2, <4>1 DEF Future!CompletesOnce
    <3>3. CASE op.sent = <<"set_stopped">>
      <4>1. Len(op.sent) = 1 /\ op.sent[1] = "set_stopped"
        BY <3>3
      <4> QED
        BY <3>3, <4>1 DEF Future!CompletesOnce
    <3> QED
      BY <3>1, <3>2, <3>3
  <2> QED
    BY <2>1, <2>2, <2>3 DEF NoUseAfterEnd, Future!NoUseAfterEnd
<1> QED
  BY <1>1, FutureInit, PartStep, PTL DEF ScopeRun, PartInit

(* No flag is added twice, std::unreachable() is not reached, and what the *)
(* functions of the future and its operation assert holds.                 *)
THEOREM AssertionsAlwaysHold == ScopeRun => []AssertionsHold
<1>1. FutureInv => AssertionsHold
  <2> SUFFICES ASSUME FutureInv PROVE AssertionsHold
    OBVIOUS
  <2> USE DEF FutureInv, FutureTypes, PlacesAreTheirs, WithoutState, ChildFits,
             ReceiverFits, DetachFits, DetachedBy, WaitFits, Racing, ResultWins,
             Completing, Completed, GivenUp, IsDetached, IsWaiting, ResultPath,
             Stopping, Accepted, Uncompleted, BeforeStart, Future!Threads,
             Future!Labels, Future!StateFlags, Future!OpFlags, Future!FullyDetached,
             Future!BothStopFlags, Future!Goto, Future!SetState, Future!AddState,
             Future!SetOp
  <2>1. Future!TypeOk
    <3>1. op.sent \in Seq({"set_result", "set_stopped"})
      <4>1. \A x \in {"set_result", "set_stopped"} : <<x>> \in Seq({"set_result", "set_stopped"})
        OBVIOUS
      <4>2. <<>> \in Seq({"set_result", "set_stopped"})
        OBVIOUS
      <4>3. op.sent \in {<<>>, <<"set_result">>, <<"set_stopped">>}
        OBVIOUS
      <4> QED
        BY <4>1, <4>2, <4>3
    <3> QED
      BY <3>1 DEF Future!TypeOk
  <2> QED
    BY <2>1 DEF AssertionsHold, Future!AssertionsHold
<1> QED
  BY <1>1, FutureInit, PartStep, PTL DEF ScopeRun, PartInit
=============================================================================
