--------------------------- MODULE SenderSignatures ---------------------------
(***************************************************************************)
(* The completions a sender declares (get_completion_signatures) against   *)
(* those its operation delivers.  Parents size their storage by what is    *)
(* declared, so a completion that was left out has no place to go.         *)
(*                                                                         *)
(* A sender is what it declares and delivers in an environment in which a  *)
(* stop is possible (TRUE) and in one in which it is not, and, for its own *)
(* operation, what that stores and what the storage has room for.  Senders *)
(* are composed step by step from the synchronous and the scheduling ones. *)
(* Of the types of the results all that matters is whether moving one may  *)
(* throw; so do only the types named in Throwing.                          *)
(***************************************************************************)
EXTENDS Naturals, Sequences, Functions, TLC

CONSTANTS MaxDepth,    \* how many algorithms are composed
          MaxValues    \* how many values a completion may carry

VARIABLES sender, depth

vars == <<sender, depth>>

Throwing == {"string"}

Value(types) == <<"value", types>>
Error(type) == <<"error", <<type>>>>
Stopped == <<"stopped", <<>>>>
Exception == Error("exception_ptr")

CanThrow(sig) == Range(sig[2]) \cap Throwing # {}

only_tags(tags, sigs) == {sig \in sigs : sig[1] \in tags}
ValuesOf(sigs) == only_tags({"value"}, sigs)
ErrorsOrStopped(sigs) == only_tags({"error", "stopped"}, sigs)

(* merge_completion_signatures is the union of sets. *)
add_error_if_move_can_throw(sigs) ==
    IF \E sig \in sigs : CanThrow(sig) THEN sigs \cup {Exception} ELSE sigs

(* What comes out of a storage the result is moved into (store_result and  *)
(* its like): the exception, if the move throws.                           *)
Copied(sigs) == sigs \cup {Exception : sig \in {s \in sigs : CanThrow(s)}}

-----------------------------------------------------------------------------
(* Senders without a source *)

Leaf(stoppable, unstoppable) ==
    [declared |-> (TRUE :> stoppable @@ FALSE :> unstoppable),
     delivers |-> (TRUE :> stoppable @@ FALSE :> unstoppable),
     stored   |-> [e \in BOOLEAN |-> {}],
     room     |-> [e \in BOOLEAN |-> {}],
     undeclared |-> FALSE]

Just(sig) == Leaf({sig}, {sig})

stop_token_sender == Leaf({Value(<<>>), Stopped}, {Value(<<>>)})
unstoppable_token_sender == Leaf({Stopped}, {})
openat_sender ==
    Leaf({Value(<<"file_handle">>), Error("error_code"), Stopped},
         {Value(<<"file_handle">>), Error("error_code")})

(* The values and errors of just are of types that may throw or may not;   *)
(* what a scheduler declares is what a stop token's sender does.           *)
Leaves == {Just(Value(<<>>)), Just(Value(<<"int">>)), Just(Value(<<"string">>)),
           Just(Error("error_code")), Just(Error("string")), Just(Stopped),
           stop_token_sender, unstoppable_token_sender, openat_sender}

-----------------------------------------------------------------------------
(* Algorithms.  d is what the source declares, x what it delivers.         *)

Wrap(declared(_), delivers(_), stored(_), room(_), undeclared) ==
    [declared |-> [e \in BOOLEAN |-> declared(e)],
     delivers |-> [e \in BOOLEAN |-> delivers(e)],
     stored   |-> [e \in BOOLEAN |-> stored(e)],
     room     |-> [e \in BOOLEAN |-> room(e)],
     undeclared |-> undeclared]

Nothing(e) == {}

(* func: the type it returns, "void" for none, and whether it may throw.   *)
Then(s, func) ==
    LET result == Value(IF func.returns = "void" THEN <<>> ELSE <<func.returns>>)
        Apply(sigs) == ErrorsOrStopped(sigs) \cup
            UNION {{result} \cup (IF func.nothrow THEN {} ELSE {Exception}) :
                     sig \in ValuesOf(sigs)}
        d(e) == Apply(s.declared[e])
        x(e) == Apply(s.delivers[e])
    IN  Wrap(d, x, Nothing, Nothing, s.undeclared)

Unstoppable(s) ==
    LET d(e) == s.declared[FALSE]
        x(e) == s.delivers[FALSE]
    IN  Wrap(d, x, Nothing, Nothing, s.undeclared)

(* Mutant: the exception of a result that is copied is forgotten. *)
StatementUncopied(s) ==
    LET d(e) == s.declared[e]
        x(e) == Copied(s.delivers[e])
    IN  Wrap(d, x, x, d, s.undeclared)

(* The result is copied before the child is destroyed. *)
Statement(s) ==
    LET d(e) == add_error_if_move_can_throw(s.declared[e])
        x(e) == Copied(s.delivers[e])
    IN  Wrap(d, x, x, d, s.undeclared)

(* The source may always be stopped, by the trigger. *)
StopWhen(s, trigger) ==
    LET d(e) == add_error_if_move_can_throw(s.declared[TRUE])
        x(e) == Copied(s.delivers[TRUE])
    IN  Wrap(d, x, x, d, s.undeclared)

Nest(s) ==
    LET d(e) == s.declared[e] \cup {Stopped}
        x(e) == s.delivers[e] \cup {Stopped}
    IN  Wrap(d, x, Nothing, Nothing, s.undeclared)

SpawnFuture(s) ==
    LET result_signatures(e) == add_error_if_move_can_throw(s.declared[TRUE])
        d(e) == result_signatures(e) \cup {Stopped}
        stored(e) == Copied(s.delivers[TRUE])
        x(e) == stored(e) \cup {Stopped}
    IN  Wrap(d, x, stored, result_signatures, s.undeclared)

VariantOf(s1, s2) ==
    LET d(e) == s1.declared[e] \cup s2.declared[e]
        x(e) == s1.delivers[e] \cup s2.delivers[e]
    IN  Wrap(d, x, Nothing, Nothing, s1.undeclared \/ s2.undeclared)

(* Values that cannot throw are stored in the result; the others have a    *)
(* storage of their own, and the result refers to it.                      *)
FirstSuccessful(s1, s2) ==
    LET all == s1.declared[TRUE] \cup s2.declared[TRUE]
        nothrow_values_and_stopped_errors ==
            ErrorsOrStopped(add_error_if_move_can_throw(all))
            \cup {v \in ValuesOf(all) : ~CanThrow(v)}
        throwing_values == {v \in ValuesOf(all) : CanThrow(v)}
        d(e) == add_error_if_move_can_throw(all)
        x(e) == Copied(s1.delivers[TRUE] \cup s2.delivers[TRUE])
        room(e) == nothrow_values_and_stopped_errors \cup throwing_values
    IN  Wrap(d, x, x, room, s1.undeclared \/ s2.undeclared)

(* The body is made from each value of the source; nothrow: neither making *)
(* nor connecting it can throw.  A value is moved into the storage first.  *)
LetValue(s, body, nothrow) ==
    LET Startable(v) == nothrow /\ ~CanThrow(v)
        d_body(e) == UNION {add_error_if_move_can_throw(body.declared[e])
                            \cup (IF Startable(v) THEN {} ELSE {Exception}) :
                              v \in ValuesOf(s.declared[e])}
        x_body(e) == UNION {Copied(body.delivers[e])
                            \cup (IF Startable(v) THEN {} ELSE {Exception}) :
                              v \in ValuesOf(s.delivers[e])}
        stored(e) == UNION {Copied(body.delivers[e]) : v \in ValuesOf(s.delivers[e])}
        d(e) == {Stopped} \cup ErrorsOrStopped(s.declared[e]) \cup d_body(e)
        x(e) == (IF e THEN {Stopped} ELSE {})
                \cup ErrorsOrStopped(s.delivers[e]) \cup x_body(e)
    IN  Wrap(d, x, stored, d_body, s.undeclared \/ body.undeclared)

-----------------------------------------------------------------------------
(* when_all *)

combine_value_sigs(sigs1, sigs2) ==
    {Value(p[1][2] \o p[2][2]) : p \in ValuesOf(sigs1) \X ValuesOf(sigs2)}

(* Where the children can only succeed there is no failure to declare.     *)
(* Otherwise the operation completes with the exception of a move that     *)
(* threw, and its storage has room for it, but the sender declares the     *)
(* children's own failures only.                                           *)
WhenAll(s1, s2) ==
    LET Succeeds(e) == \A s \in {s1, s2} :
            ErrorsOrStopped(add_error_if_move_can_throw(s.declared[e])) = {}
        Env(e) == IF Succeeds(e) THEN e ELSE TRUE
        Failures(sigs1, sigs2) == ErrorsOrStopped(sigs1) \cup ErrorsOrStopped(sigs2)
        d(e) == LET f == Env(e) IN
                combine_value_sigs(s1.declared[f], s2.declared[f])
                \cup Failures(s1.declared[f], s2.declared[f])
        x(e) == LET f == Env(e) IN
                combine_value_sigs(s1.delivers[f], s2.delivers[f])
                \cup Failures(Copied(s1.delivers[f]), Copied(s2.delivers[f]))
        stored(e) == LET f == Env(e) IN
                     Copied(s1.delivers[f]) \cup Copied(s2.delivers[f])
        room(e) == LET f == Env(e) IN
                   ValuesOf(s1.declared[e]) \cup ValuesOf(s2.declared[e]) \cup
                   Failures(add_error_if_move_can_throw(s1.declared[f]),
                            add_error_if_move_can_throw(s2.declared[f]))
        undeclared == \E e \in BOOLEAN : Exception \in x(e) \ d(e)
    IN  Wrap(d, x, stored, room, undeclared \/ s1.undeclared \/ s2.undeclared)

-----------------------------------------------------------------------------
Init == sender \in Leaves /\ depth = 0

Fits(s) == \A e \in BOOLEAN : \A sig \in s.declared[e] : Len(sig[2]) <= MaxValues

Compose(s) == /\ depth < MaxDepth
              /\ Fits(s)
              /\ sender' = s
              /\ depth' = depth + 1

ComposeOne == \/ \E f \in [returns : {"void", "int", "string"}, nothrow : BOOLEAN] :
                    Compose(Then(sender, f))
              \/ Compose(Unstoppable(sender))
              \/ Compose(Statement(sender))
              \/ Compose(Nest(sender))
              \/ Compose(SpawnFuture(sender))

ComposeTwo == \E s \in Leaves :
              \/ Compose(StopWhen(sender, s))
              \/ Compose(VariantOf(sender, s))
              \/ Compose(FirstSuccessful(sender, s))
              \/ Compose(WhenAll(sender, s))
              \/ \E nothrow \in BOOLEAN : \/ Compose(LetValue(sender, s, nothrow))
                                          \/ Compose(LetValue(s, sender, nothrow))

Next == ComposeOne \/ ComposeTwo

Spec == Init /\ [][Next]_vars

-----------------------------------------------------------------------------
(* Properties *)

SigSets == {"declared", "delivers", "stored", "room"}

(* The state is a sender: sets of completions for either environment. *)
TypeOk == /\ depth \in 0..MaxDepth
          /\ DOMAIN sender = SigSets \cup {"undeclared"}
          /\ \A f \in SigSets : DOMAIN sender[f] = BOOLEAN
          /\ \A f \in SigSets, e \in BOOLEAN : \A sig \in sender[f][e] :
                sig[1] \in {"value", "error", "stopped"}

(* However senders are composed, an operation delivers what its sender     *)
(* declares and stores what its storage has an alternative for, in either  *)
(* environment; the exception that when_all leaves out is the only thing   *)
(* that is delivered and not declared.                                     *)
DeliversDeclared ==
    \A e \in BOOLEAN :
       LET left_out == IF sender.undeclared THEN {Exception} ELSE {}
       IN  /\ sender.delivers[e] \subseteq sender.declared[e] \cup left_out
           /\ sender.stored[e] \subseteq sender.room[e] \cup left_out
=============================================================================
