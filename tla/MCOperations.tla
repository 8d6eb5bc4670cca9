----------------------------- MODULE MCOperations -----------------------------
(***************************************************************************)
(* The operations that arbitrate completions and stop requests, side by    *)
(* side for one run, and with them what all are composed by: the choice of *)
(* one of several types of senders, and the completions that senders       *)
(* declare.  A behaviour is one operation of one of the kinds, and a       *)
(* property says of every kind what its module says.                       *)
(***************************************************************************)
EXTENDS Naturals, Sequences

CONSTANT N    \* the children of when_all and of first_successful

ASSUME NAssumption == N \in Nat /\ N >= 2

VARIABLES kind,
          sw_state, sw_stored, sw_sent, sw_stops, sw_pc,
          wa_word, wa_error, wa_values, wa_sent, wa_stops, wa_pc, wa_next,
          fs_word, fs_seen, fs_outcome, fs_result, fs_sent, fs_stops, fs_pc,
          fs_next, fs_nothrow,
          lv_flags, lv_child, lv_outcome, lv_stored, lv_sent, lv_stops, lv_pc,
          st_source_state, st_stopping_thread, st_req, st_dereg,
          st_state, st_deregisters, st_outcome, st_pc,
          mt_mode, mt_flags, mt_destroyed, mt_stored, mt_outcome, mt_destructs,
          mt_alive, mt_sent, mt_stops, mt_pc,
          ws_state, ws_values, ws_sent, ws_stops, ws_pc, ws_next,
          va_senders, va_op, va_throws,
          sender, depth

SW == INSTANCE StopWhen WITH
          state <- sw_state, stored <- sw_stored, sent <- sw_sent,
          stops <- sw_stops, pc <- sw_pc

WA == INSTANCE WhenAll WITH
          word <- wa_word, error <- wa_error, values <- wa_values,
          sent <- wa_sent, stops <- wa_stops, pc <- wa_pc, next <- wa_next

FS == INSTANCE FirstSuccessful WITH
          word <- fs_word, seen <- fs_seen, outcome <- fs_outcome,
          result <- fs_result, sent <- fs_sent, stops <- fs_stops,
          pc <- fs_pc, next <- fs_next, nothrow <- fs_nothrow

LV == INSTANCE LetValue WITH
          flags <- lv_flags, child <- lv_child, outcome <- lv_outcome,
          stored <- lv_stored, sent <- lv_sent, stops <- lv_stops, pc <- lv_pc

ST == INSTANCE StopTokenOp WITH
          Threads <- {"starter", "parent", "stopper", "second_stopper"},
          source_state <- st_source_state,
          stopping_thread <- st_stopping_thread,
          req <- st_req, dereg <- st_dereg, state <- st_state,
          deregisters <- st_deregisters, outcome <- st_outcome, pc <- st_pc

MT == INSTANCE Statement WITH
          mode <- mt_mode, flags <- mt_flags, destroyed <- mt_destroyed,
          stored <- mt_stored, outcome <- mt_outcome, destructs <- mt_destructs,
          alive <- mt_alive, sent <- mt_sent, stops <- mt_stops, pc <- mt_pc

WS == INSTANCE WhenAllSucceeds WITH
          state <- ws_state, values <- ws_values, sent <- ws_sent,
          stops <- ws_stops, pc <- ws_pc, next <- ws_next

VA == INSTANCE VariantSender WITH
          Alternatives <- <<"a", "b", "a", "c", "d", "e">>, IndexMax <- 5, Chunk <- 4,
          senders <- va_senders, op <- va_op, throws <- va_throws

SG == INSTANCE SenderSignatures WITH MaxDepth <- 2, MaxValues <- 2

swVars == <<sw_state, sw_stored, sw_sent, sw_stops, sw_pc>>
waVars == <<wa_word, wa_error, wa_values, wa_sent, wa_stops, wa_pc, wa_next>>
fsVars == <<fs_word, fs_seen, fs_outcome, fs_result, fs_sent, fs_stops, fs_pc,
            fs_next, fs_nothrow>>
lvVars == <<lv_flags, lv_child, lv_outcome, lv_stored, lv_sent, lv_stops, lv_pc>>
stVars == <<st_source_state, st_stopping_thread, st_req, st_dereg, st_state,
            st_deregisters, st_outcome, st_pc>>
mtVars == <<mt_mode, mt_flags, mt_destroyed, mt_stored, mt_outcome, mt_destructs,
            mt_alive, mt_sent, mt_stops, mt_pc>>
wsVars == <<ws_state, ws_values, ws_sent, ws_stops, ws_pc, ws_next>>
vaVars == <<va_senders, va_op, va_throws>>
sgVars == <<sender, depth>>
vars == <<kind, swVars, waVars, fsVars, lvVars, stVars, mtVars, wsVars, vaVars, sgVars>>

-----------------------------------------------------------------------------
(* The values of first_successful may all throw when moved, or only the    *)
(* last, or none; what a kind starts with does not matter for the others.  *)
Init == /\ kind \in {"stop_when", "when_all", "first_successful", "let_value",
                     "stop_token_op", "statement", "when_all_succeeds", "variant",
                     "signatures"}
        /\ SW!Init /\ WA!Init /\ FS!Init /\ LV!Init /\ ST!Init
        /\ MT!Init /\ WS!Init /\ VA!Init /\ SG!Init
        /\ fs_nothrow \in IF kind = "first_successful"
                          THEN {{}, 1..N - 1, 1..N} ELSE {{}}
        /\ kind # "statement" =>
              mt_mode = [stoppable |-> TRUE, copies |-> TRUE, nothrow |-> TRUE]
        /\ kind # "signatures" => sender = SG!stop_token_sender

Next == \/ /\ kind = "stop_when"
           /\ SW!Next
           /\ UNCHANGED <<kind, waVars, fsVars, lvVars, stVars, mtVars, wsVars, vaVars, sgVars>>
        \/ /\ kind = "when_all"
           /\ WA!Next
           /\ UNCHANGED <<kind, swVars, fsVars, lvVars, stVars, mtVars, wsVars, vaVars, sgVars>>
        \/ /\ kind = "first_successful"
           /\ FS!Next
           /\ UNCHANGED <<kind, swVars, waVars, lvVars, stVars, mtVars, wsVars, vaVars, sgVars>>
        \/ /\ kind = "let_value"
           /\ LV!Next
           /\ UNCHANGED <<kind, swVars, waVars, fsVars, stVars, mtVars, wsVars, vaVars, sgVars>>
        \/ /\ kind = "stop_token_op"
           /\ ST!Next
           /\ UNCHANGED <<kind, swVars, waVars, fsVars, lvVars, mtVars, wsVars, vaVars, sgVars>>
        \/ /\ kind = "statement"
           /\ MT!Next
           /\ UNCHANGED <<kind, swVars, waVars, fsVars, lvVars, stVars, wsVars, vaVars, sgVars>>
        \/ /\ kind = "when_all_succeeds"
           /\ WS!Next
           /\ UNCHANGED <<kind, swVars, waVars, fsVars, lvVars, stVars, mtVars, vaVars, sgVars>>
        \/ /\ kind = "variant"
           /\ VA!Next
           /\ UNCHANGED <<kind, swVars, waVars, fsVars, lvVars, stVars, mtVars, wsVars, sgVars>>
        \/ /\ kind = "signatures"
           /\ SG!Next
           /\ UNCHANGED <<kind, swVars, waVars, fsVars, lvVars, stVars, mtVars, wsVars, vaVars>>

(* An operation that was not started owes nobody a step, so the fairness   *)
(* of the kinds that are not running asks for nothing.                     *)
Fairness == /\ SW!Fairness /\ WA!Fairness /\ FS!Fairness /\ LV!Fairness
            /\ ST!Fairness /\ MT!Fairness /\ WS!Fairness

Spec == Init /\ [][Next]_vars /\ Fairness

-----------------------------------------------------------------------------
(* Properties *)

(* The state has the types of the code's members. *)
TypeOk == /\ SW!TypeOk /\ WA!TypeOk /\ FS!TypeOk /\ LV!TypeOk /\ ST!TypeOk
          /\ MT!TypeOk /\ WS!TypeOk /\ VA!TypeOk /\ SG!TypeOk

(* The receiver is completed once, by the last event: every child has      *)
(* completed, and no thread but the one that completes the operation, or   *)
(* the parent's own, touches it from then on, whichever of the places that *)
(* can complete it does.                                                   *)
CompletesLast == /\ SW!CompletesLast
                 /\ WA!DeliversLast
                 /\ FS!DeliversLast
                 /\ LV!CompletesLast
                 /\ ST!CompletesLast
                 /\ MT!CompletesLast
                 /\ WS!DeliversLast

(* What operation_state.hpp asks of a parent: request_stop() is called on  *)
(* a child at most once, after its start() returned, and before it is      *)
(* destroyed.  For let_value and statement, which replace or destroy the   *)
(* child themselves, it is there; where the children are part of the       *)
(* operation, it has not completed.  Left out are the parent's own threads:*)
(* its request_stop(), and the start() of when_all, which stops children   *)
(* after the last may have completed the operation.                        *)
StopCallsAreLegal == /\ SW!StopCallsAreLegal
                     /\ WA!StopCallsAreLegal
                     /\ FS!StopCallsAreLegal
                     /\ LV!StopFindsTheChild
                     /\ MT!StopFindsTheChild
                     /\ WS!StopCallsAreLegal

(* What is delivered is complete and belongs to the right child: the first *)
(* failure or all the values for when_all, a value if there was one for    *)
(* first_successful, the result of the child that decided for let_value,   *)
(* and for a statement that of a child that is destroyed by then.          *)
ResultIsRight == /\ WA!ResultIsComplete
                 /\ FS!DeliversASuccess
                 /\ LV!ResultIsTheChilds
                 /\ MT!ResultIsTheChilds
                 /\ WS!ResultIsComplete

(* The completion that decides the result ends the operation, although the *)
(* other children would run forever.                                       *)
FirstDecides == /\ SW!CompletesAfterFirst
                /\ WA!FailureStopsTheRest
                /\ FS!SuccessStopsTheRest

(* So does a stop request, of the parent or of the source that a stop      *)
(* token belongs to, at whatever time it comes; and nobody waits for ever  *)
(* inside the source.                                                      *)
StopCompletes == /\ SW!StopCompletes
                 /\ WA!StopCompletes
                 /\ FS!StopCompletes
                 /\ LV!StopCompletes
                 /\ ST!StopCompletes
                 /\ ST!RequestStopReturns
                 /\ MT!StopCompletes
                 /\ WS!StopCompletes

(* A sender declares each completion that its operation delivers, and its  *)
(* operation has room for each result that it stores, however senders are  *)
(* composed: else a result has no alternative of the parent's to go to.    *)
DeliversDeclared == SG!DeliversDeclared

(* The index of a variant names the object in it, for as many types as the *)
(* index has values and in every switch over them: else the object is      *)
(* moved, started and destroyed as one of another type.                    *)
IndexNamesTheObject == VA!IndexNamesTheObject
=============================================================================
