-------------------------- MODULE MCOperationsProofs --------------------------
(***************************************************************************)
(* The operations that arbitrate completions and stop requests, for every  *)
(* number of children: each completes its receiver once and last, asks its *)
(* children to stop only when that is legal, and delivers the right result.*)
(*                                                                         *)
(* Each kind of operation has an invariant, Init and Step lemmas that say  *)
(* that it is one, and a Safe lemma with what it is for.  IInv puts them   *)
(* side by side, as the kinds are.                                         *)
(***************************************************************************)
EXTENDS MCOperations, FiniteSetTheorems, TLAPS
-----------------------------------------------------------------------------
(* stop_when *)

(* Asking the other child to stop is a duty of one thread at a time. *)
SwDuty(t) == sw_pc[t] \in {"stop_source", "stop_trigger", "add_stop_done"}
SwDelivers(t) == sw_pc[t] \in {"deliver", "forward"}
SwStarting == sw_pc["starter"] \in {"idle", "source_started", "start_trigger",
                                    "trigger_started", "add_started"}

SwLabels ==
    /\ SwStarting \/ SwDuty("starter") \/ sw_pc["starter"] \in {"deliver", "returned"}
    /\ sw_pc["source"] \in {"idle", "running", "add_completed", "forward", "deliver",
                            "stop_trigger", "add_stop_done", "returned"}
    /\ sw_pc["trigger"] \in {"idle", "running", "add_completed", "forward", "deliver",
                             "stop_source", "add_stop_done", "returned"}
    /\ sw_pc["stopper"] \in {"idle", "outer_source", "outer_trigger", "returned"}

SwStarts ==
    /\ sw_pc["starter"] = "idle" => sw_pc["source"] = "idle"
    /\ sw_pc["starter"] \in {"idle", "source_started", "start_trigger"} =>
          sw_pc["trigger"] = "idle"
    /\ "started" \in sw_state => ~SwStarting
    /\ "started" \notin sw_state =>
          /\ sw_state \subseteq {"source", "trigger"}
          /\ SwStarting \/ sw_pc["starter"] = "returned"
                        \/ sw_pc["starter"] = "deliver"
    /\ sw_pc["starter"] = "returned" /\ "started" \notin sw_state => sw_sent = 1

(* A child's flag says that it has completed, unless it was the last. *)
SwChildren ==
    \A c \in SW!Children :
        /\ sw_pc[c] \in {"idle", "running", "add_completed", "forward"} => c \notin sw_state
        /\ SwDuty(c) \/ sw_pc[c] = "deliver" => c \in sw_state /\ "started" \in sw_state
        /\ sw_pc[c] = "forward" => "started" \in sw_state
        /\ sw_pc[c] = "returned" => c \in sw_state \/ sw_sent = 1

SwStored == /\ "source" \in sw_state \/ sw_pc["source"] = "add_completed" => sw_stored
            /\ sw_pc["trigger"] = "forward" => "source" \in sw_state

SwDuties ==
    /\ \A t \in SW!Threads : SwDuty(t) =>
          /\ "started" \in sw_state
          /\ sw_state \cap {"stop_done", "stop_requested"} = {}
          /\ sw_state \cap SW!Children # {}
          /\ \A u \in SW!Threads : SwDuty(u) => u = t
          /\ \A u \in SW!Threads : ~SwDelivers(u)
    /\ \A c \in SW!Children : sw_stops[c] > 0 =>
          \/ sw_state \cap {"stop_done", "stop_requested"} # {}
          \/ \E t \in SW!Threads : sw_pc[t] = "add_stop_done"
    /\ sw_pc["stopper"] \in {"outer_source", "outer_trigger"} =>
          "stop_requested" \in sw_state /\ sw_stops["trigger"] = 0
    /\ sw_pc["stopper"] = "outer_source" => sw_stops["source"] = 0
    /\ sw_state \cap {"stop_done", "stop_requested"} # {} => "started" \in sw_state

SwEnds ==
    \A t \in SW!Threads : SwDelivers(t) =>
        /\ sw_sent = 0
        /\ \A u \in SW!Threads : SwDelivers(u) => u = t
        /\ sw_pc["starter"] = "returned" \/ t = "starter"

SwInv == /\ SW!TypeOk /\ SW!CompletesLast
         /\ SwLabels /\ SwStarts /\ SwChildren /\ SwStored /\ SwDuties /\ SwEnds

(* Before the operation is started. *)
LEMMA SwInit == SW!Init => SwInv
<1>. SUFFICES ASSUME SW!Init PROVE SwInv
  OBVIOUS
<1>. USE DEF SW!Init, SW!Children, SW!Threads, SW!Flags, SwDuty, SwDelivers,
         SwStarting
<1>1. SW!TypeOk
  <2>1. sw_stops \in [SW!Children -> 0..1] /\ sw_sent \in 0..1
    OBVIOUS
  <2>2. sw_state \subseteq SW!Flags /\ sw_stored \in BOOLEAN
    OBVIOUS
  <2>3. sw_pc \in [SW!Threads -> SW!Labels]
    BY DEF SW!Labels
  <2>. QED
    BY ONLY <2>1, <2>2, <2>3 DEF SW!TypeOk
<1>2. SW!CompletesLast
  BY DEF SW!CompletesLast
<1>3. SwLabels /\ SwStarts /\ SwChildren /\ SwStored /\ SwDuties /\ SwEnds
  BY DEF SwLabels, SwStarts, SwChildren, SwStored, SwDuties, SwEnds
<1>. QED
  BY <1>1, <1>2, <1>3 DEF SwInv

(* Which of them are called is then as the children expect. *)
LEMMA SwStopsAreLegal == SwInv => SW!StopCallsAreLegal
<1>. SUFFICES ASSUME SwInv PROVE SW!StopCallsAreLegal
  OBVIOUS
<1>1. \A c \in SW!Children : sw_stops[c] > 0 => "started" \in sw_state
  BY DEF SwInv, SW!TypeOk, SwLabels, SwStarts, SwChildren, SwDuties,
     SW!Children, SW!Threads, SwDuty, SwStarting
<1>2. ASSUME NEW t \in SW!Threads
      PROVE  /\ sw_pc[t] \in {"stop_source", "stop_trigger", "add_stop_done"} =>
                   "stop_done" \notin sw_state /\ "stop_requested" \notin sw_state
             /\ sw_pc[t] = "add_completed" => t \notin sw_state
  BY DEF SwInv, SW!TypeOk, SwLabels, SwStarts, SwChildren, SwDuties,
     SW!Children, SW!Threads, SwDuty, SwStarting
<1>3. ASSUME NEW t \in SW!Threads, sw_pc[t] \in {"stop_source", "stop_trigger"}
      PROVE  sw_sent = 0
  <2>1. t # "stopper"
    BY <1>3 DEF SwInv, SwLabels
  <2>2. t \in {"starter", "source", "trigger"}
    BY <2>1 DEF SW!Threads, SW!Children
  <2>3. sw_sent \in 0..1
    BY DEF SwInv, SW!TypeOk
  <2>4. ~(sw_sent > 0)
    BY <1>3, <2>2 DEF SwInv, SW!CompletesLast
  <2>. QED
    BY <2>3, <2>4
<1>. QED
  BY <1>1, <1>2, <1>3 DEF SW!StopCallsAreLegal

(* Every step of stop_when keeps all of it. *)
LEMMA SwStep == SwInv /\ SW!Next => SwInv'
<1>. SUFFICES ASSUME SwInv, SW!Next PROVE SwInv'
  OBVIOUS
<1>. USE DEF SwInv, SW!TypeOk, SW!CompletesLast, SwLabels, SwStarts, SwChildren,
         SwStored, SwDuties, SwEnds, SW!Children, SW!Threads, SW!Flags, SW!Labels,
         SwDuty, SwDelivers, SwStarting, SW!Finished, SW!Goto
<1>1. CASE SW!StartSource
  BY <1>1 DEF SW!StartSource
<1>2. CASE SW!CheckSource
  BY <1>2 DEF SW!CheckSource
<1>3. CASE SW!StartTrigger
  BY <1>3 DEF SW!StartTrigger
<1>4. CASE SW!CheckBoth
  BY <1>4 DEF SW!CheckBoth
<1>5. CASE SW!AddStarted
  BY <1>5 DEF SW!AddStarted
<1>6. ASSUME NEW c \in SW!Children, SW!ChildCompletes(c) PROVE SwInv'
  <2>1. CASE SW!OtherIsDone(c)
    BY <1>6, <2>1 DEF SW!ChildCompletes, SW!OtherIsDone
  <2>2. CASE ~SW!OtherIsDone(c)
    <3>1. SW!TypeOk'
      BY <1>6, <2>2 DEF SW!ChildCompletes
    <3>2. SW!CompletesLast'
      BY <1>6, <2>2 DEF SW!ChildCompletes
    <3>3. SwLabels'
      BY <1>6, <2>2 DEF SW!ChildCompletes
    <3>4. SwStarts'
      BY <1>6, <2>2 DEF SW!ChildCompletes
    <3>5. SwChildren'
      BY <1>6, <2>2 DEF SW!ChildCompletes
    <3>6. SwStored'
      BY <1>6, <2>2 DEF SW!ChildCompletes
    <3>7. SwDuties'
      BY <1>6, <2>2 DEF SW!ChildCompletes
    <3>8. SwEnds'
      BY <1>6, <2>2 DEF SW!ChildCompletes
    <3>. QED
      BY ONLY <3>1, <3>2, <3>3, <3>4, <3>5, <3>6, <3>7, <3>8 DEF SwInv
  <2>. QED
    BY ONLY <2>1, <2>2
<1>7. ASSUME NEW c \in SW!Children, SW!AddCompleted(c) PROVE SwInv'
  BY <1>7 DEF SW!AddCompleted, SW!OtherIsDone
<1>8. ASSUME NEW t \in SW!Threads, SW!StopChild(t) PROVE SwInv'
  BY <1>8 DEF SW!StopChild
<1>9. ASSUME NEW t \in SW!Threads, SW!AddStopDone(t) PROVE SwInv'
  BY <1>9 DEF SW!AddStopDone
<1>10. ASSUME NEW t \in SW!Threads, SW!Deliver(t) PROVE SwInv'
  BY <1>10 DEF SW!Deliver
<1>11. CASE SW!RequestStop
  <2>1. CASE sw_state = {"started"}
    BY <1>11, <2>1 DEF SW!RequestStop
  <2>2. CASE sw_state # {"started"}
    <3>1. SW!TypeOk'
      <4>1. sw_pc' = [sw_pc EXCEPT !["stopper"] = "returned"]
        BY <1>11, <2>2 DEF SW!RequestStop
      <4>2. sw_pc' \in [SW!Threads -> SW!Labels]
        BY ONLY SwInv, <4>1 DEF SwInv, SW!TypeOk, SW!Threads, SW!Labels
      <4>3. UNCHANGED <<sw_state, sw_stored, sw_sent, sw_stops>>
        BY <1>11, <2>2 DEF SW!RequestStop
      <4>. QED
        BY ONLY SwInv, <4>2, <4>3 DEF SwInv, SW!TypeOk
    <3>2. SW!CompletesLast'
      BY <1>11, <2>2 DEF SW!RequestStop
    <3>3. SwLabels'
      BY <1>11, <2>2 DEF SW!RequestStop
    <3>4. SwStarts'
      BY <1>11, <2>2 DEF SW!RequestStop
    <3>5. SwChildren'
      BY <1>11, <2>2 DEF SW!RequestStop
    <3>6. SwStored'
      BY <1>11, <2>2 DEF SW!RequestStop
    <3>7. SwDuties'
      BY <1>11, <2>2 DEF SW!RequestStop
    <3>8. SwEnds'
      BY <1>11, <2>2 DEF SW!RequestStop
    <3>. QED
      BY ONLY <3>1, <3>2, <3>3, <3>4, <3>5, <3>6, <3>7, <3>8 DEF SwInv
  <2>. QED
    BY ONLY <2>1, <2>2
<1>12. CASE SW!StopSource
  BY <1>12 DEF SW!StopSource
<1>13. CASE SW!StopTrigger
  BY <1>13 DEF SW!StopTrigger
<1>. QED
  BY ONLY SW!Next, <1>1, <1>2, <1>3, <1>4, <1>5, <1>6, <1>7, <1>8, <1>9, <1>10, <1>11,
     <1>12, <1>13 DEF SW!Next, SW!StarterStep, SW!SharedStep

-----------------------------------------------------------------------------
(* statement *)

MtLabels ==
    /\ mt_pc["child"] \in {"idle", "running", "copy", "store", "add_completed",
                           "destruct", "deliver", "returned"}
    /\ mt_pc["stopper"] \in {"idle", "add_active", "stop_child", "in_child",
                             "destruct", "deliver", "returned"}
    /\ mt_pc["child"] = "idle" => mt_pc["stopper"] = "idle"
    /\ ~mt_mode.stoppable => mt_pc["stopper"] = "idle"
    /\ mt_pc["child"] \in {"store", "add_completed"} => mt_mode.stoppable
    /\ mt_pc["child"] = "returned" /\ mt_sent = <<>> =>
          mt_pc["stopper"] \in {"stop_child", "in_child", "destruct", "deliver"}

(* What the two flags, or destroyed, say of the two threads. *)
MtFlags ==
    /\ "completed" \in mt_flags <=>
          /\ mt_mode.stoppable
          /\ mt_pc["child"] \in {"copy", "destruct", "deliver", "returned"}
    /\ mt_pc["stopper"] \in {"stop_child", "in_child"} => "stop_active" \in mt_flags
    /\ "stop_active" \in mt_flags =>
          \/ mt_pc["stopper"] \in {"stop_child", "in_child"}
          \/ mt_pc["stopper"] = "returned" /\ "completed" \in mt_flags
    /\ mt_destroyed <=> ~mt_mode.stoppable /\ mt_pc["child"] \in {"deliver", "returned"}

(* One thread destroys the child and delivers, when the other has left it. *)
MtDuty ==
    /\ mt_pc["child"] \in {"copy", "destruct", "deliver"} =>
          mt_pc["stopper"] \in {"idle", "add_active", "returned"}
    /\ mt_pc["stopper"] \in {"destruct", "deliver"} => mt_pc["child"] = "returned"
    /\ mt_sent # <<>> => /\ mt_pc["child"] = "returned"
                         /\ mt_pc["stopper"] \in {"idle", "add_active", "returned"}
    /\ mt_destructs = IF \/ mt_sent # <<>> \/ "deliver" \in {mt_pc["child"], mt_pc["stopper"]}
                         \/ (mt_pc["child"] = "idle" /\ ~mt_alive)
                      THEN 1 ELSE 0
    /\ ~mt_alive => mt_pc["child"] = "idle" \/ mt_sent # <<>>

MtStops == /\ mt_pc["stopper"] \in {"idle", "add_active", "stop_child"} => mt_stops = 0
           /\ mt_pc["stopper"] = "in_child" => mt_stops = 1

MtResults ==
    /\ mt_outcome \in MT!Results <=> mt_pc["child"] \notin {"idle", "running"}
    /\ mt_pc["child"] \in {"idle", "running"} => mt_stored = "none"
    /\ mt_stored \in {"none", mt_outcome} \/ (mt_stored = "exception" /\ ~mt_mode.nothrow)
    /\ mt_sent # <<>> => \/ mt_sent = <<mt_outcome>>
                         \/ mt_sent = <<"exception">> /\ ~mt_mode.nothrow

MtInv == MT!TypeOk /\ MtLabels /\ MtFlags /\ MtDuty /\ MtStops /\ MtResults

(* Before the operation is started. *)
LEMMA MtInit == MT!Init => MtInv
<1>. SUFFICES ASSUME MT!Init PROVE MtInv
  OBVIOUS
<1>. USE DEF MT!Init, MT!Threads
<1>1. MT!TypeOk
  <2>1. mt_pc \in [MT!Threads -> MT!Labels]
    BY DEF MT!Labels
  <2>2. mt_mode \in [stoppable : BOOLEAN, copies : BOOLEAN, nothrow : BOOLEAN]
    OBVIOUS
  <2>3. /\ {mt_stored, mt_outcome} \subseteq {"none", "exception"} \cup MT!Results
        /\ mt_sent \in Seq(MT!Results \cup {"exception"})
    OBVIOUS
  <2>4. /\ mt_flags \subseteq {"completed", "stop_active"}
        /\ IF mt_mode.stoppable THEN ~mt_destroyed ELSE mt_flags = {}
        /\ mt_destroyed \in BOOLEAN /\ mt_alive \in BOOLEAN
        /\ mt_destructs \in Nat /\ mt_stops \in Nat
    OBVIOUS
  <2>. QED
    BY ONLY <2>1, <2>2, <2>3, <2>4 DEF MT!TypeOk
<1>2. MtLabels /\ MtFlags /\ MtStops
  BY DEF MtLabels, MtFlags, MtStops
<1>3. MtDuty
  BY DEF MtDuty
<1>4. MtResults
  <2>1. /\ mt_pc["child"] = "idle" /\ mt_sent = <<>>
        /\ mt_outcome = "none" /\ mt_stored = "none"
    OBVIOUS
  <2>2. mt_outcome \notin MT!Results /\ mt_sent = <<>>
    BY ONLY <2>1 DEF MT!Results
  <2>3. mt_outcome \in MT!Results <=> mt_pc["child"] \notin {"idle", "running"}
    BY <2>1, <2>2
  <2>4. /\ mt_pc["child"] \in {"idle", "running"} => mt_stored = "none"
        /\ mt_stored \in {"none", mt_outcome} \/ (mt_stored = "exception" /\ ~mt_mode.nothrow)
    BY ONLY <2>1
  <2>5. mt_sent # <<>> => \/ mt_sent = <<mt_outcome>>
                          \/ mt_sent = <<"exception">> /\ ~mt_mode.nothrow
    BY ONLY <2>1
  <2>. QED
    BY ONLY <2>3, <2>4, <2>5 DEF MtResults
<1>. QED
  BY ONLY <1>1, <1>2, <1>3, <1>4 DEF MtInv

(* With that, what the run asks of a statement holds. *)
LEMMA MtSafe == MtInv => MT!CompletesLast /\ MT!StopFindsTheChild /\ MT!ResultIsTheChilds
<1>. SUFFICES ASSUME MtInv
              PROVE  MT!CompletesLast /\ MT!StopFindsTheChild /\ MT!ResultIsTheChilds
  OBVIOUS
<1>1. mt_sent # <<>> => /\ mt_sent \in {<<mt_outcome>>, <<"exception">>}
                        /\ Len(mt_sent) = 1
  BY DEF MtInv, MtResults
<1>2. Len(mt_sent) \in {0, 1}
  <2>1. mt_sent = <<>> => Len(mt_sent) = 0
    OBVIOUS
  <2>. QED
    BY ONLY <1>1, <2>1
<1>3. \A n \in {0, 1} : n <= 1
  OBVIOUS
<1>4. Len(mt_sent) <= 1
  BY ONLY <1>2, <1>3
<1>5. MT!CompletesLast
  BY <1>4 DEF MtInv, MT!TypeOk, MtLabels, MtDuty, MT!CompletesLast, MT!Threads
<1>6. MT!StopFindsTheChild
  BY DEF MtInv, MT!TypeOk, MtLabels, MtDuty, MtStops, MT!StopFindsTheChild
<1>7. MT!ResultIsTheChilds
  BY DEF MtInv, MtDuty, MtResults, MT!Results, MT!ResultIsTheChilds
<1>. QED
  BY <1>5, <1>6, <1>7

(* Every step of a statement keeps all of it. *)
LEMMA MtStep == MtInv /\ MT!Next => MtInv'
<1>. SUFFICES ASSUME MtInv, MT!Next PROVE MtInv'
  OBVIOUS
<1>. USE DEF MtInv, MT!TypeOk, MT!Labels, MT!Threads, MT!Results, MtLabels, MtFlags,
         MtDuty, MtStops, MtResults, MT!Goto, MT!IsDestroyed
<1>1. CASE MT!Start
  BY <1>1 DEF MT!Start
<1>2. CASE MT!ChildCompletes
  <2>1. MT!TypeOk'
    <3>1. mt_pc' \in [MT!Threads -> MT!Labels]
      BY <1>2 DEF MT!ChildCompletes
    <3>2. /\ mt_outcome' \in MT!Results
          /\ mt_flags' \in {mt_flags, {"completed"}}
          /\ ~mt_mode.stoppable => mt_flags' = mt_flags
          /\ UNCHANGED <<mt_mode, mt_destroyed, mt_stored, mt_destructs, mt_alive,
                         mt_sent, mt_stops>>
      BY <1>2 DEF MT!ChildCompletes
    <3>. QED
      BY ONLY MtInv, <3>1, <3>2 DEF MtInv, MT!TypeOk
  <2>2. MtLabels'
    BY <1>2 DEF MT!ChildCompletes
  <2>3. MtFlags'
    BY <1>2 DEF MT!ChildCompletes
  <2>4. MtDuty'
    BY <1>2 DEF MT!ChildCompletes
  <2>5. MtStops'
    BY <1>2 DEF MT!ChildCompletes
  <2>6. MtResults'
    BY <1>2 DEF MT!ChildCompletes
  <2>. QED
    BY ONLY <2>1, <2>2, <2>3, <2>4, <2>5, <2>6 DEF MtInv
<1>3. CASE MT!CopyResult
  BY <1>3 DEF MT!CopyResult
<1>4. CASE MT!AddCompleted
  BY <1>4 DEF MT!AddCompleted
<1>5. CASE MT!RequestStop
  BY <1>5 DEF MT!RequestStop
<1>6. CASE MT!AddActive
  BY <1>6 DEF MT!AddActive
<1>7. CASE MT!StopChild
  BY <1>7 DEF MT!StopChild
<1>8. CASE MT!SubtractActive
  <2>1. MT!TypeOk'
    BY <1>8 DEF MT!SubtractActive
  <2>2. MtLabels'
    <3>1. /\ mt_pc["stopper"] = "in_child" /\ "stop_active" \in mt_flags
          /\ mt_flags \subseteq {"completed", "stop_active"}
          /\ mt_pc["child"] = "returned" => "completed" \in mt_flags
      BY <1>8 DEF MT!SubtractActive
    <3>2. mt_pc["child"] = "returned" => mt_flags = {"stop_active", "completed"}
      BY ONLY <3>1
    <3>. QED
      BY <1>8, <3>2 DEF MT!SubtractActive
  <2>3. MtFlags'
    BY <1>8 DEF MT!SubtractActive
  <2>4. MtDuty'
    BY <1>8 DEF MT!SubtractActive
  <2>5. MtStops'
    BY <1>8 DEF MT!SubtractActive
  <2>6. MtResults'
    BY <1>8 DEF MT!SubtractActive
  <2>. QED
    BY ONLY <2>1, <2>2, <2>3, <2>4, <2>5, <2>6 DEF MtInv
<1>9. ASSUME NEW t \in MT!Threads, MT!Destruct(t) PROVE MtInv'
  BY <1>9 DEF MT!Destruct
<1>10. ASSUME NEW t \in MT!Threads, MT!Deliver(t) PROVE MtInv'
  <2>1. MT!TypeOk'
    BY <1>10 DEF MT!Deliver
  <2>2. MtLabels'
    BY <1>10 DEF MT!Deliver
  <2>3. MtFlags'
    BY <1>10 DEF MT!Deliver
  <2>4. MtDuty'
    BY <1>10 DEF MT!Deliver
  <2>5. MtStops'
    BY <1>10 DEF MT!Deliver
  <2>6. MtResults'
    <3>1. mt_sent = <<>> /\ mt_outcome \in MT!Results
      BY <1>10 DEF MT!Deliver
    <3>2. mt_sent' = <<IF mt_stored = "none" THEN mt_outcome ELSE mt_stored>>
      BY <1>10, <3>1 DEF MT!Deliver
    <3>3. mt_pc'["child"] \notin {"idle", "running"}
      BY <1>10 DEF MT!Deliver
    <3>. QED
      BY <1>10, <3>1, <3>2, <3>3 DEF MT!Deliver
  <2>. QED
    BY ONLY <2>1, <2>2, <2>3, <2>4, <2>5, <2>6 DEF MtInv
<1>11. CASE MT!DestroyOp
  <2>1. MT!TypeOk'
    <3>1. mt_destructs' \in Nat
      BY <1>11 DEF MT!DestroyOp
    <3>. QED
      BY <1>11, <3>1 DEF MT!DestroyOp
  <2>2. MtLabels'
    BY <1>11 DEF MT!DestroyOp
  <2>3. MtFlags'
    BY <1>11 DEF MT!DestroyOp
  <2>4. MtDuty'
    <3>1. CASE mt_pc["child"] = "idle" /\ mt_sent = <<>>
      <4>1. mt_flags = {} /\ ~mt_destroyed /\ mt_destructs = 0
        BY <1>11, <3>1 DEF MT!DestroyOp
      <4>. QED
        BY <1>11, <3>1, <4>1 DEF MT!DestroyOp
    <3>2. CASE ~(mt_pc["child"] = "idle" /\ mt_sent = <<>>)
      <4>1. mt_sent # <<>> /\ mt_pc["child"] = "returned" /\ mt_destructs = 1
        BY <1>11, <3>2 DEF MT!DestroyOp
      <4>2. MT!IsDestroyed
        BY <4>1
      <4>. QED
        BY <1>11, <4>1, <4>2 DEF MT!DestroyOp
    <3>. QED
      BY ONLY <3>1, <3>2
  <2>5. MtStops'
    BY <1>11 DEF MT!DestroyOp
  <2>6. MtResults'
    BY <1>11 DEF MT!DestroyOp
  <2>. QED
    BY ONLY <2>1, <2>2, <2>3, <2>4, <2>5, <2>6 DEF MtInv
<1>. QED
  BY ONLY MT!Next, <1>1, <1>2, <1>3, <1>4, <1>5, <1>6, <1>7, <1>8, <1>9, <1>10, <1>11
     DEF MT!Next, MT!ChildStep, MT!StopperStep

-----------------------------------------------------------------------------
(* let_value *)

LvBodyRuns == lv_pc["body"] \in {"running", "store", "add_done"}

LvLabels ==
    /\ lv_pc["source"] \in {"idle", "running", "store_value", "construct", "add_started",
                            "stop_body", "add_stop_done", "returned", "send_error",
                            "send_stopped", "send_own", "dispatch"}
    /\ lv_pc["body"] \in {"idle", "running", "store", "add_done", "dispatch", "send_own",
                          "returned"}
    /\ lv_pc["stopper"] \in {"idle", "stop_source", "stop_body", "returned"}
    /\ lv_pc["source"] = "idle" => lv_pc["stopper"] = "idle"

(* The stages of the source's thread, and the child that is alive in each. *)
LvStages ==
    /\ lv_pc["source"] \in {"idle", "running", "send_own"} =>
          lv_child = "source" /\ "src_done" \notin lv_flags
    /\ lv_pc["source"] \in {"store_value", "construct", "send_error"} =>
          "src_done" \in lv_flags /\ lv_child # "body"
    /\ "src_done" \notin lv_flags =>
          /\ lv_child = "source"
          /\ lv_pc["source"] \in {"idle", "running", "send_own", "returned"}
    /\ lv_pc["source"] = "store_value" => lv_child = "source"
    /\ lv_pc["source"] = "construct" => lv_child = "none"
    /\ lv_pc["source"] = "send_stopped" =>
          lv_child = "source" /\ {"src_done", "stop_requested"} \subseteq lv_flags
    /\ lv_pc["source"] = "add_started" =>
          /\ lv_child = "body"
          /\ "src_done" \in lv_flags /\ "body_started" \notin lv_flags
    /\ lv_pc["source"] \in {"stop_body", "add_stop_done"} =>
          /\ {"src_done", "body_started", "stop_requested"} \subseteq lv_flags
          /\ "stop_done" \notin lv_flags
    /\ lv_pc["source"] = "dispatch" => {"body_started", "body_done"} \subseteq lv_flags
    /\ lv_pc["source"] = "returned" /\ lv_child = "body" => "body_started" \in lv_flags
    /\ "body_started" \in lv_flags =>
          /\ lv_child = "body"
          /\ lv_pc["source"] \in {"stop_body", "add_stop_done", "dispatch", "returned"}
          /\ /\ "stop_requested" \in lv_flags
             /\ "stop_done" \notin lv_flags /\ "body_done" \notin lv_flags
             => lv_pc["source"] \in {"stop_body", "add_stop_done"}
    /\ "stop_done" \in lv_flags => lv_pc["source"] \in {"dispatch", "returned"}

LvBody ==
    /\ lv_pc["body"] = "idle" <=> lv_child # "body"
    /\ "body_done" \in lv_flags => lv_pc["body"] \in {"dispatch", "returned"}
    /\ lv_pc["body"] = "dispatch" => "body_done" \in lv_flags
    /\ lv_pc["body"] \in {"dispatch", "send_own"} =>
          lv_pc["source"] = "returned" /\ "body_started" \in lv_flags

(* The operation has not completed while a thread is inside it. *)
LvSent ==
    /\ lv_sent # <<>> => Len(lv_sent) = 1
    /\ lv_pc["source"] # "returned" => lv_sent = <<>>
    /\ lv_pc["body"] \notin {"idle", "returned"} => lv_sent = <<>>

(* Asking a child to stop is up to one thread, once. *)
LvStops ==
    /\ lv_stops["source"] > 0 \/ lv_pc["stopper"] = "stop_source" =>
          /\ lv_child = "source" /\ "stop_requested" \in lv_flags
          /\ lv_pc["source"] \in {"running", "send_own", "send_stopped", "returned"}
    /\ lv_stops["body"] > 0 \/ lv_pc["stopper"] = "stop_body" => "body_started" \in lv_flags
    /\ lv_pc["stopper"] = "idle" => "stop_requested" \notin lv_flags
    /\ lv_pc["stopper"] = "stop_body" => "stop_requested" \notin lv_flags
    /\ lv_pc["stopper"] # "returned" =>
          lv_stops["source"] = 0 /\ lv_stops["body"] = 0
    /\ lv_pc["source"] = "stop_body" => lv_stops["body"] = 0
    /\ lv_stops["source"] \in {0, 1} /\ lv_stops["body"] \in {0, 1}

LvResults ==
    /\ lv_pc["source"] = "send_own" => lv_outcome["source"] \in {"error", "stopped"}
    /\ "body_done" \in lv_flags \/ lv_pc["body"] = "add_done" =>
          lv_stored \in {lv_outcome["body"], "error"}
    /\ LV!ResultIsTheChilds

LvInv == LV!TypeOk /\ LvLabels /\ LvStages /\ LvBody /\ LvSent /\ LvStops /\ LvResults

(* Before the operation is started. *)
LEMMA LvInit == LV!Init => LvInv
<1>. SUFFICES ASSUME LV!Init PROVE LvInv
  OBVIOUS
<1>. USE DEF LV!Init, LV!Children, LV!Threads
<1>1. LV!TypeOk
  <2>1. lv_pc \in [LV!Threads -> {"idle", "running", "store_value", "construct",
                                 "add_started", "stop_body", "stop_source",
                                 "add_stop_done", "store", "add_done", "returned",
                                 "send_error", "send_stopped", "send_own", "dispatch"}]
    OBVIOUS
  <2>2. lv_outcome \in [LV!Children -> {"none"} \cup LV!Results]
    OBVIOUS
  <2>3. lv_stops \in [LV!Children -> Nat]
    OBVIOUS
  <2>4. lv_sent \in Seq({"none"} \cup LV!Results) /\ lv_stored \in {"none"} \cup LV!Results
    OBVIOUS
  <2>. QED
    BY <2>1, <2>2, <2>3, <2>4 DEF LV!TypeOk, LV!Flags
<1>2. LvLabels /\ LvBody /\ LvSent
  BY DEF LvLabels, LvBody, LvSent
<1>3. LvStages
  BY DEF LvStages
<1>4. LvStops /\ LvResults
  BY DEF LvStops, LvResults, LV!ResultIsTheChilds
<1>. QED
  BY ONLY <1>1, <1>2, <1>3, <1>4 DEF LvInv

(* With that, what the run asks of let_value holds. *)
LEMMA LvSafe == LvInv => LV!CompletesLast /\ LV!StopFindsTheChild /\ LV!ResultIsTheChilds
<1>. SUFFICES ASSUME LvInv
              PROVE  LV!CompletesLast /\ LV!StopFindsTheChild /\ LV!ResultIsTheChilds
  OBVIOUS
<1>1. Len(lv_sent) \in {0, 1}
  <2>1. lv_sent = <<>> => Len(lv_sent) = 0
    OBVIOUS
  <2>2. lv_sent # <<>> => Len(lv_sent) = 1
    BY DEF LvInv, LvSent
  <2>. QED
    BY ONLY <2>1, <2>2
<1>2. \A n \in {0, 1} : n <= 1
  OBVIOUS
<1>3. Len(lv_sent) <= 1
  BY ONLY <1>1, <1>2
<1>4. LV!CompletesLast
  BY <1>3 DEF LvInv, LV!TypeOk, LvLabels, LvStages, LvBody, LvSent, LV!CompletesLast,
     LV!Completing, LV!Children
<1>5. LV!StopFindsTheChild
  <2>1. ASSUME NEW t \in LV!Threads, lv_pc[t] \in {"stop_source", "stop_body"}
        PROVE  lv_child = LV!Target(t) /\ lv_stops[LV!Target(t)] = 0
    BY <2>1 DEF LvInv, LV!TypeOk, LvLabels, LvStages, LvStops, LV!Target, LV!Threads,
       LV!Children
  <2>2. ~(lv_stops["source"] > 0 /\ lv_stops["body"] > 0)
    BY DEF LvInv, LvStages, LvStops
  <2>3. lv_stops["source"] + lv_stops["body"] <= 1
    BY <2>2 DEF LvInv, LvStops
  <2>. QED
    BY ONLY <2>1, <2>3 DEF LV!StopFindsTheChild
<1>6. LV!ResultIsTheChilds
  BY DEF LvInv, LvResults
<1>. QED
  BY <1>4, <1>5, <1>6

(* Every step of let_value keeps all of it. *)
LEMMA LvStep == LvInv /\ LV!Next => LvInv'
<1>. SUFFICES ASSUME LvInv, LV!Next PROVE LvInv'
  OBVIOUS
<1>. USE DEF LvInv, LV!TypeOk, LV!Flags, LV!Threads, LV!Children, LV!Results,
         LvLabels, LvStages, LvBody, LvSent, LvStops, LvResults, LV!ResultIsTheChilds,
         LV!Goto, LV!Target, LV!Completing, LV!CanCompleteInline
<1>1. CASE LV!Start
  BY <1>1 DEF LV!Start
<1>2. CASE LV!SourceFails
  BY <1>2 DEF LV!SourceFails
<1>3. CASE LV!SourceSucceeds
  BY <1>3 DEF LV!SourceSucceeds
<1>4. CASE LV!DestructSource
  BY <1>4 DEF LV!DestructSource
<1>5. CASE LV!StartBody
  BY <1>5 DEF LV!StartBody
<1>6. CASE LV!StartBodyThrows
  BY <1>6 DEF LV!StartBodyThrows
<1>7. CASE LV!AddStarted
  <2>1. CASE lv_flags = {"src_done", "stop_requested"}
    BY <1>7, <2>1 DEF LV!AddStarted
  <2>2. CASE lv_flags # {"src_done", "stop_requested"}
    <3>1. LV!TypeOk'
      BY <1>7, <2>2 DEF LV!AddStarted
    <3>2. LvLabels'
      BY <1>7, <2>2 DEF LV!AddStarted
    <3>3. LvStages'
      BY <1>7, <2>2, ZenonT(40) DEF LV!AddStarted
    <3>4. LvBody'
      BY <1>7, <2>2 DEF LV!AddStarted
    <3>5. LvSent'
      BY <1>7, <2>2 DEF LV!AddStarted
    <3>6. LvStops'
      BY <1>7, <2>2 DEF LV!AddStarted
    <3>7. LvResults'
      BY <1>7, <2>2 DEF LV!AddStarted
    <3>. QED
      BY ONLY <3>1, <3>2, <3>3, <3>4, <3>5, <3>6, <3>7 DEF LvInv
  <2>. QED
    BY ONLY <2>1, <2>2
<1>8. CASE LV!AddStopDone
  BY <1>8 DEF LV!AddStopDone
<1>9. CASE LV!BodyCompletes
  BY <1>9 DEF LV!BodyCompletes
<1>10. CASE LV!StoreResult
  BY <1>10 DEF LV!StoreResult
<1>11. CASE LV!AddDone
  BY <1>11 DEF LV!AddDone
<1>12. CASE LV!RequestStop
  <2>1. CASE "body_done" \in lv_flags
    <3>1. LV!TypeOk'
      BY <1>12, <2>1, ZenonT(40) DEF LV!RequestStop
    <3>2. LvLabels'
      BY <1>12, <2>1 DEF LV!RequestStop
    <3>3. LvStages'
      BY <1>12, <2>1 DEF LV!RequestStop
    <3>4. LvBody'
      BY <1>12, <2>1 DEF LV!RequestStop
    <3>5. LvSent'
      BY <1>12, <2>1 DEF LV!RequestStop
    <3>6. LvStops'
      BY <1>12, <2>1 DEF LV!RequestStop
    <3>7. LvResults'
      BY <1>12, <2>1 DEF LV!RequestStop
    <3>. QED
      BY ONLY <3>1, <3>2, <3>3, <3>4, <3>5, <3>6, <3>7 DEF LvInv
  <2>2. CASE "body_done" \notin lv_flags /\ "body_started" \in lv_flags
    <3>1. LV!TypeOk'
      BY <1>12, <2>2, ZenonT(40) DEF LV!RequestStop
    <3>2. LvLabels'
      BY <1>12, <2>2 DEF LV!RequestStop
    <3>3. LvStages'
      BY <1>12, <2>2 DEF LV!RequestStop
    <3>4. LvBody'
      BY <1>12, <2>2 DEF LV!RequestStop
    <3>5. LvSent'
      BY <1>12, <2>2 DEF LV!RequestStop
    <3>6. LvStops'
      BY <1>12, <2>2 DEF LV!RequestStop
    <3>7. LvResults'
      BY <1>12, <2>2 DEF LV!RequestStop
    <3>. QED
      BY ONLY <3>1, <3>2, <3>3, <3>4, <3>5, <3>6, <3>7 DEF LvInv
  <2>3. CASE "src_done" \in lv_flags /\ "body_done" \notin lv_flags /\ "body_started" \notin lv_flags
    <3>1. LV!TypeOk'
      <4>1. /\ lv_flags' \subseteq LV!Flags
            /\ lv_flags' = lv_flags \cup {"stop_requested"} /\ "stop_done" \notin lv_flags
            /\ UNCHANGED <<lv_child, lv_outcome, lv_stored, lv_sent, lv_stops>>
        BY <1>12, <2>3 DEF LV!RequestStop
      <4>2. lv_pc' = [lv_pc EXCEPT !["stopper"] = "returned"]
        BY <1>12, <2>3 DEF LV!RequestStop
      <4>. QED
        BY <4>1, <4>2, <2>3
    <3>2. LvLabels'
      BY <1>12, <2>3 DEF LV!RequestStop
    <3>3. LvStages'
      BY <1>12, <2>3 DEF LV!RequestStop
    <3>4. LvBody'
      BY <1>12, <2>3 DEF LV!RequestStop
    <3>5. LvSent'
      BY <1>12, <2>3 DEF LV!RequestStop
    <3>6. LvStops'
      BY <1>12, <2>3 DEF LV!RequestStop
    <3>7. LvResults'
      BY <1>12, <2>3 DEF LV!RequestStop
    <3>. QED
      BY ONLY <3>1, <3>2, <3>3, <3>4, <3>5, <3>6, <3>7 DEF LvInv
  <2>4. CASE "src_done" \notin lv_flags /\ "body_done" \notin lv_flags /\ "body_started" \notin lv_flags
    <3>1. LV!TypeOk'
      <4>1. /\ lv_flags' \subseteq LV!Flags
            /\ lv_flags' = lv_flags \cup {"stop_requested"} /\ "stop_done" \notin lv_flags
            /\ UNCHANGED <<lv_child, lv_outcome, lv_stored, lv_sent, lv_stops>>
        BY <1>12, <2>4 DEF LV!RequestStop
      <4>2. lv_pc' = [lv_pc EXCEPT !["stopper"] = "stop_source"]
        BY <1>12, <2>4 DEF LV!RequestStop
      <4>. QED
        BY <4>1, <4>2, <2>4
    <3>2. LvLabels'
      BY <1>12, <2>4 DEF LV!RequestStop
    <3>3. LvStages'
      BY <1>12, <2>4 DEF LV!RequestStop
    <3>4. LvBody'
      BY <1>12, <2>4 DEF LV!RequestStop
    <3>5. LvSent'
      BY <1>12, <2>4 DEF LV!RequestStop
    <3>6. LvStops'
      BY <1>12, <2>4 DEF LV!RequestStop
    <3>7. LvResults'
      BY <1>12, <2>4 DEF LV!RequestStop
    <3>. QED
      BY ONLY <3>1, <3>2, <3>3, <3>4, <3>5, <3>6, <3>7 DEF LvInv
  <2>. QED
    BY ONLY <2>1, <2>2, <2>3, <2>4
<1>13. ASSUME NEW t \in LV!Threads, LV!StopChild(t) PROVE LvInv'
  BY <1>13 DEF LV!StopChild
<1>14. ASSUME NEW t \in LV!Threads, LV!Complete(t) PROVE LvInv'
  BY <1>14 DEF LV!Complete
<1>. QED
  BY ONLY LV!Next, <1>1, <1>2, <1>3, <1>4, <1>5, <1>6, <1>7, <1>8, <1>9, <1>10, <1>11,
     <1>12, <1>13, <1>14 DEF LV!Next, LV!SourceStep, LV!BodyStep

-----------------------------------------------------------------------------
(* stop_token_sender *)

StThreads == {"starter", "parent", "stopper", "second_stopper"}
StDecides(t) == st_pc[t] \in {"reset", "resetting", "deliver"}

(* No request_stop() of the source is inside the callback, or about to be, *)
(* but that of t, and none can find it.                                    *)
StNobodyElse(t) == /\ st_source_state # "callback"
                   /\ \A u \in StThreads : u # t => st_req[u] \notin {"store_id", "execute"}
StNobody == /\ st_source_state # "callback"
            /\ \A u \in StThreads : st_req[u] = "out"

StLabels ==
    /\ st_pc["starter"] # "callback"
    /\ st_pc["parent"] \in {"idle", "reset", "resetting", "deliver", "returned"}
    /\ \A t \in ST!Requesters : st_pc[t] \in {"idle", "callback", "reset", "resetting",
                                              "deliver", "returned"}
    /\ st_pc["parent"] # "idle" => st_pc["starter"] = "returned"
    /\ "stop_requested" \in st_state <=> st_pc["parent"] # "idle"

(* One call of the source's request_stop() runs the callback at most.      *)
StSource ==
    /\ st_req["starter"] = "out" /\ st_req["parent"] = "out"
    /\ \A t \in StThreads : \A u \in StThreads :
          st_req[t] # "out" /\ st_req[u] # "out" => t = u
    /\ st_source_state \in {"null", "callback"} =>
          /\ \A t \in StThreads : st_req[t] = "out"
          /\ st_stopping_thread = ST!NoThread
    /\ \A t \in StThreads :
          /\ st_req[t] \in {"store_id", "execute", "store_done"} =>
                st_source_state = "requested"
          /\ st_req[t] = "notify" => st_source_state = "done"
          /\ st_req[t] = "store_id" => st_pc[t] = "callback"
          /\ st_req[t] \in {"store_done", "notify"} => st_pc[t] = "returned"
          /\ st_req[t] = "execute" => st_pc[t] # "idle"
          /\ st_source_state = "requested" /\ st_stopping_thread = t =>
                st_req[t] \in {"execute", "store_done"}
          /\ st_req[t] # "out" /\ st_req[t] # "store_id" => st_stopping_thread = t
    /\ \A t \in ST!Requesters : StDecides(t) => st_req[t] = "execute"

(* The callback is registered by start(), and nobody runs it before.       *)
StStarts ==
    /\ st_pc["starter"] \in {"idle", "emplace", "inline_callback"} =>
          StNobody /\ st_state = {} /\ ~st_deregisters
    /\ st_pc["starter"] = "inline_callback" => ST!StopRequested
    /\ st_pc["starter"] = "add_constructed" =>
          /\ st_state \subseteq {"invoked"}
          /\ st_deregisters \/ ("invoked" \in st_state /\ StNobody)
    /\ st_state = {"constructed"} => st_deregisters

(* One thread decides, and it has taken the callback out when it delivers. *)
StEnds ==
    /\ \A t \in StThreads : StDecides(t) => /\ st_outcome = "none"
                                            /\ \A u \in StThreads : StDecides(u) => u = t
    /\ st_outcome # "none" \/ (\E t \in StThreads : StDecides(t)) =>
          /\ st_pc["starter"] \notin {"idle", "emplace", "inline_callback", "add_constructed"}
          /\ st_state # {"constructed"}
    /\ \A t \in StThreads :
          /\ st_dereg[t] # "out" => st_pc[t] = "resetting"
          /\ st_pc[t] = "reset" => st_deregisters \/ StNobody
          /\ st_pc[t] = "resetting" /\ st_dereg[t] = "out" => StNobodyElse(t)
          /\ st_pc[t] = "resetting" /\ st_dereg[t] \in {"load", "blocked"} =>
                st_source_state \in {"requested", "done"}
          /\ st_pc[t] = "deliver" => StNobodyElse(t)

StInv == ST!TypeOk /\ StLabels /\ StSource /\ StStarts /\ StEnds

(* Before the operation is started. *)
LEMMA StInit == ST!Init => StInv
<1>. SUFFICES ASSUME ST!Init PROVE StInv
  OBVIOUS
<1>. USE DEF ST!Init, ST!SourceInit, ST!NoThread, ST!Requesters
<1>1. ST!TypeOk
  BY DEF ST!TypeOk, ST!SourceTypeOk, ST!SourceStates
<1>2. \A t \in StThreads : st_pc[t] = "idle" /\ st_req[t] = "out" /\ st_dereg[t] = "out"
  BY DEF StThreads
<1>3. \A t \in StThreads : ~StDecides(t)
  BY <1>2 DEF StDecides
<1>4. StLabels /\ StSource
  BY <1>2, <1>3 DEF StLabels, StSource, StThreads
<1>5. StStarts /\ StEnds
  BY <1>2, <1>3 DEF StStarts, StEnds, StNobody, StThreads
<1>. QED
  BY <1>1, <1>4, <1>5 DEF StInv

(* With that, what the run asks of it holds. *)
LEMMA StSafe == StInv => ST!CompletesLast
<1>. SUFFICES ASSUME StInv, NEW t \in StThreads
              PROVE  /\ st_pc[t] \in {"reset", "resetting", "deliver"} => st_outcome = "none"
                     /\ st_pc[t] = "deliver" =>
                           /\ st_source_state # "callback"
                           /\ \A u \in StThreads \ {t} :
                                 /\ ~ST!Inside(u)
                                 /\ st_req[u] \notin {"store_id", "execute"}
  BY DEF ST!CompletesLast, StThreads
<1>1. st_pc[t] \in {"reset", "resetting", "deliver"} => st_outcome = "none"
  BY DEF StInv, StEnds, StDecides
<1>2. ASSUME st_pc[t] = "deliver"
      PROVE  /\ st_source_state # "callback"
             /\ \A u \in StThreads : u # t => st_req[u] \notin {"store_id", "execute"}
  BY <1>2 DEF StInv, StEnds, StNobodyElse
<1>3. ASSUME st_pc[t] = "deliver", NEW u \in StThreads, u # t
      PROVE  ~ST!Inside(u)
  <2>1. ~StDecides(u)
    BY <1>3 DEF StInv, StEnds, StDecides
  <2>2. st_pc["starter"] \notin {"idle", "emplace", "inline_callback", "add_constructed"}
    BY <1>3 DEF StInv, StEnds, StDecides
  <2>. QED
    BY <2>1, <2>2 DEF StInv, StLabels, ST!TypeOk, ST!Inside, ST!Requesters, StThreads,
       StDecides
<1>. QED
  BY <1>1, <1>2, <1>3

(* Every step of it keeps all of it. *)
LEMMA StStep == StInv /\ ST!Next => StInv'
<1>. SUFFICES ASSUME StInv, ST!Next PROVE StInv'
  OBVIOUS
<1>. USE DEF StInv, ST!TypeOk, ST!SourceTypeOk, ST!SourceStates, ST!NoThread,
         StLabels, StSource, StStarts, StEnds, StThreads, StDecides, StNobody,
         StNobodyElse, ST!Requesters, ST!StopRequested, ST!Goto, ST!sourceVars,
         ST!opVars
<1>1. CASE ST!Start
  <2>1. ST!TypeOk'
    BY <1>1 DEF ST!Start
  <2>2. StLabels'
    BY <1>1 DEF ST!Start
  <2>3. StSource'
    BY <1>1 DEF ST!Start
  <2>4. StStarts'
    BY <1>1 DEF ST!Start
  <2>5. StEnds'
    BY <1>1 DEF ST!Start
  <2>. QED
    BY ONLY <2>1, <2>2, <2>3, <2>4, <2>5 DEF StInv
<1>2. CASE ST!Emplace
  <2>1. ST!TypeOk'
    <3>1. ST!SourceTypeOk'
      BY <1>2 DEF ST!Emplace, ST!TryRegisterSucceeds, ST!TryRegisterFails
    <3>2. st_pc' = [st_pc EXCEPT !["starter"] = st_pc'["starter"]]
          /\ st_pc'["starter"] \in {"add_constructed", "inline_callback"}
      BY <1>2 DEF ST!Emplace
    <3>3. st_deregisters' \in BOOLEAN /\ UNCHANGED <<st_state, st_outcome>>
      BY <1>2 DEF ST!Emplace
    <3>. QED
      BY ONLY StInv, <3>1, <3>2, <3>3 DEF StInv, ST!TypeOk
  <2>2. StLabels'
    BY <1>2 DEF ST!Emplace, ST!TryRegisterSucceeds, ST!TryRegisterFails
  <2>3. StSource'
    BY <1>2 DEF ST!Emplace, ST!TryRegisterSucceeds, ST!TryRegisterFails
  <2>4. StStarts'
    BY <1>2 DEF ST!Emplace, ST!TryRegisterSucceeds, ST!TryRegisterFails
  <2>5. StEnds'
    BY <1>2 DEF ST!Emplace, ST!TryRegisterSucceeds, ST!TryRegisterFails
  <2>. QED
    BY ONLY <2>1, <2>2, <2>3, <2>4, <2>5 DEF StInv
<1>3. CASE ST!InlineCallback
  <2>1. ST!TypeOk'
    BY <1>3 DEF ST!InlineCallback
  <2>2. StLabels'
    BY <1>3 DEF ST!InlineCallback
  <2>3. StSource'
    BY <1>3 DEF ST!InlineCallback
  <2>4. StStarts'
    BY <1>3 DEF ST!InlineCallback
  <2>5. StEnds'
    BY <1>3 DEF ST!InlineCallback
  <2>. QED
    BY ONLY <2>1, <2>2, <2>3, <2>4, <2>5 DEF StInv
<1>4. CASE ST!AddConstructed
  <2>1. ST!TypeOk'
    BY <1>4 DEF ST!AddConstructed
  <2>2. StLabels'
    BY <1>4 DEF ST!AddConstructed
  <2>3. StSource'
    BY <1>4 DEF ST!AddConstructed
  <2>4. StStarts'
    BY <1>4 DEF ST!AddConstructed
  <2>5. StEnds'
    BY <1>4 DEF ST!AddConstructed
  <2>. QED
    BY ONLY <2>1, <2>2, <2>3, <2>4, <2>5 DEF StInv
<1>5. CASE ST!RequestStop
  <2>1. ST!TypeOk'
    BY <1>5 DEF ST!RequestStop
  <2>2. StLabels'
    BY <1>5 DEF ST!RequestStop
  <2>3. StSource'
    BY <1>5 DEF ST!RequestStop
  <2>4. StStarts'
    BY <1>5 DEF ST!RequestStop
  <2>5. StEnds'
    BY <1>5 DEF ST!RequestStop
  <2>. QED
    BY ONLY <2>1, <2>2, <2>3, <2>4, <2>5 DEF StInv
<1>6. ASSUME NEW t \in StThreads, ST!CallRequestStop(t) PROVE StInv'
  <2>1. ST!TypeOk'
    BY <1>6 DEF ST!CallRequestStop, ST!SourceRequestStop
  <2>2. StLabels'
    BY <1>6 DEF ST!CallRequestStop, ST!SourceRequestStop
  <2>3. StSource'
    <3>1. CASE ST!StopRequested
      BY <1>6, <3>1 DEF ST!CallRequestStop, ST!SourceRequestStop
    <3>2. CASE st_source_state = "null"
      BY <1>6, <3>2 DEF ST!CallRequestStop, ST!SourceRequestStop
    <3>3. CASE st_source_state = "callback"
      BY <1>6, <3>3 DEF ST!CallRequestStop, ST!SourceRequestStop
    <3>. QED
      BY <3>1, <3>2, <3>3
  <2>4. StStarts'
    BY <1>6 DEF ST!CallRequestStop, ST!SourceRequestStop
  <2>5. StEnds'
    BY <1>6 DEF ST!CallRequestStop, ST!SourceRequestStop
  <2>. QED
    BY ONLY <2>1, <2>2, <2>3, <2>4, <2>5 DEF StInv
<1>7. ASSUME NEW t \in StThreads, ST!StoreId(t), UNCHANGED <<ST!opVars, st_pc>> PROVE StInv'
  <2>1. ST!TypeOk'
    BY <1>7 DEF ST!StoreId
  <2>2. StLabels'
    BY <1>7 DEF ST!StoreId
  <2>3. StSource'
    BY <1>7 DEF ST!StoreId
  <2>4. StStarts'
    BY <1>7 DEF ST!StoreId
  <2>5. StEnds'
    BY <1>7 DEF ST!StoreId
  <2>. QED
    BY ONLY <2>1, <2>2, <2>3, <2>4, <2>5 DEF StInv
<1>8. ASSUME NEW t \in StThreads, ST!StoreDone(t), UNCHANGED <<ST!opVars, st_pc>> PROVE StInv'
  <2>1. ST!TypeOk'
    BY <1>8 DEF ST!StoreDone
  <2>2. StLabels'
    BY <1>8 DEF ST!StoreDone
  <2>3. StSource'
    BY <1>8 DEF ST!StoreDone
  <2>4. StStarts'
    BY <1>8 DEF ST!StoreDone
  <2>5. StEnds'
    BY <1>8 DEF ST!StoreDone
  <2>. QED
    BY ONLY <2>1, <2>2, <2>3, <2>4, <2>5 DEF StInv
<1>9. ASSUME NEW t \in StThreads, ST!Notify(t), UNCHANGED <<ST!opVars, st_pc>> PROVE StInv'
  <2>1. ST!TypeOk'
    BY <1>9 DEF ST!Notify
  <2>2. StLabels'
    BY <1>9 DEF ST!Notify
  <2>3. StSource'
    BY <1>9 DEF ST!Notify
  <2>4. StStarts'
    BY <1>9 DEF ST!Notify
  <2>5. StEnds'
    BY <1>9 DEF ST!Notify
  <2>. QED
    BY ONLY <2>1, <2>2, <2>3, <2>4, <2>5 DEF StInv
<1>10. ASSUME NEW t \in StThreads, ST!Compare(t), UNCHANGED <<ST!opVars, st_pc>> PROVE StInv'
  <2>1. ST!TypeOk'
    BY <1>10 DEF ST!Compare
  <2>2. StLabels'
    BY <1>10 DEF ST!Compare
  <2>3. StSource'
    BY <1>10 DEF ST!Compare
  <2>4. StStarts'
    BY <1>10 DEF ST!Compare
  <2>5. StEnds'
    BY <1>10 DEF ST!Compare
  <2>. QED
    BY ONLY <2>1, <2>2, <2>3, <2>4, <2>5 DEF StInv
<1>11. ASSUME NEW t \in StThreads, ST!Load(t), UNCHANGED <<ST!opVars, st_pc>> PROVE StInv'
  <2>1. ST!TypeOk'
    BY <1>11 DEF ST!Load
  <2>2. StLabels'
    BY <1>11 DEF ST!Load
  <2>3. StSource'
    BY <1>11 DEF ST!Load
  <2>4. StStarts'
    BY <1>11 DEF ST!Load
  <2>5. StEnds'
    BY <1>11 DEF ST!Load
  <2>. QED
    BY ONLY <2>1, <2>2, <2>3, <2>4, <2>5 DEF StInv
<1>12. ASSUME NEW t \in StThreads, ST!OnStopCallback(t) PROVE StInv'
  <2>1. ST!TypeOk'
    BY <1>12 DEF ST!OnStopCallback
  <2>2. StLabels'
    BY <1>12 DEF ST!OnStopCallback
  <2>3. StSource'
    BY <1>12 DEF ST!OnStopCallback
  <2>4. StStarts'
    BY <1>12 DEF ST!OnStopCallback
  <2>5. StEnds'
    BY <1>12 DEF ST!OnStopCallback
  <2>. QED
    BY ONLY <2>1, <2>2, <2>3, <2>4, <2>5 DEF StInv
<1>13. ASSUME NEW t \in StThreads, ST!FinishCallback(t) PROVE StInv'
  <2>1. ST!TypeOk'
    BY <1>13 DEF ST!FinishCallback, ST!CallbackReturns
  <2>2. StLabels'
    BY <1>13 DEF ST!FinishCallback, ST!CallbackReturns
  <2>3. StSource'
    BY <1>13 DEF ST!FinishCallback, ST!CallbackReturns
  <2>4. StStarts'
    BY <1>13 DEF ST!FinishCallback, ST!CallbackReturns
  <2>5. StEnds'
    BY <1>13 DEF ST!FinishCallback, ST!CallbackReturns
  <2>. QED
    BY ONLY <2>1, <2>2, <2>3, <2>4, <2>5 DEF StInv
<1>14. ASSUME NEW t \in StThreads, ST!Reset(t) PROVE StInv'
  <2>1. ST!TypeOk'
    BY <1>14 DEF ST!Reset, ST!Deregister
  <2>2. StLabels'
    BY <1>14 DEF ST!Reset, ST!Deregister
  <2>3. StSource'
    BY <1>14 DEF ST!Reset, ST!Deregister
  <2>4. StStarts'
    BY <1>14 DEF ST!Reset, ST!Deregister
  <2>5. StEnds'
    BY <1>14 DEF ST!Reset, ST!Deregister
  <2>. QED
    BY ONLY <2>1, <2>2, <2>3, <2>4, <2>5 DEF StInv
<1>15. ASSUME NEW t \in StThreads, ST!ResetReturns(t) PROVE StInv'
  <2>1. ST!TypeOk'
    BY <1>15 DEF ST!ResetReturns
  <2>2. StLabels'
    BY <1>15 DEF ST!ResetReturns
  <2>3. StSource'
    BY <1>15 DEF ST!ResetReturns
  <2>4. StStarts'
    BY <1>15 DEF ST!ResetReturns
  <2>5. StEnds'
    BY <1>15 DEF ST!ResetReturns
  <2>. QED
    BY ONLY <2>1, <2>2, <2>3, <2>4, <2>5 DEF StInv
<1>16. ASSUME NEW t \in StThreads, ST!Deliver(t) PROVE StInv'
  <2>1. ST!TypeOk'
    BY <1>16 DEF ST!Deliver
  <2>2. StLabels'
    BY <1>16 DEF ST!Deliver
  <2>3. StSource'
    BY <1>16 DEF ST!Deliver
  <2>4. StStarts'
    BY <1>16 DEF ST!Deliver
  <2>5. StEnds'
    BY <1>16 DEF ST!Deliver
  <2>. QED
    BY ONLY <2>1, <2>2, <2>3, <2>4, <2>5 DEF StInv
<1>. QED
  BY ONLY ST!Next, <1>1, <1>2, <1>3, <1>4, <1>5, <1>6, <1>7, <1>8, <1>9, <1>10, <1>11,
     <1>12, <1>13, <1>14, <1>15, <1>16 DEF ST!Next, ST!ThreadStep, ST!SourceStep,
     StThreads

-----------------------------------------------------------------------------
(* when_all *)

WaArrived(i) == wa_pc[i] \in {"deliver", "returned"}

(* The children that the count in state_ counts. *)
WaPending == {i \in WA!Children : ~WaArrived(i)}

WaLabels == /\ wa_pc[WA!Starter] \in {"idle", "add_started", "stopping", "deliver", "returned"}
            /\ \A i \in WA!Children : wa_pc[i] # "add_started"
            /\ wa_pc[WA!Stopper] \in {"idle", "stopping", "returned"}

WaCounts == wa_word.count = Cardinality(WaPending)

(* start() starts the children one after the other. *)
WaStarts ==
    /\ wa_word.started <=> wa_pc[WA!Starter] \notin {"idle", "add_started"}
    /\ wa_pc[WA!Starter] = "idle" => wa_next[WA!Starter] <= N
    /\ \A i \in WA!Children : wa_pc[i] = "idle" <=> wa_pc[WA!Starter] = "idle" /\ i >= wa_next[WA!Starter]

WaDelivers ==
    /\ \A t \in WA!Threads : wa_pc[t] = "deliver" =>
          /\ \A i \in WA!Children : WaArrived(i)
          /\ wa_word.started /\ wa_sent = <<>>
          /\ \A s \in WA!Threads : wa_pc[s] = "deliver" => s = t
    /\ wa_sent # <<>> => /\ Len(wa_sent) = 1 /\ wa_word.started
                         /\ \A i \in WA!Children : wa_pc[i] = "returned"
                         /\ wa_pc[WA!Starter] # "deliver"

(* A value is stored or a failure is noted before a child arrives, and the *)
(* failure is stored before the child that noted it arrives.               *)
WaResults ==
    /\ \A i \in WA!Children : \/ i \in wa_values \/ wa_word.failed
                              \/ wa_pc[i] \in {"idle", "running", "set_failed"}
    /\ wa_word.failed => \/ wa_error # 0
                         \/ \E i \in WA!Children : wa_pc[i] \in {"stopping", "store_error"}
    /\ wa_error # 0 => wa_word.failed
    /\ \A i \in WA!Children : wa_pc[i] \in {"stopping", "store_error"} => wa_word.failed
    /\ wa_sent # <<>> => (wa_sent[1] = "error" <=> wa_word.failed)

(* One thread at most ever calls the children's request_stop(): the first  *)
(* to set a flag after start() has set its own, or start() itself.         *)
WaStops ==
    /\ wa_word.stop_requested <=> wa_pc[WA!Stopper] # "idle"
    /\ wa_pc[WA!Stopper] # "idle" => wa_pc[WA!Starter] = "returned"
    /\ ~wa_word.started \/ (~wa_word.failed /\ ~wa_word.stop_requested) =>
          /\ \A t \in WA!Threads : wa_pc[t] # "stopping"
          /\ \A i \in WA!Children : wa_stops[i] = 0
    /\ \A t \in WA!Threads : wa_pc[t] = "stopping" =>
          /\ wa_next[t] <= N
          /\ \A i \in WA!Children : wa_stops[i] = IF i < wa_next[t] THEN 1 ELSE 0
          /\ \A s \in WA!Threads : wa_pc[s] = "stopping" => s = t
    /\ \A i \in WA!Children : wa_stops[i] <= 1

WaInv == /\ WA!TypeOk /\ WaLabels /\ WaCounts
         /\ WaStarts /\ WaDelivers /\ WaResults /\ WaStops

(* Who is who. *)
LEMMA WaThreads == /\ WA!Starter \in WA!Threads /\ WA!Starter \notin WA!Children
                   /\ WA!Stopper \in WA!Threads /\ WA!Stopper \notin WA!Children
                   /\ WA!Starter # WA!Stopper
                   /\ \A i \in WA!Children : i \in WA!Threads
                   /\ \A t \in WA!Threads : t \in WA!Children \/ t = WA!Starter \/ t = WA!Stopper
BY NAssumption DEF WA!Threads, WA!Children, WA!Starter, WA!Stopper

(* The children are numbered from 1. *)
LEMMA WaNumbers == /\ \A i \in WA!Children : i \in Nat /\ i >= 1 /\ i <= N /\ i + 1 \in 1..N + 1
                   /\ 1 \in WA!Children /\ 1 \in 1..N + 1 /\ 0..N = WA!Children \cup {0}
                   /\ \A k \in Nat : k >= 1 /\ k <= N => k \in WA!Children
BY NAssumption DEF WA!Children

(* The count tells the last child that arrives. *)
LEMMA WaCounting ==
  ASSUME WA!TypeOk, WaCounts
  PROVE  /\ IsFiniteSet(WaPending)
         /\ wa_word.count = 0 <=> \A i \in WA!Children : WaArrived(i)
         /\ \A i \in WA!Children : ~WaArrived(i) =>
               /\ Cardinality(WaPending \ {i}) = wa_word.count - 1
               /\ wa_word.count >= 1
               /\ wa_word.count < 2 => \A j \in WA!Children : j # i => WaArrived(j)
<1>. USE NAssumption
<1>1. IsFiniteSet(WaPending)
  <2>1. IsFiniteSet(1..N)
    BY FS_Interval
  <2>. QED
    BY <2>1, FS_Subset DEF WaPending, WA!Children
<1>2. wa_word.count = 0 <=> WaPending = {}
  BY <1>1, FS_EmptySet DEF WaCounts
<1>3. ASSUME NEW i \in WaPending
      PROVE  /\ Cardinality(WaPending \ {i}) = wa_word.count - 1
             /\ wa_word.count >= 1
             /\ wa_word.count < 2 => WaPending = {i}
  <2>1. IsFiniteSet(WaPending \ {i}) /\ Cardinality(WaPending \ {i}) = wa_word.count - 1
    BY <1>1, FS_RemoveElement DEF WaCounts
  <2>2. Cardinality(WaPending \ {i}) \in Nat
    BY <2>1, FS_CardinalityType
  <2>3. wa_word.count \in Nat
    BY DEF WA!TypeOk
  <2>4. wa_word.count < 2 => Cardinality(WaPending \ {i}) = 0
    BY <2>1, <2>2, <2>3
  <2>5. wa_word.count < 2 => WaPending \ {i} = {}
    BY <2>1, <2>4, FS_EmptySet
  <2>. QED
    BY <2>1, <2>2, <2>3, <2>5
<1>. QED
  BY <1>1, <1>2, <1>3 DEF WaPending

(* Before the operation is started. *)
LEMMA WaInit == WA!Init => WaInv
<1>. SUFFICES ASSUME WA!Init PROVE WaInv
  OBVIOUS
<1>. USE NAssumption DEF WA!Init, WA!Children, WA!Threads, WA!Starter, WA!Stopper
<1>1. WA!TypeOk
  <2>1. wa_word \in [started : BOOLEAN, failed : BOOLEAN, stop_requested : BOOLEAN,
                   count : 0..N]
    OBVIOUS
  <2>2. wa_error \in 0..N /\ wa_values \subseteq WA!Children
    BY DEF WA!NoChild
  <2>3. wa_sent \in Seq({"error", "values"})
    OBVIOUS
  <2>4. wa_stops \in [WA!Children -> Nat]
    OBVIOUS
  <2>5. wa_pc \in [WA!Threads -> WA!Labels]
    BY DEF WA!Labels
  <2>6. wa_next \in [WA!Threads -> 1..N + 1]
    OBVIOUS
  <2>. QED
    BY ONLY <2>1, <2>2, <2>3, <2>4, <2>5, <2>6 DEF WA!TypeOk
<1>2. WaCounts
  <2>1. WaPending = 1..N
    BY DEF WaPending, WaArrived
  <2>2. Cardinality(1..N) = N
    BY FS_Interval
  <2>. QED
    BY <2>1, <2>2 DEF WaCounts
<1>3. WaLabels /\ WaStarts
  BY DEF WaLabels, WaStarts
<1>4. WaDelivers /\ WaResults /\ WaStops
  BY DEF WaDelivers, WaResults, WaStops, WA!NoChild
<1>. QED
  BY <1>1, <1>2, <1>3, <1>4 DEF WaInv

(* The child that is started or asked to stop next is a child. *)
LEMMA WaNext == WaInv => /\ wa_pc[WA!Starter] = "idle" => wa_next[WA!Starter] \in WA!Children
                         /\ \A t \in WA!Threads : /\ wa_pc[t] = "stopping" => wa_next[t] \in WA!Children
                                                  /\ wa_next[t] \in Nat /\ wa_next[t] >= 1
BY NAssumption, WaThreads, WaNumbers DEF WaInv, WA!TypeOk, WaStarts, WaStops,
   WA!Children

(* The members of what the threads share. *)
LEMMA WaTyped == WA!TypeOk => /\ wa_word.started \in BOOLEAN /\ wa_word.failed \in BOOLEAN
                              /\ wa_word.stop_requested \in BOOLEAN
                              /\ wa_word.count \in Nat /\ wa_word.count <= N
                              /\ DOMAIN wa_word = {"started", "failed", "stop_requested", "count"}
BY NAssumption DEF WA!TypeOk

(* Every step of when_all keeps all of it. *)
LEMMA WaStep == WaInv /\ WA!Next => WaInv'
<1>. SUFFICES ASSUME WaInv, WA!Next PROVE WaInv'
  OBVIOUS
<1>. USE WaThreads DEF WA!Goto, WA!BeginStopping
<1>1. CASE WA!StartChild
  <2> DEFINE j == wa_next[WA!Starter]
             next_label == IF j = N THEN "add_started" ELSE "idle"
  <2>a. j \in WA!Children /\ j # WA!Starter /\ wa_pc[WA!Starter] = "idle"
    BY <1>1, WaNext DEF WA!StartChild
  <2>b. /\ wa_pc' = [wa_pc EXCEPT ![j] = "running", ![WA!Starter] = next_label]
        /\ wa_next' = [wa_next EXCEPT ![WA!Starter] = j + 1]
        /\ UNCHANGED <<wa_word, wa_error, wa_values, wa_sent, wa_stops>>
    BY <1>1 DEF WA!StartChild
  <2> HIDE DEF j
  <2>c. /\ wa_pc \in [WA!Threads -> WA!Labels] /\ wa_next \in [WA!Threads -> 1..N + 1]
        /\ next_label \in {"idle", "add_started"}
    BY DEF WaInv, WA!TypeOk
  <2> HIDE DEF next_label
  <2>d. /\ wa_pc'[j] = "running" /\ wa_pc'[WA!Starter] = next_label
        /\ \A u \in WA!Threads : u # j /\ u # WA!Starter => wa_pc'[u] = wa_pc[u]
        /\ wa_next'[WA!Starter] = j + 1
        /\ \A u \in WA!Threads : u # WA!Starter => wa_next'[u] = wa_next[u]
    BY ONLY <2>a, <2>b, <2>c, WaThreads
  <2>e. wa_pc[j] = "idle"
    BY <2>a, WaNumbers DEF WaInv, WaStarts, j
  <2>1. WA!TypeOk'
    <3>1. UNCHANGED <<wa_word, wa_error, wa_values, wa_sent, wa_stops>>
      BY <1>1 DEF WA!StartChild
    <3>2. wa_pc' \in [WA!Threads -> WA!Labels]
      BY <1>1, WaCounting, NAssumption, WaNumbers, WaNext DEF WaInv, WA!TypeOk,
         WA!Labels, WA!StartChild
    <3>3. wa_next' \in [WA!Threads -> 1..N + 1]
      BY <1>1, WaCounting, NAssumption, WaNumbers, WaNext DEF WaInv, WA!TypeOk,
         WaStops, WaStarts, WaLabels, WA!StartChild
    <3>. QED
      BY ONLY WaInv, <3>1, <3>2, <3>3 DEF WaInv, WA!TypeOk
  <2>2. WaLabels'
    BY ONLY <2>a, <2>b, <2>c, <2>d, <2>e, WaInv, WaThreads DEF WaInv, WaLabels,
       WA!Labels
  <2>3. WaCounts'
    <3>1. WaPending' = WaPending
      BY ONLY <2>a, <2>b, <2>c, <2>d, <2>e, WaInv, WaThreads DEF WaPending, WaArrived
    <3>. QED
      BY ONLY <2>b, <3>1, WaInv DEF WaInv, WaCounts
  <2>4. WaStarts'
    <3>1. wa_word'.started <=> wa_pc'[WA!Starter] \notin {"idle", "add_started"}
      BY ONLY <2>a, <2>b, <2>c, <2>d, <2>e, WaInv, WaThreads DEF WaInv, WaStarts
    <3>2. wa_pc'[WA!Starter] = "idle" => wa_next'[WA!Starter] <= N
      BY ONLY <2>a, <2>b, <2>c, <2>d, <2>e, WaInv, WaThreads, WaNumbers, NAssumption
         DEF next_label
    <3>3. ASSUME NEW i \in WA!Children
          PROVE  wa_pc'[i] = "idle" <=> wa_pc'[WA!Starter] = "idle" /\ i >= wa_next'[WA!Starter]
      <4>1. i \in Nat /\ j \in Nat /\ i <= N /\ j <= N /\ N \in Nat
        BY ONLY <2>a, WaNumbers, NAssumption
      <4>2. wa_pc[i] = "idle" <=> i >= j
        BY ONLY <2>a, <2>b, <2>c, <2>d, <2>e, WaInv, WaThreads DEF WaInv, WaStarts, j
      <4>3. CASE i = j
        BY ONLY <2>a, <2>b, <2>c, <2>d, <2>e, WaInv, WaThreads, <4>1, <4>3
      <4>4. CASE i # j
        <5>1. wa_pc'[i] = wa_pc[i]
          BY ONLY <2>a, <2>b, <2>c, <2>d, <2>e, WaInv, WaThreads, <4>4
        <5>2. i >= j <=> next_label = "idle" /\ i >= j + 1
          BY ONLY <4>1, <4>4 DEF next_label
        <5>. QED
          BY ONLY <5>1, <5>2, <4>2, <2>d
      <4>. QED
        BY ONLY <4>3, <4>4
    <3>. QED
      BY ONLY <3>1, <3>2, <3>3 DEF WaStarts
  <2>5. WaDelivers'
    BY ONLY <2>a, <2>b, <2>c, <2>d, <2>e, WaInv, WaThreads DEF WaInv, WaDelivers,
       WaArrived
  <2>6. WaResults'
    BY ONLY <2>a, <2>b, <2>c, <2>d, <2>e, WaInv, WaThreads DEF WaInv, WaResults
  <2>7. WaStops'
    <3>1. /\ \A u \in WA!Threads : wa_pc'[u] = "stopping" <=> wa_pc[u] = "stopping"
          /\ \A u \in WA!Threads : wa_pc[u] = "stopping" => wa_next'[u] = wa_next[u]
          /\ wa_pc'[WA!Stopper] = wa_pc[WA!Stopper] /\ wa_pc'[WA!Starter] # "returned"
          /\ wa_pc[WA!Starter] # "returned"
      BY ONLY <2>a, <2>b, <2>c, <2>d, <2>e, WaInv, WaThreads DEF WaInv, WaLabels,
         WA!Labels
    <3>. QED
      BY ONLY <2>b, <3>1, WaInv, WaThreads DEF WaInv, WaStops
  <2>. QED
    BY ONLY <2>1, <2>2, <2>3, <2>4, <2>5, <2>6, <2>7 DEF WaInv
<1>2. CASE WA!AddStarted
  <2>1. WA!TypeOk'
    <3>1. UNCHANGED <<wa_error, wa_values, wa_sent, wa_stops>>
      BY <1>2 DEF WA!AddStarted
    <3>2. wa_word' \in [started : BOOLEAN, failed : BOOLEAN, stop_requested : BOOLEAN,
                        count : 0..N]
      BY <1>2, WaNext DEF WaInv, WA!TypeOk, WA!AddStarted
    <3>3. wa_pc' \in [WA!Threads -> WA!Labels]
      BY <1>2 DEF WaInv, WA!TypeOk, WA!Labels, WA!AddStarted
    <3>4. wa_next' \in [WA!Threads -> 1..N + 1]
      BY <1>2, WaNumbers DEF WaInv, WA!TypeOk, WA!AddStarted
    <3>. QED
      BY ONLY WaInv, <3>1, <3>2, <3>3, <3>4 DEF WaInv, WA!TypeOk
  <2>2. WaLabels'
    BY <1>2 DEF WaInv, WA!TypeOk, WaLabels, WA!Labels, WaStops, WA!AddStarted
  <2>3. WaCounts'
    <3>1. WaPending' = WaPending
      BY <1>2 DEF WaInv, WA!TypeOk, WaDelivers, WaLabels, WaPending, WaArrived,
         WA!AddStarted
    <3>2. wa_word'.count = wa_word.count
      BY <1>2 DEF WaInv, WA!TypeOk, WA!AddStarted
    <3>. QED
      BY <3>1, <3>2 DEF WaInv, WaCounts
  <2>4. WaStarts'
    <3>1. /\ wa_pc[WA!Starter] = "add_started" /\ wa_word'.started
          /\ \A u \in WA!Threads : u # WA!Starter => wa_pc'[u] = wa_pc[u]
          /\ wa_pc'[WA!Starter] \in {"stopping", "deliver", "returned"}
      BY <1>2 DEF WaInv, WA!TypeOk, WA!AddStarted
    <3>. QED
      BY ONLY WaInv, WaThreads, <3>1 DEF WaInv, WaStarts
  <2>5. WaDelivers'
    BY <1>2, WaCounting DEF WaInv, WA!TypeOk, WaLabels, WA!Labels, WaArrived,
       WaStarts, WaDelivers, WA!AddStarted
  <2>6. WaResults'
    BY <1>2 DEF WaInv, WA!TypeOk, WaLabels, WA!Labels, WaResults, WA!AddStarted
  <2>7. WaStops'
    <3>1. /\ wa_pc[WA!Starter] = "add_started"
          /\ \A u \in WA!Threads : u # WA!Starter => /\ wa_pc'[u] = wa_pc[u]
                                                    /\ wa_next'[u] = wa_next[u]
          /\ wa_pc'[WA!Starter] = "stopping" => /\ wa_word.failed
                                                /\ wa_next'[WA!Starter] = 1
          /\ UNCHANGED wa_stops
          /\ wa_word'.started /\ wa_word'.failed = wa_word.failed
          /\ wa_word'.stop_requested = wa_word.stop_requested
      BY <1>2 DEF WaInv, WA!TypeOk, WA!AddStarted
    <3>2. ~wa_word.started
      BY ONLY WaInv, <3>1 DEF WaInv, WaStarts
    <3>3. /\ wa_pc[WA!Stopper] = "idle" /\ ~wa_word.stop_requested
          /\ \A u \in WA!Threads : wa_pc[u] # "stopping"
          /\ \A c \in WA!Children : wa_stops[c] = 0
      BY ONLY WaInv, <3>1, <3>2 DEF WaInv, WaStops
    <3>4. \A u \in WA!Threads : wa_pc'[u] = "stopping" => u = WA!Starter
      BY ONLY <3>1, <3>3
    <3>. QED
      BY ONLY <3>1, <3>3, <3>4, WaThreads, WaNumbers, NAssumption DEF WaStops
  <2>. QED
    BY ONLY <2>1, <2>2, <2>3, <2>4, <2>5, <2>6, <2>7 DEF WaInv
<1>3. ASSUME NEW i \in WA!Children, WA!ChildSucceeds(i) PROVE WaInv'
  <2>1. WA!TypeOk'
    <3>1. UNCHANGED <<wa_word, wa_sent, wa_stops, wa_next>>
      BY <1>3 DEF WA!ChildSucceeds
    <3>2. wa_error' \in 0..N /\ wa_values' \subseteq WA!Children
      BY <1>3, WaCounting, NAssumption, WaNumbers, WaNext DEF WaInv, WA!TypeOk,
         WA!Children, WA!ChildSucceeds
    <3>3. wa_pc' \in [WA!Threads -> WA!Labels]
      BY <1>3, WaCounting, NAssumption, WaNumbers, WaNext DEF WaInv, WA!TypeOk,
         WA!Labels, WA!ChildSucceeds
    <3>. QED
      BY ONLY WaInv, <3>1, <3>2, <3>3 DEF WaInv, WA!TypeOk
  <2>2. WaLabels'
    BY <1>3 DEF WaInv, WA!TypeOk, WaLabels, WA!Labels, WaStops, WA!ChildSucceeds
  <2>3. WaCounts'
    <3>1. WaPending' = WaPending
      BY <1>3 DEF WaInv, WA!TypeOk, WaDelivers, WaLabels, WaPending, WaArrived,
         WA!ChildSucceeds
    <3>2. wa_word'.count = wa_word.count
      BY <1>3 DEF WaInv, WA!TypeOk, WA!ChildSucceeds
    <3>. QED
      BY <3>1, <3>2 DEF WaInv, WaCounts
  <2>4. WaStarts'
    BY <1>3, NAssumption, WaNumbers, WaNext DEF WaInv, WA!TypeOk, WaLabels, WA!Labels,
       WaStarts, WA!ChildSucceeds
  <2>5. WaDelivers'
    BY <1>3, WaCounting DEF WaInv, WA!TypeOk, WaLabels, WA!Labels, WaArrived,
       WaStarts, WaDelivers, WA!ChildSucceeds
  <2>6. WaResults'
    BY <1>3 DEF WaInv, WA!TypeOk, WaLabels, WA!Labels, WaResults, WA!ChildSucceeds
  <2>7. WaStops'
    BY <1>3, NAssumption, WaNumbers, WaNext, ZenonT(40) DEF WaInv, WA!TypeOk, WaLabels, WA!Labels,
       WaStarts, WaStops, WA!ChildSucceeds
  <2>. QED
    BY ONLY <2>1, <2>2, <2>3, <2>4, <2>5, <2>6, <2>7 DEF WaInv
<1>4. ASSUME NEW i \in WA!Children, WA!ChildFails(i) PROVE WaInv'
  <2>1. WA!TypeOk'
    <3>1. UNCHANGED <<wa_word, wa_error, wa_values, wa_sent, wa_stops, wa_next>>
      BY <1>4 DEF WA!ChildFails
    <3>2. wa_pc' \in [WA!Threads -> WA!Labels]
      BY <1>4, WaCounting, NAssumption, WaNumbers, WaNext DEF WaInv, WA!TypeOk,
         WA!Labels, WA!ChildFails
    <3>. QED
      BY ONLY WaInv, <3>1, <3>2 DEF WaInv, WA!TypeOk
  <2>2. WaLabels'
    BY <1>4 DEF WaInv, WA!TypeOk, WaLabels, WA!Labels, WaStops, WA!ChildFails
  <2>3. WaCounts'
    <3>1. WaPending' = WaPending
      BY <1>4 DEF WaInv, WA!TypeOk, WaDelivers, WaLabels, WaPending, WaArrived,
         WA!ChildFails
    <3>2. wa_word'.count = wa_word.count
      BY <1>4 DEF WaInv, WA!TypeOk, WA!ChildFails
    <3>. QED
      BY <3>1, <3>2 DEF WaInv, WaCounts
  <2>4. WaStarts'
    BY <1>4, NAssumption, WaNumbers, WaNext DEF WaInv, WA!TypeOk, WaLabels, WA!Labels,
       WaStarts, WA!ChildFails
  <2>5. WaDelivers'
    BY <1>4, WaCounting DEF WaInv, WA!TypeOk, WaLabels, WA!Labels, WaArrived,
       WaStarts, WaDelivers, WA!ChildFails
  <2>6. WaResults'
    BY <1>4 DEF WaInv, WA!TypeOk, WaLabels, WA!Labels, WaResults, WA!ChildFails
  <2>7. WaStops'
    BY <1>4, NAssumption, WaNumbers, WaNext DEF WaInv, WA!TypeOk, WaLabels, WA!Labels,
       WaStarts, WaStops, WA!ChildFails
  <2>. QED
    BY ONLY <2>1, <2>2, <2>3, <2>4, <2>5, <2>6, <2>7 DEF WaInv
<1>5. ASSUME NEW i \in WA!Children, WA!SetFailed(i) PROVE WaInv'
  <2>1. WA!TypeOk'
    <3>1. UNCHANGED <<wa_error, wa_values, wa_sent, wa_stops>>
      BY <1>5 DEF WA!SetFailed
    <3>2. wa_word' \in [started : BOOLEAN, failed : BOOLEAN, stop_requested : BOOLEAN,
                        count : 0..N]
      BY <1>5, WaCounting, NAssumption, WaNumbers, WaNext DEF WaInv, WA!TypeOk,
         WA!SetFailed
    <3>3. wa_pc' \in [WA!Threads -> WA!Labels]
      BY <1>5 DEF WaInv, WA!TypeOk, WA!Labels, WA!SetFailed
    <3>4. wa_next' \in [WA!Threads -> 1..N + 1]
      BY <1>5, WaCounting, NAssumption, WaNumbers, WaNext DEF WaInv, WA!TypeOk,
         WaStops, WaStarts, WaLabels, WA!SetFailed
    <3>. QED
      BY ONLY WaInv, <3>1, <3>2, <3>3, <3>4 DEF WaInv, WA!TypeOk
  <2>2. WaLabels'
    BY <1>5 DEF WaInv, WA!TypeOk, WaLabels, WA!Labels, WaStops, WA!SetFailed
  <2>3. WaCounts'
    <3>1. WaPending' = WaPending
      BY <1>5 DEF WaInv, WA!TypeOk, WaDelivers, WaLabels, WaPending, WaArrived,
         WA!SetFailed
    <3>2. wa_word'.count = wa_word.count
      BY <1>5 DEF WaInv, WA!TypeOk, WA!SetFailed
    <3>. QED
      BY <3>1, <3>2 DEF WaInv, WaCounts
  <2>4. WaStarts'
    BY <1>5, NAssumption, WaNumbers, WaNext, ZenonT(40) DEF WaInv, WA!TypeOk, WaLabels, WA!Labels,
       WaStarts, WA!SetFailed
  <2>5. WaDelivers'
    BY <1>5, WaCounting DEF WaInv, WA!TypeOk, WaLabels, WA!Labels, WaArrived,
       WaStarts, WaDelivers, WA!SetFailed
  <2>6. WaResults'
    <3>1. /\ wa_word'.failed /\ i \in WA!Threads
          /\ \A u \in WA!Threads : u # i => wa_pc'[u] = wa_pc[u]
          /\ wa_pc'[i] \in {"stopping", "store_error", "arrive"}
          /\ wa_pc'[i] = "arrive" => wa_word.failed
          /\ UNCHANGED <<wa_error, wa_sent>>
      BY <1>5 DEF WaInv, WA!TypeOk, WA!SetFailed
    <3>2. wa_word'.failed => wa_error' # 0 \/ \E c \in WA!Children : wa_pc'[c] \in {"stopping", "store_error"}
      BY <1>5, <3>1 DEF WaInv, WaResults, WA!SetFailed
    <3>3. wa_sent = <<>>
      BY <1>5 DEF WaInv, WaDelivers, WA!SetFailed
    <3>. QED
      BY ONLY <3>1, <3>2, <3>3, WaInv, WaThreads DEF WaInv, WaResults
  <2>7. WaStops'
    <3>1. /\ wa_pc[i] = "set_failed" /\ wa_pc'[i] # "idle"
          /\ \A u \in WA!Threads : u # i => /\ wa_pc'[u] = wa_pc[u]
                                           /\ wa_next'[u] = wa_next[u]
          /\ wa_pc'[i] = "stopping" => /\ ~wa_word.failed /\ ~wa_word.stop_requested
                                       /\ wa_word.started /\ wa_next'[i] = 1
          /\ UNCHANGED wa_stops
          /\ wa_word'.started = wa_word.started /\ wa_word'.failed
          /\ wa_word'.stop_requested = wa_word.stop_requested
      BY <1>5 DEF WaInv, WA!TypeOk, WA!SetFailed
    <3>2. CASE wa_pc'[i] = "stopping"
      <4>1. /\ \A u \in WA!Threads : wa_pc[u] # "stopping"
            /\ \A c \in WA!Children : wa_stops[c] = 0
        BY ONLY WaInv, <3>1, <3>2 DEF WaInv, WaStops
      <4>2. \A u \in WA!Threads : wa_pc'[u] = "stopping" => u = i
        BY ONLY <3>1, <4>1
      <4>. QED
        BY ONLY WaInv, <3>1, <3>2, <4>1, <4>2, WaThreads, WaNumbers, NAssumption
           DEF WaInv, WaStops
    <3>3. CASE wa_pc'[i] # "stopping"
      <4>1. \A u \in WA!Threads : wa_pc'[u] = "stopping" =>
               wa_pc[u] = "stopping" /\ wa_next'[u] = wa_next[u]
        BY ONLY <3>1, <3>3
      <4>. QED
        BY ONLY WaInv, <3>1, <3>3, <4>1, WaThreads DEF WaInv, WaStops
    <3>. QED
      BY ONLY <3>2, <3>3
  <2>. QED
    BY ONLY <2>1, <2>2, <2>3, <2>4, <2>5, <2>6, <2>7 DEF WaInv
<1>6. ASSUME NEW i \in WA!Children, WA!StoreError(i) PROVE WaInv'
  <2>1. WA!TypeOk'
    <3>1. UNCHANGED <<wa_word, wa_sent, wa_stops, wa_next>>
      BY <1>6 DEF WA!StoreError
    <3>2. wa_error' \in 0..N /\ wa_values' \subseteq WA!Children
      BY <1>6, WaCounting, NAssumption, WaNumbers, WaNext DEF WaInv, WA!TypeOk,
         WA!Children, WA!StoreError
    <3>3. wa_pc' \in [WA!Threads -> WA!Labels]
      BY <1>6, WaCounting, NAssumption, WaNumbers, WaNext DEF WaInv, WA!TypeOk,
         WA!Labels, WA!StoreError
    <3>. QED
      BY ONLY WaInv, <3>1, <3>2, <3>3 DEF WaInv, WA!TypeOk
  <2>2. WaLabels'
    BY <1>6 DEF WaInv, WA!TypeOk, WaLabels, WA!Labels, WaStops, WA!StoreError
  <2>3. WaCounts'
    <3>1. WaPending' = WaPending
      BY <1>6 DEF WaInv, WA!TypeOk, WaDelivers, WaLabels, WaPending, WaArrived,
         WA!StoreError
    <3>2. wa_word'.count = wa_word.count
      BY <1>6 DEF WaInv, WA!TypeOk, WA!StoreError
    <3>. QED
      BY <3>1, <3>2 DEF WaInv, WaCounts
  <2>4. WaStarts'
    BY <1>6, NAssumption, WaNumbers, WaNext DEF WaInv, WA!TypeOk, WaLabels, WA!Labels,
       WaStarts, WA!StoreError
  <2>5. WaDelivers'
    BY <1>6, WaCounting DEF WaInv, WA!TypeOk, WaLabels, WA!Labels, WaArrived,
       WaStarts, WaDelivers, WA!StoreError
  <2>6. WaResults'
    BY <1>6, WaNumbers DEF WaInv, WA!TypeOk, WaResults, WA!StoreError
  <2>7. WaStops'
    BY <1>6, NAssumption, WaNumbers, WaNext DEF WaInv, WA!TypeOk, WaLabels, WA!Labels,
       WaStarts, WaStops, WA!StoreError
  <2>. QED
    BY ONLY <2>1, <2>2, <2>3, <2>4, <2>5, <2>6, <2>7 DEF WaInv
<1>7. ASSUME NEW i \in WA!Children, WA!Arrive(i) PROVE WaInv'
  <2>1. WA!TypeOk'
    <3>1. UNCHANGED <<wa_error, wa_values, wa_sent, wa_stops, wa_next>>
      BY <1>7 DEF WA!Arrive
    <3>2. wa_word' \in [started : BOOLEAN, failed : BOOLEAN, stop_requested : BOOLEAN,
                        count : 0..N]
      <4>1. wa_word.count \in 1..N /\ wa_word.count - 1 \in 0..N
        BY <1>7, WaCounting, WaTyped, NAssumption DEF WaInv, WA!Arrive, WaArrived
      <4>. QED
        BY <1>7, <4>1 DEF WaInv, WA!TypeOk, WA!Arrive
    <3>3. wa_pc' \in [WA!Threads -> WA!Labels]
      BY <1>7 DEF WaInv, WA!TypeOk, WA!Labels, WA!Arrive
    <3>. QED
      BY ONLY WaInv, <3>1, <3>2, <3>3 DEF WaInv, WA!TypeOk
  <2>2. WaLabels'
    BY <1>7 DEF WaInv, WA!TypeOk, WaLabels, WA!Labels, WaStops, WA!Arrive
  <2>3. WaCounts'
    <3>1. WaPending' = WaPending \ {i} /\ ~WaArrived(i)
      BY <1>7 DEF WaInv, WA!TypeOk, WaPending, WaArrived, WA!Arrive
    <3>. QED
      BY <1>7, <3>1, WaCounting DEF WaInv, WA!TypeOk, WaCounts, WA!Arrive
  <2>4. WaStarts'
    BY <1>7, NAssumption, WaNumbers, WaNext DEF WaInv, WA!TypeOk, WaLabels, WA!Labels,
       WaStarts, WA!Arrive
  <2>5. WaDelivers'
    BY <1>7, WaCounting DEF WaInv, WA!TypeOk, WaLabels, WA!Labels, WaArrived,
       WaStarts, WaDelivers, WA!Arrive
  <2>6. WaResults'
    BY <1>7 DEF WaInv, WA!TypeOk, WaLabels, WA!Labels, WaResults, WA!Arrive
  <2>7. WaStops'
    BY <1>7, NAssumption, WaNumbers, WaNext, ZenonT(40) DEF WaInv, WA!TypeOk, WaLabels, WA!Labels,
       WaStarts, WaStops, WA!Arrive
  <2>. QED
    BY ONLY <2>1, <2>2, <2>3, <2>4, <2>5, <2>6, <2>7 DEF WaInv
<1>8. ASSUME NEW t \in WA!Threads, WA!StopChild(t) PROVE WaInv'
  <2>1. WA!TypeOk'
    <3>1. UNCHANGED <<wa_word, wa_error, wa_values, wa_sent>>
      BY <1>8 DEF WA!StopChild
    <3>2. wa_stops' \in [WA!Children -> Nat]
      <4>1. wa_next[t] \in WA!Children /\ wa_stops[wa_next[t]] \in Nat
        BY <1>8, WaNext, WaNumbers, NAssumption DEF WaInv, WA!TypeOk, WA!StopChild
      <4>2. wa_stops[wa_next[t]] + 1 \in Nat
        BY <4>1
      <4>. QED
        BY <1>8, <4>1, <4>2 DEF WaInv, WA!TypeOk, WA!StopChild
    <3>3. wa_pc' \in [WA!Threads -> WA!Labels]
      BY <1>8, WaNext, WaNumbers, NAssumption DEF WaInv, WA!TypeOk, WA!Labels,
         WA!StopChild
    <3>4. wa_next' \in [WA!Threads -> 1..N + 1]
      BY <1>8, WaNext, WaNumbers, NAssumption DEF WaInv, WA!TypeOk, WaStops, WaStarts,
         WaLabels, WA!StopChild
    <3>. QED
      BY ONLY WaInv, <3>1, <3>2, <3>3, <3>4 DEF WaInv, WA!TypeOk
  <2>2. WaLabels'
    BY <1>8 DEF WaInv, WA!TypeOk, WaLabels, WA!Labels, WaStops, WA!StopChild
  <2>3. WaCounts'
    <3>1. WaPending' = WaPending
      BY <1>8 DEF WaInv, WA!TypeOk, WaDelivers, WaLabels, WaPending, WaArrived,
         WA!StopChild
    <3>2. wa_word'.count = wa_word.count
      BY <1>8 DEF WaInv, WA!TypeOk, WA!StopChild
    <3>. QED
      BY <3>1, <3>2 DEF WaInv, WaCounts
  <2>4. WaStarts'
    BY <1>8, NAssumption, WaNumbers, WaNext DEF WaInv, WA!TypeOk, WaLabels, WA!Labels,
       WaStarts, WA!StopChild
  <2>5. WaDelivers'
    <3>1. CASE wa_next[t] < N
      BY <1>8, <3>1 DEF WaInv, WA!TypeOk, WaDelivers, WaArrived, WA!StopChild
    <3>2. CASE ~(wa_next[t] < N)
      BY <1>8, <3>2, ZenonT(40) DEF WaInv, WA!TypeOk, WaDelivers, WaArrived, WA!StopChild
    <3>. QED
      BY ONLY <3>1, <3>2
  <2>6. WaResults'
    BY <1>8 DEF WaInv, WA!TypeOk, WaLabels, WA!Labels, WaResults, WA!StopChild
  <2>7. WaStops'
    <3> DEFINE k == wa_next[t]
    <3>1. /\ wa_pc[t] = "stopping" /\ k \in WA!Children
          /\ \A i \in WA!Children : wa_stops'[i] = IF i = k THEN wa_stops[i] + 1 ELSE wa_stops[i]
          /\ wa_next'[t] = k + 1
          /\ UNCHANGED wa_word
      BY <1>8, WaNext DEF WaInv, WA!TypeOk, WA!StopChild
    <3>2. /\ \A i \in WA!Children : wa_stops[i] = IF i < k THEN 1 ELSE 0
          /\ \A u \in WA!Threads : u # t => wa_pc[u] # "stopping"
          /\ wa_word.started /\ (wa_word.failed \/ wa_word.stop_requested)
      BY <3>1 DEF WaInv, WaStops
    <3>3. /\ wa_pc'[t] = "stopping" => k < N
          /\ \A u \in WA!Threads : u # t => wa_pc'[u] = wa_pc[u]
          /\ wa_pc'[t] # "idle"
          /\ wa_pc'[t] \in {"stopping", "returned", "store_error"}
          /\ t \notin WA!Children => wa_pc'[t] \in {"stopping", "returned"}
      <4>1. CASE k < N
        BY <1>8, <3>1, <4>1 DEF WA!StopChild
      <4>2. CASE ~(k < N)
        BY <1>8, <3>1, <4>2 DEF WaInv, WA!TypeOk, WA!StopChild
      <4>. QED
        BY ONLY <4>1, <4>2
    <3> HIDE DEF k
    <3>4. ASSUME NEW i \in WA!Children PROVE wa_stops'[i] = IF i < k + 1 THEN 1 ELSE 0
      <4>1. i \in Nat /\ k \in Nat
        BY <3>1, WaNumbers
      <4>2. CASE i = k
        BY ONLY <3>1, <3>2, <4>1, <4>2
      <4>3. CASE i # k
        BY ONLY <3>1, <3>2, <4>1, <4>3
      <4>. QED
        BY ONLY <4>2, <4>3
    <3>5. \A u \in WA!Threads : wa_pc'[u] = "stopping" => u = t
      BY ONLY <3>2, <3>3
    <3>6. wa_pc'[t] = "stopping" => wa_next'[t] <= N
      BY <3>1, <3>3, WaNumbers, NAssumption
    <3>7. /\ wa_word'.stop_requested <=> wa_pc'[WA!Stopper] # "idle"
          /\ wa_pc'[WA!Stopper] # "idle" => wa_pc'[WA!Starter] = "returned"
      BY <3>1, <3>3 DEF WaInv, WaStops
    <3>8. \A i \in WA!Children : wa_stops'[i] <= 1
      BY ONLY <3>4
    <3>9. wa_word'.started /\ (wa_word'.failed \/ wa_word'.stop_requested)
      BY ONLY <3>1, <3>2
    <3>10. wa_pc'[t] = "stopping" =>
             \A i \in WA!Children : wa_stops'[i] = IF i < wa_next'[t] THEN 1 ELSE 0
      BY ONLY <3>1, <3>4
    <3>. QED
      BY ONLY <3>5, <3>6, <3>7, <3>8, <3>9, <3>10 DEF WaStops
  <2>. QED
    BY ONLY <2>1, <2>2, <2>3, <2>4, <2>5, <2>6, <2>7 DEF WaInv
<1>9. ASSUME NEW t \in WA!Threads, WA!Deliver(t) PROVE WaInv'
  <2>1. WA!TypeOk'
    <3>1. UNCHANGED <<wa_word, wa_error, wa_values, wa_stops, wa_next>>
      BY <1>9 DEF WA!Deliver
    <3>2. wa_sent' \in Seq({"error", "values"})
      BY <1>9, WaCounting, NAssumption, WaNumbers, WaNext DEF WaInv, WA!TypeOk,
         WA!Deliver
    <3>3. wa_pc' \in [WA!Threads -> WA!Labels]
      BY <1>9, WaCounting, NAssumption, WaNumbers, WaNext DEF WaInv, WA!TypeOk,
         WA!Labels, WA!Deliver
    <3>. QED
      BY ONLY WaInv, <3>1, <3>2, <3>3 DEF WaInv, WA!TypeOk
  <2>2. WaLabels'
    BY <1>9 DEF WaInv, WA!TypeOk, WaLabels, WA!Labels, WaStops, WA!Deliver
  <2>3. WaCounts'
    <3>1. WaPending' = WaPending
      BY <1>9 DEF WaInv, WA!TypeOk, WaDelivers, WaLabels, WaPending, WaArrived,
         WA!Deliver
    <3>2. wa_word'.count = wa_word.count
      BY <1>9 DEF WaInv, WA!TypeOk, WA!Deliver
    <3>. QED
      BY <3>1, <3>2 DEF WaInv, WaCounts
  <2>4. WaStarts'
    BY <1>9, NAssumption, WaNumbers, WaNext DEF WaInv, WA!TypeOk, WaLabels, WA!Labels,
       WaStarts, WA!Deliver
  <2>5. WaDelivers'
    BY <1>9, WaCounting DEF WaInv, WA!TypeOk, WaLabels, WA!Labels, WaArrived,
       WaStarts, WaDelivers, WA!Deliver
  <2>6. WaResults'
    <3>1. wa_sent = <<>> /\ \A i \in WA!Children : WaArrived(i)
      BY <1>9 DEF WaInv, WaDelivers, WA!Deliver
    <3>2. wa_error # 0 <=> wa_word.failed
      BY <3>1 DEF WaInv, WaResults, WaArrived
    <3>3. wa_sent'[1] = "error" <=> wa_word.failed
      BY <1>9, <3>1, <3>2 DEF WA!Deliver, WA!NoChild
    <3>4. \A u \in WA!Threads : wa_pc'[u] = IF u = t THEN "returned" ELSE wa_pc[u]
      BY <1>9 DEF WaInv, WA!TypeOk, WA!Deliver
    <3>. QED
      BY <1>9, <3>1, <3>3, <3>4 DEF WaInv, WaResults, WaArrived, WA!Deliver
  <2>7. WaStops'
    BY <1>9, NAssumption, WaNumbers, WaNext DEF WaInv, WA!TypeOk, WaLabels, WA!Labels,
       WaStarts, WaStops, WA!Deliver
  <2>. QED
    BY ONLY <2>1, <2>2, <2>3, <2>4, <2>5, <2>6, <2>7 DEF WaInv
<1>10. CASE WA!RequestStop
  <2>1. WA!TypeOk'
    <3>1. UNCHANGED <<wa_error, wa_values, wa_sent, wa_stops>>
      BY <1>10 DEF WA!RequestStop
    <3>2. wa_word' \in [started : BOOLEAN, failed : BOOLEAN, stop_requested : BOOLEAN,
                        count : 0..N]
      BY <1>10, WaCounting, NAssumption, WaNumbers, WaNext DEF WaInv, WA!TypeOk,
         WA!RequestStop
    <3>3. wa_pc' \in [WA!Threads -> WA!Labels]
      BY <1>10, WaCounting, NAssumption, WaNumbers, WaNext DEF WaInv, WA!TypeOk,
         WA!Labels, WA!RequestStop
    <3>4. wa_next' \in [WA!Threads -> 1..N + 1]
      BY <1>10, WaCounting, NAssumption, WaNumbers, WaNext DEF WaInv, WA!TypeOk,
         WaStops, WaStarts, WaLabels, WA!RequestStop
    <3>. QED
      BY ONLY WaInv, <3>1, <3>2, <3>3, <3>4 DEF WaInv, WA!TypeOk
  <2>2. WaLabels'
    BY <1>10 DEF WaInv, WA!TypeOk, WaLabels, WA!Labels, WaStops, WA!RequestStop
  <2>3. WaCounts'
    <3>1. WaPending' = WaPending
      BY <1>10, WaNext DEF WaInv, WA!TypeOk, WaDelivers, WaLabels, WaStarts,
         WaPending, WaArrived, WA!RequestStop
    <3>2. wa_word'.count = wa_word.count
      BY <1>10 DEF WaInv, WA!TypeOk, WA!RequestStop
    <3>. QED
      BY <3>1, <3>2 DEF WaInv, WaCounts
  <2>4. WaStarts'
    <3>1. /\ \A u \in WA!Threads : u # WA!Stopper => /\ wa_pc'[u] = wa_pc[u]
                                                    /\ wa_next'[u] = wa_next[u]
          /\ wa_word'.started = wa_word.started
      BY <1>10 DEF WaInv, WA!TypeOk, WA!RequestStop
    <3>. QED
      BY ONLY WaInv, WaThreads, <3>1 DEF WaInv, WaStarts
  <2>5. WaDelivers'
    BY <1>10, WaCounting DEF WaInv, WA!TypeOk, WaLabels, WA!Labels, WaArrived,
       WaStarts, WaDelivers, WA!RequestStop
  <2>6. WaResults'
    BY <1>10 DEF WaInv, WA!TypeOk, WaLabels, WA!Labels, WaResults, WA!RequestStop
  <2>7. WaStops'
    <3>1. /\ wa_pc[WA!Stopper] = "idle" /\ wa_pc[WA!Starter] = "returned"
          /\ wa_pc'[WA!Stopper] \in {"stopping", "returned"}
          /\ \A u \in WA!Threads : u # WA!Stopper => /\ wa_pc'[u] = wa_pc[u]
                                                    /\ wa_next'[u] = wa_next[u]
          /\ wa_pc'[WA!Stopper] = "stopping" => /\ ~wa_word.failed
                                                /\ wa_next'[WA!Stopper] = 1
          /\ UNCHANGED wa_stops
          /\ wa_word'.started = wa_word.started /\ wa_word'.failed = wa_word.failed
          /\ wa_word'.stop_requested
      BY <1>10 DEF WaInv, WA!TypeOk, WA!RequestStop
    <3>2. wa_word.started /\ ~wa_word.stop_requested
      BY ONLY WaInv, <3>1 DEF WaInv, WaStarts, WaStops
    <3>3. CASE wa_pc'[WA!Stopper] = "stopping"
      <4>1. /\ \A u \in WA!Threads : wa_pc[u] # "stopping"
            /\ \A c \in WA!Children : wa_stops[c] = 0
        BY ONLY WaInv, <3>1, <3>2, <3>3 DEF WaInv, WaStops
      <4>2. \A u \in WA!Threads : wa_pc'[u] = "stopping" => u = WA!Stopper
        BY ONLY <3>1, <4>1
      <4>. QED
        BY ONLY <3>1, <3>2, <3>3, <4>1, <4>2, WaThreads, WaNumbers, NAssumption
           DEF WaStops
    <3>4. CASE wa_pc'[WA!Stopper] = "returned"
      <4>1. \A u \in WA!Threads : wa_pc'[u] = "stopping" =>
               wa_pc[u] = "stopping" /\ wa_next'[u] = wa_next[u]
        BY ONLY <3>1, <3>4
      <4>. QED
        BY ONLY WaInv, <3>1, <3>2, <3>4, <4>1, WaThreads DEF WaInv, WaStops
    <3>. QED
      BY ONLY <3>1, <3>3, <3>4
  <2>. QED
    BY ONLY <2>1, <2>2, <2>3, <2>4, <2>5, <2>6, <2>7 DEF WaInv
<1>. QED
  BY ONLY WA!Next, <1>1, <1>2, <1>3, <1>4, <1>5, <1>6, <1>7, <1>8, <1>9, <1>10 DEF
     WA!Next, WA!ChildCompletes, WA!ChildStep

(* With that, what the run asks of when_all holds. *)
LEMMA WaSafe == WaInv => /\ WA!DeliversLast /\ WA!ResultIsComplete
                         /\ WA!StopCallsAreLegal
<1>. SUFFICES ASSUME WaInv
              PROVE  WA!DeliversLast /\ WA!ResultIsComplete /\ WA!StopCallsAreLegal
  OBVIOUS
<1>. USE WaThreads
<1>1. WA!DeliversLast
  <2>1. wa_sent # <<>> => Len(wa_sent) = 1
    BY DEF WaInv, WaDelivers
  <2>2. Len(wa_sent) \in {0, 1}
    <3>1. CASE wa_sent = <<>>
      BY <3>1
    <3>2. CASE wa_sent # <<>>
      BY <2>1, <3>2
    <3>. QED
      BY <3>1, <3>2
  <2>3. \A n \in {0, 1} : n <= 1
    OBVIOUS
  <2>4. Len(wa_sent) <= 1
    BY ONLY <2>2, <2>3
  <2>. QED
    BY <2>4 DEF WaInv, WaDelivers, WaArrived, WA!DeliversLast
<1>2. WA!ResultIsComplete
  <2>1. ASSUME NEW t \in WA!Threads, wa_pc[t] = "deliver"
        PROVE  IF wa_word.failed THEN wa_error # 0 ELSE wa_values = WA!Children
    <3>1. \A i \in WA!Children : wa_pc[i] \in {"deliver", "returned"}
      BY <2>1 DEF WaInv, WaDelivers, WaArrived
    <3>2. wa_values \subseteq WA!Children
      BY DEF WaInv, WA!TypeOk
    <3>3. ~wa_word.failed => \A i \in WA!Children : i \in wa_values
      BY <3>1 DEF WaInv, WaResults
    <3>4. wa_word.failed => wa_error # 0
      BY <3>1 DEF WaInv, WaResults
    <3>5. CASE wa_word.failed
      BY <3>4, <3>5
    <3>6. CASE ~wa_word.failed
      <4>1. WA!Children \subseteq wa_values
        BY <3>3, <3>6
      <4>2. wa_values = WA!Children
        BY ONLY <3>2, <4>1
      <4>. QED
        BY ONLY <3>6, <4>2
    <3>. QED
      BY ONLY <3>5, <3>6
  <2>. QED
    BY <2>1 DEF WaInv, WaResults, WA!ResultIsComplete, WA!NoChild
<1>3. WA!StopCallsAreLegal
  <2>1. ASSUME NEW i \in WA!Children, wa_pc[i] = "stopping"
        PROVE  wa_sent = <<>>
    BY ONLY <1>1, <2>1 DEF WA!DeliversLast
  <2>2. \A i \in WA!Children : wa_stops[i] <= 1 /\ (wa_stops[i] = 1 => wa_word.started)
    BY DEF WaInv, WaStops
  <2>. QED
    BY ONLY <2>1, <2>2 DEF WA!StopCallsAreLegal
<1>. QED
  BY <1>1, <1>2, <1>3

-----------------------------------------------------------------------------
(* when_all for children that can only succeed *)

WsArrived(i) == ws_pc[i] \in {"deliver", "returned"}

(* The children that state_ counts. *)
WsPending == {i \in WS!Children : ~WsArrived(i)}
WsCounts == ws_state = Cardinality(WsPending)

WsStarts ==
    /\ ws_pc[WS!Starter] \in {"idle", "returned"}
    /\ ws_pc[WS!Starter] = "idle" => ws_next[WS!Starter] <= N
    /\ \A i \in WS!Children :
          ws_pc[i] = "idle" <=> ws_pc[WS!Starter] = "idle" /\ i >= ws_next[WS!Starter]

WsDelivers ==
    /\ \A t \in WS!Children : ws_pc[t] = "deliver" =>
          /\ \A i \in WS!Children : WsArrived(i)
          /\ ws_sent = <<>>
          /\ \A s \in WS!Children : ws_pc[s] = "deliver" => s = t
    /\ ws_sent # <<>> => /\ ws_sent = <<WS!Children>>
                         /\ \A i \in WS!Children : ws_pc[i] = "returned"

WsResults == \A i \in WS!Children : i \in ws_values \/ ws_pc[i] \in {"idle", "running"}

WsStops ==
    /\ ws_pc[WS!Stopper] \in {"idle", "returned"}
    /\ ws_pc[WS!Stopper] = "idle" => ws_next[WS!Stopper] <= N
    /\ ws_next[WS!Stopper] > 1 => ws_pc[WS!Starter] = "returned"
    /\ \A i \in WS!Children : ws_stops[i] = IF i < ws_next[WS!Stopper] THEN 1 ELSE 0

WsInv == WS!TypeOk /\ WsCounts /\ WsStarts /\ WsDelivers /\ WsResults /\ WsStops

(* Who is who. *)
LEMMA WsThreads == /\ WS!Starter \in WS!Threads /\ WS!Starter \notin WS!Children
                   /\ WS!Stopper \in WS!Threads /\ WS!Stopper \notin WS!Children
                   /\ WS!Starter # WS!Stopper
                   /\ \A i \in WS!Children : i \in WS!Threads
                   /\ \A t \in WS!Threads : t \in WS!Children \/ t = WS!Starter \/ t = WS!Stopper
BY NAssumption DEF WS!Threads, WS!Children, WS!Starter, WS!Stopper

(* The children are numbered from 1. *)
LEMMA WsNumbers == /\ \A i \in WS!Children : i \in Nat /\ i >= 1 /\ i <= N /\ i + 1 \in 1..N + 1
                   /\ 1 \in WS!Children /\ N \in WS!Children /\ 1 \in 1..N + 1
                   /\ \A k \in Nat : k >= 1 /\ k <= N => k \in WS!Children
BY NAssumption DEF WS!Children

(* The count tells the last child that arrives. *)
LEMMA WsCounting ==
  ASSUME WS!TypeOk, WsCounts
  PROVE  /\ IsFiniteSet(WsPending)
         /\ ws_state = 0 <=> \A i \in WS!Children : WsArrived(i)
         /\ \A i \in WS!Children : ~WsArrived(i) =>
               /\ Cardinality(WsPending \ {i}) = ws_state - 1
               /\ ws_state >= 1
               /\ ws_state < 2 => \A j \in WS!Children : j # i => WsArrived(j)
<1>. USE NAssumption
<1>1. IsFiniteSet(WsPending)
  <2>1. IsFiniteSet(1..N)
    BY FS_Interval
  <2>. QED
    BY <2>1, FS_Subset DEF WsPending, WS!Children
<1>2. ws_state = 0 <=> WsPending = {}
  BY <1>1, FS_EmptySet DEF WsCounts
<1>3. ASSUME NEW i \in WsPending
      PROVE  /\ Cardinality(WsPending \ {i}) = ws_state - 1
             /\ ws_state >= 1
             /\ ws_state < 2 => WsPending = {i}
  <2>1. IsFiniteSet(WsPending \ {i}) /\ Cardinality(WsPending \ {i}) = ws_state - 1
    BY <1>1, FS_RemoveElement DEF WsCounts
  <2>2. Cardinality(WsPending \ {i}) \in Nat
    BY <2>1, FS_CardinalityType
  <2>3. ws_state \in Nat
    BY DEF WS!TypeOk
  <2>4. ws_state < 2 => Cardinality(WsPending \ {i}) = 0
    BY <2>1, <2>2, <2>3
  <2>5. ws_state < 2 => WsPending \ {i} = {}
    BY <2>1, <2>4, FS_EmptySet
  <2>. QED
    BY <2>1, <2>2, <2>3, <2>5
<1>. QED
  BY <1>1, <1>2, <1>3 DEF WsPending

(* Before the operation is started. *)
LEMMA WsInit == WS!Init => WsInv
<1>. SUFFICES ASSUME WS!Init PROVE WsInv
  OBVIOUS
<1>. USE NAssumption DEF WS!Init, WS!Children, WS!Threads, WS!Starter, WS!Stopper
<1>1. WS!TypeOk
  <2>1. ws_state \in 0..N /\ ws_values \subseteq WS!Children
    OBVIOUS
  <2>2. ws_sent \in Seq(SUBSET WS!Children)
    OBVIOUS
  <2>3. ws_stops \in [WS!Children -> Nat]
    OBVIOUS
  <2>4. ws_pc \in [WS!Threads -> {"idle", "running", "arrive", "deliver", "returned"}]
    OBVIOUS
  <2>5. ws_next \in [{WS!Starter, WS!Stopper} -> 1..N + 1]
    OBVIOUS
  <2>. QED
    BY ONLY <2>1, <2>2, <2>3, <2>4, <2>5 DEF WS!TypeOk
<1>2. WsCounts
  <2>1. WsPending = 1..N
    BY DEF WsPending, WsArrived
  <2>2. Cardinality(1..N) = N
    BY FS_Interval
  <2>. QED
    BY <2>1, <2>2 DEF WsCounts
<1>3. WsStarts /\ WsStops
  BY DEF WsStarts, WsStops
<1>4. WsDelivers /\ WsResults
  BY DEF WsDelivers, WsResults
<1>. QED
  BY <1>1, <1>2, <1>3, <1>4 DEF WsInv

(* The child that is started or asked to stop next is a child. *)
LEMMA WsNext == WsInv => /\ ws_pc[WS!Starter] = "idle" => ws_next[WS!Starter] \in WS!Children
                         /\ ws_pc[WS!Stopper] = "idle" => ws_next[WS!Stopper] \in WS!Children
                         /\ ws_next[WS!Stopper] \in Nat /\ ws_next[WS!Stopper] >= 1
BY NAssumption, WsThreads, WsNumbers DEF WsInv, WS!TypeOk, WsStarts, WsStops

(* Every step keeps all of it. *)
LEMMA WsStep == WsInv /\ WS!Next => WsInv'
<1>. SUFFICES ASSUME WsInv, WS!Next PROVE WsInv'
  OBVIOUS
<1>. USE WsThreads
<1>1. CASE WS!StartChild
  <2> DEFINE j == ws_next[WS!Starter]
             next_label == IF j = N THEN "returned" ELSE "idle"
  <2>a. j \in WS!Children /\ j # WS!Starter /\ ws_pc[WS!Starter] = "idle"
    BY <1>1, WsNext DEF WS!StartChild
  <2>b. /\ ws_pc' = [ws_pc EXCEPT ![j] = "running", ![WS!Starter] = next_label]
        /\ ws_next' = [ws_next EXCEPT ![WS!Starter] = j + 1]
        /\ UNCHANGED <<ws_state, ws_values, ws_sent, ws_stops>>
    BY <1>1 DEF WS!StartChild
  <2> HIDE DEF j
  <2>c. /\ ws_pc \in [WS!Threads -> {"idle", "running", "arrive", "deliver", "returned"}]
        /\ ws_next \in [{WS!Starter, WS!Stopper} -> 1..N + 1]
        /\ next_label \in {"idle", "returned"}
    BY DEF WsInv, WS!TypeOk
  <2> HIDE DEF next_label
  <2>d. /\ ws_pc'[j] = "running" /\ ws_pc'[WS!Starter] = next_label
        /\ \A u \in WS!Threads : u # j /\ u # WS!Starter => ws_pc'[u] = ws_pc[u]
        /\ ws_next'[WS!Starter] = j + 1
        /\ ws_next'[WS!Stopper] = ws_next[WS!Stopper]
    BY ONLY <2>a, <2>b, <2>c, WsThreads
  <2>e. ws_pc[j] = "idle"
    BY <2>a, WsNumbers DEF WsInv, WsStarts, j
  <2>1. WS!TypeOk'
    <3>1. ws_state' \in 0..N
      BY <1>1, WsNext, WsNumbers, NAssumption DEF WsInv, WS!TypeOk, WS!StartChild
    <3>2. ws_values' \subseteq WS!Children
      BY <1>1, WsNext, WsNumbers, NAssumption DEF WsInv, WS!TypeOk, WS!StartChild
    <3>3. ws_sent' \in Seq(SUBSET WS!Children)
      BY <1>1, WsNext, WsNumbers, NAssumption DEF WsInv, WS!TypeOk, WS!StartChild
    <3>4. ws_stops' \in [WS!Children -> Nat]
      BY <1>1, WsNext, WsNumbers, NAssumption DEF WsInv, WS!TypeOk, WS!StartChild
    <3>5. ws_pc' \in [WS!Threads -> {"idle", "running", "arrive", "deliver", "returned"}]
      BY <1>1, WsNext, WsNumbers, NAssumption DEF WsInv, WS!TypeOk, WS!StartChild
    <3>6. ws_next' \in [{WS!Starter, WS!Stopper} -> 1..N + 1]
      BY <1>1, WsNext, WsNumbers, NAssumption DEF WsInv, WS!TypeOk, WS!StartChild
    <3>. QED
      BY ONLY <3>1, <3>2, <3>3, <3>4, <3>5, <3>6 DEF WS!TypeOk
  <2>2. WsCounts'
    <3>1. WsPending' = WsPending
      BY ONLY <2>a, <2>b, <2>c, <2>d, <2>e, WsInv, WsThreads DEF WsPending, WsArrived
    <3>. QED
      BY ONLY <2>b, <3>1, WsInv DEF WsInv, WsCounts
  <2>3. WsStarts'
    <3>1. ws_pc'[WS!Starter] \in {"idle", "returned"}
      BY ONLY <2>c, <2>d
    <3>2. ws_pc'[WS!Starter] = "idle" => ws_next'[WS!Starter] <= N
      BY ONLY <2>a, <2>b, <2>c, <2>d, <2>e, WsInv, WsThreads, WsNumbers, NAssumption
         DEF next_label
    <3>3. ASSUME NEW i \in WS!Children
          PROVE  ws_pc'[i] = "idle" <=> ws_pc'[WS!Starter] = "idle" /\ i >= ws_next'[WS!Starter]
      <4>1. i \in Nat /\ j \in Nat /\ i <= N /\ j <= N /\ N \in Nat
        BY ONLY <2>a, WsNumbers, NAssumption
      <4>2. ws_pc[i] = "idle" <=> i >= j
        BY ONLY <2>a, <2>b, <2>c, <2>d, <2>e, WsInv, WsThreads DEF WsInv, WsStarts, j
      <4>3. CASE i = j
        BY ONLY <2>a, <2>b, <2>c, <2>d, <2>e, WsInv, WsThreads, <4>1, <4>3
      <4>4. CASE i # j
        <5>1. ws_pc'[i] = ws_pc[i]
          BY ONLY <2>a, <2>b, <2>c, <2>d, <2>e, WsInv, WsThreads, <4>4
        <5>2. i >= j <=> next_label = "idle" /\ i >= j + 1
          BY ONLY <4>1, <4>4 DEF next_label
        <5>. QED
          BY ONLY <5>1, <5>2, <4>2, <2>d
      <4>. QED
        BY ONLY <4>3, <4>4
    <3>. QED
      BY ONLY <3>1, <3>2, <3>3 DEF WsStarts
  <2>4. WsDelivers'
    BY ONLY <2>a, <2>b, <2>c, <2>d, <2>e, WsInv, WsThreads DEF WsInv, WsDelivers,
       WsArrived
  <2>5. WsResults'
    BY ONLY <2>a, <2>b, <2>c, <2>d, <2>e, WsInv, WsThreads DEF WsInv, WsResults
  <2>6. WsStops'
    <3>1. ws_pc'[WS!Stopper] = ws_pc[WS!Stopper] /\ ws_pc[WS!Starter] # "returned"
      BY ONLY <2>a, <2>b, <2>c, <2>d, <2>e, WsInv, WsThreads
    <3>. QED
      BY ONLY <2>b, <2>d, <3>1, WsInv, WsThreads DEF WsInv, WsStops
  <2>. QED
    BY ONLY <2>1, <2>2, <2>3, <2>4, <2>5, <2>6 DEF WsInv
<1>2. CASE WS!RequestStop
  <2> DEFINE j == ws_next[WS!Stopper]
  <2>a. /\ j \in WS!Children /\ ws_pc[WS!Stopper] = "idle" /\ ws_pc[WS!Starter] = "returned"
        /\ j \in Nat /\ j <= N /\ N \in Nat
    BY <1>2, WsNext, WsNumbers, NAssumption DEF WS!RequestStop
  <2>b. /\ ws_stops' = [ws_stops EXCEPT ![j] = @ + 1]
        /\ ws_next' = [ws_next EXCEPT ![WS!Stopper] = j + 1]
        /\ ws_pc' = IF j = N THEN [ws_pc EXCEPT ![WS!Stopper] = "returned"] ELSE ws_pc
        /\ UNCHANGED <<ws_state, ws_values, ws_sent>>
    BY <1>2 DEF WS!RequestStop
  <2> HIDE DEF j
  <2>c. /\ ws_pc \in [WS!Threads -> {"idle", "running", "arrive", "deliver", "returned"}]
        /\ ws_next \in [{WS!Starter, WS!Stopper} -> 1..N + 1]
        /\ ws_stops \in [WS!Children -> Nat]
    BY DEF WsInv, WS!TypeOk
  <2>d. /\ ws_pc'[WS!Stopper] = IF j = N THEN "returned" ELSE "idle"
        /\ \A u \in WS!Threads : u # WS!Stopper => ws_pc'[u] = ws_pc[u]
    <3>1. CASE j = N
      BY ONLY <2>a, <2>b, <2>c, <3>1, WsThreads
    <3>2. CASE j # N
      BY ONLY <2>a, <2>b, <2>c, <3>2, WsThreads
    <3>. QED
      BY ONLY <3>1, <3>2
  <2>e. /\ ws_next'[WS!Stopper] = j + 1 /\ ws_next'[WS!Starter] = ws_next[WS!Starter]
        /\ \A i \in WS!Children : ws_stops'[i] = IF i = j THEN ws_stops[i] + 1 ELSE ws_stops[i]
    BY ONLY <2>a, <2>b, <2>c, WsThreads
  <2>1. WS!TypeOk'
    <3>1. ws_state' \in 0..N /\ ws_values' \subseteq WS!Children /\ ws_sent' \in Seq(SUBSET WS!Children)
      BY <2>b DEF WsInv, WS!TypeOk
    <3>2. ws_stops' \in [WS!Children -> Nat]
      BY ONLY <2>a, <2>b, <2>c
    <3>3. ws_pc' \in [WS!Threads -> {"idle", "running", "arrive", "deliver", "returned"}]
      BY ONLY <2>b, <2>c
    <3>4. j + 1 \in 1..N + 1
      BY ONLY <2>a
    <3>5. ws_next' \in [{WS!Starter, WS!Stopper} -> 1..N + 1]
      BY ONLY <2>b, <2>c, <3>4
    <3>. QED
      BY ONLY <3>1, <3>2, <3>3, <3>5 DEF WS!TypeOk
  <2>2. WsCounts'
    <3>1. WsPending' = WsPending
      BY ONLY <2>a, <2>b, <2>c, <2>d, <2>e, WsInv, WsThreads DEF WsPending, WsArrived
    <3>. QED
      BY ONLY <2>b, <3>1, WsInv DEF WsInv, WsCounts
  <2>3. WsStarts'
    BY ONLY <2>a, <2>b, <2>c, <2>d, <2>e, WsInv, WsThreads DEF WsInv, WsStarts
  <2>4. WsDelivers'
    BY ONLY <2>a, <2>b, <2>c, <2>d, <2>e, WsInv, WsThreads DEF WsInv, WsDelivers,
       WsArrived
  <2>5. WsResults'
    BY ONLY <2>a, <2>b, <2>c, <2>d, <2>e, WsInv, WsThreads DEF WsInv, WsResults
  <2>6. WsStops'
    <3>1. ASSUME NEW i \in WS!Children PROVE ws_stops'[i] = IF i < j + 1 THEN 1 ELSE 0
      <4>1. i \in Nat /\ ws_stops[i] = IF i < j THEN 1 ELSE 0
        BY WsNumbers DEF WsInv, WsStops, j
      <4>2. CASE i = j
        BY ONLY <2>a, <2>e, <4>1, <4>2
      <4>3. CASE i # j
        BY ONLY <2>a, <2>e, <4>1, <4>3
      <4>. QED
        BY ONLY <4>2, <4>3
    <3>2. ws_pc'[WS!Stopper] = "idle" => j + 1 <= N
      BY ONLY <2>a, <2>d
    <3>3. ws_pc'[WS!Stopper] \in {"idle", "returned"} /\ ws_pc'[WS!Starter] = "returned"
      BY ONLY <2>a, <2>d, WsThreads
    <3>. QED
      BY ONLY <3>1, <3>2, <3>3, <2>e DEF WsStops
  <2>. QED
    BY ONLY <2>1, <2>2, <2>3, <2>4, <2>5, <2>6 DEF WsInv
<1>3. ASSUME NEW i \in WS!Children, WS!StoreValue(i) PROVE WsInv'
  <2>1. WS!TypeOk'
    <3>1. ws_state' \in 0..N
      BY <1>3, WsNext, WsNumbers, NAssumption DEF WsInv, WS!TypeOk, WS!StoreValue
    <3>2. ws_values' \subseteq WS!Children
      BY <1>3, WsNext, WsNumbers, NAssumption DEF WsInv, WS!TypeOk, WS!StoreValue
    <3>3. ws_sent' \in Seq(SUBSET WS!Children)
      BY <1>3, WsNext, WsNumbers, NAssumption DEF WsInv, WS!TypeOk, WS!StoreValue
    <3>4. ws_stops' \in [WS!Children -> Nat]
      BY <1>3, WsNext, WsNumbers, NAssumption DEF WsInv, WS!TypeOk, WS!StoreValue
    <3>5. ws_pc' \in [WS!Threads -> {"idle", "running", "arrive", "deliver", "returned"}]
      BY <1>3, WsNext, WsNumbers, NAssumption DEF WsInv, WS!TypeOk, WS!StoreValue
    <3>6. ws_next' \in [{WS!Starter, WS!Stopper} -> 1..N + 1]
      BY <1>3, WsNext, WsNumbers, NAssumption DEF WsInv, WS!TypeOk, WS!StoreValue
    <3>. QED
      BY ONLY <3>1, <3>2, <3>3, <3>4, <3>5, <3>6 DEF WS!TypeOk
  <2>2. WsCounts'
    <3>1. WsPending' = WsPending
      BY <1>3 DEF WsInv, WS!TypeOk, WsPending, WsArrived, WS!StoreValue
    <3>. QED
      BY <1>3, <3>1 DEF WsInv, WsCounts, WS!StoreValue
  <2>3. WsStarts'
    BY <1>3 DEF WsInv, WS!TypeOk, WsStarts, WS!StoreValue
  <2>4. WsDelivers'
    BY <1>3, WsCounting DEF WsInv, WS!TypeOk, WsArrived, WsDelivers, WS!StoreValue
  <2>5. WsResults'
    BY <1>3 DEF WsInv, WS!TypeOk, WsResults, WS!StoreValue
  <2>6. WsStops'
    BY <1>3, WsNumbers, NAssumption, WsNext DEF WsInv, WS!TypeOk, WsStops,
       WS!StoreValue
  <2>. QED
    BY ONLY <2>1, <2>2, <2>3, <2>4, <2>5, <2>6 DEF WsInv
<1>4. ASSUME NEW i \in WS!Children, WS!Arrive(i) PROVE WsInv'
  <2>1. WS!TypeOk'
    <3>1. ws_state' \in 0..N
      <4>1. ws_state \in 1..N /\ ws_state - 1 \in 0..N
        BY <1>4, WsCounting, NAssumption DEF WsInv, WS!TypeOk, WS!Arrive, WsArrived
      <4>. QED
        BY <1>4, <4>1 DEF WS!Arrive
    <3>2. ws_values' \subseteq WS!Children
      BY <1>4 DEF WsInv, WS!TypeOk, WS!Arrive
    <3>3. ws_sent' \in Seq(SUBSET WS!Children)
      BY <1>4 DEF WsInv, WS!TypeOk, WS!Arrive
    <3>4. ws_stops' \in [WS!Children -> Nat]
      BY <1>4 DEF WsInv, WS!TypeOk, WS!Arrive
    <3>5. ws_pc' \in [WS!Threads -> {"idle", "running", "arrive", "deliver", "returned"}]
      BY <1>4 DEF WsInv, WS!TypeOk, WS!Arrive
    <3>6. ws_next' \in [{WS!Starter, WS!Stopper} -> 1..N + 1]
      BY <1>4 DEF WsInv, WS!TypeOk, WS!Arrive
    <3>. QED
      BY ONLY <3>1, <3>2, <3>3, <3>4, <3>5, <3>6 DEF WS!TypeOk
  <2>2. WsCounts'
    <3>1. WsPending' = WsPending \ {i} /\ ~WsArrived(i)
      BY <1>4 DEF WsInv, WS!TypeOk, WsPending, WsArrived, WS!Arrive
    <3>. QED
      BY <1>4, <3>1, WsCounting DEF WsInv, WsCounts, WS!Arrive
  <2>3. WsStarts'
    BY <1>4 DEF WsInv, WS!TypeOk, WsStarts, WS!Arrive
  <2>4. WsDelivers'
    <3>1. ~WsArrived(i) /\ ws_sent = <<>>
      BY <1>4 DEF WsInv, WsDelivers, WsArrived, WS!Arrive
    <3>2. ws_state = 1 => \A j \in WS!Children : j # i => WsArrived(j)
      <4>1. ws_state < 2 => \A j \in WS!Children : j # i => WsArrived(j)
        BY <3>1, WsCounting DEF WsInv
      <4>2. \A n \in {1} : n < 2
        OBVIOUS
      <4>. QED
        BY ONLY <4>1, <4>2
    <3>3. \A j \in WS!Children : ws_pc[j] # "deliver"
      BY <3>1 DEF WsInv, WsDelivers
    <3>. QED
      BY <1>4, <3>1, <3>2, <3>3 DEF WsInv, WS!TypeOk, WsDelivers, WsArrived, WS!Arrive
  <2>5. WsResults'
    BY <1>4 DEF WsInv, WS!TypeOk, WsResults, WS!Arrive
  <2>6. WsStops'
    BY <1>4, WsNumbers, NAssumption, WsNext DEF WsInv, WS!TypeOk, WsStops, WS!Arrive
  <2>. QED
    BY ONLY <2>1, <2>2, <2>3, <2>4, <2>5, <2>6 DEF WsInv
<1>5. ASSUME NEW i \in WS!Children, WS!Deliver(i) PROVE WsInv'
  <2>1. WS!TypeOk'
    <3>1. ws_state' \in 0..N
      BY <1>5, WsNext, WsNumbers, NAssumption DEF WsInv, WS!TypeOk, WS!Deliver
    <3>2. ws_values' \subseteq WS!Children
      BY <1>5, WsNext, WsNumbers, NAssumption DEF WsInv, WS!TypeOk, WS!Deliver
    <3>3. ws_sent' \in Seq(SUBSET WS!Children)
      BY <1>5, WsNext, WsNumbers, NAssumption DEF WsInv, WS!TypeOk, WS!Deliver
    <3>4. ws_stops' \in [WS!Children -> Nat]
      BY <1>5, WsNext, WsNumbers, NAssumption DEF WsInv, WS!TypeOk, WS!Deliver
    <3>5. ws_pc' \in [WS!Threads -> {"idle", "running", "arrive", "deliver", "returned"}]
      BY <1>5, WsNext, WsNumbers, NAssumption DEF WsInv, WS!TypeOk, WS!Deliver
    <3>6. ws_next' \in [{WS!Starter, WS!Stopper} -> 1..N + 1]
      BY <1>5, WsNext, WsNumbers, NAssumption DEF WsInv, WS!TypeOk, WS!Deliver
    <3>. QED
      BY ONLY <3>1, <3>2, <3>3, <3>4, <3>5, <3>6 DEF WS!TypeOk
  <2>2. WsCounts'
    <3>1. WsPending' = WsPending
      BY <1>5 DEF WsInv, WS!TypeOk, WsPending, WsArrived, WS!Deliver
    <3>. QED
      BY <1>5, <3>1 DEF WsInv, WsCounts, WS!Deliver
  <2>3. WsStarts'
    BY <1>5 DEF WsInv, WS!TypeOk, WsStarts, WS!Deliver
  <2>4. WsDelivers'
    <3>1. ws_sent = <<>> /\ \A j \in WS!Children : WsArrived(j) /\ (ws_pc[j] = "deliver" => j = i)
      BY <1>5 DEF WsInv, WsDelivers, WS!Deliver
    <3>2. ws_values = WS!Children
      <4>1. WS!Children \subseteq ws_values
        BY <3>1 DEF WsInv, WsResults, WsArrived
      <4>2. ws_values \subseteq WS!Children
        BY DEF WsInv, WS!TypeOk
      <4>. QED
        BY ONLY <4>1, <4>2
    <3>3. ws_sent' = <<WS!Children>>
      BY <1>5, <3>1, <3>2 DEF WS!Deliver
    <3>4. \A j \in WS!Children : ws_pc'[j] = "returned"
      BY <1>5, <3>1 DEF WsInv, WS!TypeOk, WsArrived, WS!Deliver
    <3>. QED
      BY <3>3, <3>4 DEF WsDelivers
  <2>5. WsResults'
    BY <1>5 DEF WsInv, WS!TypeOk, WsResults, WS!Deliver
  <2>6. WsStops'
    BY <1>5, WsNumbers, NAssumption, WsNext DEF WsInv, WS!TypeOk, WsStops, WS!Deliver
  <2>. QED
    BY ONLY <2>1, <2>2, <2>3, <2>4, <2>5, <2>6 DEF WsInv
<1>. QED
  BY ONLY WS!Next, <1>1, <1>2, <1>3, <1>4, <1>5 DEF WS!Next

(* With that, what the run asks of it holds. *)
LEMMA WsSafe == WsInv => /\ WS!DeliversLast /\ WS!ResultIsComplete
                         /\ WS!StopCallsAreLegal
<1>. SUFFICES ASSUME WsInv
              PROVE  WS!DeliversLast /\ WS!ResultIsComplete /\ WS!StopCallsAreLegal
  OBVIOUS
<1>. USE WsThreads
<1>1. (\A i \in WS!Children : WsArrived(i)) => ws_pc[WS!Starter] = "returned"
  BY WsNext, WsNumbers, NAssumption DEF WsInv, WS!TypeOk, WsStarts, WsArrived
<1>2. WS!DeliversLast
  <2>1. ws_sent = <<>> => Len(ws_sent) = 0
    OBVIOUS
  <2>2. ws_sent # <<>> => Len(ws_sent) = 1
    BY DEF WsInv, WsDelivers
  <2>3. \A n \in {0, 1} : n <= 1
    OBVIOUS
  <2>4. Len(ws_sent) <= 1
    BY ONLY <2>1, <2>2, <2>3
  <2>5. ASSUME NEW i \in WS!Children, ws_pc[i] = "deliver"
        PROVE  /\ ws_sent = <<>>
               /\ \A t \in (WS!Children \cup {WS!Starter}) \ {i} : ws_pc[t] = "returned"
    BY <1>1, <2>5 DEF WsInv, WsDelivers, WsArrived
  <2>6. ws_sent # <<>> => \A t \in WS!Children \cup {WS!Starter} : ws_pc[t] = "returned"
    BY <1>1 DEF WsInv, WsDelivers, WsArrived
  <2>. QED
    BY ONLY <2>4, <2>5, <2>6 DEF WS!DeliversLast
<1>3. WS!ResultIsComplete
  <2>1. ws_sent # <<>> => ws_sent = <<WS!Children>>
    BY DEF WsInv, WsDelivers
  <2>. QED
    BY ONLY <2>1 DEF WS!ResultIsComplete
<1>4. WS!StopCallsAreLegal
  <2>1. ASSUME NEW i \in WS!Children
        PROVE  ws_stops[i] <= 1 /\ (ws_stops[i] = 1 => ws_pc[i] # "idle")
    <3>1. /\ ws_stops[i] = IF i < ws_next[WS!Stopper] THEN 1 ELSE 0
          /\ i \in Nat /\ i >= 1 /\ ws_next[WS!Stopper] \in Nat
      BY WsNext, WsNumbers DEF WsInv, WsStops
    <3>2. i < ws_next[WS!Stopper] => ws_pc[WS!Starter] = "returned"
      BY <3>1 DEF WsInv, WsStops
    <3>. QED
      BY <3>1, <3>2 DEF WsInv, WsStarts
  <2>. QED
    BY ONLY <2>1 DEF WS!StopCallsAreLegal
<1>. QED
  BY <1>2, <1>3, <1>4

-----------------------------------------------------------------------------
(* first_successful *)

FsArrived(i) == fs_pc[i] \in {"deliver", "deliver_own", "returned"}
FsAllArrived == \A i \in FS!Children : FsArrived(i)
FsQuiet == /\ \A t \in FS!Threads : fs_pc[t] \notin {"stopping", "store_and_stop"}
           /\ \A i \in FS!Children : fs_stops[i] = 0

FsLabels ==
    /\ fs_pc[FS!Starter] \in {"idle", "add_started", "add_started_late", "stopping",
                              "deliver", "returned"}
    /\ fs_pc[FS!Stopper] \in {"idle", "stopping", "returned"}
    /\ \A i \in FS!Children : fs_pc[i] \notin {"add_started", "add_started_late"}

(* The count is that of the children yet to arrive, except that a last     *)
(* child that delivers at once may leave it at one.                        *)
FsPending == {i \in FS!Children : ~FsArrived(i)}
FsCounts == \/ fs_word.count = Cardinality(FsPending)
            \/ /\ fs_word.count = 1 /\ fs_word.started /\ fs_word.has_value
               /\ FsAllArrived

FsStarts ==
    /\ fs_word.started <=> fs_pc[FS!Starter] \in {"deliver", "returned"}
    /\ fs_pc[FS!Starter] \in {"stopping", "add_started_late"} => fs_word.has_value
    /\ fs_pc[FS!Starter] = "idle" => fs_next[FS!Starter] <= N
    /\ \A i \in FS!Children :
          fs_pc[i] = "idle" <=> fs_pc[FS!Starter] = "idle" /\ i >= fs_next[FS!Starter]

(* Where a child has found that it is the last, it still is.               *)
FsLast ==
    \A i \in FS!Children :
        /\ fs_pc[i] \in {"complete_inline", "store_failure", "store_count"} =>
              /\ ~fs_word.has_value
              /\ \A j \in FS!Children : j # i => FsArrived(j)
        /\ fs_pc[i] = "complete_inline" => fs_word.started
        /\ fs_pc[i] = "store_count" =>
              /\ fs_word.started /\ fs_seen.started
              /\ ~fs_seen.has_value /\ fs_seen.count = 1
              /\ fs_seen.stop_requested => fs_word.stop_requested

FsDelivers ==
    /\ \A t \in FS!Threads : FS!Delivering(t) =>
          /\ FsAllArrived /\ fs_word.started /\ fs_sent = <<>>
          /\ \A s \in FS!Threads : FS!Delivering(s) => s = t
    /\ fs_sent # <<>> => /\ Len(fs_sent) = 1 /\ fs_word.started
                         /\ \A i \in FS!Children : fs_pc[i] = "returned"
                         /\ fs_pc[FS!Starter] # "deliver"

(* Whose result is stored, or is about to be.                              *)
FsValues ==
    /\ \A i \in FS!Children :
          /\ ~fs_word.has_value /\ fs_outcome[i] = "value" =>
                fs_pc[i] \in {"set_value", "complete_inline"}
          /\ fs_pc[i] \in {"set_value", "complete_inline", "store", "store_and_stop"} =>
                fs_outcome[i] = "value"
          /\ fs_pc[i] \in {"store", "store_and_stop", "stopping"} => fs_word.has_value
          /\ fs_pc[i] = "arrive" /\ ~fs_word.has_value => fs_result = i
          /\ fs_pc[i] = "deliver_own" /\ fs_word.has_value => fs_outcome[i] = "value"
    /\ fs_word.has_value /\ fs_sent = <<>> =>
          \E w \in FS!Children :
             /\ fs_outcome[w] = "value"
             /\ \/ fs_pc[w] \in {"store", "store_and_stop", "deliver_own"}
                \/ /\ fs_result = w
                   /\ fs_pc[w] \in {"stopping", "arrive", "deliver", "returned"}
    /\ /\ ~fs_word.has_value /\ fs_sent = <<>> /\ FsAllArrived
       /\ \A i \in FS!Children : fs_pc[i] # "deliver_own"
       => fs_result \in FS!Children
    /\ FS!DeliversASuccess

(* One thread at most ever calls the children's request_stop().            *)
FsStops ==
    /\ fs_word.stop_requested => fs_pc[FS!Stopper] # "idle"
    /\ ~FsAllArrived /\ ~fs_word.stop_requested => fs_pc[FS!Stopper] = "idle"
    /\ fs_pc[FS!Stopper] # "idle" => fs_pc[FS!Starter] = "returned"
    /\ fs_pc[FS!Starter] \in {"idle", "add_started"} => FsQuiet
    /\ ~fs_word.has_value /\ fs_pc[FS!Stopper] = "idle" => FsQuiet
    /\ \A t \in FS!Children : fs_pc[t] = "store_and_stop" =>
          /\ \A s \in FS!Threads : fs_pc[s] \in {"stopping", "store_and_stop"} => s = t
          /\ \A i \in FS!Children : fs_stops[i] = 0
    /\ \A t \in FS!Threads : fs_pc[t] = "stopping" =>
          /\ fs_next[t] <= N
          /\ \A i \in FS!Children : fs_stops[i] = IF i < fs_next[t] /\ i # t THEN 1 ELSE 0
          /\ \A s \in FS!Threads : fs_pc[s] \in {"stopping", "store_and_stop"} => s = t
    /\ \A i \in FS!Children : fs_stops[i] <= 1

FsInv == /\ FS!TypeOk /\ FsLabels /\ FsCounts /\ FsStarts /\ FsLast
         /\ FsDelivers /\ FsValues /\ FsStops

(* Who is who. *)
LEMMA FsThreads == /\ FS!Starter \in FS!Threads /\ FS!Starter \notin FS!Children
                   /\ FS!Stopper \in FS!Threads /\ FS!Stopper \notin FS!Children
                   /\ FS!Starter # FS!Stopper
                   /\ \A i \in FS!Children : i \in FS!Threads
                   /\ \A t \in FS!Threads : t \in FS!Children \/ t = FS!Starter \/ t = FS!Stopper
BY NAssumption DEF FS!Threads, FS!Children, FS!Starter, FS!Stopper

(* The children are numbered from 1. *)
LEMMA FsNumbers == /\ \A i \in FS!Children : i \in Nat /\ i >= 1 /\ i <= N /\ i + 1 \in 1..N + 1 /\ i # 0
                   /\ 1 \in FS!Children /\ N \in FS!Children /\ 1 \in 1..N + 1 /\ 0..N = FS!Children \cup {0}
                   /\ \A k \in Nat : k >= 1 /\ k <= N => k \in FS!Children
BY NAssumption DEF FS!Children

(* The count tells the last child that arrives, and start() whether all have. *)
LEMMA FsCounting ==
  ASSUME FS!TypeOk, FsCounts
  PROVE  /\ fs_word.count = 0 => FsAllArrived
         /\ FsAllArrived /\ ~fs_word.started => fs_word.count = 0
         /\ \A i \in FS!Children : ~FsArrived(i) =>
               /\ Cardinality(FsPending \ {i}) = fs_word.count - 1
               /\ fs_word.count >= 1
               /\ fs_word.count < 2 => \A j \in FS!Children : j # i => FsArrived(j)
               /\ fs_word.count >= 2 => ~\A j \in FS!Children : j # i => FsArrived(j)
<1>. USE NAssumption
<1>0. fs_word.count \in Nat
  BY DEF FS!TypeOk, FS!Words
<1>1. IsFiniteSet(FsPending)
  <2>1. IsFiniteSet(1..N)
    BY FS_Interval
  <2>. QED
    BY <2>1, FS_Subset DEF FsPending, FS!Children
<1>2. FsAllArrived <=> FsPending = {}
  BY DEF FsPending, FsAllArrived
<1>3. Cardinality(FsPending) = 0 <=> FsPending = {}
  BY <1>1, FS_EmptySet
<1>4. ASSUME NEW i \in FsPending
      PROVE  /\ Cardinality(FsPending \ {i}) = fs_word.count - 1
             /\ fs_word.count >= 1
             /\ fs_word.count < 2 <=> FsPending \ {i} = {}
  <2>1. fs_word.count = Cardinality(FsPending)
    BY <1>2 DEF FsCounts
  <2>2. /\ IsFiniteSet(FsPending \ {i})
        /\ Cardinality(FsPending \ {i}) = Cardinality(FsPending) - 1
    BY <1>1, FS_RemoveElement
  <2>3. Cardinality(FsPending \ {i}) \in Nat
    BY <2>2, FS_CardinalityType
  <2>4. Cardinality(FsPending \ {i}) = 0 <=> FsPending \ {i} = {}
    BY <2>2, FS_EmptySet
  <2>. QED
    BY ONLY <1>0, <2>1, <2>2, <2>3, <2>4
<1>5. fs_word.count = 0 => FsAllArrived
  BY <1>2, <1>3 DEF FsCounts
<1>6. FsAllArrived /\ ~fs_word.started => fs_word.count = 0
  BY <1>2, <1>3 DEF FsCounts
<1>7. ASSUME NEW i \in FS!Children, ~FsArrived(i)
      PROVE  /\ Cardinality(FsPending \ {i}) = fs_word.count - 1
             /\ fs_word.count >= 1
             /\ fs_word.count < 2 => \A j \in FS!Children : j # i => FsArrived(j)
             /\ fs_word.count >= 2 => ~\A j \in FS!Children : j # i => FsArrived(j)
  <2>1. i \in FsPending
    BY <1>7 DEF FsPending
  <2>2. FsPending \ {i} = {} <=> \A j \in FS!Children : j # i => FsArrived(j)
    BY DEF FsPending
  <2>. QED
    <3>1. fs_word.count >= 2 <=> ~(fs_word.count < 2)
      BY ONLY <1>0
    <3>. QED
      BY ONLY <1>4, <2>1, <2>2, <3>1
<1>. QED
  BY <1>5, <1>6, <1>7

(* Before the operation is started. *)
LEMMA FsInit == FS!Init => FsInv
<1>. SUFFICES ASSUME FS!Init PROVE FsInv
  OBVIOUS
<1>. USE NAssumption DEF FS!Init, FS!Children, FS!Threads, FS!Starter, FS!Stopper
<1>1. FS!TypeOk
  <2>1. fs_word \in FS!Words /\ fs_seen \in FS!Words
    BY DEF FS!Words
  <2>2. fs_outcome \in [FS!Children -> {"none", "value", "failure"}] /\ fs_result \in 0..N
    BY DEF FS!NoChild
  <2>3. fs_sent \in Seq(FS!Children)
    OBVIOUS
  <2>4. fs_stops \in [FS!Children -> Nat]
    OBVIOUS
  <2>5. fs_pc \in [FS!Threads -> FS!Labels]
    BY DEF FS!Labels
  <2>6. fs_next \in [FS!Threads -> 1..N + 1]
    OBVIOUS
  <2>. QED
    BY ONLY <2>1, <2>2, <2>3, <2>4, <2>5, <2>6 DEF FS!TypeOk
<1>2. FsCounts
  <2>1. FsPending = 1..N
    BY DEF FsPending, FsArrived
  <2>2. Cardinality(1..N) = N
    BY FS_Interval
  <2>. QED
    BY <2>1, <2>2 DEF FsCounts
<1>3. FsLabels /\ FsStarts /\ FsLast
  BY DEF FsLabels, FsStarts, FsLast
<1>4. FsDelivers
  BY DEF FsDelivers, FS!Delivering
<1>5. FsValues
  <2>1. ~FsAllArrived
    BY DEF FsAllArrived, FsArrived
  <2>. QED
    BY <2>1 DEF FsValues, FS!DeliversASuccess
<1>6. FsStops
  BY DEF FsStops, FsQuiet
<1>. QED
  BY ONLY <1>1, <1>2, <1>3, <1>4, <1>5, <1>6 DEF FsInv

(* The child that is started or asked to stop next is a child. *)
LEMMA FsNext == FsInv => /\ fs_pc[FS!Starter] = "idle" => fs_next[FS!Starter] \in FS!Children
                         /\ \A t \in FS!Threads : /\ fs_pc[t] = "stopping" => fs_next[t] \in FS!Children
                                                  /\ fs_next[t] \in Nat /\ fs_next[t] >= 1
BY NAssumption, FsThreads, FsNumbers DEF FsInv, FS!TypeOk, FsStarts, FsStops

(* Every step of first_successful keeps all of it. *)
LEMMA FsStep == FsInv /\ FS!Step => FsInv'
<1>. SUFFICES ASSUME FsInv, FS!Step PROVE FsInv'
  OBVIOUS
<1>. USE FsThreads DEF FS!Goto, FS!BeginStopping, FS!CanCompleteInline
<1>1. CASE FS!StartChild
  <2> DEFINE j == fs_next[FS!Starter]
             next_label == IF j = N THEN "add_started" ELSE "idle"
  <2>a. j \in FS!Children /\ j # FS!Starter /\ fs_pc[FS!Starter] = "idle"
    BY <1>1, FsNext DEF FS!StartChild
  <2>b. /\ fs_pc' = [fs_pc EXCEPT ![j] = "running", ![FS!Starter] = next_label]
        /\ fs_next' = [fs_next EXCEPT ![FS!Starter] = j + 1]
        /\ UNCHANGED <<fs_word, fs_seen, fs_outcome, fs_result, fs_sent, fs_stops>>
    BY <1>1 DEF FS!StartChild
  <2> HIDE DEF j
  <2>c. /\ fs_pc \in [FS!Threads -> FS!Labels] /\ fs_next \in [FS!Threads -> 1..N + 1]
        /\ next_label \in {"idle", "add_started"}
    BY DEF FsInv, FS!TypeOk
  <2> HIDE DEF next_label
  <2>d. /\ fs_pc'[j] = "running" /\ fs_pc'[FS!Starter] = next_label
        /\ \A u \in FS!Threads : u # j /\ u # FS!Starter => fs_pc'[u] = fs_pc[u]
        /\ fs_next'[FS!Starter] = j + 1
        /\ \A u \in FS!Threads : u # FS!Starter => fs_next'[u] = fs_next[u]
    BY ONLY <2>a, <2>b, <2>c, FsThreads
  <2>e. fs_pc[j] = "idle"
    BY <2>a, FsNumbers DEF FsInv, FsStarts, j
  <2>1. FS!TypeOk'
    <3>1. UNCHANGED <<fs_word, fs_seen, fs_outcome, fs_result, fs_sent, fs_stops>>
      BY <1>1 DEF FS!StartChild
    <3>2. fs_pc' \in [FS!Threads -> FS!Labels]
      BY <1>1, FsNumbers, FsNext, NAssumption DEF FsInv, FS!TypeOk, FS!Words,
         FS!Labels, FS!StartChild
    <3>3. fs_next' \in [FS!Threads -> 1..N + 1]
      BY <1>1, FsNumbers, FsNext, NAssumption DEF FsInv, FS!TypeOk, FS!Words,
         FS!StartChild
    <3>. QED
      BY ONLY FsInv, <3>1, <3>2, <3>3 DEF FsInv, FS!TypeOk
  <2>2. FsLabels'
    BY ONLY <2>a, <2>b, <2>c, <2>d, <2>e, FsInv, FsThreads DEF FsInv, FsLabels,
       FS!Labels
  <2>3. FsCounts'
    <3>1. FsPending' = FsPending /\ (FsAllArrived <=> FsAllArrived')
      BY ONLY <2>a, <2>b, <2>c, <2>d, <2>e, FsInv, FsThreads DEF FsPending,
         FsAllArrived, FsArrived
    <3>. QED
      BY ONLY <2>b, <3>1, FsInv DEF FsInv, FsCounts
  <2>4. FsStarts'
    <3>1. /\ fs_word'.started <=> fs_pc'[FS!Starter] \in {"deliver", "returned"}
          /\ fs_pc'[FS!Starter] \notin {"stopping", "add_started_late"}
      BY ONLY <2>a, <2>b, <2>c, <2>d, <2>e, FsInv, FsThreads DEF FsInv, FsStarts
    <3>2. fs_pc'[FS!Starter] = "idle" => fs_next'[FS!Starter] <= N
      BY ONLY <2>a, <2>b, <2>c, <2>d, <2>e, FsInv, FsThreads, FsNumbers, NAssumption
         DEF next_label
    <3>3. ASSUME NEW i \in FS!Children
          PROVE  fs_pc'[i] = "idle" <=> fs_pc'[FS!Starter] = "idle" /\ i >= fs_next'[FS!Starter]
      <4>1. i \in Nat /\ j \in Nat /\ i <= N /\ j <= N /\ N \in Nat
        BY ONLY <2>a, FsNumbers, NAssumption
      <4>2. fs_pc[i] = "idle" <=> i >= j
        BY ONLY <2>a, <2>b, <2>c, <2>d, <2>e, FsInv, FsThreads DEF FsInv, FsStarts, j
      <4>3. CASE i = j
        BY ONLY <2>a, <2>b, <2>c, <2>d, <2>e, FsInv, FsThreads, <4>1, <4>3
      <4>4. CASE i # j
        <5>1. fs_pc'[i] = fs_pc[i]
          BY ONLY <2>a, <2>b, <2>c, <2>d, <2>e, FsInv, FsThreads, <4>4
        <5>2. i >= j <=> next_label = "idle" /\ i >= j + 1
          BY ONLY <4>1, <4>4 DEF next_label
        <5>. QED
          BY ONLY <5>1, <5>2, <4>2, <2>d
      <4>. QED
        BY ONLY <4>3, <4>4
    <3>. QED
      BY ONLY <3>1, <3>2, <3>3 DEF FsStarts
  <2>5. FsLast'
    BY ONLY <2>a, <2>b, <2>c, <2>d, <2>e, FsInv, FsThreads DEF FsInv, FsLast,
       FsArrived
  <2>6. FsDelivers'
    BY ONLY <2>a, <2>b, <2>c, <2>d, <2>e, FsInv, FsThreads DEF FsInv, FsDelivers,
       FsAllArrived, FsArrived, FS!Delivering
  <2>7. FsValues'
    BY ONLY <2>a, <2>b, <2>c, <2>d, <2>e, FsInv, FsThreads DEF FsInv, FsValues,
       FsAllArrived, FsArrived, FS!DeliversASuccess
  <2>8. FsStops'
    BY ONLY <2>a, <2>b, <2>c, <2>d, <2>e, FsInv, FsThreads DEF FsInv, FsStops,
       FsQuiet, FsAllArrived, FsArrived
  <2>. QED
    BY ONLY <2>1, <2>2, <2>3, <2>4, <2>5, <2>6, <2>7, <2>8 DEF FsInv
<1>2. CASE FS!AddStarted
  <2>a. /\ fs_pc[FS!Starter] = "add_started" /\ ~fs_word.started
        /\ \A u \in FS!Threads : u # FS!Starter => fs_pc'[u] = fs_pc[u] /\ fs_next'[u] = fs_next[u]
        /\ UNCHANGED <<fs_seen, fs_outcome, fs_result, fs_sent, fs_stops>>
    BY <1>2 DEF FsInv, FS!TypeOk, FsStarts, FS!AddStarted
  <2>b. \/ /\ fs_word.has_value /\ fs_word' = fs_word /\ fs_pc'[FS!Starter] = "stopping"
           /\ fs_next'[FS!Starter] = 1
        \/ /\ fs_word'.started
           /\ fs_word'.has_value = fs_word.has_value /\ fs_word'.stop_requested = fs_word.stop_requested
           /\ \/ fs_pc'[FS!Starter] = "deliver" /\ fs_word.count = 0
              \/ fs_pc'[FS!Starter] = "returned" /\ fs_word.count # 0
           /\ ~(fs_word.count > 0 /\ fs_word.has_value)
    BY <1>2 DEF FsInv, FS!TypeOk, FS!Words, FS!AddStarted
  <2>c. fs_word.count = 0 => FsAllArrived
    BY FsCounting DEF FsInv
  <2>d. ~FsAllArrived => fs_word.count > 0
    BY FsCounting, NAssumption DEF FsInv, FS!TypeOk, FS!Words, FsAllArrived
  <2>1. FS!TypeOk'
    <3>1. UNCHANGED <<fs_seen, fs_outcome, fs_result, fs_sent, fs_stops>>
      BY <1>2 DEF FS!AddStarted
    <3>2. fs_word' \in FS!Words
      BY <1>2, FsNumbers, ZenonT(40) DEF FsInv, FS!TypeOk, FS!Words, FS!AddStarted
    <3>3. fs_pc' \in [FS!Threads -> FS!Labels]
      BY <1>2, FsNumbers, ZenonT(40) DEF FsInv, FS!TypeOk, FS!Words, FS!Labels, FS!AddStarted
    <3>4. fs_next' \in [FS!Threads -> 1..N + 1]
      BY <1>2, FsNumbers DEF FsInv, FS!TypeOk, FS!Words, FS!AddStarted
    <3>. QED
      BY ONLY FsInv, <3>1, <3>2, <3>3, <3>4 DEF FsInv, FS!TypeOk
  <2>2. FsLabels'
    BY ONLY FsInv, FsThreads, <2>a, <2>b, <2>c DEF FsInv, FsLabels, FS!Labels
  <2>3. FsCounts'
    <3>1. FsPending' = FsPending
      BY <1>2 DEF FsInv, FS!TypeOk, FS!Words, FsPending, FsArrived, FS!AddStarted
    <3>2. fs_word'.count = fs_word.count
      BY <1>2 DEF FsInv, FS!TypeOk, FS!Words, FS!AddStarted
    <3>3. /\ fs_word.started => fs_word'.started
          /\ fs_word.has_value => fs_word'.has_value
          /\ FsAllArrived <=> FsAllArrived'
      BY <1>2, <3>1 DEF FsInv, FS!TypeOk, FS!Words, FsPending, FsAllArrived,
         FsArrived, FS!AddStarted
    <3>. QED
      BY ONLY FsInv, <3>1, <3>2, <3>3 DEF FsInv, FsCounts
  <2>4. FsStarts'
    BY ONLY FsInv, FsThreads, <2>a, <2>b, <2>c DEF FsInv, FsStarts
  <2>5. FsLast'
    BY ONLY FsInv, FsThreads, <2>a, <2>b, <2>c DEF FsInv, FsLast, FsArrived
  <2>6. FsDelivers'
    BY ONLY FsInv, FsThreads, <2>a, <2>b, <2>c DEF FsInv, FsDelivers, FsAllArrived,
       FsArrived, FS!Delivering
  <2>7. FsValues'
    BY ONLY FsInv, FsThreads, <2>a, <2>b, <2>c DEF FsInv, FsValues, FsAllArrived,
       FsArrived, FS!DeliversASuccess
  <2>8. FsStops'
    BY ONLY FsInv, FsThreads, <2>a, <2>b, <2>c, FsNumbers, NAssumption DEF FsInv,
       FsStops, FsQuiet, FsAllArrived, FsArrived
  <2>. QED
    BY ONLY <2>1, <2>2, <2>3, <2>4, <2>5, <2>6, <2>7, <2>8 DEF FsInv
<1>3. CASE FS!AddStartedAfterStopping
  <2>1. FS!TypeOk'
    <3>1. UNCHANGED <<fs_seen, fs_outcome, fs_result, fs_sent, fs_stops, fs_next>>
      BY <1>3 DEF FS!AddStartedAfterStopping
    <3>2. fs_word' \in FS!Words
      BY <1>3, FsNumbers DEF FsInv, FS!TypeOk, FS!Words, FS!AddStartedAfterStopping
    <3>3. fs_pc' \in [FS!Threads -> FS!Labels]
      BY <1>3, FsNumbers DEF FsInv, FS!TypeOk, FS!Words, FS!Labels,
         FS!AddStartedAfterStopping
    <3>. QED
      BY ONLY FsInv, <3>1, <3>2, <3>3 DEF FsInv, FS!TypeOk
  <2>2. FsLabels'
    BY <1>3 DEF FsInv, FS!TypeOk, FS!Words, FS!Labels, FsLabels,
       FS!AddStartedAfterStopping
  <2>3. FsCounts'
    <3>1. FsPending' = FsPending
      BY <1>3 DEF FsInv, FS!TypeOk, FS!Words, FsPending, FsArrived,
         FS!AddStartedAfterStopping
    <3>2. fs_word'.count = fs_word.count
      BY <1>3 DEF FsInv, FS!TypeOk, FS!Words, FS!AddStartedAfterStopping
    <3>3. /\ fs_word.started => fs_word'.started
          /\ fs_word.has_value => fs_word'.has_value
          /\ FsAllArrived <=> FsAllArrived'
      BY <1>3, <3>1 DEF FsInv, FS!TypeOk, FS!Words, FsPending, FsAllArrived,
         FsArrived, FS!AddStartedAfterStopping
    <3>. QED
      BY ONLY FsInv, <3>1, <3>2, <3>3 DEF FsInv, FsCounts
  <2>4. FsStarts'
    BY <1>3 DEF FsInv, FS!TypeOk, FS!Words, FsStarts, FsLast,
       FS!AddStartedAfterStopping
  <2>5. FsLast'
    BY <1>3, FsCounting DEF FsInv, FS!TypeOk, FS!Words, FsArrived, FsLast, FsDelivers,
       FsStarts, FS!AddStartedAfterStopping
  <2>6. FsDelivers'
    BY <1>3, FsCounting DEF FsInv, FS!TypeOk, FS!Words, FsLabels, FsArrived,
       FsAllArrived, FsDelivers, FsLast, FsStarts, FS!Delivering,
       FS!AddStartedAfterStopping
  <2>7. FsValues'
    BY <1>3 DEF FsInv, FS!TypeOk, FS!Words, FsArrived, FsAllArrived, FsValues,
       FsDelivers, FsLast, FS!Delivering, FS!DeliversASuccess,
       FS!AddStartedAfterStopping
  <2>8. FsStops'
    BY <1>3 DEF FsInv, FS!TypeOk, FS!Words, FsArrived, FsAllArrived, FsQuiet,
       FsLabels, FsStarts, FsStops, FsLast, FS!AddStartedAfterStopping
  <2>. QED
    BY ONLY <2>1, <2>2, <2>3, <2>4, <2>5, <2>6, <2>7, <2>8 DEF FsInv
<1>4. ASSUME NEW i \in FS!Children, FS!ChildSucceeds(i) PROVE FsInv'
  <2>1. FS!TypeOk'
    <3>1. UNCHANGED <<fs_word, fs_seen, fs_result, fs_sent, fs_stops, fs_next>>
      BY <1>4 DEF FS!ChildSucceeds
    <3>2. fs_outcome' \in [FS!Children -> {"none", "value", "failure"}]
      BY <1>4, FsNumbers DEF FsInv, FS!TypeOk, FS!Words, FS!ChildSucceeds
    <3>3. fs_pc' \in [FS!Threads -> FS!Labels]
      BY <1>4, FsNumbers DEF FsInv, FS!TypeOk, FS!Words, FS!Labels, FS!ChildSucceeds
    <3>. QED
      BY ONLY FsInv, <3>1, <3>2, <3>3 DEF FsInv, FS!TypeOk
  <2>2. FsLabels'
    BY <1>4 DEF FsInv, FS!TypeOk, FS!Words, FS!Labels, FsLabels, FS!ChildSucceeds
  <2>3. FsCounts'
    <3>1. FsPending' = FsPending
      BY <1>4 DEF FsInv, FS!TypeOk, FS!Words, FsPending, FsArrived, FS!ChildSucceeds
    <3>2. fs_word'.count = fs_word.count
      BY <1>4 DEF FsInv, FS!TypeOk, FS!Words, FS!ChildSucceeds
    <3>3. /\ fs_word.started => fs_word'.started
          /\ fs_word.has_value => fs_word'.has_value
          /\ FsAllArrived <=> FsAllArrived'
      BY <1>4, <3>1 DEF FsInv, FS!TypeOk, FS!Words, FsPending, FsAllArrived,
         FsArrived, FS!ChildSucceeds
    <3>. QED
      BY ONLY FsInv, <3>1, <3>2, <3>3 DEF FsInv, FsCounts
  <2>4. FsStarts'
    BY <1>4 DEF FsInv, FS!TypeOk, FS!Words, FsStarts, FsLast, FS!ChildSucceeds
  <2>5. FsLast'
    <3>1. /\ fs_pc[i] = "running"
          /\ \A u \in FS!Threads : u # i => fs_pc'[u] = fs_pc[u] /\ fs_next'[u] = fs_next[u]
          /\ fs_pc'[i] \in {"arrive", "complete_inline", "set_value"}
          /\ fs_pc'[i] = "complete_inline" =>
                /\ ~fs_word.has_value /\ fs_word.count < 2 /\ fs_word.started
          /\ UNCHANGED <<fs_word, fs_seen, fs_sent>>
      BY <1>4 DEF FsInv, FS!TypeOk, FS!Words, FS!ChildSucceeds
    <3>2. ~FsArrived(i)
      BY <3>1 DEF FsArrived
    <3>3. fs_pc'[i] = "complete_inline" => \A j \in FS!Children : j # i => FsArrived(j)
      BY <3>1, <3>2, FsCounting DEF FsInv
    <3>. QED
      BY ONLY <3>1, <3>2, <3>3, FsInv, FsThreads DEF FsInv, FsLast, FsArrived
  <2>6. FsDelivers'
    BY <1>4, FsCounting DEF FsInv, FS!TypeOk, FS!Words, FsLabels, FsArrived,
       FsAllArrived, FsDelivers, FsLast, FsStarts, FS!Delivering, FS!ChildSucceeds
  <2>7. FsValues'
    BY <1>4 DEF FsInv, FS!TypeOk, FS!Words, FsArrived, FsAllArrived, FsValues,
       FsDelivers, FsLast, FS!Delivering, FS!DeliversASuccess, FS!ChildSucceeds
  <2>8. FsStops'
    BY <1>4 DEF FsInv, FS!TypeOk, FS!Words, FsArrived, FsAllArrived, FsQuiet,
       FsLabels, FsStarts, FsStops, FsLast, FS!ChildSucceeds
  <2>. QED
    BY ONLY <2>1, <2>2, <2>3, <2>4, <2>5, <2>6, <2>7, <2>8 DEF FsInv
<1>5. ASSUME NEW i \in FS!Children, FS!ChildFails(i) PROVE FsInv'
  <2>1. FS!TypeOk'
    <3>1. UNCHANGED <<fs_word, fs_seen, fs_result, fs_sent, fs_stops, fs_next>>
      BY <1>5 DEF FS!ChildFails
    <3>2. fs_outcome' \in [FS!Children -> {"none", "value", "failure"}]
      BY <1>5, FsNumbers DEF FsInv, FS!TypeOk, FS!Words, FS!ChildFails
    <3>3. fs_pc' \in [FS!Threads -> FS!Labels]
      BY <1>5, FsNumbers DEF FsInv, FS!TypeOk, FS!Words, FS!Labels, FS!ChildFails
    <3>. QED
      BY ONLY FsInv, <3>1, <3>2, <3>3 DEF FsInv, FS!TypeOk
  <2>2. FsLabels'
    BY <1>5 DEF FsInv, FS!TypeOk, FS!Words, FS!Labels, FsLabels, FS!ChildFails
  <2>3. FsCounts'
    <3>1. FsPending' = FsPending
      BY <1>5 DEF FsInv, FS!TypeOk, FS!Words, FsPending, FsArrived, FS!ChildFails
    <3>2. fs_word'.count = fs_word.count
      BY <1>5 DEF FsInv, FS!TypeOk, FS!Words, FS!ChildFails
    <3>3. /\ fs_word.started => fs_word'.started
          /\ fs_word.has_value => fs_word'.has_value
          /\ FsAllArrived <=> FsAllArrived'
      BY <1>5, <3>1 DEF FsInv, FS!TypeOk, FS!Words, FsPending, FsAllArrived,
         FsArrived, FS!ChildFails
    <3>. QED
      BY ONLY FsInv, <3>1, <3>2, <3>3 DEF FsInv, FsCounts
  <2>4. FsStarts'
    BY <1>5 DEF FsInv, FS!TypeOk, FS!Words, FsStarts, FsLast, FS!ChildFails
  <2>5. FsLast'
    BY <1>5, FsCounting DEF FsInv, FS!TypeOk, FS!Words, FsArrived, FsLast, FsDelivers,
       FsStarts, FS!ChildFails
  <2>6. FsDelivers'
    BY <1>5, FsCounting DEF FsInv, FS!TypeOk, FS!Words, FsLabels, FsArrived,
       FsAllArrived, FsDelivers, FsLast, FsStarts, FS!Delivering, FS!ChildFails
  <2>7. FsValues'
    BY <1>5 DEF FsInv, FS!TypeOk, FS!Words, FsArrived, FsAllArrived, FsValues,
       FsDelivers, FsLast, FS!Delivering, FS!DeliversASuccess, FS!ChildFails
  <2>8. FsStops'
    BY <1>5 DEF FsInv, FS!TypeOk, FS!Words, FsArrived, FsAllArrived, FsQuiet,
       FsLabels, FsStarts, FsStops, FsLast, FS!ChildFails
  <2>. QED
    BY ONLY <2>1, <2>2, <2>3, <2>4, <2>5, <2>6, <2>7, <2>8 DEF FsInv
<1>6. ASSUME NEW i \in FS!Children, FS!CompleteInline(i) PROVE FsInv'
  <2>1. FS!TypeOk'
    <3>1. UNCHANGED <<fs_seen, fs_outcome, fs_result, fs_sent, fs_stops, fs_next>>
      BY <1>6 DEF FS!CompleteInline
    <3>2. fs_word' \in FS!Words
      <4>1. ~FsArrived(i) /\ fs_word \in FS!Words
        BY <1>6 DEF FsInv, FS!TypeOk, FsArrived, FS!CompleteInline
      <4>2. fs_word.count >= 1
        BY <4>1, FsCounting DEF FsInv
      <4>3. fs_word.count - 1 \in 0..N
        BY <4>1, <4>2, NAssumption DEF FS!Words
      <4>4. fs_word' = [fs_word EXCEPT !.has_value = TRUE, !.count = fs_word.count - 1]
        BY <1>6 DEF FS!CompleteInline
      <4>. QED
        BY ONLY <4>1, <4>3, <4>4 DEF FS!Words
    <3>3. fs_pc' \in [FS!Threads -> FS!Labels]
      BY <1>6, FsNumbers DEF FsInv, FS!TypeOk, FS!Words, FS!Labels, FS!CompleteInline
    <3>. QED
      BY ONLY FsInv, <3>1, <3>2, <3>3 DEF FsInv, FS!TypeOk
  <2>2. FsLabels'
    BY <1>6 DEF FsInv, FS!TypeOk, FS!Words, FS!Labels, FsLabels, FS!CompleteInline
  <2>3. FsCounts'
    <3>1. FsPending' = FsPending \ {i} /\ ~FsArrived(i) /\ fs_word'.count = fs_word.count - 1
      BY <1>6 DEF FsInv, FS!TypeOk, FS!Words, FsPending, FsArrived, FS!CompleteInline
    <3>. QED
      BY <3>1, FsCounting DEF FsInv, FsCounts
  <2>4. FsStarts'
    BY <1>6 DEF FsInv, FS!TypeOk, FS!Words, FsStarts, FsLast, FS!CompleteInline
  <2>5. FsLast'
    BY <1>6, FsCounting DEF FsInv, FS!TypeOk, FS!Words, FsArrived, FsLast, FsDelivers,
       FsStarts, FS!CompleteInline
  <2>6. FsDelivers'
    BY <1>6, FsCounting DEF FsInv, FS!TypeOk, FS!Words, FsLabels, FsArrived,
       FsAllArrived, FsDelivers, FsLast, FsStarts, FS!Delivering, FS!CompleteInline
  <2>7. FsValues'
    BY <1>6 DEF FsInv, FS!TypeOk, FS!Words, FsArrived, FsAllArrived, FsValues,
       FsDelivers, FsLast, FS!Delivering, FS!DeliversASuccess, FS!CompleteInline
  <2>8. FsStops'
    BY <1>6 DEF FsInv, FS!TypeOk, FS!Words, FsArrived, FsAllArrived, FsQuiet,
       FsLabels, FsStarts, FsStops, FsLast, FS!CompleteInline
  <2>. QED
    BY ONLY <2>1, <2>2, <2>3, <2>4, <2>5, <2>6, <2>7, <2>8 DEF FsInv
<1>7. ASSUME NEW i \in FS!Children, FS!EmplaceThrows(i) PROVE FsInv'
  <2>1. FS!TypeOk'
    <3>1. UNCHANGED <<fs_word, fs_seen, fs_result, fs_sent, fs_stops, fs_next>>
      BY <1>7 DEF FS!EmplaceThrows
    <3>2. fs_outcome' \in [FS!Children -> {"none", "value", "failure"}]
      BY <1>7, FsNumbers DEF FsInv, FS!TypeOk, FS!Words, FS!EmplaceThrows
    <3>3. fs_pc' \in [FS!Threads -> FS!Labels]
      BY <1>7, FsNumbers DEF FsInv, FS!TypeOk, FS!Words, FS!Labels, FS!EmplaceThrows
    <3>. QED
      BY ONLY FsInv, <3>1, <3>2, <3>3 DEF FsInv, FS!TypeOk
  <2>2. FsLabels'
    BY <1>7 DEF FsInv, FS!TypeOk, FS!Words, FS!Labels, FsLabels, FS!EmplaceThrows
  <2>3. FsCounts'
    <3>1. FsPending' = FsPending
      BY <1>7 DEF FsInv, FS!TypeOk, FS!Words, FsPending, FsArrived, FS!EmplaceThrows
    <3>2. fs_word'.count = fs_word.count
      BY <1>7 DEF FsInv, FS!TypeOk, FS!Words, FS!EmplaceThrows
    <3>3. /\ fs_word.started => fs_word'.started
          /\ fs_word.has_value => fs_word'.has_value
          /\ FsAllArrived <=> FsAllArrived'
      BY <1>7, <3>1 DEF FsInv, FS!TypeOk, FS!Words, FsPending, FsAllArrived,
         FsArrived, FS!EmplaceThrows
    <3>. QED
      BY ONLY FsInv, <3>1, <3>2, <3>3 DEF FsInv, FsCounts
  <2>4. FsStarts'
    BY <1>7 DEF FsInv, FS!TypeOk, FS!Words, FsStarts, FsLast, FS!EmplaceThrows
  <2>5. FsLast'
    BY <1>7, FsCounting DEF FsInv, FS!TypeOk, FS!Words, FsArrived, FsLast, FsDelivers,
       FsStarts, FS!EmplaceThrows
  <2>6. FsDelivers'
    BY <1>7, FsCounting DEF FsInv, FS!TypeOk, FS!Words, FsLabels, FsArrived,
       FsAllArrived, FsDelivers, FsLast, FsStarts, FS!Delivering, FS!EmplaceThrows
  <2>7. FsValues'
    BY <1>7 DEF FsInv, FS!TypeOk, FS!Words, FsArrived, FsAllArrived, FsValues,
       FsDelivers, FsLast, FS!Delivering, FS!DeliversASuccess, FS!EmplaceThrows
  <2>8. FsStops'
    BY <1>7 DEF FsInv, FS!TypeOk, FS!Words, FsArrived, FsAllArrived, FsQuiet,
       FsLabels, FsStarts, FsStops, FsLast, FS!EmplaceThrows
  <2>. QED
    BY ONLY <2>1, <2>2, <2>3, <2>4, <2>5, <2>6, <2>7, <2>8 DEF FsInv
<1>8. ASSUME NEW i \in FS!Children, FS!SetHasValue(i) PROVE FsInv'
  <2>a. /\ fs_pc[i] = "set_value" /\ ~FsArrived(i)
        /\ \A u \in FS!Threads : u # i => fs_pc'[u] = fs_pc[u] /\ fs_next'[u] = fs_next[u]
        /\ UNCHANGED <<fs_seen, fs_outcome, fs_result, fs_sent, fs_stops>>
        /\ fs_word'.has_value /\ fs_word'.started = fs_word.started
        /\ fs_word'.stop_requested = fs_word.stop_requested
    BY <1>8 DEF FsInv, FS!TypeOk, FS!Words, FsArrived, FS!SetHasValue
  <2>b. \/ fs_pc'[i] = "arrive" /\ fs_word.has_value
        \/ /\ fs_pc'[i] = "deliver_own" /\ ~fs_word.has_value
           /\ fs_word.count < 2 /\ fs_word.started
        \/ /\ fs_pc'[i] = "store_and_stop" /\ ~fs_word.has_value
           /\ fs_word.started /\ ~fs_word.stop_requested
        \/ fs_pc'[i] = "store" /\ ~fs_word.has_value
    BY <1>8 DEF FsInv, FS!TypeOk, FS!Words, FS!SetHasValue
  <2>c. fs_pc'[i] = "deliver_own" => \A j \in FS!Children : j # i => FsArrived(j)
    BY <2>a, <2>b, FsCounting DEF FsInv
  <2>d. fs_sent = <<>> /\ fs_outcome[i] = "value"
    BY <2>a DEF FsInv, FsDelivers, FsValues
  <2>e. /\ fs_pc'[i] = "store_and_stop" => FsQuiet /\ fs_pc[FS!Stopper] = "idle"
        /\ fs_pc'[i] = "store_and_stop" => fs_pc[FS!Starter] \notin {"idle", "add_started"}
    <3>1. ~FsAllArrived
      BY <2>a DEF FsAllArrived
    <3>. QED
      BY <2>b, <3>1 DEF FsInv, FsStarts, FsStops
  <2>f. \A j \in FS!Children : fs_pc[j] # "deliver_own"
    BY <2>a DEF FsInv, FsDelivers, FsAllArrived, FS!Delivering
  <2>1. FS!TypeOk'
    <3>1. UNCHANGED <<fs_seen, fs_outcome, fs_result, fs_sent, fs_stops, fs_next>>
      BY <1>8 DEF FS!SetHasValue
    <3>2. fs_word' \in FS!Words
      BY <1>8, FsNumbers DEF FsInv, FS!TypeOk, FS!Words, FS!SetHasValue
    <3>3. fs_pc' \in [FS!Threads -> FS!Labels]
      BY <1>8, FsNumbers DEF FsInv, FS!TypeOk, FS!Words, FS!Labels, FS!SetHasValue
    <3>. QED
      BY ONLY FsInv, <3>1, <3>2, <3>3 DEF FsInv, FS!TypeOk
  <2>2. FsLabels'
    BY ONLY FsInv, FsThreads, <2>a, <2>b, <2>c, <2>d DEF FsInv, FsLabels, FS!Labels
  <2>3. FsCounts'
    <3>1. CASE fs_pc'[i] = "deliver_own"
      <4>1. /\ fs_word.count < 2 /\ fs_word.count \in 0..N /\ fs_word'.count = fs_word.count
            /\ fs_word'.started /\ fs_word'.has_value /\ ~FsArrived(i)
        BY <1>8, <3>1 DEF FsInv, FS!TypeOk, FS!Words, FsArrived, FS!SetHasValue
      <4>2. fs_word.count = 1 /\ \A j \in FS!Children : j # i => FsArrived(j)
        <5>1. fs_word.count >= 1 /\ \A j \in FS!Children : j # i => FsArrived(j)
          BY <4>1, FsCounting DEF FsInv
        <5>. QED
          BY ONLY <4>1, <5>1, NAssumption
      <4>3. FsAllArrived'
        BY <1>8, <3>1, <4>2 DEF FsInv, FS!TypeOk, FS!Words, FsAllArrived, FsArrived,
           FS!SetHasValue
      <4>. QED
        BY ONLY <4>1, <4>2, <4>3 DEF FsCounts
    <3>2. CASE ~(fs_pc'[i] = "deliver_own")
      <4>1. FsPending' = FsPending
        BY <1>8, <3>2 DEF FsInv, FS!TypeOk, FS!Words, FsPending, FsArrived,
           FS!SetHasValue
      <4>2. ~FsArrived(i) /\ fs_word'.count = fs_word.count
        BY <1>8 DEF FsInv, FS!TypeOk, FS!Words, FsArrived, FS!SetHasValue
      <4>. QED
        BY ONLY FsInv, <4>1, <4>2, <1>8 DEF FsInv, FsCounts, FsAllArrived
    <3>. QED
      BY ONLY <3>1, <3>2
  <2>4. FsStarts'
    BY ONLY FsInv, FsThreads, <2>a, <2>b, <2>c, <2>d DEF FsInv, FsStarts
  <2>5. FsLast'
    BY ONLY FsInv, FsThreads, <2>a, <2>b, <2>c, <2>d DEF FsInv, FsLast, FsArrived
  <2>6. FsDelivers'
    BY ONLY FsInv, FsThreads, <2>a, <2>b, <2>c, <2>d DEF FsInv, FsDelivers,
       FsAllArrived, FsArrived, FS!Delivering
  <2>7. FsValues'
    <3>1. CASE fs_pc'[i] = "arrive"
      BY ONLY <3>1, FsInv, FsThreads, <2>a, <2>b, <2>c, <2>d DEF FsInv, FsValues,
         FsAllArrived, FsArrived, FS!DeliversASuccess
    <3>2. CASE fs_pc'[i] = "deliver_own"
      <4>1. \E w \in FS!Children :
               /\ fs_outcome'[w] = "value"
               /\ \/ fs_pc'[w] \in {"store", "store_and_stop", "deliver_own"}
                  \/ /\ fs_result' = w
                     /\ fs_pc'[w] \in {"stopping", "arrive", "deliver", "returned"}
        BY ONLY <2>a, <2>d, <3>2
      <4>2. \A j \in FS!Children : j # i => fs_pc'[j] = fs_pc[j]
        BY ONLY <2>a, FsThreads
      <4>. QED
        BY ONLY <3>2, <4>1, <4>2, FsInv, FsThreads, <2>a, <2>b, <2>d, <2>f DEF FsInv,
           FsValues, FS!DeliversASuccess, FsArrived
    <3>3. CASE fs_pc'[i] = "store_and_stop"
      <4>1. \E w \in FS!Children :
               /\ fs_outcome'[w] = "value"
               /\ \/ fs_pc'[w] \in {"store", "store_and_stop", "deliver_own"}
                  \/ /\ fs_result' = w
                     /\ fs_pc'[w] \in {"stopping", "arrive", "deliver", "returned"}
        BY ONLY <2>a, <2>d, <3>3
      <4>2. \A j \in FS!Children : j # i => fs_pc'[j] = fs_pc[j]
        BY ONLY <2>a, FsThreads
      <4>. QED
        BY ONLY <3>3, <4>1, <4>2, FsInv, FsThreads, <2>a, <2>b, <2>d, <2>f DEF FsInv,
           FsValues, FS!DeliversASuccess, FsArrived
    <3>4. CASE fs_pc'[i] = "store"
      <4>1. \E w \in FS!Children :
               /\ fs_outcome'[w] = "value"
               /\ \/ fs_pc'[w] \in {"store", "store_and_stop", "deliver_own"}
                  \/ /\ fs_result' = w
                     /\ fs_pc'[w] \in {"stopping", "arrive", "deliver", "returned"}
        BY ONLY <2>a, <2>d, <3>4
      <4>2. \A j \in FS!Children : j # i => fs_pc'[j] = fs_pc[j]
        BY ONLY <2>a, FsThreads
      <4>. QED
        BY ONLY <3>4, <4>1, <4>2, FsInv, FsThreads, <2>a, <2>b, <2>d, <2>f DEF FsInv,
           FsValues, FS!DeliversASuccess, FsArrived
    <3>. QED
      BY ONLY <3>1, <3>2, <3>3, <3>4, <2>a, <2>b
  <2>8. FsStops'
    BY ONLY FsInv, FsThreads, <2>a, <2>b, <2>c, <2>d, <2>e DEF FsInv, FsStops,
       FsQuiet, FsAllArrived, FsArrived
  <2>. QED
    BY ONLY <2>1, <2>2, <2>3, <2>4, <2>5, <2>6, <2>7, <2>8 DEF FsInv
<1>9. ASSUME NEW i \in FS!Children, FS!StoreValue(i) PROVE FsInv'
  <2>a. /\ fs_pc[i] \in {"store", "store_and_stop"} /\ fs_result' = i
        /\ \A u \in FS!Threads : u # i => fs_pc'[u] = fs_pc[u] /\ fs_next'[u] = fs_next[u]
        /\ UNCHANGED <<fs_word, fs_seen, fs_outcome, fs_sent, fs_stops>>
    BY <1>9 DEF FsInv, FS!TypeOk, FS!StoreValue
  <2>b. \/ fs_pc[i] = "store" /\ fs_pc'[i] = "arrive" /\ fs_next'[i] = fs_next[i]
        \/ fs_pc[i] = "store_and_stop" /\ fs_pc'[i] = "stopping" /\ fs_next'[i] = 1
    <3>1. CASE fs_pc[i] = "store"
      BY <1>9, <3>1 DEF FsInv, FS!TypeOk, FS!StoreValue
    <3>2. CASE fs_pc[i] = "store_and_stop"
      BY <1>9, <3>2 DEF FsInv, FS!TypeOk, FS!StoreValue
    <3>. QED
      BY ONLY <2>a, <3>1, <3>2
  <2>1. FS!TypeOk'
    <3>1. UNCHANGED <<fs_word, fs_seen, fs_outcome, fs_sent, fs_stops>>
      BY <1>9 DEF FS!StoreValue
    <3>2. fs_result' \in 0..N
      BY <1>9, FsNumbers DEF FsInv, FS!TypeOk, FS!Words, FsValues, FS!StoreValue
    <3>3. fs_pc' \in [FS!Threads -> FS!Labels]
      <4>1. \A u \in FS!Threads : fs_pc'[u] \in FS!Labels
        BY ONLY FsInv, FsThreads, <2>a, <2>b DEF FsInv, FS!TypeOk, FS!Labels
      <4>2. DOMAIN fs_pc' = FS!Threads /\ fs_pc' = [u \in FS!Threads |-> fs_pc'[u]]
        BY <1>9 DEF FsInv, FS!TypeOk, FS!StoreValue
      <4>. QED
        BY ONLY <4>1, <4>2
    <3>4. fs_next' \in [FS!Threads -> 1..N + 1]
      BY <1>9, FsNumbers DEF FsInv, FS!TypeOk, FS!StoreValue
    <3>. QED
      BY ONLY FsInv, <3>1, <3>2, <3>3, <3>4 DEF FsInv, FS!TypeOk
  <2>2. FsLabels'
    BY ONLY FsInv, FsThreads, <2>a, <2>b DEF FsInv, FsLabels, FS!Labels
  <2>3. FsCounts'
    <3>1. FsPending' = FsPending
      BY <1>9 DEF FsInv, FS!TypeOk, FS!Words, FsPending, FsArrived, FS!StoreValue
    <3>2. fs_word'.count = fs_word.count
      BY <1>9 DEF FsInv, FS!TypeOk, FS!Words, FS!StoreValue
    <3>3. /\ fs_word.started => fs_word'.started
          /\ fs_word.has_value => fs_word'.has_value
          /\ FsAllArrived <=> FsAllArrived'
      BY <1>9, <3>1 DEF FsInv, FS!TypeOk, FS!Words, FsPending, FsAllArrived,
         FsArrived, FS!StoreValue
    <3>. QED
      BY ONLY FsInv, <3>1, <3>2, <3>3 DEF FsInv, FsCounts
  <2>4. FsStarts'
    BY ONLY FsInv, FsThreads, <2>a, <2>b DEF FsInv, FsStarts
  <2>5. FsLast'
    BY ONLY FsInv, FsThreads, <2>a, <2>b DEF FsInv, FsLast, FsArrived
  <2>6. FsDelivers'
    BY ONLY FsInv, FsThreads, <2>a, <2>b DEF FsInv, FsDelivers, FsAllArrived,
       FsArrived, FS!Delivering
  <2>7. FsValues'
    BY ONLY FsInv, FsThreads, <2>a, <2>b DEF FsInv, FsValues, FsAllArrived, FsArrived,
       FS!DeliversASuccess
  <2>8. FsStops'
    BY ONLY FsInv, FsThreads, <2>a, <2>b, FsNumbers, NAssumption DEF FsInv, FsStops,
       FsQuiet, FsAllArrived, FsArrived
  <2>. QED
    BY ONLY <2>1, <2>2, <2>3, <2>4, <2>5, <2>6, <2>7, <2>8 DEF FsInv
<1>10. ASSUME NEW i \in FS!Children, FS!Arrive(i) PROVE FsInv'
  <2>1. FS!TypeOk'
    <3>1. UNCHANGED <<fs_seen, fs_outcome, fs_result, fs_sent, fs_stops, fs_next>>
      BY <1>10 DEF FS!Arrive
    <3>2. fs_word' \in FS!Words
      <4>1. ~FsArrived(i) /\ fs_word \in FS!Words
        BY <1>10 DEF FsInv, FS!TypeOk, FsArrived, FS!Arrive
      <4>2. fs_word.count >= 1
        BY <4>1, FsCounting DEF FsInv
      <4>3. fs_word.count - 1 \in 0..N
        BY <4>1, <4>2, NAssumption DEF FS!Words
      <4>4. fs_word' = [fs_word EXCEPT !.count = fs_word.count - 1]
        BY <1>10 DEF FS!Arrive
      <4>. QED
        BY ONLY <4>1, <4>3, <4>4 DEF FS!Words
    <3>3. fs_pc' \in [FS!Threads -> FS!Labels]
      BY <1>10, FsNumbers DEF FsInv, FS!TypeOk, FS!Words, FS!Labels, FS!Arrive
    <3>. QED
      BY ONLY FsInv, <3>1, <3>2, <3>3 DEF FsInv, FS!TypeOk
  <2>2. FsLabels'
    BY <1>10 DEF FsInv, FS!TypeOk, FS!Words, FS!Labels, FsLabels, FS!Arrive
  <2>3. FsCounts'
    <3>1. FsPending' = FsPending \ {i} /\ ~FsArrived(i) /\ fs_word'.count = fs_word.count - 1
      BY <1>10 DEF FsInv, FS!TypeOk, FS!Words, FsPending, FsArrived, FS!Arrive
    <3>. QED
      BY <3>1, FsCounting DEF FsInv, FsCounts
  <2>4. FsStarts'
    BY <1>10 DEF FsInv, FS!TypeOk, FS!Words, FsStarts, FsLast, FS!Arrive
  <2>5. FsLast'
    BY <1>10, FsCounting DEF FsInv, FS!TypeOk, FS!Words, FsArrived, FsLast,
       FsDelivers, FsStarts, FS!Arrive
  <2>6. FsDelivers'
    <3>1. /\ fs_pc[i] = "arrive" /\ fs_pc'[i] \in {"deliver", "returned"}
          /\ \A u \in FS!Threads : u # i => fs_pc'[u] = fs_pc[u]
          /\ fs_pc'[i] = "deliver" => fs_word.count < 2 /\ fs_word.started
          /\ fs_word'.started = fs_word.started /\ UNCHANGED fs_sent
      BY <1>10 DEF FsInv, FS!TypeOk, FS!Words, FS!Arrive
    <3>2. ~FsArrived(i)
      BY ONLY <3>1 DEF FsArrived
    <3>3. fs_pc'[i] = "deliver" => \A j \in FS!Children : j # i => FsArrived(j)
      BY ONLY <3>1, <3>2, FsInv, FsCounting DEF FsInv
    <3>4. /\ fs_sent = <<>>
          /\ \A u \in FS!Threads : ~FS!Delivering(u)
      BY ONLY <3>1, <3>2, FsInv, FsThreads DEF FsInv, FsDelivers, FsAllArrived
    <3>5. FS!Delivering(i)' => FsAllArrived'
      BY ONLY <3>1, <3>3, FsThreads DEF FsAllArrived, FsArrived, FS!Delivering
    <3>6. \A u \in FS!Threads : FS!Delivering(u)' => u = i
      BY ONLY <3>1, <3>4 DEF FS!Delivering
    <3>7. FS!Delivering(i)' => fs_word'.started
      BY ONLY <3>1 DEF FS!Delivering
    <3>. QED
      BY ONLY <3>1, <3>4, <3>5, <3>6, <3>7 DEF FsDelivers, FS!Delivering
  <2>7. FsValues'
    BY <1>10, SMTT(30) DEF FsInv, FS!TypeOk, FS!Words, FsArrived, FsAllArrived, FsValues,
       FsDelivers, FsLast, FS!Delivering, FS!DeliversASuccess, FS!Arrive
  <2>8. FsStops'
    BY <1>10 DEF FsInv, FS!TypeOk, FS!Words, FsArrived, FsAllArrived, FsQuiet,
       FsLabels, FsStarts, FsStops, FsLast, FS!Arrive
  <2>. QED
    BY ONLY <2>1, <2>2, <2>3, <2>4, <2>5, <2>6, <2>7, <2>8 DEF FsInv
<1>11. ASSUME NEW i \in FS!Children, FS!NotTheLast(i) PROVE FsInv'
  <2>a. /\ fs_pc[i] = "failed" /\ ~FsArrived(i) /\ fs_pc'[i] = "returned"
        /\ \A u \in FS!Threads : u # i => fs_pc'[u] = fs_pc[u] /\ fs_next'[u] = fs_next[u]
        /\ UNCHANGED <<fs_seen, fs_outcome, fs_result, fs_sent, fs_stops>>
        /\ fs_word'.started = fs_word.started
        /\ fs_word'.has_value = fs_word.has_value /\ fs_word'.stop_requested = fs_word.stop_requested
    BY <1>11 DEF FsInv, FS!TypeOk, FS!Words, FsArrived, FS!NotTheLast
  <2>b. ~\A j \in FS!Children : j # i => FsArrived(j)
    BY <1>11, <2>a, FsCounting DEF FsInv, FS!NotTheLast
  <2>c. ~FsAllArrived'
    BY ONLY <2>a, <2>b, FsThreads DEF FsAllArrived, FsArrived
  <2>1. FS!TypeOk'
    <3>1. UNCHANGED <<fs_seen, fs_outcome, fs_result, fs_sent, fs_stops, fs_next>>
      BY <1>11 DEF FS!NotTheLast
    <3>2. fs_word' \in FS!Words
      <4>1. ~FsArrived(i) /\ fs_word \in FS!Words
        BY <1>11 DEF FsInv, FS!TypeOk, FsArrived, FS!NotTheLast
      <4>2. fs_word.count >= 1
        BY <4>1, FsCounting DEF FsInv
      <4>3. fs_word.count - 1 \in 0..N
        BY <4>1, <4>2, NAssumption DEF FS!Words
      <4>4. fs_word' = [fs_word EXCEPT !.count = fs_word.count - 1]
        BY <1>11 DEF FS!NotTheLast
      <4>. QED
        BY ONLY <4>1, <4>3, <4>4 DEF FS!Words
    <3>3. fs_pc' \in [FS!Threads -> FS!Labels]
      BY <1>11, FsNumbers DEF FsInv, FS!TypeOk, FS!Words, FS!Labels, FS!NotTheLast
    <3>. QED
      BY ONLY FsInv, <3>1, <3>2, <3>3 DEF FsInv, FS!TypeOk
  <2>2. FsLabels'
    BY ONLY FsInv, FsThreads, <2>a, <2>b, <2>c DEF FsInv, FsLabels, FS!Labels
  <2>3. FsCounts'
    <3>1. FsPending' = FsPending \ {i} /\ ~FsArrived(i) /\ fs_word'.count = fs_word.count - 1
      BY <1>11 DEF FsInv, FS!TypeOk, FS!Words, FsPending, FsArrived, FS!NotTheLast
    <3>. QED
      BY <3>1, FsCounting DEF FsInv, FsCounts
  <2>4. FsStarts'
    BY ONLY FsInv, FsThreads, <2>a, <2>b, <2>c DEF FsInv, FsStarts
  <2>5. FsLast'
    BY ONLY FsInv, FsThreads, <2>a, <2>b, <2>c DEF FsInv, FsLast, FsArrived
  <2>6. FsDelivers'
    BY ONLY FsInv, FsThreads, <2>a, <2>b, <2>c DEF FsInv, FsDelivers, FsAllArrived,
       FsArrived, FS!Delivering
  <2>7. FsValues'
    BY ONLY FsInv, FsThreads, <2>a, <2>b, <2>c DEF FsInv, FsValues, FsAllArrived,
       FsArrived, FS!DeliversASuccess
  <2>8. FsStops'
    BY ONLY FsInv, FsThreads, <2>a, <2>b, <2>c DEF FsInv, FsStops, FsQuiet,
       FsAllArrived, FsArrived
  <2>. QED
    BY ONLY <2>1, <2>2, <2>3, <2>4, <2>5, <2>6, <2>7, <2>8 DEF FsInv
<1>12. ASSUME NEW i \in FS!Children, FS!TheLast(i) PROVE FsInv'
  <2>a. /\ fs_pc[i] = "failed" /\ fs_seen' = fs_word
        /\ \A u \in FS!Threads : u # i => fs_pc'[u] = fs_pc[u] /\ fs_next'[u] = fs_next[u]
        /\ UNCHANGED <<fs_word, fs_outcome, fs_result, fs_sent, fs_stops>>
        /\ fs_next' = fs_next
    BY <1>12 DEF FsInv, FS!TypeOk, FS!TheLast
  <2>b. \/ fs_pc'[i] = "deliver" /\ fs_word.has_value /\ fs_word.started
        \/ fs_pc'[i] = "arrive" /\ fs_word.has_value
        \/ fs_pc'[i] = "store_count" /\ ~fs_word.has_value /\ fs_word.started
        \/ fs_pc'[i] = "store_failure" /\ ~fs_word.has_value
    BY <1>12 DEF FsInv, FS!TypeOk, FS!Words, FS!TheLast
  <2>c. /\ ~FsArrived(i) /\ fs_word.count = 1
        /\ \A j \in FS!Children : j # i => FsArrived(j)
    <3>1. ~FsArrived(i) /\ fs_word.count < 2 /\ fs_word.count \in Nat
      BY <1>12, NAssumption DEF FsInv, FS!TypeOk, FS!Words, FsArrived, FS!TheLast
    <3>2. fs_word.count >= 1 /\ \A j \in FS!Children : j # i => FsArrived(j)
      BY <3>1, FsCounting DEF FsInv
    <3>. QED
      BY ONLY <3>1, <3>2
  <2>1. FS!TypeOk'
    <3>1. UNCHANGED <<fs_word, fs_outcome, fs_result, fs_sent, fs_stops, fs_next>>
      BY <1>12 DEF FS!TheLast
    <3>2. fs_seen' \in FS!Words
      BY <1>12, FsNumbers DEF FsInv, FS!TypeOk, FS!Words, FS!TheLast
    <3>3. fs_pc' \in [FS!Threads -> FS!Labels]
      BY <1>12, FsNumbers DEF FsInv, FS!TypeOk, FS!Words, FS!Labels, FS!TheLast
    <3>. QED
      BY ONLY FsInv, <3>1, <3>2, <3>3 DEF FsInv, FS!TypeOk
  <2>2. FsLabels'
    BY ONLY FsInv, FsThreads, <2>a, <2>b, <2>c DEF FsInv, FsLabels, FS!Labels
  <2>3. FsCounts'
    <3>1. CASE fs_pc'[i] = "deliver"
      <4>1. /\ fs_word.count < 2 /\ fs_word.count \in 0..N /\ fs_word'.count = fs_word.count
            /\ fs_word'.started /\ fs_word'.has_value /\ ~FsArrived(i)
        BY <1>12, <3>1 DEF FsInv, FS!TypeOk, FS!Words, FsArrived, FS!TheLast
      <4>2. fs_word.count = 1 /\ \A j \in FS!Children : j # i => FsArrived(j)
        <5>1. fs_word.count >= 1 /\ \A j \in FS!Children : j # i => FsArrived(j)
          BY <4>1, FsCounting DEF FsInv
        <5>. QED
          BY ONLY <4>1, <5>1, NAssumption
      <4>3. FsAllArrived'
        BY <1>12, <3>1, <4>2 DEF FsInv, FS!TypeOk, FS!Words, FsAllArrived, FsArrived,
           FS!TheLast
      <4>. QED
        BY ONLY <4>1, <4>2, <4>3 DEF FsCounts
    <3>2. CASE ~(fs_pc'[i] = "deliver")
      <4>1. FsPending' = FsPending
        BY <1>12, <3>2 DEF FsInv, FS!TypeOk, FS!Words, FsPending, FsArrived,
           FS!TheLast
      <4>2. ~FsArrived(i) /\ fs_word'.count = fs_word.count
        BY <1>12 DEF FsInv, FS!TypeOk, FS!Words, FsArrived, FS!TheLast
      <4>. QED
        BY ONLY FsInv, <4>1, <4>2, <1>12 DEF FsInv, FsCounts, FsAllArrived
    <3>. QED
      BY ONLY <3>1, <3>2
  <2>4. FsStarts'
    BY ONLY FsInv, FsThreads, <2>a, <2>b, <2>c DEF FsInv, FsStarts
  <2>5. FsLast'
    BY ONLY FsInv, FsThreads, <2>a, <2>b, <2>c DEF FsInv, FsLast, FsArrived
  <2>6. FsDelivers'
    BY ONLY FsInv, FsThreads, <2>a, <2>b, <2>c DEF FsInv, FsDelivers, FsAllArrived,
       FsArrived, FS!Delivering
  <2>7. FsValues'
    BY ONLY FsInv, FsThreads, <2>a, <2>b, <2>c DEF FsInv, FsValues, FsAllArrived,
       FsArrived, FS!DeliversASuccess
  <2>8. FsStops'
    BY ONLY FsInv, FsThreads, <2>a, <2>b, <2>c DEF FsInv, FsStops, FsQuiet,
       FsAllArrived, FsArrived
  <2>. QED
    BY ONLY <2>1, <2>2, <2>3, <2>4, <2>5, <2>6, <2>7, <2>8 DEF FsInv
<1>13. ASSUME NEW i \in FS!Children, FS!StoreFailure(i) PROVE FsInv'
  <2>1. FS!TypeOk'
    <3>1. UNCHANGED <<fs_word, fs_seen, fs_outcome, fs_sent, fs_stops, fs_next>>
      BY <1>13 DEF FS!StoreFailure
    <3>2. fs_result' \in 0..N
      BY <1>13, FsNumbers DEF FsInv, FS!TypeOk, FS!Words, FsValues, FS!StoreFailure
    <3>3. fs_pc' \in [FS!Threads -> FS!Labels]
      BY <1>13, FsNumbers DEF FsInv, FS!TypeOk, FS!Words, FS!Labels, FS!StoreFailure
    <3>. QED
      BY ONLY FsInv, <3>1, <3>2, <3>3 DEF FsInv, FS!TypeOk
  <2>2. FsLabels'
    BY <1>13 DEF FsInv, FS!TypeOk, FS!Words, FS!Labels, FsLabels, FS!StoreFailure
  <2>3. FsCounts'
    <3>1. FsPending' = FsPending
      BY <1>13 DEF FsInv, FS!TypeOk, FS!Words, FsPending, FsArrived, FS!StoreFailure
    <3>2. fs_word'.count = fs_word.count
      BY <1>13 DEF FsInv, FS!TypeOk, FS!Words, FS!StoreFailure
    <3>3. /\ fs_word.started => fs_word'.started
          /\ fs_word.has_value => fs_word'.has_value
          /\ FsAllArrived <=> FsAllArrived'
      BY <1>13, <3>1 DEF FsInv, FS!TypeOk, FS!Words, FsPending, FsAllArrived,
         FsArrived, FS!StoreFailure
    <3>. QED
      BY ONLY FsInv, <3>1, <3>2, <3>3 DEF FsInv, FsCounts
  <2>4. FsStarts'
    BY <1>13 DEF FsInv, FS!TypeOk, FS!Words, FsStarts, FsLast, FS!StoreFailure
  <2>5. FsLast'
    BY <1>13, FsCounting DEF FsInv, FS!TypeOk, FS!Words, FsArrived, FsLast,
       FsDelivers, FsStarts, FS!StoreFailure
  <2>6. FsDelivers'
    BY <1>13, FsCounting DEF FsInv, FS!TypeOk, FS!Words, FsLabels, FsArrived,
       FsAllArrived, FsDelivers, FsLast, FsStarts, FS!Delivering, FS!StoreFailure
  <2>7. FsValues'
    BY <1>13 DEF FsInv, FS!TypeOk, FS!Words, FsArrived, FsAllArrived, FsValues,
       FsDelivers, FsLast, FS!Delivering, FS!DeliversASuccess, FS!StoreFailure
  <2>8. FsStops'
    BY <1>13 DEF FsInv, FS!TypeOk, FS!Words, FsArrived, FsAllArrived, FsQuiet,
       FsLabels, FsStarts, FsStops, FsLast, FS!StoreFailure
  <2>. QED
    BY ONLY <2>1, <2>2, <2>3, <2>4, <2>5, <2>6, <2>7, <2>8 DEF FsInv
<1>14. ASSUME NEW i \in FS!Children, FS!StoreCount(i) PROVE FsInv'
  <2>a. /\ fs_pc[i] = "store_count" /\ fs_pc'[i] = "deliver_own"
        /\ \A u \in FS!Threads : u # i => fs_pc'[u] = fs_pc[u] /\ fs_next'[u] = fs_next[u]
        /\ UNCHANGED <<fs_seen, fs_outcome, fs_result, fs_sent, fs_stops>>
        /\ fs_word'.started /\ fs_word.started /\ ~fs_word'.has_value /\ ~fs_word.has_value
    BY <1>14 DEF FsInv, FS!TypeOk, FS!Words, FsLast, FS!StoreCount
  <2>b. FsAllArrived' /\ (fs_word'.stop_requested => fs_word.stop_requested)
    BY <1>14 DEF FsInv, FS!TypeOk, FS!Words, FsLast, FsArrived, FsAllArrived,
       FS!StoreCount
  <2>1. FS!TypeOk'
    <3>1. UNCHANGED <<fs_seen, fs_outcome, fs_result, fs_sent, fs_stops, fs_next>>
      BY <1>14 DEF FS!StoreCount
    <3>2. fs_word' \in FS!Words
      <4>1. fs_seen \in FS!Words /\ fs_seen.count = 1
        BY <1>14 DEF FsInv, FS!TypeOk, FsLast, FS!StoreCount
      <4>2. fs_seen.count - 1 \in 0..N
        BY <4>1, NAssumption DEF FS!Words
      <4>3. fs_word' = [fs_seen EXCEPT !.count = fs_seen.count - 1]
        BY <1>14 DEF FS!StoreCount
      <4>. QED
        BY ONLY <4>1, <4>2, <4>3 DEF FS!Words
    <3>3. fs_pc' \in [FS!Threads -> FS!Labels]
      BY <1>14, FsNumbers DEF FsInv, FS!TypeOk, FS!Words, FS!Labels, FS!StoreCount
    <3>. QED
      BY ONLY FsInv, <3>1, <3>2, <3>3 DEF FsInv, FS!TypeOk
  <2>2. FsLabels'
    BY ONLY FsInv, FsThreads, <2>a, <2>b DEF FsInv, FsLabels, FS!Labels
  <2>3. FsCounts'
    <3>1. fs_word'.count = 0 /\ FsAllArrived'
      BY <1>14 DEF FsInv, FS!TypeOk, FS!Words, FsLast, FsArrived, FsAllArrived,
         FS!StoreCount
    <3>2. FsPending' = {}
      BY ONLY <3>1 DEF FsPending, FsAllArrived
    <3>3. Cardinality({}) = 0
      BY FS_EmptySet
    <3>. QED
      BY ONLY <3>1, <3>2, <3>3 DEF FsCounts
  <2>4. FsStarts'
    BY ONLY FsInv, FsThreads, <2>a, <2>b DEF FsInv, FsStarts
  <2>5. FsLast'
    BY ONLY FsInv, FsThreads, <2>a, <2>b DEF FsInv, FsLast, FsArrived
  <2>6. FsDelivers'
    BY ONLY FsInv, FsThreads, <2>a, <2>b DEF FsInv, FsDelivers, FsAllArrived,
       FsArrived, FS!Delivering
  <2>7. FsValues'
    BY ONLY FsInv, FsThreads, <2>a, <2>b DEF FsInv, FsValues, FsAllArrived, FsArrived,
       FS!DeliversASuccess
  <2>8. FsStops'
    BY ONLY FsInv, FsThreads, <2>a, <2>b DEF FsInv, FsStops, FsQuiet, FsAllArrived,
       FsArrived
  <2>. QED
    BY ONLY <2>1, <2>2, <2>3, <2>4, <2>5, <2>6, <2>7, <2>8 DEF FsInv
<1>15. ASSUME NEW t \in FS!Threads, FS!StopChild(t) PROVE FsInv'
  <2> DEFINE k == fs_next[t]
  <2>a. /\ fs_pc[t] = "stopping" /\ k \in FS!Children /\ k \in Nat /\ t \in FS!Threads
        /\ UNCHANGED <<fs_word, fs_seen, fs_outcome, fs_result, fs_sent>>
    BY <1>15, FsNext, FsNumbers DEF FsInv, FS!StopChild
  <2>b. \A i \in FS!Children :
           fs_stops'[i] = IF i = k /\ i # t THEN fs_stops[i] + 1 ELSE fs_stops[i]
    BY <1>15, <2>a DEF FsInv, FS!TypeOk, FS!StopChild
  <2>c. /\ fs_next'[t] = k + 1
        /\ \A u \in FS!Threads : u # t => fs_next'[u] = fs_next[u]
    BY <1>15, <2>a DEF FsInv, FS!TypeOk, FS!StopChild
  <2>d. /\ \A u \in FS!Threads : u # t => fs_pc'[u] = fs_pc[u]
        /\ fs_pc'[t] = "stopping" => k < N
        /\ \/ fs_pc'[t] = "stopping"
           \/ fs_pc'[t] = "add_started_late" /\ t = FS!Starter
           \/ fs_pc'[t] = "returned" /\ t = FS!Stopper
           \/ fs_pc'[t] = "arrive" /\ t # FS!Starter /\ t # FS!Stopper
    <3>1. CASE k < N
      BY <1>15, <2>a, <3>1 DEF FS!StopChild
    <3>2. CASE ~(k < N)
      BY <1>15, <2>a, <3>2 DEF FsInv, FS!TypeOk, FS!StopChild, FS!AfterStopping
    <3>. QED
      BY ONLY <3>1, <3>2
  <2> HIDE DEF k
  <2>e. \A s \in FS!Threads : s # t => fs_pc[s] \notin {"stopping", "store_and_stop"}
    BY <2>a DEF FsInv, FsStops
  <2>f. ~FsArrived(t) /\ ~FS!Delivering(t)
    BY <2>a DEF FsArrived, FS!Delivering
  <2>1. FS!TypeOk'
    <3>1. UNCHANGED <<fs_word, fs_seen, fs_outcome, fs_result, fs_sent>>
      BY <1>15 DEF FS!StopChild
    <3>2. fs_stops' \in [FS!Children -> Nat]
      BY <1>15, <2>a DEF FsInv, FS!TypeOk, FS!StopChild, k
    <3>3. fs_pc' \in [FS!Threads -> FS!Labels]
      <4>1. \A u \in FS!Threads : fs_pc'[u] \in FS!Labels
        BY ONLY FsInv, FsThreads, <2>a, <2>d DEF FsInv, FS!TypeOk, FS!Labels
      <4>2. DOMAIN fs_pc' = FS!Threads /\ fs_pc' = [u \in FS!Threads |-> fs_pc'[u]]
        BY <1>15 DEF FsInv, FS!TypeOk, FS!StopChild
      <4>. QED
        BY ONLY <4>1, <4>2
    <3>4. fs_next' \in [FS!Threads -> 1..N + 1]
      BY <1>15, <2>a, FsNumbers DEF FsInv, FS!TypeOk, FS!StopChild, k
    <3>. QED
      BY ONLY FsInv, <3>1, <3>2, <3>3, <3>4 DEF FsInv, FS!TypeOk
  <2>2. FsLabels'
    BY ONLY FsInv, FsThreads, <2>a, <2>d, <2>e DEF FsInv, FsLabels, FS!Labels
  <2>3. FsCounts'
    <3>1. FsPending' = FsPending /\ (FsAllArrived <=> FsAllArrived')
      BY ONLY <2>a, <2>d, FsThreads DEF FsPending, FsAllArrived, FsArrived
    <3>. QED
      BY ONLY <2>a, <3>1, FsInv DEF FsInv, FsCounts
  <2>4. FsStarts'
    <3>1. fs_pc[FS!Starter] = "idle" => fs_next'[FS!Starter] = fs_next[FS!Starter]
      BY ONLY <2>a, <2>c, FsThreads
    <3>2. FsStarts => FsStarts'
      BY ONLY FsInv, FsThreads, <2>a, <2>d, <3>1 DEF FsInv, FsStarts, FsLabels
    <3>. QED
      BY ONLY <3>2, FsInv DEF FsInv
  <2>5. FsLast'
    BY ONLY FsInv, FsThreads, <2>a, <2>d, <2>e, <2>f DEF FsInv, FsLast, FsArrived
  <2>6. FsDelivers'
    BY ONLY FsInv, FsThreads, <2>a, <2>d, <2>e, <2>f DEF FsInv, FsDelivers,
       FsAllArrived, FsArrived, FS!Delivering
  <2>7. FsValues'
    BY ONLY FsInv, FsThreads, <2>a, <2>d, <2>e, <2>f DEF FsInv, FsValues,
       FsAllArrived, FsArrived, FS!DeliversASuccess
  <2>8. FsStops'
    <3>1. ASSUME NEW i \in FS!Children
          PROVE  fs_stops'[i] = IF i < k + 1 /\ i # t THEN 1 ELSE 0
      <4>1. i \in Nat /\ k \in Nat
        BY <2>a, FsNumbers
      <4>2. fs_stops[i] = IF i < k /\ i # t THEN 1 ELSE 0
        BY <2>a DEF FsInv, FsStops, k
      <4>3. CASE i = k
        BY ONLY <2>b, <4>1, <4>2, <4>3
      <4>4. CASE i # k
        BY ONLY <2>b, <4>1, <4>2, <4>4
      <4>. QED
        BY ONLY <4>3, <4>4
    <3>2. fs_pc'[t] = "stopping" => fs_next'[t] <= N
      BY <2>a, <2>c, <2>d, FsNumbers, NAssumption
    <3>3. \A i \in FS!Children : fs_stops'[i] <= 1
      BY ONLY <3>1
    <3>4. \A i \in FS!Children : fs_pc'[t] = "stopping" =>
             fs_stops'[i] = IF i < fs_next'[t] /\ i # t THEN 1 ELSE 0
      BY ONLY <2>c, <3>1
    <3>5. \A s \in FS!Threads : fs_pc'[s] \in {"stopping", "store_and_stop"} => s = t /\ fs_pc'[s] = "stopping"
      BY ONLY <2>a, <2>d, <2>e
    <3>6. /\ fs_pc[FS!Starter] \notin {"idle", "add_started"}
          /\ fs_word.has_value \/ fs_pc[FS!Stopper] # "idle"
      BY <2>a DEF FsInv, FsStops, FsQuiet
    <3>7. FsAllArrived <=> FsAllArrived'
      BY ONLY <2>a, <2>d, FsThreads DEF FsAllArrived, FsArrived
    <3>8. /\ fs_pc[FS!Stopper] = "idle" <=> fs_pc'[FS!Stopper] = "idle"
          /\ fs_pc[FS!Starter] = "returned" => fs_pc'[FS!Starter] = "returned"
          /\ fs_pc'[FS!Starter] \notin {"idle", "add_started"}
      BY ONLY <2>a, <2>d, <3>6, FsThreads
    <3>9. /\ fs_word.stop_requested => fs_pc'[FS!Stopper] # "idle"
          /\ ~FsAllArrived' /\ ~fs_word.stop_requested => fs_pc'[FS!Stopper] = "idle"
          /\ fs_pc'[FS!Stopper] # "idle" => fs_pc'[FS!Starter] = "returned"
      BY ONLY FsInv, <3>7, <3>8 DEF FsInv, FsStops
    <3>. QED
      BY ONLY <2>a, <3>2, <3>3, <3>4, <3>5, <3>6, <3>8, <3>9, FsThreads DEF FsStops,
         FsQuiet
  <2>. QED
    BY ONLY <2>1, <2>2, <2>3, <2>4, <2>5, <2>6, <2>7, <2>8 DEF FsInv
<1>16. ASSUME NEW t \in FS!Threads, FS!Deliver(t) PROVE FsInv'
  <2>a. /\ fs_pc[t] \in {"deliver", "deliver_own"} /\ fs_pc'[t] = "returned"
        /\ \A u \in FS!Threads : u # t => fs_pc'[u] = fs_pc[u] /\ fs_next'[u] = fs_next[u]
        /\ UNCHANGED <<fs_word, fs_seen, fs_outcome, fs_result, fs_stops>>
    BY <1>16 DEF FsInv, FS!TypeOk, FS!Deliver
  <2> DEFINE k == IF fs_pc[t] = "deliver" THEN fs_result ELSE t
  <2>b. /\ FsAllArrived /\ fs_word.started /\ fs_sent = <<>>
        /\ \A s \in FS!Threads : FS!Delivering(s) => s = t
    BY <2>a DEF FsInv, FsDelivers, FS!Delivering
  <2>c. \A i \in FS!Children : ~fs_word.has_value => fs_outcome[i] # "value"
    BY <2>b DEF FsInv, FsValues, FsAllArrived, FsArrived
  <2>d. k \in FS!Children /\ (fs_outcome[k] = "value" <=> fs_word.has_value)
    <3>1. CASE fs_pc[t] = "deliver"
      <4>1. \A i \in FS!Children : fs_pc[i] # "deliver_own"
        BY <2>b, <3>1 DEF FS!Delivering
      <4>2. CASE fs_word.has_value
        BY <2>b, <3>1, <4>1, <4>2 DEF FsInv, FsValues, FsAllArrived, FsArrived
      <4>3. CASE ~fs_word.has_value
        BY <2>b, <2>c, <3>1, <4>1, <4>3 DEF FsInv, FsValues
      <4>. QED
        BY ONLY <4>2, <4>3
    <3>2. CASE fs_pc[t] # "deliver"
      BY <2>a, <2>c, <3>2 DEF FsInv, FsValues, FsLabels
    <3>. QED
      BY ONLY <3>1, <3>2
  <2>e. fs_sent' = <<k>> /\ Len(fs_sent') = 1 /\ fs_sent'[1] = k /\ fs_sent' # <<>>
        /\ fs_sent' \in Seq(FS!Children)
    <3>1. fs_sent' = <<k>>
      BY <1>16, <2>b DEF FS!Deliver
    <3>. QED
      BY <2>d, <3>1
  <2>f. \A i \in FS!Children : fs_pc'[i] = "returned"
    BY ONLY <2>a, <2>b, FsThreads DEF FsAllArrived, FsArrived, FS!Delivering
  <2>g. (\E i \in FS!Children : fs_outcome[i] = "value") <=> fs_word.has_value
    BY <2>b, <2>c DEF FsInv, FsValues
  <2> HIDE DEF k
  <2>1. FS!TypeOk'
    <3>1. UNCHANGED <<fs_word, fs_seen, fs_outcome, fs_result, fs_stops, fs_next>>
      BY <1>16 DEF FS!Deliver
    <3>2. fs_sent' \in Seq(FS!Children)
      BY ONLY <2>e
    <3>3. fs_pc' \in [FS!Threads -> FS!Labels]
      BY <1>16, FsNumbers DEF FsInv, FS!TypeOk, FS!Words, FS!Labels, FS!Deliver
    <3>. QED
      BY ONLY FsInv, <3>1, <3>2, <3>3 DEF FsInv, FS!TypeOk
  <2>2. FsLabels'
    BY ONLY FsInv, FsThreads, <2>a, <2>b, <2>e, <2>f DEF FsInv, FsLabels, FS!Labels
  <2>3. FsCounts'
    <3>1. FsPending' = FsPending
      BY <1>16 DEF FsInv, FS!TypeOk, FS!Words, FsPending, FsArrived, FS!Deliver
    <3>2. fs_word'.count = fs_word.count
      BY <1>16 DEF FsInv, FS!TypeOk, FS!Words, FS!Deliver
    <3>3. /\ fs_word.started => fs_word'.started
          /\ fs_word.has_value => fs_word'.has_value
          /\ FsAllArrived <=> FsAllArrived'
      BY <1>16, <3>1 DEF FsInv, FS!TypeOk, FS!Words, FsPending, FsAllArrived,
         FsArrived, FS!Deliver
    <3>. QED
      BY ONLY FsInv, <3>1, <3>2, <3>3 DEF FsInv, FsCounts
  <2>4. FsStarts'
    BY ONLY FsInv, FsThreads, <2>a, <2>b, <2>e, <2>f DEF FsInv, FsStarts
  <2>5. FsLast'
    BY ONLY FsInv, FsThreads, <2>a, <2>b, <2>e, <2>f DEF FsInv, FsLast, FsArrived
  <2>6. FsDelivers'
    BY ONLY FsInv, FsThreads, <2>a, <2>b, <2>e, <2>f DEF FsInv, FsDelivers,
       FsAllArrived, FsArrived, FS!Delivering
  <2>7. FsValues'
    <3>1. FS!DeliversASuccess'
      BY ONLY <2>a, <2>d, <2>e, <2>g DEF FS!DeliversASuccess
    <3>. QED
      BY ONLY FsInv, FsThreads, <2>a, <2>b, <2>e, <2>f, <3>1 DEF FsInv, FsValues
  <2>8. FsStops'
    BY ONLY FsInv, FsThreads, <2>a, <2>b, <2>e, <2>f DEF FsInv, FsStops, FsQuiet,
       FsAllArrived, FsArrived
  <2>. QED
    BY ONLY <2>1, <2>2, <2>3, <2>4, <2>5, <2>6, <2>7, <2>8 DEF FsInv
<1>17. CASE FS!RequestStop
  <2>a. /\ fs_pc[FS!Stopper] = "idle" /\ fs_pc[FS!Starter] = "returned"
        /\ \A u \in FS!Threads : u # FS!Stopper => fs_pc'[u] = fs_pc[u] /\ fs_next'[u] = fs_next[u]
        /\ UNCHANGED <<fs_seen, fs_outcome, fs_result, fs_sent, fs_stops>>
        /\ fs_word'.stop_requested /\ fs_word'.started = fs_word.started
        /\ fs_word'.has_value = fs_word.has_value
    BY <1>17 DEF FsInv, FS!TypeOk, FS!Words, FS!RequestStop
  <2>b. \/ /\ fs_pc'[FS!Stopper] = "stopping" /\ fs_next'[FS!Stopper] = 1
           /\ ~fs_word.has_value
        \/ fs_pc'[FS!Stopper] = "returned"
    BY <1>17 DEF FsInv, FS!TypeOk, FS!Words, FS!RequestStop
  <2>1. FS!TypeOk'
    <3>1. UNCHANGED <<fs_seen, fs_outcome, fs_result, fs_sent, fs_stops>>
      BY <1>17 DEF FS!RequestStop
    <3>2. fs_word' \in FS!Words
      BY <1>17, FsNumbers DEF FsInv, FS!TypeOk, FS!Words, FS!RequestStop
    <3>3. fs_pc' \in [FS!Threads -> FS!Labels]
      BY <1>17, FsNumbers DEF FsInv, FS!TypeOk, FS!Words, FS!Labels, FS!RequestStop
    <3>4. fs_next' \in [FS!Threads -> 1..N + 1]
      BY <1>17, FsNumbers DEF FsInv, FS!TypeOk, FS!Words, FS!RequestStop
    <3>. QED
      BY ONLY FsInv, <3>1, <3>2, <3>3, <3>4 DEF FsInv, FS!TypeOk
  <2>2. FsLabels'
    BY ONLY FsInv, FsThreads, <2>a, <2>b DEF FsInv, FsLabels, FS!Labels
  <2>3. FsCounts'
    <3>1. FsPending' = FsPending
      BY <1>17 DEF FsInv, FS!TypeOk, FS!Words, FsPending, FsArrived, FS!RequestStop
    <3>2. fs_word'.count = fs_word.count
      BY <1>17 DEF FsInv, FS!TypeOk, FS!Words, FS!RequestStop
    <3>3. /\ fs_word.started => fs_word'.started
          /\ fs_word.has_value => fs_word'.has_value
          /\ FsAllArrived <=> FsAllArrived'
      BY <1>17, <3>1 DEF FsInv, FS!TypeOk, FS!Words, FsPending, FsAllArrived,
         FsArrived, FS!RequestStop
    <3>. QED
      BY ONLY FsInv, <3>1, <3>2, <3>3 DEF FsInv, FsCounts
  <2>4. FsStarts'
    BY ONLY FsInv, FsThreads, <2>a, <2>b DEF FsInv, FsStarts
  <2>5. FsLast'
    BY ONLY FsInv, FsThreads, <2>a, <2>b DEF FsInv, FsLast, FsArrived
  <2>6. FsDelivers'
    BY ONLY FsInv, FsThreads, <2>a, <2>b DEF FsInv, FsDelivers, FsAllArrived,
       FsArrived, FS!Delivering
  <2>7. FsValues'
    BY ONLY FsInv, FsThreads, <2>a, <2>b DEF FsInv, FsValues, FsAllArrived, FsArrived,
       FS!DeliversASuccess
  <2>8. FsStops'
    BY ONLY FsInv, FsThreads, <2>a, <2>b, FsNumbers, NAssumption DEF FsInv, FsStops,
       FsQuiet, FsAllArrived, FsArrived
  <2>. QED
    BY ONLY <2>1, <2>2, <2>3, <2>4, <2>5, <2>6, <2>7, <2>8 DEF FsInv
<1>. QED
  BY ONLY FS!Step, <1>1, <1>2, <1>3, <1>4, <1>5, <1>6, <1>7, <1>8, <1>9, <1>10, <1>11,
     <1>12, <1>13, <1>14, <1>15, <1>16, <1>17 DEF FS!Step, FS!ChildCompletes,
     FS!ChildStep

(* With that, what the run asks of first_successful holds. *)
LEMMA FsSafe == FsInv => /\ FS!DeliversLast /\ FS!DeliversASuccess
                         /\ FS!StopCallsAreLegal
<1>. SUFFICES ASSUME FsInv
              PROVE  FS!DeliversLast /\ FS!DeliversASuccess /\ FS!StopCallsAreLegal
  OBVIOUS
<1>. USE FsThreads
<1>1. FS!DeliversLast
  <2>1. fs_sent # <<>> => Len(fs_sent) = 1
    BY DEF FsInv, FsDelivers
  <2>2. Len(fs_sent) \in {0, 1}
    <3>1. CASE fs_sent = <<>>
      BY <3>1
    <3>2. CASE fs_sent # <<>>
      BY <2>1, <3>2
    <3>. QED
      BY <3>1, <3>2
  <2>3. \A n \in {0, 1} : n <= 1
    OBVIOUS
  <2>4. Len(fs_sent) <= 1
    BY ONLY <2>2, <2>3
  <2>5. \A t \in FS!Threads : FS!Delivering(t) =>
           /\ fs_sent = <<>>
           /\ \A s \in FS!Threads \ {t} : s \in FS!Children => fs_pc[s] = "returned"
           /\ \A s \in FS!Threads : FS!Delivering(s) => s = t
    BY DEF FsInv, FsDelivers, FsAllArrived, FsArrived, FS!Delivering
  <2>6. fs_sent # <<>> => \A t \in FS!Children \cup {FS!Starter} : fs_pc[t] = "returned"
    BY DEF FsInv, FsDelivers, FsStarts
  <2>. QED
    BY ONLY <2>4, <2>5, <2>6 DEF FS!DeliversLast
<1>2. FS!DeliversASuccess
  BY DEF FsInv, FsValues
<1>3. FS!StopCallsAreLegal
  <2>1. \A i \in FS!Children : fs_stops[i] <= 1
    BY DEF FsInv, FsStops
  <2>2. fs_pc[FS!Starter] \in {"idle", "add_started"} => \A i \in FS!Children : fs_stops[i] = 0
    BY DEF FsInv, FsStops, FsQuiet
  <2>3. ASSUME NEW t \in FS!Children \cup {FS!Starter}, fs_pc[t] = "stopping"
        PROVE  fs_sent = <<>>
    BY ONLY <1>1, <2>3 DEF FS!DeliversLast
  <2>. QED
    BY ONLY <2>1, <2>2, <2>3 DEF FS!StopCallsAreLegal
<1>. QED
  BY <1>1, <1>2, <1>3

-----------------------------------------------------------------------------
(* All kinds *)

IInv == SwInv /\ MtInv /\ LvInv /\ StInv /\ WaInv /\ WsInv /\ FsInv

(* The start of every kind. *)
LEMMA InitIInv == Init => IInv
BY SwInit, MtInit, LvInit, StInit, WaInit, WsInit, FsInit DEF Init, IInv

(* What an operation has is its own. *)
LEMMA OthersStay ==
  /\ SwInv /\ UNCHANGED swVars => SwInv'
  /\ MtInv /\ UNCHANGED mtVars => MtInv'
  /\ LvInv /\ UNCHANGED lvVars => LvInv'
  /\ StInv /\ UNCHANGED stVars => StInv'
  /\ WaInv /\ UNCHANGED waVars => WaInv'
  /\ WsInv /\ UNCHANGED wsVars => WsInv'
  /\ FsInv /\ UNCHANGED fsVars => FsInv'
<1>1. SwInv /\ UNCHANGED swVars => SwInv'
  BY DEF swVars, SwDuty, SwDelivers, SwStarting, SwLabels, SwStarts, SwChildren,
     SwStored, SwDuties, SwEnds, SwInv, SW!TypeOk, SW!CompletesLast, SW!Finished
<1>2. MtInv /\ UNCHANGED mtVars => MtInv'
  BY DEF mtVars, MtLabels, MtFlags, MtDuty, MtStops, MtResults, MtInv, MT!TypeOk
<1>3. LvInv /\ UNCHANGED lvVars => LvInv'
  BY DEF lvVars, LvBodyRuns, LvLabels, LvStages, LvBody, LvSent, LvStops, LvResults,
     LvInv, LV!TypeOk, LV!ResultIsTheChilds
<1>4. StInv /\ UNCHANGED stVars => StInv'
  BY DEF stVars, StDecides, StNobodyElse, StNobody, StLabels, StSource, StStarts,
     StEnds, StInv, ST!TypeOk, ST!SourceTypeOk, ST!StopRequested
<1>5. WaInv /\ UNCHANGED waVars => WaInv'
  BY DEF waVars, WaArrived, WaPending, WaLabels, WaCounts, WaStarts, WaDelivers,
     WaResults, WaStops, WaInv, WA!TypeOk
<1>6. WsInv /\ UNCHANGED wsVars => WsInv'
  BY DEF wsVars, WsArrived, WsPending, WsCounts, WsStarts, WsDelivers, WsResults,
     WsStops, WsInv, WS!TypeOk
<1>7. FsInv /\ UNCHANGED fsVars => FsInv'
  BY DEF fsVars, FsArrived, FsAllArrived, FsQuiet, FsLabels, FsPending, FsCounts,
     FsStarts, FsLast, FsDelivers, FsValues, FsStops, FsInv, FS!TypeOk,
     FS!DeliversASuccess, FS!Delivering
<1>. QED
  BY ONLY <1>1, <1>2, <1>3, <1>4, <1>5, <1>6, <1>7

(* So a step of one kind keeps the invariants of all. *)
LEMMA StepIInv == IInv /\ [Next]_vars => IInv'
<1>1. ASSUME IInv, Next PROVE IInv'
  <2>. USE OthersStay DEF IInv
  <2>1. ASSUME SW!Next, UNCHANGED <<mtVars, lvVars, stVars, waVars, wsVars, fsVars>> PROVE IInv'
    BY ONLY <2>1, <1>1, SwStep, OthersStay DEF IInv
  <2>2. ASSUME MT!Next, UNCHANGED <<swVars, lvVars, stVars, waVars, wsVars, fsVars>> PROVE IInv'
    BY ONLY <2>2, <1>1, MtStep, OthersStay DEF IInv
  <2>3. ASSUME LV!Next, UNCHANGED <<swVars, mtVars, stVars, waVars, wsVars, fsVars>> PROVE IInv'
    BY ONLY <2>3, <1>1, LvStep, OthersStay DEF IInv
  <2>4. ASSUME ST!Next, UNCHANGED <<swVars, mtVars, lvVars, waVars, wsVars, fsVars>> PROVE IInv'
    BY ONLY <2>4, <1>1, StStep, OthersStay DEF IInv
  <2>5. ASSUME WA!Next, UNCHANGED <<swVars, mtVars, lvVars, stVars, wsVars, fsVars>> PROVE IInv'
    BY ONLY <2>5, <1>1, WaStep, OthersStay DEF IInv
  <2>6. ASSUME WS!Next, UNCHANGED <<swVars, mtVars, lvVars, stVars, waVars, fsVars>> PROVE IInv'
    BY ONLY <2>6, <1>1, WsStep, OthersStay DEF IInv
  <2>7. ASSUME FS!Next, UNCHANGED <<swVars, mtVars, lvVars, stVars, waVars, wsVars>> PROVE IInv'
    BY ONLY <2>7, <1>1, FsStep, OthersStay DEF IInv, FS!Next
  <2>8. ASSUME VA!Next, UNCHANGED <<swVars, mtVars, lvVars, stVars, waVars, wsVars, fsVars>> PROVE IInv'
    BY ONLY <2>8, <1>1, OthersStay DEF IInv
  <2>9. ASSUME SG!Next, UNCHANGED <<swVars, mtVars, lvVars, stVars, waVars, wsVars, fsVars>> PROVE IInv'
    BY ONLY <2>9, <1>1, OthersStay DEF IInv
  <2>. QED
    BY ONLY <1>1, <2>1, <2>2, <2>3, <2>4, <2>5, <2>6, <2>7, <2>8, <2>9 DEF Next
<1>2. ASSUME IInv, UNCHANGED vars PROVE IInv'
  BY ONLY <1>2, OthersStay DEF vars, IInv
<1>. QED
  BY ONLY <1>1, <1>2

-----------------------------------------------------------------------------
(* Whichever of the places in the code completes an operation, it does so  *)
(* once, when all children have, and no thread comes back to it but its    *)
(* parent's own, for all kinds and every number of children.               *)
THEOREM CompletionAlwaysLast == Spec => []CompletesLast
<1>1. SwInv => SW!CompletesLast
  BY DEF SwInv
<1>2. IInv => CompletesLast
  BY ONLY <1>1, MtSafe, LvSafe, StSafe, WaSafe, WsSafe, FsSafe DEF IInv, CompletesLast
<1>. QED
  BY InitIInv, StepIInv, <1>2, PTL DEF Spec

(* No child sees a request_stop() before its start() returned, or a second *)
(* time, however the parent's, the children's and start()'s own reasons to *)
(* stop it race; nor, but from the parent's request_stop() and from the    *)
(* start() of when_all, when it may be gone.                               *)
THEOREM StopCallsAlwaysLegal == Spec => []StopCallsAreLegal
<1>1. IInv => StopCallsAreLegal
  BY ONLY SwStopsAreLegal, MtSafe, LvSafe, WaSafe, WsSafe, FsSafe DEF IInv,
     StopCallsAreLegal
<1>. QED
  BY InitIInv, StepIInv, <1>1, PTL DEF Spec

(* The result that was decided is complete when it is delivered, and is    *)
(* that of the child that decided.                                         *)
THEOREM ResultAlwaysRight == Spec => []ResultIsRight
<1>1. IInv => ResultIsRight
  BY ONLY MtSafe, LvSafe, WaSafe, WsSafe, FsSafe DEF IInv, ResultIsRight
<1>. QED
  BY InitIInv, StepIInv, <1>1, PTL DEF Spec
=============================================================================
