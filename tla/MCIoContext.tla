----------------------------- MODULE MCIoContext -----------------------------
(***************************************************************************)
(* iouring_context and io_uring side by side for one run: a behaviour is   *)
(* that of the context's loop between sleep and wake-up, of the two rings  *)
(* that one thread shares with the kernel, or of one io_uring object from  *)
(* its setup to its end.                                                   *)
(***************************************************************************)
EXTENDS IoRing

CONSTANTS Ops, Stops, BatchLimit, Arguments, Failures

ASSUME BatchesRun == BatchLimit \in Nat \ {0}

VARIABLES kind,
          c_queue, c_inactive, c_ready, c_ran, c_eventfd, c_read, c_stop_requested,
          c_writers, c_pc, c_done,
          s_args, s_single_mmap, s_timed_wait, s_members, s_pc, s_open, s_stray,
          s_failed

Context == INSTANCE IoContext WITH
               queue <- c_queue, inactive <- c_inactive, ready <- c_ready,
               ran <- c_ran, eventfd <- c_eventfd, read <- c_read,
               stop_requested <- c_stop_requested, writers <- c_writers,
               pc <- c_pc, done <- c_done

Setup == INSTANCE RingSetup WITH
             args <- s_args, single_mmap <- s_single_mmap,
             timed_wait <- s_timed_wait, members <- s_members, pc <- s_pc,
             open <- s_open, stray <- s_stray, failed <- s_failed

contextVars == <<c_queue, c_inactive, c_ready, c_ran, c_eventfd, c_read,
                 c_stop_requested, c_writers, c_pc, c_done>>
setupVars == <<s_args, s_single_mmap, s_timed_wait, s_members, s_pc, s_open, s_stray,
               s_failed>>
partsVars == <<kind, contextVars, vars, setupVars>>

PartsInit == /\ kind \in {"context", "rings", "setup"}
             /\ Context!Init /\ Init /\ Setup!Init
             /\ kind # "rings" => setup = "plain"
             /\ kind # "setup" => s_args = {}

PartsNext == \/ /\ kind = "context"
                /\ Context!Next
                /\ UNCHANGED <<kind, vars, setupVars>>
             \/ /\ kind = "rings"
                /\ Next
                /\ UNCHANGED <<kind, contextVars, setupVars>>
             \/ /\ kind = "setup"
                /\ Setup!Next
                /\ UNCHANGED <<kind, contextVars, vars>>

(* A part that nobody uses, as the others are, owes nobody a step.         *)
PartsSpec == /\ PartsInit /\ [][PartsNext]_partsVars
             /\ Context!Fairness /\ Fairness

-----------------------------------------------------------------------------
(* Properties *)

(* The loop of the context does not sleep over an item or a stop request,  *)
(* unless a wake-up is on the way.                                         *)
NoWakeUpIsLost == Context!NoWakeUpIsLost

(* The destructor leaves no read behind that would write to the context.   *)
NoReadOutlives == Context!NoReadOutlives

(* Scheduled items run, run() returns once it is stopped, and so does the  *)
(* destructor.                                                             *)
NothingWaitsForever == Context!NothingWaitsForever

(* Whatever the kernel gave is in one member of one object from then on,   *)
(* is released with it and only once, wherever a constructor throws and    *)
(* whether or not the ring was moved.                                      *)
ReleasedOnce == Setup!ReleasedOnce
=============================================================================
