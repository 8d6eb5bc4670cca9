------------------------------ MODULE RingSetup ------------------------------
(***************************************************************************)
(* The constructors of io_uring and iouring_context: a ring of the kernel  *)
(* with a descriptor, two or three mappings of its memory, and the eventfd *)
(* of the context.  Each is in a member that releases it, when the object  *)
(* is destroyed and when a constructor throws.  A ring can be moved.       *)
(***************************************************************************)
EXTENDS Naturals, FiniteSets

CONSTANTS Arguments,        \* the members of setup_args that are set
          Failures          \* the calls that may fail

VARIABLES args,             \* setup_args
          single_mmap,      \* IORING_FEAT_SINGLE_MMAP in available_features_
          timed_wait,       \* IORING_FEAT_EXT_ARG in available_features_
          members,          \* fd_, the mappings and wake_up_event_fd_ of two objects
          pc,               \* where the constructors are
          open,             \* what the kernel holds
          stray,            \* something was released that is not held (history)
          failed            \* a call has failed (history)

vars == <<args, single_mmap, timed_wait, members, pc, open, stray, failed>>

Objects == {"ring", "moved_to"}
Empty == [m \in {"fd", "cq_map", "sq_map", "sqe_map", "event_fd"} |-> "empty"]

-----------------------------------------------------------------------------
(* The asserts of the constructor *)
LegalArgs == /\ "thread_cpu" \in args => "thread_idle" \in args
             /\ "coop_flag" \in args => "coop" \in args
             /\ "defer" \in args => "single_issuer" \in args

(* params.flags: an argument of its own for each.  CLAMP is always there.  *)
Flags == {"CLAMP"} \cup
         { CASE a = "thread_idle" -> "SQPOLL"     [] a = "thread_cpu" -> "SQ_AFF"
             [] a = "io_polling"  -> "IOPOLL"     [] a = "coop" -> "COOP_TASKRUN"
             [] a = "coop_flag" -> "TASKRUN_FLAG" [] a = "defer" -> "DEFER_TASKRUN"
             [] a = "single_issuer" -> "SINGLE_ISSUER" [] a = "share" -> "ATTACH_WQ"
             [] a = "cq_size" -> "CQSIZE"         [] a = "submit_all" -> "SUBMIT_ALL"
         : a \in args }

(* What the kernel accepts: its own thread excludes the other two ways.    *)
KernelAccepts == "SQPOLL" \in Flags =>
                     Flags \cap {"COOP_TASKRUN", "TASKRUN_FLAG", "DEFER_TASKRUN"} = {}

Init == /\ args \in SUBSET Arguments
        /\ LegalArgs
        /\ "arguments" \in Failures \/ KernelAccepts
        /\ single_mmap = FALSE /\ timed_wait = FALSE
        /\ members = [o \in Objects |-> Empty]
        /\ pc = "setup"
        /\ open = {}
        /\ stray = FALSE
        /\ failed = FALSE

-----------------------------------------------------------------------------
(* Releasing *)

Held(o) == {members[o][m] : m \in DOMAIN Empty} \ {"empty"}

(* ~file_handle() and ~mmap_region() of all the members *)
Release(o) == /\ open' = open \ Held(o)
              /\ stray' = (stray \/ ~(Held(o) \subseteq open))
              /\ members' = [members EXCEPT ![o] = Empty]

(* An exception leaves a constructor: what it has constructed goes.        *)
Unwind == Release("ring") /\ pc' = "thrown" /\ failed' = TRUE

Adopt(member, value) == members' = [members EXCEPT !["ring"][member] = value]

Obtain(member) == /\ Adopt(member, member)
                  /\ open' = open \cup {member}
                  /\ UNCHANGED <<stray, failed>>

(* A call has failed, and its result is taken for a success.               *)
Mistake(member) == Adopt(member, "failure") /\ failed' = TRUE /\ UNCHANGED <<open, stray>>

-----------------------------------------------------------------------------
(* io_uring() *)

(* io_uring_setup() returns a negated errno, and the constructor compares  *)
(* with -1, which is what EPERM is.                                        *)
SetUp == /\ pc = "setup"
         /\ \/ /\ KernelAccepts
               /\ Obtain("fd")
               /\ single_mmap' \in BOOLEAN /\ timed_wait' \in BOOLEAN
               /\ pc' = "sq_map"
            \/ /\ ~KernelAccepts \/ "no_memory" \in Failures
               /\ Mistake("fd")
               /\ pc' = "sq_map"
               /\ UNCHANGED <<single_mmap, timed_wait>>
            \/ /\ "not_permitted" \in Failures
               /\ Unwind
               /\ UNCHANGED <<single_mmap, timed_wait>>
         /\ UNCHANGED args

(* mmap() fails with MAP_FAILED, and the constructor compares with nullptr. *)
Map(member, next) == /\ pc = member
                     /\ \/ members["ring"].fd # "failure" /\ Obtain(member)
                        \/ /\ members["ring"].fd = "failure" \/ "no_memory" \in Failures
                           /\ Mistake(member)
                     /\ pc' = next
                     /\ UNCHANGED <<args, single_mmap, timed_wait>>

MapSq == Map("sq_map", IF single_mmap THEN "sqe_map" ELSE "cq_map")
MapCq == Map("cq_map", "sqe_map")
MapSqe == Map("sqe_map", "members")

(* The masks are read out of the mappings of the two rings.                *)
InitMembers ==
    /\ pc = "members"
    /\ pc' = IF "failure" \in {members["ring"].sq_map, members["ring"].cq_map}
             THEN "fault" ELSE "ring"
    /\ UNCHANGED <<args, single_mmap, timed_wait, members, open, stray, failed>>

-----------------------------------------------------------------------------
(* iouring_context() *)

CheckTimedWait == /\ pc = "ring"
                  /\ IF timed_wait
                     THEN pc' = "event_fd" /\ UNCHANGED <<members, open, stray, failed>>
                     ELSE Unwind
                  /\ UNCHANGED <<args, single_mmap, timed_wait>>

CreateEventFd == /\ pc = "event_fd"
                 /\ \/ Obtain("event_fd") /\ pc' = "context"
                    \/ "event_fd" \in Failures /\ Unwind
                 /\ UNCHANGED <<args, single_mmap, timed_wait>>

-----------------------------------------------------------------------------
(* io_uring(io_uring&&) and the destructors, of a ring or of a context *)

(* Mutant: a mapping stays where it was, too. *)
MoveKeepsMap ==
    /\ pc = "ring"
    /\ members' = [ring |-> [Empty EXCEPT !.sq_map = members["ring"].sq_map],
                   moved_to |-> members["ring"]]
    /\ pc' = "moved"
    /\ UNCHANGED <<args, single_mmap, timed_wait, open, stray, failed>>

Move == /\ pc = "ring"
        /\ members' = [ring |-> Empty, moved_to |-> members["ring"]]
        /\ pc' = "moved"
        /\ UNCHANGED <<args, single_mmap, timed_wait, open, stray, failed>>

Destroy(o) == /\ pc \in {"ring", "moved", "context", "destroyed"}
              /\ Held(o) # {}
              /\ Release(o)
              /\ pc' = "destroyed"
              /\ UNCHANGED <<args, single_mmap, timed_wait, failed>>

Next == \/ SetUp \/ MapSq \/ MapCq \/ MapSqe \/ InitMembers
        \/ CheckTimedWait \/ CreateEventFd
        \/ Move \/ \E o \in Objects : Destroy(o)

Spec == Init /\ [][Next]_vars

-----------------------------------------------------------------------------
(* Properties *)

TypeOk == /\ args \subseteq Arguments
          /\ members \in [Objects -> [DOMAIN Empty ->
                             {"empty", "failure"} \cup DOMAIN Empty]]
          /\ open \subseteq DOMAIN Empty
          /\ {stray, failed, single_mmap, timed_wait} \subseteq BOOLEAN

(* Whatever the kernel gave is in one member of one object from then on,   *)
(* is released with it and only once, wherever a constructor throws and    *)
(* whether or not the ring was moved.                                      *)
ReleasedOnce ==
    /\ TypeOk
    /\ ~stray
    /\ open = Held("ring") \cup Held("moved_to")
    /\ Held("ring") \cap Held("moved_to") = {}
    /\ pc \in {"thrown", "destroyed"} => open = {}

(* "\throw std::system_error If the initialization of the io_uring object  *)
(* fails for any reason" (io_uring.hpp): nobody sees a ring, or reads a    *)
(* mapping of one, of which a part could not be had.                       *)
FailureThrows ==
    failed => pc \notin {"fault", "ring", "context"}
=============================================================================
