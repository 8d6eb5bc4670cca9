------------------------------- MODULE TimerBase -------------------------------
(***************************************************************************)
(* iouring_context: due times and the 48-bit timestamps that the timer     *)
(* queue is made of.  A timestamp counts units of timer_granularity since  *)
(* the timer base.  Before it runs out, a timer of the context's own moves *)
(* the base and files all timers anew.                                     *)
(*                                                                         *)
(* The queue is what BinnedTimeQueue shows it to be: a set from which the  *)
(* earliest timestamp is taken.  Times are in nanoseconds, of which there  *)
(* are Nanos in a second.                                                  *)
(***************************************************************************)
EXTENDS Integers

CONSTANTS Timers, DueTimes,
          Nanos, Grain,     \* nanoseconds of a second and of timer_granularity
          MaxTimestamp,     \* max_timestamp
          Past,             \* base_seconds_in_past
          Start, MaxTime,   \* bounds of the clock
          Jumps             \* how far the clock moves on at a time

(* Grain is not 0 nor more than Nanos, and half of the range of timestamps *)
(* reaches past the seconds that the base is in the past.                  *)

VARIABLES now,              \* CLOCK_BOOTTIME
          base,             \* timer_base_time_seconds_
          max_time,         \* timer_max_time_seconds_
          reindex_due,      \* reindex_timer_op_.due_time
          started,          \* the timers that were scheduled: each is, once
          due,              \* the due time of those in the queue
          pc,               \* where the I/O thread is
          current,          \* current_timestamp
          until,            \* until when it sleeps
          reindexed         \* the base has moved since current was read (history)

vars == <<now, base, max_time, reindex_due, started, due, pc, current, until, reindexed>>
baseVars == <<base, max_time, reindex_due>>

Queued == DOMAIN due

(* Mutant: due times are rounded down, as the clock is. *)
TimestampDown(t, round_up) ==
    IF t \div Nanos < base THEN 0
    ELSE IF t \div Nanos >= max_time THEN MaxTimestamp
    ELSE (t - base * Nanos) \div Grain

(* time_point_to_timestamp() *)
Timestamp(t, round_up) ==
    LET offset == t - base * Nanos
    IN IF t \div Nanos < base THEN 0
       ELSE IF t \div Nanos >= max_time THEN MaxTimestamp
       ELSE IF round_up THEN (offset + Grain - 1) \div Grain
       ELSE offset \div Grain

DueTimestamp(t) == Timestamp(due[t], TRUE)
ReindexTimestamp == Timestamp(reindex_due, TRUE)

(* No timer of the queue is earlier than ts. *)
IsEarliest(ts) == /\ ts <= ReindexTimestamp
                  /\ \A u \in Queued : ts <= DueTimestamp(u)

(* The base that reset_timer_base() computes, and what follows from it *)
NewBase == now \div Nanos - Past
NewMax == NewBase + (MaxTimestamp * Grain) \div Nanos

NewReindexDue == (NewBase + ((MaxTimestamp \div 2) * Grain) \div Nanos) * Nanos

(* The constructor, in which the timer base is reset for the first time *)
Init == /\ now = Start
        /\ base = NewBase /\ max_time = NewMax /\ reindex_due = NewReindexDue
        /\ started = {}
        /\ due = [t \in {} |-> 0]
        /\ pc = "check"
        /\ current = 0 /\ until = 0
        /\ reindexed = FALSE

-----------------------------------------------------------------------------
(* The clock may stand still and may jump, as when the system sleeps. *)
Tick == \E d \in Jumps :
           /\ now + d <= MaxTime
           /\ now' = now + d
           /\ UNCHANGED <<baseVars, started, due, pc, current, until, reindexed>>

(* schedule_at_local(), from a handler, or from another thread's item *)
ScheduleAtLocal(t, time) ==
    /\ pc # "asleep"
    /\ t \notin started
    /\ started' = started \cup {t}
    /\ due' = [u \in Queued \cup {t} |-> IF u = t THEN time ELSE due[u]]
    /\ UNCHANGED <<now, baseVars, pc, current, until, reindexed>>

(* check_timers: the clock is read once. *)
CheckTimers == /\ pc = "check"
               /\ pc' = "timers"
               /\ current' = Timestamp(now, FALSE)
               /\ reindexed' = FALSE
               /\ UNCHANGED <<now, baseVars, started, due, until>>

(* An item that is due by then is dequeued and executed. *)
Execute(t) == /\ pc = "timers"
              /\ t \in Queued
              /\ IsEarliest(DueTimestamp(t)) /\ DueTimestamp(t) <= current
              /\ due' = [u \in Queued \ {t} |-> due[u]]
              /\ UNCHANGED <<now, baseVars, started, pc, current, until, reindexed>>

(* Mutant: the end of the range stays where it was. *)
ResetTimerBaseOnly == /\ pc = "timers"
                      /\ IsEarliest(ReindexTimestamp) /\ ReindexTimestamp <= current
                      /\ base' = NewBase
                      /\ reindex_due' = NewReindexDue
                      /\ reindexed' = TRUE
                      /\ UNCHANGED <<now, max_time, started, due, pc, current, until>>

(* reindex_timer_operation: reset_timer_base(), by another reading of the  *)
(* clock; the loop goes on with the timestamp that it has.  While the      *)
(* clock stands still, to do so again changes nothing.                     *)
ResetTimerBase == /\ pc = "timers"
                  /\ IsEarliest(ReindexTimestamp) /\ ReindexTimestamp <= current
                  /\ base' = NewBase
                  /\ max_time' = NewMax
                  /\ reindex_due' = NewReindexDue
                  /\ reindexed' = TRUE
                  /\ UNCHANGED <<now, started, due, pc, current, until>>

(* Nothing is due any more: the loop polls, and then sleeps or goes round. *)
TimersDone == /\ pc = "timers"
              /\ ReindexTimestamp > current
              /\ \A t \in Queued : DueTimestamp(t) > current
              /\ pc' = "poll"
              /\ UNCHANGED <<now, baseVars, started, due, current, until, reindexed>>

PollAgain == /\ pc = "poll"
             /\ pc' = "check"
             /\ UNCHANGED <<now, baseVars, started, due, current, until, reindexed>>

(* submit_and_wait_until(get_earliest_timer()), with the largest bound     *)
(* that the queue may give                                                 *)
Sleep == /\ pc = "poll"
         /\ \E ts \in {ReindexTimestamp} \cup {DueTimestamp(t) : t \in Queued} :
                /\ IsEarliest(ts)
                /\ until' = base * Nanos + ts * Grain
         /\ pc' = "asleep"
         /\ UNCHANGED <<now, baseVars, started, due, current, reindexed>>

(* The time has come, or another event has. *)
WakeUp == /\ pc = "asleep"
          /\ pc' = "check"
          /\ UNCHANGED <<now, baseVars, started, due, current, until, reindexed>>

-----------------------------------------------------------------------------
Next == \/ Tick \/ CheckTimers \/ ResetTimerBase \/ TimersDone \/ PollAgain \/ Sleep \/ WakeUp
        \/ \E t \in Timers : Execute(t) \/ \E time \in DueTimes : ScheduleAtLocal(t, time)

(* Time passes, the I/O thread runs, and a wait ends when its time has come. *)
Fairness == /\ WF_vars(Tick)
            /\ WF_vars(CheckTimers) /\ WF_vars(ResetTimerBase) /\ WF_vars(TimersDone)
            /\ WF_vars(PollAgain)
            /\ WF_vars(WakeUp /\ now >= until)
            /\ \A t \in Timers : WF_vars(Execute(t))

Spec == Init /\ [][Next]_vars /\ Fairness

-----------------------------------------------------------------------------
(* Properties *)

(* Members hold what their types allow; the base is Past seconds or more   *)
(* behind the clock, the next reindexing before the timestamps run out,    *)
(* and none of them is past max_timestamp.                                 *)
TypeOk == /\ now \in 0..MaxTime
          /\ (base + Past) * Nanos <= now
          /\ base < reindex_due \div Nanos /\ reindex_due \div Nanos < max_time
          /\ Queued \subseteq started /\ started \subseteq Timers
          /\ \A t \in Queued : due[t] \in DueTimes /\ DueTimestamp(t) \in 0..MaxTimestamp
          /\ pc \in {"check", "timers", "poll", "asleep"}
          /\ current \in 0..MaxTimestamp

Runs(t) == t \in Queued /\ t \notin DOMAIN due'

(* However due times and the clock are rounded and cut off at both ends,   *)
(* and wherever the base is, no timer runs before its time; excepted are   *)
(* the rounds in which the base moved after the clock was read.            *)
EarlyOnlyAfterReindex == [][\A t \in Timers : Runs(t) => now >= due[t] \/ reindexed]_vars

(* A timer does not overtake another that was due a granule earlier, but   *)
(* for those that are due at the base, or were before it.                  *)
RunsInOrder ==
    [][\A t \in Timers : \A u \in Queued \ {t} :
           Runs(t) => \/ due[t] < due[u] + Grain
                      \/ due[t] <= base * Nanos
                      \/ reindexed]_vars

(* While the I/O thread sleeps, it does so no longer than until any timer  *)
(* is due, also those for which no timestamp is large enough.              *)
SleepsUntilDue ==
    pc = "asleep" => \A t \in Queued : until <= now \/ until < due[t] + Grain

(* A timer whose time comes is executed, however far it was from the base  *)
(* that it was first filed by.                                             *)
DueIsRun == \A t \in Timers : (t \in Queued /\ due[t] <= now) ~> (t \notin Queued)
=============================================================================
