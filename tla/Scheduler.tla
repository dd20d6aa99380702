----------------------------- MODULE Scheduler -----------------------------
(***************************************************************************)
(* The pure part of src/src/shared/scheduler.c: which minutes a schedule   *)
(* selects, the next of them after a given instant, and the plan computed  *)
(* for an array of tasks.  Time is an integer number of clock units;       *)
(* MinuteLen of them make a minute (60 in the code).  The calendar's       *)
(* lengths are parameters so that TLC can check it on short weeks.         *)
(*                                                                         *)
(* A bit mask is the set of the positions of its bits.                     *)
(***************************************************************************)
EXTENDS Integers, Sequences, FiniteSets, FiniteSetsExt

CONSTANTS
    MinuteLen,       \* clock units per minute (60)
    MinutesPerHour,  \* 60
    HoursPerDay,     \* 24
    DaysPerWeek,     \* 7
    EpochWeekday,    \* tm_wday of the epoch (4, a Thursday)
    MaxIterations,   \* minutes searched (366 * 24 * 60)
    LocalOffset(_)   \* minutes localtime_r adds to UTC at an instant

ASSUME MinuteLenAssumption == MinuteLen \in Nat \ {0}
ASSUME MaxIterationsAssumption == MaxIterations \in Nat
ASSUME CalendarAssumption ==
    /\ MinutesPerHour \in Nat \ {0}
    /\ HoursPerDay \in Nat \ {0}
    /\ DaysPerWeek \in Nat \ {0}
    /\ EpochWeekday \in 0..(DaysPerWeek - 1)

Schedule ==
    [enabled  : BOOLEAN,
     minutes  : SUBSET Nat,
     hours    : SUBSET Nat,
     weekdays : SUBSET Nat]

-----------------------------------------------------------------------------
(* localtime_r: an external conversion, whose only parameter is the offset  *)
(* of the time zone at that instant (it changes with daylight saving).      *)
LocalTime(t) ==
    LET minute == t \div MinuteLen + LocalOffset(t)
        hour   == minute \div MinutesPerHour
    IN  [tm_min  |-> minute % MinutesPerHour,
         tm_hour |-> hour % HoursPerDay,
         tm_wday |-> (hour \div HoursPerDay + EpochWeekday) % DaysPerWeek]

(* Mutant: weekdays counted from 1.                                         *)
AllowedFromOne(schedule, t) ==
    LET tm == LocalTime(t)
    IN  /\ tm.tm_wday + 1 \in schedule.weekdays
        /\ tm.tm_hour \in schedule.hours
        /\ tm.tm_min \in schedule.minutes

(* The three tests of the search loop on one candidate instant.             *)
Allowed(schedule, t) ==
    LET tm == LocalTime(t)
    IN  /\ tm.tm_wday \in schedule.weekdays
        /\ tm.tm_hour \in schedule.hours
        /\ tm.tm_min \in schedule.minutes

(* The instant the search starts from: the first minute boundary strictly   *)
(* after from_epoch, a negative from_epoch counting as 0.                   *)
StartEpoch(from_epoch) ==
    LET from == IF from_epoch < 0 THEN 0 ELSE from_epoch
    IN  from - (from % MinuteLen) + MinuteLen

(* The k-th instant the search visits.                                      *)
Candidate(from_epoch, k) == StartEpoch(from_epoch) + k * MinuteLen

(* The iterations at which the search would stop.                           *)
Hits(schedule, from_epoch) ==
    {k \in 0..(MaxIterations - 1) : Allowed(schedule, Candidate(from_epoch, k))}

(* What scheduler_next_occurrence returns: the first hit, -1 for a disabled *)
(* schedule or when the window holds none (EOVERFLOW).  SchedulerScan has   *)
(* the loop itself, and proves that it computes this.  The -1 of a failed   *)
(* localtime_r is left out: LocalOffset gives every instant a local time.   *)
NextOccurrence(schedule, from_epoch) ==
    IF schedule.enabled /\ Hits(schedule, from_epoch) # {}
    THEN Candidate(from_epoch, Min(Hits(schedule, from_epoch)))
    ELSE -1

(* Mutant: indices one too low.                                            *)
ComputePlanShifted(tasks, reference_epoch) ==
    [i \in 1..Len(tasks) |->
        [task_id    |-> tasks[i].task_id,
         task_index |-> i - 1,
         next_epoch |-> NextOccurrence(tasks[i].schedule, reference_epoch)]]

(* scheduler_compute_plan: one entry per task, in the order of the array.   *)
(* Indices start at 1 here and at 0 in the code.                            *)
ComputePlan(tasks, reference_epoch) ==
    [i \in 1..Len(tasks) |->
        [task_id    |-> tasks[i].task_id,
         task_index |-> i,
         next_epoch |-> NextOccurrence(tasks[i].schedule, reference_epoch)]]
=============================================================================
