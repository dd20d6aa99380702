--------------------------- MODULE SchedulerScan ---------------------------
(***************************************************************************)
(* The search loop of scheduler_next_occurrence (src/src/shared/           *)
(* scheduler.c) as a state machine, one action per branch of the loop, for *)
(* one call on an arbitrary schedule and instant.                          *)
(***************************************************************************)
EXTENDS Scheduler

CONSTANTS
    CallSchedules,   \* the schedules a call may be made with
    CallInstants     \* the instants a call may be made with

ASSUME CallAssumption ==
    /\ CallSchedules \subseteq Schedule
    /\ CallInstants \subseteq Int

VARIABLES
    pc,          \* "entry", "loop" or "done"
    schedule,    \* the argument, never changed
    from_epoch,  \* the argument; set to 0 when it is negative
    called_from, \* the argument as the caller gave it
    current,     \* the candidate instant
    iterations,  \* minutes examined
    result       \* the value returned

vars == <<pc, schedule, from_epoch, called_from, current, iterations, result>>

Init ==
    /\ pc = "entry"
    /\ schedule \in CallSchedules
    /\ from_epoch \in CallInstants
    /\ called_from = from_epoch
    /\ current = 0
    /\ iterations = 0
    /\ result = -1

args == <<schedule, called_from>>

Return(value) == pc' = "done" /\ result' = value

(* if (!schedule->enabled) return -1                                       *)
Disabled ==
    /\ pc = "entry" /\ ~schedule.enabled
    /\ Return(-1)
    /\ UNCHANGED <<args, from_epoch, current, iterations>>

(* Mutant: the candidate of the current minute, not of the next one.       *)
EnterSameMinute ==
    /\ pc = "entry" /\ schedule.enabled
    /\ pc' = "loop"
    /\ from_epoch' = IF from_epoch < 0 THEN 0 ELSE from_epoch
    /\ current' = from_epoch' - (from_epoch' % MinuteLen)
    /\ UNCHANGED <<args, iterations, result>>

(* The clamp of a negative instant, and the first candidate.               *)
Enter ==
    /\ pc = "entry" /\ schedule.enabled
    /\ pc' = "loop"
    /\ from_epoch' = IF from_epoch < 0 THEN 0 ELSE from_epoch
    /\ current' = from_epoch' - (from_epoch' % MinuteLen) + MinuteLen
    /\ UNCHANGED <<args, iterations, result>>

(* Mutant: continue jumps over the increments.                             *)
SkipInPlace ==
    /\ pc = "loop" /\ iterations < MaxIterations
    /\ ~Allowed(schedule, current)
    /\ UNCHANGED vars

(* One of the three continue statements, then the loop's increments.       *)
Skip ==
    /\ pc = "loop" /\ iterations < MaxIterations
    /\ ~Allowed(schedule, current)
    /\ current' = current + MinuteLen
    /\ iterations' = iterations + 1
    /\ UNCHANGED <<args, pc, from_epoch, result>>

Found ==
    /\ pc = "loop" /\ iterations < MaxIterations
    /\ Allowed(schedule, current)
    /\ Return(current)
    /\ UNCHANGED <<args, from_epoch, current, iterations>>

(* errno = EOVERFLOW; return -1                                            *)
Exhausted ==
    /\ pc = "loop" /\ iterations >= MaxIterations
    /\ Return(-1)
    /\ UNCHANGED <<args, from_epoch, current, iterations>>

Next == Disabled \/ Enter \/ Skip \/ Found \/ Exhausted

Spec == Init /\ [][Next]_vars /\ WF_vars(Next)

-----------------------------------------------------------------------------
TypeOK ==
    /\ pc \in {"entry", "loop", "done"}
    /\ schedule \in CallSchedules
    /\ called_from \in CallInstants
    /\ from_epoch \in Int
    /\ current \in Int
    /\ iterations \in 0..MaxIterations
    /\ result \in Int

(* What the loop has established when it examines a candidate: the         *)
(* candidate is a whole number of minutes after the start, and no minute   *)
(* before it is allowed.                                                   *)
Scanned ==
    pc = "loop" =>
        /\ schedule.enabled
        /\ current = Candidate(called_from, iterations)
        /\ \A k \in 0..(iterations - 1) :
               ~Allowed(schedule, Candidate(called_from, k))

(* The loop returns the first allowed minute after the instant it is       *)
(* called with, and -1 only for a disabled schedule or when none of the    *)
(* minutes of the window is allowed: the early exit, the clamp and the     *)
(* iteration bound of scheduler_next_occurrence neither skip an allowed    *)
(* minute nor return one that is not.                                      *)
ScanCorrect ==
    pc = "done" => result = NextOccurrence(schedule, called_from)

(* A year of minutes is a window wide enough: for an enabled schedule that  *)
(* selects at least one minute, one hour and one weekday the search never   *)
(* ends with EOVERFLOW, also when a change of local time removes the only   *)
(* selected minute of one day or week.  Bits beyond minute 59, hour 23 and  *)
(* weekday 6 select nothing.                                                *)
WindowSuffices ==
    (pc = "done" /\ schedule.enabled /\ result = -1) =>
        \/ schedule.minutes \cap 0..(MinutesPerHour - 1) = {}
        \/ schedule.hours \cap 0..(HoursPerDay - 1) = {}
        \/ schedule.weekdays \cap 0..(DaysPerWeek - 1) = {}

(* The loop ends on every input: the iteration bound stops the search for  *)
(* a schedule whose masks select no minute.                                *)
ScanTerminates == <>(pc = "done")
=============================================================================
