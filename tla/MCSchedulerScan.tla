-------------------------- MODULE MCSchedulerScan --------------------------
(* A week of two days of two hours of two minutes of two clock units, with  *)
(* a daylight saving hour, so that every combination of masks (each with    *)
(* one position beyond the calendar's) is tried from every phase.           *)
EXTENDS SchedulerScan

MCMinuteLen == 2
MCMinutesPerHour == 2
MCHoursPerDay == 2
MCDaysPerWeek == 2
MCEpochWeekday == 1
MCMaxIterations == 20

(* One hour is added from minute 5 to minute 11: local time jumps over an   *)
(* hour, then repeats one.                                                  *)
MCLocalOffset(t) ==
    IF t \div MCMinuteLen \in 5..11 THEN 1 + MCMinutesPerHour ELSE 1

MCCallSchedules ==
    [enabled : {TRUE}, minutes : SUBSET (0..2), hours : SUBSET (0..2),
     weekdays : SUBSET (0..2)]
        \cup [enabled : {FALSE}, minutes : {{0}}, hours : {{0}}, weekdays : {{0}}]

MCCallInstants == -2..17

=============================================================================
