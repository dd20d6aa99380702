------------------------------ MODULE MCErraid ------------------------------
(* Small instances of the daemon: minutes of two clock units, hours of two  *)
(* minutes, days of one hour.                                               *)
EXTENDS Erraid

MCMinuteLen == 2
MCLocalOffset(t) == 0

EveryMinute ==
    [type |-> "SIMPLE", schedule |-> "valid", command_count |-> 1,
     has_args |-> FALSE, minutes |-> {0, 1}, hours |-> {0}, weekdays |-> {0}]

OddMinutes ==
    [type |-> "SEQUENCE", schedule |-> "valid", command_count |-> 2,
     has_args |-> FALSE, minutes |-> {1}, hours |-> {0}, weekdays |-> {0}]

Unscheduled ==
    [type |-> "ABSTRACT", schedule |-> "none", command_count |-> 0,
     has_args |-> FALSE, minutes |-> {}, hours |-> {}, weekdays |-> {}]

WithArgs(body) == [body EXCEPT !.has_args = TRUE]

TwoCommands == [EveryMinute EXCEPT !.command_count = 2]

BadSchedule == [OddMinutes EXCEPT !.schedule = "malformed"]

TooManyCommands == [OddMinutes EXCEPT !.command_count = 3]

(* Tasks whose files can be read again: erraid restarts with them.         *)
TwoBodies == {EveryMinute, OddMinutes}

(* A task whose file can be read again and one whose file cannot.          *)
MixedBodies == {EveryMinute, WithArgs(OddMinutes)}

(* Tasks such as tadmor creates them: every command has an argument.       *)
AllBodies ==
    {Unscheduled} \cup
        {WithArgs(body) :
            body \in {EveryMinute, OddMinutes, BadSchedule, TwoCommands,
                      TooManyCommands}}

(* Two tasks' identifiers, and a task_id that cannot be parsed.            *)
TwoIdsOrNone == {-1, 1, 2}

(* Bound: two failures after one start, or one with a restart.             *)
FewMishaps == starts + faults <= 3
=============================================================================
