------------------------------- MODULE MCLoop -------------------------------
(* Small instances of the loop: minutes of three ticks.                     *)
EXTENDS Loop

(* One task every minute and one every third minute.                       *)
TwoPeriods == <<3, 9>>

(* A run of each fits in a minute.                                         *)
ShortRuns == <<{0, 1}, {0, 1}>>

(* The runs of the first may last a whole minute.                          *)
LongRuns == <<{0, 3}, {1, 2}>>
BothWorkloads == {ShortRuns, LongRuns}
=============================================================================
