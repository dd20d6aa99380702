-------------------------- MODULE SchedulerProofs --------------------------
(***************************************************************************)
(* The search loop computes NextOccurrence, for every calendar, time zone  *)
(* and schedule.                                                           *)
(***************************************************************************)
EXTENDS SchedulerScan, SchedulerLemmas

(* The loop's inductive invariant: its types, and what it has established  *)
(* when it examines a candidate.                                           *)
ScanInv == TypeOK /\ Scanned /\ ScanCorrect
                  /\ (pc = "entry" => from_epoch = called_from /\ iterations = 0)

(* The first allowed candidate, and the absence of any, in terms of        *)
(* NextOccurrence.                                                         *)
LEMMA FirstHit ==
    ASSUME NEW s, s.enabled, NEW t \in Int,
           NEW k \in 0..(MaxIterations - 1),
           Allowed(s, Candidate(t, k)),
           \A j \in 0..(k - 1) : ~Allowed(s, Candidate(t, j))
    PROVE  NextOccurrence(s, t) = Candidate(t, k)
<1>1. Hits(s, t) \in SUBSET Nat /\ k \in Hits(s, t)
    BY MaxIterationsAssumption DEF Hits
<1>2. Min(Hits(s, t)) \in Hits(s, t) /\ Min(Hits(s, t)) <= k
    BY <1>1, MinProperty
<1>3. \A j \in Hits(s, t) : j \in Nat /\ Allowed(s, Candidate(t, j))
    BY MaxIterationsAssumption DEF Hits
<1>4. Min(Hits(s, t)) = k
    BY <1>1, <1>2, <1>3
<1> QED
    BY <1>1, <1>4 DEF NextOccurrence

(* When no allowed minute of the window is left, the search has no result. *)
LEMMA NoHit ==
    ASSUME NEW s, NEW t \in Int,
           \A j \in 0..(MaxIterations - 1) : ~Allowed(s, Candidate(t, j))
    PROVE  NextOccurrence(s, t) = -1
BY DEF NextOccurrence, Hits

(* The loop has passed over no allowed minute of its window.               *)
LEMMA ScanInvHolds == Spec => []ScanInv
<1>1. Init => ScanInv
    BY CallAssumption, MaxIterationsAssumption
    DEF Init, ScanInv, TypeOK, Scanned, ScanCorrect
<1>2. ScanInv /\ [Next]_vars => ScanInv'
    <2> SUFFICES ASSUME ScanInv, [Next]_vars
                 PROVE  ScanInv'
        OBVIOUS
    <2>0. called_from \in Int
        BY CallAssumption DEF ScanInv, TypeOK
    <2>1. CASE Disabled
        <3>1. NextOccurrence(schedule, called_from) = -1
            BY <2>1 DEF Disabled, NextOccurrence
        <3> QED
            BY <2>1, <3>1
            DEF Disabled, Return, args, ScanInv, TypeOK, Scanned, ScanCorrect
    <2>2. CASE Enter
        <3>1. current' = StartEpoch(called_from)
            BY <2>2 DEF Enter, StartEpoch, ScanInv
        <3>2. current' = Candidate(called_from, 0) /\ current' \in Int
            BY <3>1, <2>0, StartAfter, CandidateBound
        <3> QED
            BY <2>2, <3>2
            DEF Enter, args, ScanInv, TypeOK, Scanned, ScanCorrect
    <2>3. CASE Skip
        <3>1. current = Candidate(called_from, iterations) /\ iterations \in Nat
            BY <2>3 DEF Skip, ScanInv, TypeOK, Scanned
        <3>2. current' = Candidate(called_from, iterations + 1) /\ current' \in Int
            BY <2>3, <2>0, <3>1, CandidateBound DEF Skip
        <3>3. \A k \in 0..iterations : ~Allowed(schedule, Candidate(called_from, k))
            BY <2>3, <3>1 DEF Skip, ScanInv, Scanned
        <3> QED
            BY <2>3, <3>1, <3>2, <3>3, MaxIterationsAssumption
            DEF Skip, args, ScanInv, TypeOK, Scanned, ScanCorrect
    <2>4. CASE Found
        <3>1. /\ current = Candidate(called_from, iterations)
              /\ iterations \in 0..(MaxIterations - 1)
              /\ schedule.enabled
            BY <2>4, MaxIterationsAssumption DEF Found, ScanInv, TypeOK, Scanned
        <3>2. NextOccurrence(schedule, called_from) = current
            BY <2>4, <2>0, <3>1, FirstHit DEF Found, ScanInv, Scanned
        <3> QED
            BY <2>4, <3>2
            DEF Found, Return, args, ScanInv, TypeOK, Scanned, ScanCorrect
    <2>5. CASE Exhausted
        <3>1. iterations = MaxIterations
            BY <2>5, MaxIterationsAssumption DEF Exhausted, ScanInv, TypeOK
        <3>2. NextOccurrence(schedule, called_from) = -1
            BY <2>5, <2>0, <3>1, NoHit DEF Exhausted, ScanInv, Scanned
        <3> QED
            BY <2>5, <3>2
            DEF Exhausted, Return, args, ScanInv, TypeOK, Scanned, ScanCorrect
    <2>6. CASE UNCHANGED vars
        BY <2>6 DEF vars, ScanInv, TypeOK, Scanned, ScanCorrect
    <2> QED
        BY <2>1, <2>2, <2>3, <2>4, <2>5, <2>6 DEF Next
<1> QED
    BY <1>1, <1>2, PTL DEF Spec

(* For every schedule, instant, calendar and time zone, the loop's         *)
(* variables keep their types.                                             *)
THEOREM ScanTypes == Spec => []TypeOK
BY ScanInvHolds, PTL DEF ScanInv

(* For every schedule, instant, calendar and time zone, what the search    *)
(* loop of scheduler_next_occurrence returns is the first allowed minute   *)
(* after the instant, or -1 when there is none.                            *)
THEOREM ScanIsCorrect == Spec => []ScanCorrect
BY ScanInvHolds, PTL DEF ScanInv

(* For every calendar, a window in which local time keeps its distance of  *)
(* UTC for a week is enough: the search of an enabled schedule whose masks *)
(* select a minute, an hour and a weekday never ends with EOVERFLOW.  The  *)
(* code's window is a year, and daylight saving leaves it such a week      *)
(* (DaylightSaving).                                                       *)
THEOREM WindowIsEnough ==
    ASSUME SteadyWeek
    PROVE  Spec => []WindowSuffices
<1>1. ScanInv => WindowSuffices
    <2> SUFFICES ASSUME ScanInv, pc = "done", schedule.enabled, result = -1,
                        NEW m \in schedule.minutes, m \in 0..(MinutesPerHour - 1),
                        NEW h \in schedule.hours, h \in 0..(HoursPerDay - 1),
                        NEW d \in schedule.weekdays, d \in 0..(DaysPerWeek - 1)
                 PROVE  FALSE
        BY DEF WindowSuffices
    <2>1. called_from \in Int /\ NextOccurrence(schedule, called_from) = -1
        BY CallAssumption DEF ScanInv, TypeOK, ScanCorrect
    <2>2. Hits(schedule, called_from) # {}
        BY <2>1, WindowHit
    <2>3. Hits(schedule, called_from) \in SUBSET Nat
        BY MaxIterationsAssumption DEF Hits
    <2>4. Min(Hits(schedule, called_from)) \in Nat
        BY <2>2, <2>3, MinProperty
    <2>5. NextOccurrence(schedule, called_from) \in Nat
        BY <2>1, <2>2, <2>4, CandidateBound DEF NextOccurrence
    <2> QED
        BY <2>1, <2>5
<1> QED
    BY <1>1, ScanInvHolds, PTL
=============================================================================
