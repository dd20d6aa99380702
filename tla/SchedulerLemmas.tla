-------------------------- MODULE SchedulerLemmas --------------------------
(***************************************************************************)
(* What the scheduler's operators return, for every calendar, time zone    *)
(* and schedule.                                                           *)
(***************************************************************************)
EXTENDS Scheduler, WellFoundedInduction, TLAPS

(* A non-empty set of naturals has a least element: Min picks it.        *)
LEMMA MinProperty ==
    ASSUME NEW S \in SUBSET Nat, S # {}
    PROVE  /\ Min(S) \in S
           /\ \A y \in S : Min(S) <= y
<1> DEFINE R == {ss \in Nat \X Nat : ss[1] < ss[2]}
<1>1. IsWellFoundedOn(R, Nat)
    BY NatLessThanWellFounded DEF OpToRel
<1>a. ASSUME NEW x \in Nat, NEW y \in Nat, y < x
      PROVE  <<y, x>> \in R
    <2>1. <<y, x>> \in Nat \X Nat
        OBVIOUS
    <2>2. <<y, x>>[1] = y /\ <<y, x>>[2] = x
        OBVIOUS
    <2>3. <<y, x>>[1] < <<y, x>>[2]
        BY <1>a, <2>2
    <2> QED
        BY <2>1, <2>3, Zenon
<1> HIDE DEF R
<1>2. \E x \in S : \A y \in S : <<y, x>> \notin R
    BY <1>1, WFMin
<1>3. PICK x \in S : \A y \in S : <<y, x>> \notin R
    BY <1>2
<1>4. ASSUME NEW y \in S
      PROVE  x <= y
    <2>1. x \in Nat /\ y \in Nat
        OBVIOUS
    <2>2. ~(y < x)
        BY <1>3, <1>a, <2>1
    <2> QED
        BY <2>1, <2>2
<1> QED
    BY <1>4 DEF Min

(* The search starts on a positive instant, strictly after the one it is   *)
(* given.                                                                  *)
LEMMA StartAfter ==
    ASSUME NEW t \in Int
    PROVE  /\ StartEpoch(t) \in Nat
           /\ StartEpoch(t) > t
BY MinuteLenAssumption DEF StartEpoch

(* A later instant never starts its search earlier.                        *)
LEMMA StartMonotone ==
    ASSUME NEW a \in Int, NEW b \in Int, a <= b
    PROVE  StartEpoch(a) <= StartEpoch(b)
<1> DEFINE A == IF a < 0 THEN 0 ELSE a
           B == IF b < 0 THEN 0 ELSE b
<1>1. A \in Nat /\ B \in Nat /\ A <= B
    OBVIOUS
<1>2. StartEpoch(a) = A - (A % MinuteLen) + MinuteLen
    BY DEF StartEpoch
<1>3. StartEpoch(b) = B - (B % MinuteLen) + MinuteLen
    BY DEF StartEpoch
<1> HIDE DEF A, B
<1>4. A - (A % MinuteLen) <= B - (B % MinuteLen)
    BY <1>1, MinuteLenAssumption
<1>5. A % MinuteLen \in Int /\ B % MinuteLen \in Int
    BY <1>1, MinuteLenAssumption
<1> QED
    BY <1>1, <1>2, <1>3, <1>4, <1>5, MinuteLenAssumption

(* The instants the search visits are naturals, none before its start.     *)
LEMMA CandidateBound ==
    ASSUME NEW t \in Int, NEW k \in Nat
    PROVE  /\ Candidate(t, k) \in Nat
           /\ Candidate(t, k) >= StartEpoch(t)
           /\ Candidate(t, k + 1) = Candidate(t, k) + MinuteLen
           /\ Candidate(t, 0) = StartEpoch(t)
BY StartAfter, MinuteLenAssumption DEF Candidate

(* An instant the search visits is a whole number of minutes: when it is   *)
(* after some instant, it is after the minute of that instant.             *)
LEMMA CandidateOnMinute ==
    ASSUME NEW t \in Int, NEW k \in Nat, NEW u \in Nat, Candidate(t, k) > u
    PROVE  Candidate(t, k) >= StartEpoch(u)
<1> DEFINE M == MinuteLen
           f == IF t < 0 THEN 0 ELSE t
           p == f \div M + 1 + k
           r == u \div M
<1>1. M \in Nat /\ M > 0 /\ f \in Nat
    BY MinuteLenAssumption
<1>2. p \in Int /\ r \in Int /\ f % M \in Int /\ u % M \in Int
    BY <1>1
<1>3. /\ f = M * (f \div M) + (f % M)
     /\ u = M * r + (u % M) /\ u % M >= 0
    BY <1>1
<1>4. Candidate(t, k) = M * p
    <2>1. Candidate(t, k) = f - (f % M) + M + k * M
        BY DEF Candidate, StartEpoch
    <2>2. f - (f % M) = M * (f \div M)
        BY <1>1, <1>2, <1>3
    <2>3. f \div M \in Int
        BY <1>1
    <2> HIDE DEF M, f
    <2> QED
        BY <1>1, <2>1, <2>2, <2>3 DEF p
<1>5. StartEpoch(u) = M * (r + 1)
    <2>1. StartEpoch(u) = u - (u % M) + M
        BY DEF StartEpoch
    <2> HIDE DEF M, r
    <2> QED
        BY <1>1, <1>2, <1>3, <2>1
<1> HIDE DEF M, f, p, r
<1>6. M * p > M * r
    <2>1. M * r <= u
        BY <1>1, <1>2, <1>3
    <2> QED
        BY <1>1, <1>2, <1>4, <2>1
<1>7. p >= r + 1
    BY <1>1, <1>2, <1>6
<1>8. M * p >= M * (r + 1)
    BY <1>1, <1>2, <1>7
<1> QED
    BY <1>4, <1>5, <1>8

(* An occurrence lies in a minute after that of the instant searched from, *)
(* the schedule allows it, and it is in a minute after that of every       *)
(* instant it comes after.                                                 *)
LEMMA NextOccurrenceResult ==
    ASSUME NEW s, NEW t \in Int
    PROVE  \/ NextOccurrence(s, t) = -1
           \/ /\ NextOccurrence(s, t) \in Nat
              /\ NextOccurrence(s, t) >= StartEpoch(t)
              /\ s.enabled
              /\ Allowed(s, NextOccurrence(s, t))
              /\ \A u \in Nat : NextOccurrence(s, t) > u
                                  => NextOccurrence(s, t) >= StartEpoch(u)
<1>1. CASE s.enabled /\ Hits(s, t) # {}
    <2>1. Hits(s, t) \in SUBSET Nat
        BY MaxIterationsAssumption DEF Hits
    <2>2. Min(Hits(s, t)) \in Hits(s, t)
        BY <1>1, <2>1, MinProperty
    <2>3. PICK k \in Nat : k = Min(Hits(s, t))
        BY <2>1, <2>2
    <2>4. Allowed(s, Candidate(t, k))
        BY <2>2, <2>3 DEF Hits
    <2> QED
        BY <1>1, <2>3, <2>4, CandidateBound, CandidateOnMinute
        DEF NextOccurrence
<1>2. CASE ~(s.enabled /\ Hits(s, t) # {})
    BY <1>2 DEF NextOccurrence
<1> QED
    BY <1>1, <1>2

(* A number is its quotient and its remainder.                             *)
LEMMA DivMod ==
    ASSUME NEW n \in Nat \ {0}, NEW q \in Int, NEW a \in 0..(n - 1)
    PROVE  (a + n * q) % n = a /\ (a + n * q) \div n = q
<1> DEFINE x == a + n * q
           p == x \div n
           r == x % n
<1>1. x \in Int /\ n * q \in Int
    OBVIOUS
<1>2. p \in Int /\ r \in 0..(n - 1) /\ x = n * p + r
    BY <1>1
<1>3. a + n * q = n * p + r
    BY <1>2
<1> HIDE DEF x, p, r
<1>4. n * (p - q) = a - r
    <2>1. n * (p - q) = n * p - n * q
        BY <1>2
    <2> QED
        BY <1>1, <1>2, <1>3, <2>1
<1>5. p - q = 0
    <2>1. CASE p - q >= 1
        <3>1. n * (p - q) >= n
            BY <1>2, <2>1
        <3> QED
            BY <1>2, <1>4, <3>1
    <2>2. CASE p - q <= -1
        <3>1. n * (p - q) <= -n
            BY <1>2, <2>2
        <3> QED
            BY <1>2, <1>4, <3>1
    <2> QED
        BY <1>2, <2>1, <2>2
<1>6. p = q /\ r = a
    BY <1>2, <1>4, <1>5
<1> QED
    BY <1>6 DEF p, r, x

(* Every integer has a quotient and a remainder.                           *)
LEMMA QuotientRemainder ==
    ASSUME NEW n \in Nat \ {0}, NEW a \in Int
    PROVE  \E r \in 0..(n - 1), q \in Int : a = n * q + r
<1>1. a % n \in 0..(n - 1) /\ a \div n \in Int /\ a = n * (a \div n) + (a % n)
    OBVIOUS
<1> QED
    BY <1>1

(* Two digits make a number below the product of their bases.              *)
LEMMA TwoDigits ==
    ASSUME NEW n \in Nat \ {0}, NEW k \in Nat \ {0},
           NEW a \in 0..(n - 1), NEW b \in 0..(k - 1)
    PROVE  a + n * b \in 0..(n * k - 1)
<1>1. n * b \in Nat /\ n * k \in Nat
    OBVIOUS
<1>2. n * b <= n * (k - 1)
    OBVIOUS
<1>3. n * (k - 1) = n * k - n
    OBVIOUS
<1> QED
    BY <1>1, <1>2, <1>3

(* A search starts on a whole minute.                                      *)
LEMMA StartWhole ==
    ASSUME NEW t \in Int
    PROVE  \E p \in Nat : StartEpoch(t) = MinuteLen * p
<1> DEFINE f == IF t < 0 THEN 0 ELSE t
<1>1. MinuteLen \in Nat \ {0} /\ f \in Nat
    BY MinuteLenAssumption
<1>2. StartEpoch(t) = f - (f % MinuteLen) + MinuteLen
    BY DEF StartEpoch
<1> HIDE DEF f
<1>3. PICK q \in Nat : q = f \div MinuteLen
    BY <1>1
<1>4. f = MinuteLen * q + (f % MinuteLen) /\ f % MinuteLen \in Int
    BY <1>1, <1>3
<1>5. StartEpoch(t) = MinuteLen * (q + 1)
    BY <1>1, <1>2, <1>3, <1>4
<1> QED
    BY <1>3, <1>5

Week == MinutesPerHour * (HoursPerDay * DaysPerWeek)

WholeOffsets == \A t \in Nat : LocalOffset(t) \in Int

(* The n minutes of a search from the b-th on have one offset.             *)
Steady(t, b, n) ==
    \A k \in 0..(n - 1) :
        LocalOffset(Candidate(t, b + k)) = LocalOffset(Candidate(t, b))

(* Every window holds a week in which local time is at a constant distance *)
(* of UTC.                                                                 *)
SteadyWeek ==
    /\ WholeOffsets
    /\ \A t \in Int : \E b \in 0..(MaxIterations - Week) : Steady(t, b, Week)

(* After a change of local time there is none for a week, and the window   *)
(* has two weeks: daylight saving, searched for a year.                    *)
RareChanges ==
    /\ WholeOffsets
    /\ MaxIterations >= 2 * Week
    /\ \A t \in Int, i \in 1..(Week - 1) :
           LocalOffset(Candidate(t, i)) # LocalOffset(Candidate(t, i - 1)) =>
               Steady(t, i, Week)

LEMMA WeekIsPositive == Week \in Nat \ {0}
<1>0. PICK A \in Nat \ {0}, B \in Nat \ {0}, D \in Nat \ {0} :
          A = MinutesPerHour /\ B = HoursPerDay /\ D = DaysPerWeek
    BY CalendarAssumption
<1>1. B * D \in Nat \ {0}
    OBVIOUS
<1>2. A * (B * D) \in Nat \ {0}
    BY <1>1
<1> QED
    BY <1>0, <1>2 DEF Week

(* Daylight saving leaves a steady week in every window: the first, or the *)
(* one that follows the first change.                                      *)
LEMMA DaylightSaving ==
    ASSUME RareChanges
    PROVE  SteadyWeek
<1>1. PICK W \in Nat \ {0}, N \in Nat : W = Week /\ N = MaxIterations /\ N >= 2 * W
    BY WeekIsPositive, MaxIterationsAssumption DEF RareChanges
<1>2. ASSUME NEW t \in Int
      PROVE  \E b \in 0..(N - W) : Steady(t, b, W)
    <2> DEFINE offset(k) == LocalOffset(Candidate(t, k))
               Changed == {k \in 0..(W - 1) : offset(k) # offset(0)}
    <2>1. CASE Changed = {}
        <3>1. Steady(t, 0, W)
            BY <2>1 DEF Steady
        <3>2. 0 \in 0..(N - W)
            BY <1>1
        <3> QED
            BY <3>1, <3>2
    <2>2. CASE Changed # {}
        <3>1. Changed \in SUBSET Nat
            OBVIOUS
        <3>2. PICK c \in Changed : \A k \in Changed : c <= k
            BY <2>2, <3>1, MinProperty
        <3>3. c \in 1..(W - 1) /\ c - 1 \in 0..(W - 1) /\ ~(c <= c - 1)
            <4>1. c \in 0..(W - 1) /\ c # 0
                BY <3>2
            <4> QED
                BY <4>1
        <3>4. offset(c - 1) = offset(0) /\ offset(c) # offset(0)
            BY <3>2, <3>3
        <3>5. Steady(t, c, W)
            BY <1>1, <3>3, <3>4 DEF RareChanges
        <3>6. c \in 0..(N - W)
            BY <1>1, <3>3
        <3> QED
            BY <3>5, <3>6
    <2> QED
        BY <2>1, <2>2
<1> QED
    BY <1>1, <1>2 DEF SteadyWeek, RareChanges

(* The n minutes from the b-th on, the offset added, are x, x + 1, ...     *)
Consecutive(t, b, n, x) ==
    \A k \in 0..(n - 1) :
        Candidate(t, b + k) \div MinuteLen + LocalOffset(Candidate(t, b + k))
            = x + k

(* The minutes of a steady part of a search are consecutive in local time. *)
LEMMA SearchedMinute ==
    ASSUME WholeOffsets, NEW t \in Int, NEW b \in Nat, NEW n \in Nat,
           Steady(t, b, n)
    PROVE  \E x \in Int : Consecutive(t, b, n, x)
<1>1. PICK p \in Nat : StartEpoch(t) = MinuteLen * p
    BY StartWhole
<1>2. PICK o \in Int : o = LocalOffset(Candidate(t, b))
    BY CandidateBound DEF WholeOffsets
<1>3. ASSUME NEW k \in 0..(n - 1)
      PROVE  Candidate(t, b + k) \div MinuteLen
                 + LocalOffset(Candidate(t, b + k)) = (p + b + o) + k
    <2>1. Candidate(t, b + k) = 0 + MinuteLen * (p + (b + k))
        BY <1>1, MinuteLenAssumption DEF Candidate
    <2>2. Candidate(t, b + k) \div MinuteLen = p + (b + k)
        <3>1. 0 \in 0..(MinuteLen - 1) /\ p + (b + k) \in Int
            BY MinuteLenAssumption
        <3>2. (0 + MinuteLen * (p + (b + k))) \div MinuteLen = p + (b + k)
            BY <3>1, MinuteLenAssumption, DivMod
        <3> QED
            BY <2>1, <3>2
    <2>3. LocalOffset(Candidate(t, b + k)) = o
        BY <1>2 DEF Steady
    <2> QED
        BY <2>2, <2>3
<1>4. p + b + o \in Int
    OBVIOUS
<1> QED
    BY <1>3, <1>4 DEF Consecutive

(* What local time reads in a minute counted from that of all zeros.       *)
LEMMA LocalDigits ==
    ASSUME NEW t \in Nat, NEW q \in Int,
           NEW m \in 0..(MinutesPerHour - 1), NEW h \in 0..(HoursPerDay - 1),
           NEW d \in 0..(DaysPerWeek - 1), NEW e \in Int,
           (e + EpochWeekday) % DaysPerWeek = d,
           t \div MinuteLen + LocalOffset(t)
               = m + MinutesPerHour * (h + HoursPerDay * e)
    PROVE  LocalTime(t) = [tm_min |-> m, tm_hour |-> h, tm_wday |-> d]
<1> DEFINE hour == h + HoursPerDay * e
           minute == m + MinutesPerHour * hour
<1>1. hour \in Int /\ minute \in Int
    BY CalendarAssumption
<1>2. hour % HoursPerDay = h /\ hour \div HoursPerDay = e
    BY CalendarAssumption, DivMod
<1>3. t \div MinuteLen + LocalOffset(t) = minute
    OBVIOUS
<1> HIDE DEF hour
<1>4. minute % MinutesPerHour = m /\ minute \div MinutesPerHour = hour
    BY <1>1, CalendarAssumption, DivMod
<1> HIDE DEF minute
<1> QED
    BY <1>2, <1>3, <1>4 DEF LocalTime

(* A window with a steady week holds every minute of the week.             *)
LEMMA WindowHit ==
    ASSUME SteadyWeek, NEW s, NEW t \in Int,
           NEW m \in s.minutes, m \in 0..(MinutesPerHour - 1),
           NEW h \in s.hours, h \in 0..(HoursPerDay - 1),
           NEW d \in s.weekdays, d \in 0..(DaysPerWeek - 1)
    PROVE  Hits(s, t) # {}
<1>0. PICK A \in Nat \ {0}, B \in Nat \ {0}, D \in Nat \ {0} :
          A = MinutesPerHour /\ B = HoursPerDay /\ D = DaysPerWeek
    BY CalendarAssumption
<1>a. EpochWeekday \in Int
    BY CalendarAssumption
<1>b. PICK b \in 0..(MaxIterations - Week) : Steady(t, b, Week)
    BY DEF SteadyWeek
<1>c. b \in Nat
    BY MaxIterationsAssumption, WeekIsPositive
<1>1. PICK x \in Int : Consecutive(t, b, Week, x)
    <2>1. WholeOffsets /\ Week \in Nat
        BY WeekIsPositive DEF SteadyWeek
    <2> QED
        BY <1>b, <1>c, <2>1, SearchedMinute, Zenon
<1>2. PICK e \in 0..(D - 1), r \in Int : d - EpochWeekday = D * r + e
    <2>1. d - EpochWeekday \in Int
        BY <1>0, <1>a
    <2> QED
        BY <1>0, <2>1, QuotientRemainder
<1>3. PICK W \in Nat \ {0} : W = A * (B * D) /\ W = Week
    <2>1. B * D \in Nat \ {0}
        BY <1>0
    <2>2. A * (B * D) \in Nat \ {0}
        BY <1>0, <2>1
    <2> QED
        BY <1>0, <2>2 DEF Week
<1>4. PICK y \in Int : y = m + A * (h + B * e)
    BY <1>0
<1>5. PICK k \in 0..(W - 1), q \in Int : y - x = W * q + k
    <2>1. y - x \in Int
        OBVIOUS
    <2> QED
        BY <1>3, <2>1, QuotientRemainder
<1>6. x + k = m + A * (h + B * (e - D * q))
    <2>1. x + k = y - W * q
        <3>1. W * q \in Int
            BY <1>3
        <3> QED
            BY <1>5, <3>1
    <2>2. W * q = A * (B * (D * q))
        BY <1>0, <1>3, <1>5
    <2>3. PICK v \in Int : v = D * q
        BY <1>0, <1>5
    <2>4. h + B * (e - v) = (h + B * e) - B * v
        BY <1>0, <1>2, <2>3
    <2>5. PICK z \in Int : z = h + B * e
        BY <1>0, <1>2
    <2>6. PICK w \in Int : w = B * v
        BY <1>0, <2>3
    <2>7. A * (z - w) = A * z - A * w
        BY <1>0
    <2> QED
        BY <1>0, <1>4, <2>1, <2>2, <2>3, <2>4, <2>5, <2>6, <2>7
<1>7. (e - D * q + EpochWeekday) % D = d
    <2>1. d \in 0..(D - 1)
        BY <1>0
    <2>2. PICK u \in Int : u = 0 - (q + r)
        BY <1>2, <1>5
    <2>3. e - D * q + EpochWeekday = d + D * u
        <3>1. D * u = 0 - (D * q + D * r)
            BY <1>0, <1>2, <1>5, <2>2
        <3>2. D * q \in Int /\ D * r \in Int
            BY <1>0, <1>2, <1>5
        <3> QED
            BY <1>2, <1>a, <2>1, <3>1, <3>2
    <2>4. (d + D * u) % D = d
        BY <1>0, <2>1, <2>2, DivMod
    <2> QED
        BY <2>3, <2>4
<1>8. /\ k \in Nat /\ b + k \in Nat /\ Candidate(t, b + k) \in Nat
      /\ e - D * q \in Int
    <2>1. k \in Nat /\ e \in Int
        BY <1>0, <1>2, <1>3, <1>5
    <2>2. b + k \in Nat
        BY <1>c, <2>1
    <2>5. Candidate(t, b + k) \in Nat
        BY <2>2, CandidateBound
    <2>3. PICK v \in Int : v = D * q
        BY <1>0, <1>5
    <2>4. e - v \in Int
        BY <2>1
    <2> QED
        BY <2>1, <2>2, <2>3, <2>4, <2>5
<1>9. LocalTime(Candidate(t, b + k)) = [tm_min |-> m, tm_hour |-> h, tm_wday |-> d]
    <2>1. Candidate(t, b + k) \div MinuteLen + LocalOffset(Candidate(t, b + k))
              = m + A * (h + B * (e - D * q))
        BY <1>1, <1>3, <1>6 DEF Consecutive
    <2> QED
        BY <1>0, <1>7, <1>8, <2>1, LocalDigits
<1>10. Allowed(s, Candidate(t, b + k))
    BY <1>9 DEF Allowed
<1>11. b + k \in 0..(MaxIterations - 1)
    BY <1>3, <1>5, <1>c, MaxIterationsAssumption
<1> QED
    BY <1>10, <1>11 DEF Hits

(* The digits of local time are within their bases.                        *)
LEMMA LocalTimeTypes ==
    ASSUME WholeOffsets, NEW t \in Nat
    PROVE  /\ LocalTime(t).tm_min \in 0..(MinutesPerHour - 1)
           /\ LocalTime(t).tm_hour \in 0..(HoursPerDay - 1)
           /\ LocalTime(t).tm_wday \in 0..(DaysPerWeek - 1)
<1> DEFINE minute == t \div MinuteLen + LocalOffset(t)
           hour   == minute \div MinutesPerHour
<1>1. minute \in Int
    BY MinuteLenAssumption DEF WholeOffsets
<1> HIDE DEF minute
<1>2. hour \in Int /\ minute % MinutesPerHour \in 0..(MinutesPerHour - 1)
    BY <1>1, CalendarAssumption
<1> HIDE DEF hour
<1>3. hour \div HoursPerDay \in Int /\ hour % HoursPerDay \in 0..(HoursPerDay - 1)
    BY <1>2, CalendarAssumption
<1>4. PICK day \in Int : day = hour \div HoursPerDay + EpochWeekday
    BY <1>3, CalendarAssumption
<1>5. day % DaysPerWeek \in 0..(DaysPerWeek - 1)
    BY CalendarAssumption
<1> QED
    BY <1>2, <1>3, <1>4, <1>5 DEF LocalTime, minute, hour

(* A later search finds nothing before what an earlier one finds, which    *)
(* finds something if the later one does.                                  *)
LEMMA NextMonotone ==
    ASSUME SteadyWeek,
           NEW s, NEW t \in Nat, NEW u \in Nat, t <= u,
           NextOccurrence(s, u) # -1
    PROVE  /\ NextOccurrence(s, t) # -1
           /\ NextOccurrence(s, t) <= NextOccurrence(s, u)
<1>1. PICK n : n = NextOccurrence(s, u)
    OBVIOUS
<1>2. s.enabled /\ Hits(s, u) # {} /\ n = Candidate(u, Min(Hits(s, u)))
    BY <1>1 DEF NextOccurrence
<1>3. PICK k \in Nat : k \in Hits(s, u) /\ k = Min(Hits(s, u))
    <2>1. Hits(s, u) \in SUBSET Nat
        BY MaxIterationsAssumption DEF Hits
    <2> QED
        BY <1>2, <2>1, MinProperty
<1>4. Allowed(s, n) /\ n \in Nat /\ n = Candidate(u, k)
    BY <1>2, <1>3, CandidateBound DEF Hits
<1>5. Hits(s, t) # {}
    <2>1. PICK m \in 0..(MinutesPerHour - 1), h \in 0..(HoursPerDay - 1),
               d \in 0..(DaysPerWeek - 1) :
                   /\ m = LocalTime(n).tm_min
                   /\ h = LocalTime(n).tm_hour
                   /\ d = LocalTime(n).tm_wday
        BY <1>4, LocalTimeTypes, Zenon DEF SteadyWeek
    <2>2. m \in s.minutes /\ h \in s.hours /\ d \in s.weekdays
        BY <1>4, <2>1 DEF Allowed
    <2>3. t \in Int
        OBVIOUS
    <2>4. ASSUME NEW r \in Int
          PROVE  Hits(s, r) # {}
        BY <2>1, <2>2, WindowHit
    <2> QED
        BY <2>3, <2>4
<1>6. PICK j \in Nat : /\ j \in Hits(s, t)
                       /\ \A y \in Hits(s, t) : j <= y
                       /\ j = Min(Hits(s, t))
    <2>1. Hits(s, t) \in SUBSET Nat
        BY MaxIterationsAssumption DEF Hits
    <2> QED
        BY <1>5, <2>1, MinProperty
<1>7. NextOccurrence(s, t) = Candidate(t, j) /\ Candidate(t, j) \in Nat
    BY <1>2, <1>5, <1>6, CandidateBound DEF NextOccurrence
<1>8. Candidate(t, j) <= n
    <2>1. PICK a \in Nat : StartEpoch(t) = MinuteLen * a
        BY StartWhole
    <2>2. PICK b \in Nat : StartEpoch(u) = MinuteLen * b
        BY StartWhole
    <2>3. PICK M \in Nat \ {0} : M = MinuteLen
        BY MinuteLenAssumption
    <2>4. \A i \in Nat : Candidate(t, i) = M * (a + i)
        BY <2>1, <2>3 DEF Candidate
    <2>5. n = M * (b + k)
        BY <1>4, <2>2, <2>3 DEF Candidate
    <2>6. M * a <= M * b
        BY <2>1, <2>2, <2>3, StartMonotone
    <2>7. a <= b
        BY <2>3, <2>6
    <2>8. PICK i \in Nat : i = b + k - a
        BY <2>7
    <2>9. Candidate(t, i) = n
        BY <2>4, <2>5, <2>8
    <2>10. CASE i < j
        <3>1. i \in Hits(s, t)
            <4>1. j \in 0..(MaxIterations - 1)
                BY <1>6 DEF Hits
            <4>2. i \in 0..(MaxIterations - 1)
                BY <2>10, <4>1, MaxIterationsAssumption
            <4> QED
                BY <1>4, <2>9, <4>2 DEF Hits
        <3> QED
            BY <1>6, <2>10, <3>1
    <2>11. CASE j <= i
        <3>1. M * (a + j) <= M * (a + i)
            BY <2>3, <2>11
        <3> QED
            BY <2>4, <2>9, <3>1
    <2> QED
        BY <2>10, <2>11
<1> QED
    BY <1>1, <1>7, <1>8

=============================================================================
