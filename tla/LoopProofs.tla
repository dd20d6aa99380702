---------------------------- MODULE LoopProofs ----------------------------
(***************************************************************************)
(* For any number of clients and tasks, any periods of whole minutes and   *)
(* any workload whose runs fit in a minute: no client waits a minute for   *)
(* its answer, and no run starts a minute after its deadline.              *)
(***************************************************************************)
EXTENDS Loop, WellFoundedInduction, TLAPS

-----------------------------------------------------------------------------
(* Whole minutes                                                           *)

Multiple(x) == \E k \in Int : x = k * MinuteLen

LEMMA Lengths ==
    /\ TaskCount \in Nat /\ AllTasks = 1..TaskCount
    /\ MinuteLen \in Nat /\ MinuteLen >= 1
    /\ Cycle \in Nat /\ Cycle >= 1 /\ MaxSleep \in Nat /\ MaxSleep >= 1
    /\ \A t \in AllTasks : Period[t] \in Nat /\ Period[t] >= 1
<1>1. /\ TaskCount \in Nat /\ MinuteLen \in Nat \ {0} /\ Cycle \in Nat \ {0}
      /\ MaxSleep \in Nat \ {0} /\ Period \in [AllTasks -> Nat \ {0}]
    BY LoopAssumption
<1>2. \A t \in AllTasks : Period[t] \in Nat \ {0}
    BY <1>1
<1> QED
    BY <1>1, <1>2 DEF AllTasks

LEMMA MultipleSum ==
    ASSUME NEW x \in Int, NEW y \in Int, Multiple(x), Multiple(y)
    PROVE  Multiple(x + y) /\ Multiple(x - y)
<1>1. PICK j \in Int, k \in Int : x = j * MinuteLen /\ y = k * MinuteLen
    BY DEF Multiple
<1>2. /\ x + y = (j + k) * MinuteLen /\ x - y = (j - k) * MinuteLen
      /\ j + k \in Int /\ j - k \in Int
    BY <1>1, Lengths
<1> QED
    BY <1>2 DEF Multiple

LEMMA MultipleTimes ==
    ASSUME NEW x \in Int, NEW k \in Int, Multiple(x)
    PROVE  Multiple(x * k)
<1>1. PICK j \in Int : x = j * MinuteLen
    BY DEF Multiple
<1>2. x * k = (j * k) * MinuteLen /\ j * k \in Int
    BY <1>1, Lengths
<1> QED
    BY <1>2 DEF Multiple

LEMMA MultiplePositive ==
    ASSUME NEW x \in Int, Multiple(x), x > 0
    PROVE  x >= MinuteLen
<1>1. PICK k \in Int : x = k * MinuteLen
    BY DEF Multiple
<1>2. CASE k <= 0
    <2>1. k * MinuteLen <= 0
        BY <1>2, Lengths
    <2> QED
        BY <1>1, <2>1
<1>3. CASE k >= 1
    <2>1. k * MinuteLen = MinuteLen + (k - 1) * MinuteLen
        BY Lengths
    <2>2. (k - 1) * MinuteLen >= 0
        BY <1>3, Lengths
    <2> QED
        BY <1>1, <2>1, <2>2, Lengths
<1> QED
    BY <1>2, <1>3

LEMMA Remainder ==
    ASSUME NEW x \in Int, NEW n \in Nat, n >= 1
    PROVE  \E q \in Int, r \in 0..(n - 1) : x = n * q + r /\ r = x % n
<1>1. x \div n \in Int /\ x % n \in 0..(n - 1) /\ x = n * (x \div n) + (x % n)
    OBVIOUS
<1> QED
    BY <1>1

LEMMA WholeTimes ==
    ASSUME NEW x \in Int, NEW n \in Nat, n >= 1, x % n = 0
    PROVE  \E q \in Int : x = n * q
<1>1. PICK q \in Int, r \in 0..(n - 1) : x = n * q + r /\ r = x % n
    BY Remainder
<1>2. r = 0 /\ n * q \in Int
    BY <1>1
<1>3. x = n * q
    BY <1>1, <1>2
<1> QED
    BY <1>1, <1>3

LEMMA PeriodsWhole ==
    ASSUME NEW t \in AllTasks
    PROVE  Multiple(Period[t]) /\ Multiple(Cycle) /\ Cycle >= MinuteLen
<1>1. Period[t] % MinuteLen = 0 /\ Cycle % Period[t] = 0
    BY LoopAssumption
<1>a. PICK m \in Nat, p \in Nat, c \in Nat :
          m = MinuteLen /\ p = Period[t] /\ c = Cycle /\ m >= 1 /\ p >= 1
    BY Lengths
<1>b. p % m = 0 /\ c % p = 0
    BY <1>1, <1>a
<1>2. PICK q \in Int : p = m * q
    <2>1. p \in Int /\ m >= 1
        BY <1>a
    <2> QED
        BY <1>b, <2>1, WholeTimes
<1>3. PICK k \in Int : c = p * k
    <2>1. c \in Int /\ p >= 1
        BY <1>a
    <2> QED
        BY <1>b, <2>1, WholeTimes
<1>4. Multiple(Period[t])
    <2>1. Period[t] = q * MinuteLen
        BY <1>a, <1>2
    <2> QED
        BY <1>2, <2>1 DEF Multiple
<1>5. Multiple(Cycle)
    BY <1>a, <1>3, <1>4, MultipleTimes
<1> QED
    BY <1>4, <1>5, Lengths, MultiplePositive

(* A new deadline is a whole minute after the reading of the clock.        *)
LEMMA NextFacts ==
    ASSUME phase \in Int, NEW t \in AllTasks, NEW ago \in Nat
    PROVE  /\ NextOccurrence(t, ago) \in Int
           /\ NextOccurrence(t, ago) + ago > 0
           /\ NextOccurrence(t, ago) >= -ago
           /\ Multiple(phase + NextOccurrence(t, ago))
<1>1. PICK p \in Nat : p = Period[t] /\ p >= 1
    BY Lengths
<1>2. PICK q \in Int, r \in 0..(p - 1) :
          phase - ago = p * q + r /\ r = (phase - ago) % p
    <2>1. PICK x \in Int : x = phase - ago
        OBVIOUS
    <2>2. \E q \in Int, r \in 0..(p - 1) : x = p * q + r /\ r = x % p
        BY <1>1, Remainder
    <2> QED
        BY <2>1, <2>2
<1>3. PICK next : next = NextOccurrence(t, ago)
    OBVIOUS
<1>4. next = p - r - ago
    BY <1>1, <1>2, <1>3 DEF NextOccurrence
<1>5. next \in Int /\ next + ago > 0 /\ next >= -ago
    BY <1>2, <1>4
<1>6. phase + next = p * (q + 1) /\ q + 1 \in Int
    <2>1. p * (q + 1) = p * q + p
        BY <1>2
    <2>2. p * q \in Int
        BY <1>2
    <2> QED
        BY <1>2, <1>4, <2>1, <2>2
<1>7. Multiple(phase + next)
    BY <1>1, <1>6, PeriodsWhole, MultipleTimes
<1> QED
    BY <1>3, <1>5, <1>7

-----------------------------------------------------------------------------
(* The longest runs, added up                                              *)

LEMMA Least ==
    ASSUME NEW S \in SUBSET Nat, S # {}
    PROVE  \E x \in S : \A y \in S : x <= y
<1> DEFINE R == {ss \in Nat \X Nat : ss[1] < ss[2]}
<1>1. IsWellFoundedOn(R, Nat)
    BY NatLessThanWellFounded DEF OpToRel
<1>2. ASSUME NEW x \in Nat, NEW y \in Nat, y < x
      PROVE  <<y, x>> \in R
    <2>1. <<y, x>> \in Nat \X Nat /\ <<y, x>>[1] = y /\ <<y, x>>[2] = x
        OBVIOUS
    <2>2. <<y, x>>[1] < <<y, x>>[2]
        BY <1>2, <2>1
    <2> QED
        BY <2>1, <2>2, Zenon
<1> HIDE DEF R
<1>3. PICK x \in S : \A y \in S : <<y, x>> \notin R
    BY <1>1, WFMin
<1>4. \A y \in S : x <= y
    <2>1. \A y \in S : ~(y < x)
        BY <1>2, <1>3
    <2> QED
        BY <2>1
<1> QED
    BY <1>4

LongestOf(w, t) == CHOOSE d \in w[t] : \A e \in w[t] : e <= d

(* f adds up the longest runs of the first tasks, up to the n-th.          *)
IsTotal(f, w, n) ==
    f = [k \in 0..n |-> IF k = 0 THEN 0 ELSE f[k - 1] + LongestOf(w, k)]

Total(w) == CHOOSE f : IsTotal(f, w, TaskCount)

LEMMA LongestFacts ==
    ASSUME NEW w \in Workloads, NEW t \in AllTasks
    PROVE  /\ LongestOf(w, t) \in Nat
           /\ w[t] # {}
           /\ \A d \in w[t] : d \in Nat /\ d <= LongestOf(w, t)
<1>1. w \in [AllTasks -> (SUBSET Nat) \ {{}}]
    BY LoopAssumption
<1>2. w[t] \in SUBSET Nat /\ w[t] # {}
    BY <1>1
<1>3. \E d \in w[t] : \A e \in w[t] : e <= d
    BY LoopAssumption
<1> QED
    BY <1>2, <1>3 DEF LongestOf

LEMMA TotalExists ==
    ASSUME NEW w, NEW n \in Nat
    PROVE  \E f : IsTotal(f, w, n)
<1> DEFINE Bad == {m \in Nat : ~\E f : IsTotal(f, w, m)}
<1> SUFFICES ASSUME Bad # {}
             PROVE  FALSE
    OBVIOUS
<1>1. PICK m \in Bad : \A y \in Bad : m <= y
    <2>1. Bad \in SUBSET Nat
        OBVIOUS
    <2> QED
        BY <2>1, Least
<1>2. CASE m = 0
    <2>1. IsTotal([k \in 0..0 |-> 0], w, 0)
        BY DEF IsTotal
    <2> QED
        BY <1>1, <1>2, <2>1
<1>3. CASE m # 0
    <2>1. m - 1 \in Nat /\ ~(m <= m - 1)
        BY <1>1, <1>3
    <2>2. PICK f : IsTotal(f, w, m - 1)
        BY <1>1, <2>1
    <2> DEFINE g == [k \in 0..m |-> IF k = m THEN f[m - 1] + LongestOf(w, m)
                                    ELSE f[k]]
    <2>3. f = [k \in 0..(m - 1) |-> IF k = 0 THEN 0
                                    ELSE f[k - 1] + LongestOf(w, k)]
        BY <2>2 DEF IsTotal
    <2>4. ASSUME NEW k \in 0..m
          PROVE  g[k] = IF k = 0 THEN 0 ELSE g[k - 1] + LongestOf(w, k)
        <3>1. CASE k = m
            <4>1. g[k] = f[m - 1] + LongestOf(w, m) /\ g[m - 1] = f[m - 1]
                BY <2>1, <3>1
            <4> QED
                BY <1>3, <3>1, <4>1
        <3>2. CASE k # m
            <4>1. k \in 0..(m - 1) /\ g[k] = f[k]
                BY <1>1, <3>2
            <4>2. f[k] = IF k = 0 THEN 0 ELSE f[k - 1] + LongestOf(w, k)
                BY <2>3, <4>1
            <4>3. k # 0 => g[k - 1] = f[k - 1]
                BY <1>1, <4>1
            <4> QED
                BY <4>1, <4>2, <4>3
        <3> QED
            BY <3>1, <3>2
    <2>5. IsTotal(g, w, m)
        <3>1. g = [k \in 0..m |-> g[k]]
            OBVIOUS
        <3> HIDE DEF g
        <3> QED
            BY <2>4, <3>1 DEF IsTotal
    <2> QED
        BY <1>1, <2>5
<1> QED
    BY <1>2, <1>3

LEMMA TotalFacts ==
    ASSUME NEW w \in Workloads
    PROVE  /\ IsTotal(Total(w), w, TaskCount)
           /\ Total(w)[0] = 0
           /\ \A n \in 0..TaskCount : Total(w)[n] \in Nat
           /\ \A n \in 1..TaskCount :
                  Total(w)[n] = Total(w)[n - 1] + LongestOf(w, n)
<1> DEFINE f == Total(w)
           Bad == {n \in 0..TaskCount : f[n] \notin Nat}
<1>1. IsTotal(f, w, TaskCount)
    BY Lengths, TotalExists DEF Total
<1> HIDE DEF f
<1>2. \A n \in 0..TaskCount :
          f[n] = IF n = 0 THEN 0 ELSE f[n - 1] + LongestOf(w, n)
    BY <1>1 DEF IsTotal
<1>3. f[0] = 0
    BY <1>2, Lengths
<1>4. ASSUME Bad # {}
      PROVE  FALSE
    <2>1. PICK n \in Bad : \A y \in Bad : n <= y
        <3>1. Bad \in SUBSET Nat
            BY Lengths
        <3> QED
            BY <1>4, <3>1, Least
    <2>2. n # 0
        BY <1>3, <2>1
    <2>3. n \in AllTasks /\ n - 1 \in 0..TaskCount /\ ~(n <= n - 1)
        BY <2>2, Lengths
    <2>4. f[n - 1] \in Nat
        BY <2>1, <2>3
    <2>5. LongestOf(w, n) \in Nat
        BY <2>3, LongestFacts
    <2> QED
        BY <1>2, <2>1, <2>2, <2>4, <2>5
<1>5. \A n \in 1..TaskCount : f[n] = f[n - 1] + LongestOf(w, n)
    BY <1>2, Lengths
<1> QED
    BY <1>1, <1>3, <1>4, <1>5 DEF f

LEMMA TotalGrows ==
    ASSUME NEW w \in Workloads, NEW m \in 0..TaskCount,
           NEW n \in 0..TaskCount, m <= n
    PROVE  Total(w)[m] <= Total(w)[n]
<1> DEFINE f == Total(w)
           Bad == {k \in m..TaskCount : ~(f[m] <= f[k])}
<1>1. /\ \A k \in 0..TaskCount : f[k] \in Nat
      /\ \A k \in 1..TaskCount : f[k] = f[k - 1] + LongestOf(w, k)
    BY TotalFacts
<1> HIDE DEF f
<1>2. ASSUME Bad # {}
      PROVE  FALSE
    <2>1. PICK k \in Bad : \A y \in Bad : k <= y
        <3>1. Bad \in SUBSET Nat
            BY Lengths
        <3> QED
            BY <1>2, <3>1, Least
    <2>2. k # m
        BY <1>1, <2>1
    <2>3. k \in 1..TaskCount /\ k - 1 \in m..TaskCount /\ ~(k <= k - 1)
        BY <2>2, Lengths
    <2>4. f[m] <= f[k - 1] /\ f[k - 1] \in Nat
        BY <1>1, <2>1, <2>3, Lengths
    <2>5. LongestOf(w, k) \in Nat
        BY <2>3, LongestFacts, Lengths
    <2>6. f[k] = f[k - 1] + LongestOf(w, k) /\ f[m] \in Nat
        BY <1>1, <2>3
    <2>7. f[m] <= f[k]
        BY <2>4, <2>5, <2>6
    <2> QED
        BY <2>1, <2>7
<1>3. n \in m..TaskCount
    BY Lengths
<1> QED
    BY <1>2, <1>3 DEF f

(* The sum of RunsFit is this one.                                         *)
LEMMA FitMeans ==
    RunsFit <=> Total(durations)[TaskCount] < MinuteLen
BY DEF RunsFit, Total, IsTotal, Longest, LongestOf
-----------------------------------------------------------------------------
(* Types                                                                   *)

(* Deadlines are bounded below, so that there is an earliest one.          *)
Bounded == \E b \in Nat : \A t \in DOMAIN left : left[t] >= -b

TypeInv ==
    /\ TypeOK
    /\ durations \in Workloads
    /\ Bounded
    /\ pc = "serve" => requests # <<>>
    /\ pc = "exec" => entry \in DOMAIN left

LEMMA EarliestDeadline ==
    ASSUME NEW S \in SUBSET Int, S # {}, NEW b \in Nat, \A d \in S : d >= -b
    PROVE  \E d \in S : \A e \in S : d <= e
<1> DEFINE T == {n \in Nat : n - b \in S}
<1>1. \A d \in S : d + b \in T
    <2> SUFFICES ASSUME NEW d \in S PROVE d + b \in T
        OBVIOUS
    <2>1. d \in Int /\ d + b \in Nat /\ (d + b) - b = d
        OBVIOUS
    <2> QED
        BY <2>1
<1>2. T # {} /\ T \in SUBSET Nat
    BY <1>1
<1>3. PICK n \in T : \A m \in T : n <= m
    BY <1>2, Least
<1>4. n - b \in S /\ \A e \in S : n - b <= e
    <2>1. n \in Nat /\ n - b \in S
        BY <1>3
    <2> SUFFICES ASSUME NEW e \in S PROVE n - b <= e
        BY <2>1
    <2>2. e + b \in T /\ e \in Int
        BY <1>1
    <2>3. n <= e + b
        BY <1>3, <2>2
    <2> QED
        BY <2>1, <2>2, <2>3
<1> QED
    BY <1>4

(* The timeout of poll is none without tasks, and else no later than the   *)
(* deadlines, if none has passed.                                          *)
LEMMA TimeoutFacts ==
    ASSUME TypeInv
    PROVE  /\ Timeout \in -1..MaxSleep
           /\ \/ DOMAIN left = {} /\ Timeout = -1
              \/ /\ Timeout >= 0
                 /\ (\A t \in DOMAIN left : left[t] >= 0) =>
                        \A t \in DOMAIN left : Timeout <= left[t]
<1>1. left \in [DOMAIN left -> Int] /\ MaxSleep \in Nat
    BY Lengths DEF TypeInv, TypeOK
<1>2. CASE left = <<>>
    <2>1. DOMAIN left = {} /\ Timeout = -1
        BY <1>2 DEF Timeout
    <2> QED
        BY <1>1, <2>1
<1>3. CASE left # <<>>
    <2>1. Deadlines # {}
        <3>1. DOMAIN left # {}
            <4>1. left = [t \in DOMAIN left |-> left[t]]
                BY <1>1
            <4>2. <<>> = [t \in {} |-> left[t]]
                OBVIOUS
            <4> QED
                BY <1>3, <4>1, <4>2
        <3> QED
            BY <3>1 DEF Deadlines
    <2>2. PICK b \in Nat : \A t \in DOMAIN left : left[t] >= -b
        BY DEF TypeInv, Bounded
    <2>3. Deadlines \in SUBSET Int /\ \A d \in Deadlines : d >= -b
        BY <1>1, <2>2 DEF Deadlines
    <2>4. PICK first \in Deadlines :
              /\ \A e \in Deadlines : first <= e
              /\ Timeout = IF first < 0 THEN 0
                           ELSE IF first > MaxSleep THEN MaxSleep ELSE first
        BY <1>3, <2>1, <2>2, <2>3, EarliestDeadline DEF Timeout
    <2>5. first \in Int /\ \A t \in DOMAIN left : first <= left[t] /\ left[t] \in Int
        BY <1>1, <2>3, <2>4 DEF Deadlines
    <2>6. Timeout \in 0..MaxSleep
        BY <1>1, <2>4, <2>5
    <2>7. ASSUME \A t \in DOMAIN left : left[t] >= 0
          PROVE  \A t \in DOMAIN left : Timeout <= left[t]
        <3>1. first >= 0
            BY <2>4, <2>7 DEF Deadlines
        <3>2. Timeout <= first
            BY <1>1, <2>4, <2>5, <3>1
        <3>3. Timeout \in Int
            BY <1>1, <2>6
        <3> QED
            BY <2>5, <3>2, <3>3
    <2> QED
        BY <1>1, <2>6, <2>7
<1> QED
    BY <1>2, <1>3

(* Unchanged deadlines stay bounded.                                       *)
LEMMA TypesOfTick ==
    ASSUME TypeInv, Tick, UNCHANGED durations
    PROVE  TypeInv'
<1>1. /\ TypeOK /\ Cycle \in Nat /\ Cycle >= 1 /\ MaxLate \in Nat
      /\ MinuteLen \in Nat
    BY Lengths DEF TypeInv, MaxLate
<1>2. left' \in [DOMAIN left -> Int] /\ DOMAIN left' = DOMAIN left
    BY <1>1 DEF Tick, TypeOK
<1>3. PICK b \in Nat : \A t \in DOMAIN left : left[t] >= -b
    BY DEF TypeInv, Bounded
<1>4. \A t \in DOMAIN left' : left'[t] >= -(b + 1)
    <2> SUFFICES ASSUME NEW t \in DOMAIN left
                 PROVE  left'[t] >= -(b + 1)
        BY <1>2
    <2>1. PICK d \in Int : d = left[t] /\ d >= -b
        BY <1>1, <1>3 DEF TypeOK
    <2>2. left'[t] = IF d > -MaxLate THEN d - 1 ELSE d
        BY <2>1 DEF Tick
    <2> QED
        BY <2>1, <2>2
<1>5. Bounded'
    <2>1. b + 1 \in Nat
        OBVIOUS
    <2> QED
        BY <1>4, <2>1 DEF Bounded
<1>6. phase' \in 0..(Cycle - 1)
    <2>1. phase + 1 \in Int
        BY <1>1 DEF TypeOK
    <2> QED
        BY <1>1, <2>1 DEF Tick
<1>7. age' \in [Clients -> 0..MinuteLen]
    <2> SUFFICES ASSUME NEW c \in Clients
                 PROVE  age'[c] \in 0..MinuteLen
        BY DEF Tick
    <2>1. age[c] \in 0..MinuteLen
        BY <1>1 DEF TypeOK
    <2> QED
        BY <1>1, <2>1 DEF Tick
<1>8. timer' \in -1..MaxSleep
    BY <1>1, Lengths, SMTT(30) DEF Tick, TypeOK
<1>9. elapsed' \in Nat /\ running' \in Nat
    <2>1. elapsed \in Nat /\ running \in Nat
        BY <1>1 DEF TypeOK
    <2>2. CASE pc = "exec" /\ running > 0
        BY <2>1, <2>2 DEF Tick
    <2>3. CASE pc = "poll"
        BY <2>1, <2>3 DEF Tick
    <2> QED
        BY <2>2, <2>3 DEF Tick
<1> QED
    BY <1>1, <1>2, <1>5, <1>6, <1>7, <1>8, <1>9 DEF TypeInv, TypeOK, Tick

LEMMA TypesOfRequest ==
    ASSUME TypeInv, HandleRequest, UNCHANGED durations
    PROVE  TypeInv'
<1>1. TypeOK /\ requests # <<>> /\ requests \in Seq([client : Clients, kind : Kinds])
    BY DEF TypeInv, TypeOK, HandleRequest
<1>2. requests' \in Seq([client : Clients, kind : Kinds])
    BY <1>1 DEF HandleRequest
<1>3. age' \in [Clients -> 0..MinuteLen]
    <2>1. 0 \in 0..MinuteLen
        BY Lengths
    <2>2. age \in [Clients -> 0..MinuteLen]
        BY <1>1 DEF TypeOK
    <2>3. age' = [age EXCEPT ![Head(requests).client] = 0]
        BY DEF HandleRequest
    <2> QED
        BY <2>1, <2>2, <2>3
<1>4. /\ DOMAIN left' \subseteq AllTasks /\ left' \in [DOMAIN left' -> Int]
      /\ wake' \in BOOLEAN /\ should_quit' \in BOOLEAN /\ Bounded'
    <2>1. CASE UNCHANGED left
        BY <1>1, <2>1 DEF HandleRequest, TypeOK, TypeInv, Bounded, Replan
    <2>2. CASE Replan /\ UNCHANGED should_quit
        <3>1. PICK planned \in SUBSET AllTasks :
                  left' = [t \in planned |-> NextOccurrence(t, 0)]
            BY <2>2 DEF Replan
        <3>2. phase \in Int
            BY <1>1, Lengths DEF TypeOK
        <3>3. \A t \in planned : NextOccurrence(t, 0) \in Int
                                 /\ NextOccurrence(t, 0) >= -0
            BY <3>1, <3>2, NextFacts
        <3>4. \A t \in DOMAIN left' : left'[t] >= -0
            BY <3>1, <3>3
        <3> QED
            BY <1>1, <2>2, <3>1, <3>3, <3>4 DEF Replan, TypeOK, Bounded
    <2> QED
        BY <2>1, <2>2 DEF HandleRequest
<1>5. pc' = "serve" => requests' # <<>>
    BY DEF HandleRequest
<1>6. pc' \in {"serve", "due"}
    BY DEF HandleRequest
<1> QED
    BY <1>1, <1>2, <1>3, <1>4, <1>5, <1>6
       DEF TypeInv, TypeOK, HandleRequest, pass

LEMMA TypesOfRun ==
    ASSUME TypeInv, RunDue \/ RunEnds, UNCHANGED durations
    PROVE  TypeInv'
<1>1. TypeOK /\ durations \in Workloads /\ AllTasks \in SUBSET Nat
      /\ TaskCount \in Nat /\ AllTasks = 1..TaskCount
    BY Lengths DEF TypeInv
<1>2. CASE RunDue
    <2>1. entry' \in DOMAIN left /\ entry' \in AllTasks
        <3>1. Due \in SUBSET Nat /\ Due # {}
            BY <1>1, <1>2 DEF Due, RunDue, TypeOK
        <3>2. entry' \in Due
            BY <1>2, <3>1, Least DEF RunDue
        <3> QED
            BY <1>1, <3>2 DEF Due, TypeOK
    <2>2. running' \in Nat
        BY <1>1, <1>2, <2>1, LongestFacts DEF RunDue
    <2>3. entry' \in 1..(TaskCount + 1)
        BY <1>1, <2>1
    <2> QED
        BY <1>1, <1>2, <2>1, <2>2, <2>3
           DEF TypeInv, TypeOK, Bounded, RunDue, clients
<1>3. CASE RunEnds
    <2>1. entry \in DOMAIN left /\ entry \in AllTasks /\ elapsed \in Nat /\ phase \in Int
        BY <1>1, <1>3, Lengths DEF TypeInv, RunEnds, TypeOK
    <2>2. PICK next : next = NextOccurrence(entry, elapsed)
        OBVIOUS
    <2>3. next \in Int /\ next >= -elapsed
        BY <2>1, <2>2, NextFacts
    <2>4. left' = [left EXCEPT ![entry] = next] /\ left \in [DOMAIN left -> Int]
        BY <1>1, <1>3, <2>2 DEF RunEnds, TypeOK
    <2>5. left' \in [DOMAIN left -> Int] /\ DOMAIN left' = DOMAIN left
        BY <2>1, <2>3, <2>4
    <2>6. Bounded'
        <3>1. PICK b \in Nat : \A t \in DOMAIN left : left[t] >= -b
            BY DEF TypeInv, Bounded
        <3>2. \A t \in DOMAIN left' : left'[t] >= -(b + elapsed)
            BY <2>1, <2>3, <2>4, <2>5, <3>1
        <3>3. b + elapsed \in Nat
            BY <2>1
        <3> QED
            BY <3>2, <3>3 DEF Bounded
    <2>7. entry' \in 1..(TaskCount + 1)
        BY <1>1, <1>3, <2>1 DEF RunEnds
    <2> QED
        BY <1>1, <1>3, <2>5, <2>6, <2>7 DEF TypeInv, TypeOK, RunEnds, clients
<1> QED
    BY <1>2, <1>3

LEMMA TypesOfOthers ==
    ASSUME TypeInv, UNCHANGED durations,
           \/ SendRequest \/ Signal \/ Poll \/ Stop \/ PollReturns
           \/ BeginPass \/ EndPass
    PROVE  TypeInv'
<1>1. TypeOK /\ Bounded /\ durations \in Workloads /\ TaskCount \in Nat
    BY Lengths DEF TypeInv
<1>2. CASE SendRequest
    <2>1. /\ requests' \in Seq([client : Clients, kind : Kinds])
          /\ requests' # <<>> /\ sent' \subseteq Clients
        BY <1>1, <1>2 DEF SendRequest, TypeOK
    <2> QED
        BY <1>1, <1>2, <2>1
           DEF TypeInv, TypeOK, Bounded, SendRequest, pass
<1>3. CASE Signal
    BY <1>1, <1>3 DEF TypeInv, TypeOK, Bounded, Signal, pass, clients
<1>4. CASE Poll
    BY <1>1, <1>4, TimeoutFacts
       DEF TypeInv, TypeOK, Bounded, Poll, pass, clients
<1>5. CASE Stop
    BY <1>1, <1>5 DEF TypeInv, TypeOK, Bounded, Stop, pass, clients
<1>6. CASE PollReturns
    <2>1. -1 \in -1..MaxSleep
        BY Lengths
    <2> QED
        BY <1>1, <1>6, <2>1
           DEF TypeInv, TypeOK, Bounded, PollReturns, pass, clients
<1>7. CASE BeginPass
    <2>1. 1 \in 1..(TaskCount + 1) /\ 0 \in Nat
        BY <1>1
    <2> QED
        BY <1>1, <1>7, <2>1 DEF TypeInv, TypeOK, Bounded, BeginPass, clients
<1>8. CASE EndPass
    BY <1>1, <1>8 DEF TypeInv, TypeOK, Bounded, EndPass, clients
<1> QED
    BY <1>2, <1>3, <1>4, <1>5, <1>6, <1>7, <1>8

LEMMA TypeInvHolds == Spec => []TypeInv
<1>1. Init => TypeInv
    <2> SUFFICES ASSUME Init PROVE TypeInv
        OBVIOUS
    <2>1. PICK planned \in SUBSET AllTasks :
              left = [t \in planned |-> NextOccurrence(t, 0)]
        BY DEF Init
    <2>2. phase \in 0..(Cycle - 1) /\ phase \in Int
        BY Lengths DEF Init
    <2>3. \A t \in planned : NextOccurrence(t, 0) \in Int
                             /\ NextOccurrence(t, 0) >= -0
        BY <2>1, <2>2, NextFacts
    <2>4. \A t \in DOMAIN left : left[t] >= -0
        BY <2>1, <2>3
    <2>5. DOMAIN left \subseteq AllTasks /\ left \in [DOMAIN left -> Int]
        BY <2>1, <2>3
    <2>6. Bounded
        BY <2>4 DEF Bounded
    <2>7. /\ -1 \in -1..MaxSleep /\ 1 \in 1..(TaskCount + 1)
          /\ 0 \in 0..MinuteLen
        BY Lengths
    <2>8. age \in [Clients -> 0..MinuteLen]
        BY <2>7 DEF Init
    <2>9. /\ requests = <<>> /\ sent = {} /\ pc = "loop" /\ durations \in Workloads
          /\ should_quit = FALSE /\ wake = FALSE /\ executed = FALSE
          /\ timer = -1 /\ elapsed = 0 /\ entry = 1 /\ running = 0
        BY DEF Init
    <2>10. requests \in Seq([client : Clients, kind : Kinds])
        BY <2>9
    <2> QED
        BY <2>2, <2>5, <2>6, <2>7, <2>8, <2>9, <2>10 DEF TypeInv, TypeOK
<1>2. TypeInv /\ [Next]_vars => TypeInv'
    <2> SUFFICES ASSUME TypeInv, [Next]_vars PROVE TypeInv'
        OBVIOUS
    <2>1. CASE UNCHANGED vars
        BY <2>1 DEF TypeInv, TypeOK, Bounded, vars
    <2> QED
        BY <2>1, TypesOfTick, TypesOfRequest, TypesOfRun, TypesOfOthers
           DEF Next, Daemon
<1> QED
    BY <1>1, <1>2, PTL DEF Spec

(* TypeOK: every deadline, timer and age stays within its type.            *)
THEOREM LoopTypes == Spec => []TypeOK
<1>1. TypeInv => TypeOK
    BY DEF TypeInv
<1> QED
    BY <1>1, TypeInvHolds, PTL
-----------------------------------------------------------------------------
(* Deadlines and waits when runs are short                                 *)

Passing == pc \in {"scan", "exec"}

NoneDue == \A t \in DOMAIN left : left[t] > 0

NoneWaits == \A c \in Clients : age[c] = 0

(* Only who has sent a request has waited.                                 *)
OnlyPendingWait == \A c \in Clients : c \notin Pending => age[c] = 0

(* Deadlines are at the starts of minutes.                                 *)
Aligned == \A t \in DOMAIN left : Multiple(phase + left[t])

(* No deadline passes but during the runs of a pass.                       *)
OnTime ==
    /\ ~Passing => \A t \in DOMAIN left : left[t] >= 0
    /\ pc = "poll" =>
           \/ DOMAIN left = {} /\ timer = -1
           \/ timer >= 0 /\ \A t \in DOMAIN left : timer <= left[t]

(* A pass that runs a task began at the start of a minute and has lasted   *)
(* no longer than one run of each task it came to, each of which is now    *)
(* due in a later minute.                                                  *)
InPass ==
    Passing =>
        /\ \A t \in DOMAIN left :
               /\ left[t] + elapsed >= 0
               /\ t < entry => left[t] + elapsed > 0
        /\ executed => Multiple(phase - elapsed)
        /\ ~executed => elapsed = 0 /\ pc = "scan"
        /\ pc = "scan" => elapsed <= Total(durations)[entry - 1]
        /\ pc = "exec" => elapsed + running <= Total(durations)[entry]

(* Requests wait no longer than one pass that runs tasks: it begins when   *)
(* all are answered, and the next pass finds nothing due.                  *)
Waits ==
    /\ \A c \in Clients : age[c] < MinuteLen
    /\ Passing => IF executed THEN \A c \in Clients : age[c] <= elapsed
                  ELSE NoneWaits \/ NoneDue
    /\ pc = "due" => IF executed THEN NoneDue ELSE NoneWaits
    /\ pc \in {"poll", "serve"} => ~executed
    /\ pc = "loop" /\ executed => should_quit

Fit == Aligned /\ OnTime /\ InPass /\ Waits

FitInv == OnlyPendingWait /\ (RunsFit => Fit)

LEMMA NextPhase ==
    ASSUME NEW n \in Nat, n >= 1, NEW x \in 0..(n - 1)
    PROVE  (x + 1) % n = IF x + 1 = n THEN 0 ELSE x + 1
<1>1. PICK y \in Nat : y = x + 1 /\ y >= 1 /\ y <= n
    OBVIOUS
<1>2. PICK q \in Int, r \in 0..(n - 1) : y = n * q + r /\ r = y % n
    <2>1. y \in Int
        BY <1>1
    <2> QED
        BY <2>1, Remainder
<1>3. CASE q <= -1
    <2>1. n * q <= -n
        BY <1>3
    <2> QED
        BY <1>1, <1>2, <2>1
<1>4. CASE q = 0
    BY <1>1, <1>2, <1>4
<1>5. CASE q = 1
    BY <1>1, <1>2, <1>5
<1>6. CASE q >= 2
    <2>1. n * q = 2 * n + n * (q - 2) /\ n * (q - 2) >= 0
        BY <1>6
    <2> QED
        BY <1>1, <1>2, <2>1
<1> QED
    BY <1>3, <1>4, <1>5, <1>6

(* The clock and what is counted towards an instant move together.         *)
LEMMA ClockStep ==
    ASSUME TypeInv, Tick, AllTasks # {}, NEW x \in Int, Multiple(phase + x)
    PROVE  Multiple(phase' + (x - 1))
<1>1. phase \in 0..(Cycle - 1) /\ Cycle \in Nat /\ Cycle >= 1
      /\ phase' = (phase + 1) % Cycle
    BY Lengths DEF TypeInv, TypeOK, Tick
<1>2. Multiple(Cycle)
    BY PeriodsWhole
<1>3. phase' = phase + 1 \/ phase' = phase + 1 - Cycle
    BY <1>1, NextPhase
<1>4. PICK y \in Int : y = phase + x
    BY <1>1
<1>5. Multiple(y) /\ Multiple(y - Cycle)
    BY <1>1, <1>2, <1>4, MultipleSum
<1>6. phase' + (x - 1) = y \/ phase' + (x - 1) = y - Cycle
    BY <1>1, <1>3, <1>4
<1> QED
    BY <1>5, <1>6

(* A pass takes less than a minute.                                        *)
LEMMA ShortPass ==
    ASSUME TypeInv, RunsFit, InPass, Passing
    PROVE  /\ elapsed \in Nat /\ running \in Nat
           /\ elapsed < MinuteLen
           /\ pc = "exec" => elapsed + running < MinuteLen
<1>1. /\ durations \in Workloads /\ entry \in 1..(TaskCount + 1)
      /\ elapsed \in Nat /\ running \in Nat /\ TaskCount \in Nat
      /\ MinuteLen \in Nat /\ AllTasks = 1..TaskCount
    BY Lengths DEF TypeInv, TypeOK
<1>2. PICK total \in Nat : total = Total(durations)[TaskCount] /\ total < MinuteLen
    BY <1>1, FitMeans, TotalFacts
<1>3. \A n \in 0..TaskCount :
          Total(durations)[n] \in Nat /\ Total(durations)[n] <= total
    BY <1>1, <1>2, TotalFacts, TotalGrows
<1>4. CASE pc = "scan"
    <2>1. entry - 1 \in 0..TaskCount
        BY <1>1
    <2> QED
        BY <1>1, <1>2, <1>3, <1>4, <2>1 DEF InPass, Passing
<1>5. CASE pc = "exec"
    <2>1. entry \in 0..TaskCount
        BY <1>1, <1>5 DEF TypeInv, TypeOK
    <2> QED
        BY <1>1, <1>2, <1>3, <1>5, <2>1 DEF InPass, Passing
<1> QED
    BY <1>1, <1>4, <1>5 DEF Passing

LEMMA FitOfSleep ==
    ASSUME TypeInv, OnlyPendingWait, RunsFit, Fit, Tick, pc = "poll",
           UNCHANGED durations
    PROVE  Fit'
<1>a. /\ left \in [DOMAIN left -> Int] /\ DOMAIN left \subseteq AllTasks
      /\ timer \in Int /\ MaxLate \in Nat
    BY Lengths, SMTT(30) DEF TypeInv, TypeOK, MaxLate
<1>b. ~executed
    BY DEF Fit, Waits
<1>c. timer # 0 /\ requests = <<>>
    BY DEF Tick, PollReady
<1>d. /\ pc' = "poll" /\ executed' = executed /\ requests' = requests
      /\ DOMAIN left' = DOMAIN left
      /\ timer' = IF timer > 0 THEN timer - 1 ELSE timer
    BY DEF Tick
<1>1. /\ timer # 0 /\ requests = <<>> /\ ~executed /\ pc' = "poll"
      /\ timer \in Int /\ executed' = executed
      /\ left \in [DOMAIN left -> Int] /\ MaxLate \in Nat
      /\ DOMAIN left' = DOMAIN left /\ DOMAIN left \subseteq AllTasks
    BY ONLY <1>a, <1>b, <1>c, <1>d
<1>2. NoneWaits'
    BY <1>1 DEF Tick, Pending, NoneWaits
<1>3. ASSUME NEW t \in DOMAIN left
      PROVE  /\ left[t] \in Int /\ left[t] >= timer /\ timer >= 1
             /\ left'[t] = left[t] - 1 /\ timer' = timer - 1
    <2>1. left[t] \in Int /\ timer >= 0 /\ timer <= left[t]
        BY <1>1 DEF Fit, OnTime
    <2> QED
        BY <1>1, <2>1 DEF Tick
<1>4. Aligned'
    BY <1>1, <1>3, ClockStep DEF Fit, Aligned
<1>5. OnTime'
    <2>1. CASE DOMAIN left = {} /\ timer = -1
        BY <1>1, <2>1 DEF OnTime, Tick
    <2>2. CASE timer >= 0
        <3>1. timer' = timer - 1 /\ timer' >= 0
            BY <1>1, <2>2 DEF Tick
        <3>2. \A t \in DOMAIN left' : left'[t] >= 0 /\ timer' <= left'[t]
            BY <1>1, <1>3
        <3> QED
            BY <3>1, <3>2 DEF OnTime
    <2> QED
        BY <2>1, <2>2 DEF Fit, OnTime
<1>6. InPass'
    BY <1>1 DEF InPass, Passing
<1>7. Waits'
    <2>1. \A c \in Clients : age'[c] < MinuteLen
        BY <1>2, Lengths DEF NoneWaits
    <2> QED
        BY <1>1, <2>1 DEF Waits, Passing
<1> QED
    BY <1>4, <1>5, <1>6, <1>7 DEF Fit

LEMMA FitOfChild ==
    ASSUME TypeInv, RunsFit, Fit, Tick, pc = "exec", UNCHANGED durations
    PROVE  Fit'
<1>a. /\ left \in [DOMAIN left -> Int] /\ DOMAIN left \subseteq AllTasks
      /\ entry \in DOMAIN left /\ MaxLate \in Nat
    BY Lengths, SMTT(30) DEF TypeInv, TypeOK, MaxLate
<1>b. Passing /\ executed
    BY DEF Fit, InPass, Passing
<1>c. /\ running > 0 /\ pc' = "exec" /\ DOMAIN left' = DOMAIN left
      /\ elapsed' = elapsed + 1 /\ running' = running - 1
      /\ entry' = entry /\ executed' = executed
    BY DEF Tick
<1>1. /\ Passing /\ executed /\ running > 0 /\ pc' = "exec"
      /\ elapsed' = elapsed + 1 /\ running' = running - 1
      /\ UNCHANGED <<entry, executed>>
      /\ left \in [DOMAIN left -> Int] /\ MaxLate \in Nat
      /\ DOMAIN left' = DOMAIN left /\ DOMAIN left \subseteq AllTasks
      /\ entry \in DOMAIN left
    BY ONLY <1>a, <1>b, <1>c
<1>2. elapsed \in Nat /\ running \in Nat /\ elapsed + running < MinuteLen
    BY <1>1, ShortPass DEF Fit
<1>3. AllTasks # {} /\ MinuteLen <= MaxLate /\ MinuteLen \in Nat
    BY <1>1, Lengths, PeriodsWhole DEF MaxLate
<1>4. ASSUME NEW t \in DOMAIN left
      PROVE  left[t] \in Int /\ left'[t] = left[t] - 1
    <2>1. left[t] \in Int /\ left[t] + elapsed >= 0
        BY <1>1 DEF Fit, InPass
    <2>2. left[t] > -MaxLate
        BY <1>1, <1>2, <1>3, <2>1
    <2> QED
        BY <2>1, <2>2 DEF Tick
<1>5. Aligned'
    BY <1>1, <1>3, <1>4, ClockStep DEF Fit, Aligned
<1>6. OnTime'
    BY <1>1 DEF OnTime, Passing
<1>7. Multiple(phase' - elapsed')
    <2>1. phase \in Int /\ phase' \in Int
        BY Lengths, SMTT(30) DEF TypeInv, TypeOK, Tick
    <2>2. PICK x \in Int : x = -elapsed
        BY <1>2
    <2>3. phase + x = phase - elapsed /\ phase' + (x - 1) = phase' - elapsed'
        BY <1>1, <1>2, <2>1, <2>2
    <2>4. Multiple(phase + x)
        BY <1>1, <2>3 DEF Fit, InPass
    <2> QED
        BY <1>3, <2>2, <2>3, <2>4, ClockStep
<1>8. InPass'
    <2>1. \A t \in DOMAIN left : left'[t] + elapsed' = left[t] + elapsed
        BY <1>1, <1>2, <1>4
    <2>2. elapsed' + running' = elapsed + running
        BY <1>1, <1>2
    <2> QED
        BY <1>1, <1>7, <2>1, <2>2 DEF Fit, InPass, Passing
<1>9. \A c \in Clients : age'[c] <= elapsed' /\ age'[c] < MinuteLen
    <2> SUFFICES ASSUME NEW c \in Clients
                 PROVE  age'[c] <= elapsed' /\ age'[c] < MinuteLen
        OBVIOUS
    <2>1. age[c] \in Nat /\ age[c] <= elapsed
        BY <1>1, <1>3 DEF TypeInv, TypeOK, Fit, Waits
    <2>2. age'[c] = 0 \/ age'[c] = age[c] + 1
        BY <1>2, <1>3, <2>1 DEF Tick
    <2> QED
        BY <1>1, <1>2, <1>3, <2>1, <2>2
<1>10. Waits'
    BY <1>1, <1>9 DEF Waits, Passing
<1> QED
    BY <1>5, <1>6, <1>8, <1>10 DEF Fit

LEMMA FitOfRequest ==
    ASSUME TypeInv, OnlyPendingWait', RunsFit, Fit, HandleRequest,
           UNCHANGED durations
    PROVE  Fit'
<1>1. /\ pc = "serve" /\ ~executed /\ ~Passing /\ executed' = executed
      /\ pc' \in {"serve", "due"} /\ phase' = phase
      /\ pc' = "due" => requests' = <<>>
    BY DEF HandleRequest, Fit, Waits, pass, Passing
<1>2. ASSUME NEW t \in DOMAIN left'
      PROVE  Multiple(phase' + left'[t]) /\ left'[t] >= 0
    <2>1. CASE UNCHANGED left
        BY <1>1, <2>1 DEF Fit, Aligned, OnTime
    <2>2. CASE Replan
        <3>1. PICK planned \in SUBSET AllTasks :
                  left' = [u \in planned |-> NextOccurrence(u, 0)]
            BY <2>2 DEF Replan
        <3>2. t \in AllTasks /\ left'[t] = NextOccurrence(t, 0)
            BY <3>1
        <3>3. phase \in Int /\ 0 \in Nat
            BY Lengths DEF TypeInv, TypeOK
        <3>4. PICK next : next = NextOccurrence(t, 0)
            OBVIOUS
        <3>5. next \in Int /\ next + 0 > 0 /\ Multiple(phase + next)
            BY <3>2, <3>3, <3>4, NextFacts
        <3> QED
            BY <1>1, <3>2, <3>4, <3>5
    <2> QED
        BY <2>1, <2>2 DEF HandleRequest
<1>3. Aligned' /\ OnTime' /\ InPass'
    BY <1>1, <1>2 DEF Aligned, OnTime, InPass, Passing
<1>4. pc' = "due" => NoneWaits'
    BY <1>1 DEF OnlyPendingWait, Pending, NoneWaits
<1>5. \A c \in Clients : age'[c] < MinuteLen
    <2> SUFFICES ASSUME NEW c \in Clients
                 PROVE  age'[c] < MinuteLen
        OBVIOUS
    <2>1. age[c] < MinuteLen /\ age \in [Clients -> 0..MinuteLen] /\ 0 < MinuteLen
        BY Lengths, SMTT(30) DEF TypeInv, TypeOK, Fit, Waits
    <2>2. age'[c] \in {0, age[c]}
        BY <2>1 DEF HandleRequest
    <2> QED
        BY <2>1, <2>2
<1>6. Waits'
    BY <1>1, <1>4, <1>5 DEF Waits, Passing
<1> QED
    BY <1>3, <1>6 DEF Fit

(* Clients and signals come between any two steps of the daemon.           *)
LEMMA FitOfOutside ==
    ASSUME RunsFit, Fit, SendRequest \/ Signal, UNCHANGED durations
    PROVE  Fit'
<1>1. /\ phase' = phase /\ left' = left /\ pc' = pc /\ timer' = timer
      /\ elapsed' = elapsed /\ entry' = entry /\ executed' = executed
      /\ running' = running /\ age' = age
      /\ should_quit => should_quit'
    BY DEF SendRequest, Signal, pass, clients
<1>2. Aligned' /\ OnTime'
    BY <1>1 DEF Fit, Aligned, OnTime, Passing
<1>3. InPass'
    BY <1>1 DEF Fit, InPass, Passing
<1>4. Waits'
    BY <1>1 DEF Fit, Waits, Passing, NoneWaits, NoneDue
<1> QED
    BY <1>2, <1>3, <1>4 DEF Fit

LEMMA FitOfPoll ==
    ASSUME TypeInv, OnlyPendingWait, RunsFit, Fit, Poll \/ Stop \/ PollReturns
    PROVE  Fit'
<1>1. /\ phase' = phase /\ left' = left /\ executed' = executed /\ age' = age
      /\ ~Passing /\ ~Passing'
    BY DEF Poll, Stop, PollReturns, pass, clients, Passing
<1>2. Aligned' /\ InPass'
    BY <1>1 DEF Fit, Aligned, InPass
<1>3. \A t \in DOMAIN left : left[t] >= 0
    BY <1>1 DEF Fit, OnTime
<1>4. /\ \A c \in Clients : age'[c] < MinuteLen
      /\ pc = "poll" => ~executed
      /\ pc = "loop" /\ executed => should_quit
    BY <1>1 DEF Fit, Waits
<1>5. CASE Poll
    <2>1. pc' = "poll" /\ timer' = Timeout /\ ~executed
        BY <1>4, <1>5 DEF Poll
    <2>2. OnTime'
        BY <1>1, <1>3, <2>1, TimeoutFacts DEF OnTime
    <2>3. Waits'
        BY <1>1, <1>4, <2>1 DEF Waits
    <2> QED
        BY <1>2, <2>2, <2>3 DEF Fit
<1>6. CASE Stop
    <2>1. pc' = "down"
        BY <1>6 DEF Stop
    <2>2. OnTime' /\ Waits'
        BY <1>1, <1>3, <1>4, <2>1 DEF OnTime, Waits
    <2> QED
        BY <1>2, <2>2 DEF Fit
<1>7. CASE PollReturns
    <2>1. /\ pc' = "serve" \/ (pc' = "due" /\ requests = <<>>)
          /\ ~executed
        BY <1>4, <1>7 DEF PollReturns
    <2>2. requests = <<>> => NoneWaits
        BY DEF OnlyPendingWait, Pending, NoneWaits
    <2>3. NoneWaits => NoneWaits'
        BY <1>1 DEF NoneWaits
    <2>4. OnTime'
        BY <1>1, <1>3, <2>1 DEF OnTime
    <2>5. Waits'
        BY <1>1, <1>4, <2>1, <2>2, <2>3 DEF Waits
    <2> QED
        BY <1>2, <2>4, <2>5 DEF Fit
<1> QED
    BY <1>5, <1>6, <1>7

LEMMA FitOfBegin ==
    ASSUME TypeInv, RunsFit, Fit, BeginPass, UNCHANGED durations
    PROVE  Fit'
<1>1. /\ phase' = phase /\ left' = left /\ age' = age /\ pc = "due" /\ ~Passing
      /\ DOMAIN left \subseteq AllTasks /\ left \in [DOMAIN left -> Int]
    BY DEF BeginPass, clients, Passing, TypeInv, TypeOK
<1>2. \A t \in DOMAIN left : left[t] >= 0
    BY <1>1 DEF Fit, OnTime
<1>3. /\ \A c \in Clients : age'[c] < MinuteLen
      /\ IF executed THEN NoneDue ELSE NoneWaits
    BY <1>1 DEF Fit, Waits
<1>4. (NoneDue => NoneDue') /\ (NoneWaits => NoneWaits')
    BY <1>1 DEF NoneDue, NoneWaits
<1>5. Aligned'
    BY <1>1 DEF Fit, Aligned
<1>6. CASE should_quit /\ pc' = "loop" /\ should_quit' = should_quit
    BY <1>1, <1>2, <1>3, <1>5, <1>6 DEF Fit, OnTime, InPass, Waits, Passing
<1>7. CASE /\ pc' = "scan" /\ elapsed' = 0 /\ entry' = 1 /\ executed' = FALSE
    <2>1. ASSUME NEW t \in DOMAIN left
          PROVE  left'[t] + elapsed' >= 0 /\ ~(t < entry')
        BY <1>1, <1>2, <1>7, <2>1, Lengths
    <2>2. Total(durations')[entry' - 1] = 0
        <3>1. durations' \in Workloads /\ entry' - 1 = 0
            BY <1>7 DEF TypeInv
        <3> QED
            BY <3>1, TotalFacts
    <2>3. InPass'
        BY <1>1, <1>7, <2>1, <2>2 DEF InPass, Passing
    <2>4. OnTime' /\ Waits'
        BY <1>3, <1>4, <1>7 DEF OnTime, Waits, Passing
    <2> QED
        BY <1>5, <2>3, <2>4 DEF Fit
<1> QED
    BY <1>6, <1>7 DEF BeginPass

(* The deadline that is run is the minute at which the pass began.         *)
LEMMA FitOfRun ==
    ASSUME TypeInv, RunsFit, Fit, RunDue, UNCHANGED durations
    PROVE  Fit'
<1>1. /\ phase' = phase /\ left' = left /\ elapsed' = elapsed /\ age' = age
      /\ durations' = durations /\ pc = "scan" /\ pc' = "exec" /\ executed'
      /\ Passing /\ Passing' /\ running' \in durations[entry']
    BY DEF RunDue, clients, Passing
<1>2. /\ DOMAIN left \subseteq AllTasks /\ left \in [DOMAIN left -> Int]
      /\ phase \in Int /\ elapsed \in Nat /\ entry \in 1..(TaskCount + 1)
      /\ durations \in Workloads /\ AllTasks = 1..TaskCount /\ TaskCount \in Nat
    BY Lengths DEF TypeInv, TypeOK
<1>3. entry' \in Due /\ \A u \in Due : entry' <= u
    <2>1. Due \in SUBSET Nat /\ Due # {}
        <3>1. DOMAIN left \subseteq Nat
            BY <1>2
        <3> QED
            BY <3>1 DEF Due, RunDue
    <2> QED
        BY <2>1, Least DEF RunDue
<1>4. PICK n \in AllTasks : /\ n = entry' /\ n \in DOMAIN left /\ n >= entry
                            /\ left[n] + elapsed <= 0
    BY <1>2, <1>3 DEF Due
<1>5. /\ \A t \in DOMAIN left : left[t] + elapsed >= 0
      /\ \A t \in DOMAIN left : t < entry => left[t] + elapsed > 0
      /\ ~executed => elapsed = 0
      /\ elapsed <= Total(durations)[entry - 1]
    BY <1>1 DEF Fit, InPass
<1>6. PICK d \in Int : d = left[n] /\ d = -elapsed
    <2>1. left[n] \in Int /\ left[n] + elapsed >= 0
        BY <1>2, <1>4, <1>5
    <2> QED
        BY <1>2, <1>4, <2>1
<1>7. Multiple(phase' - elapsed')
    <2>1. Multiple(phase + d)
        BY <1>4, <1>6 DEF Fit, Aligned
    <2>2. phase + d = phase' - elapsed'
        BY <1>1, <1>2, <1>6
    <2> QED
        BY <2>1, <2>2
<1>8. \A t \in DOMAIN left : t < n => left[t] + elapsed > 0
    <2> SUFFICES ASSUME NEW t \in DOMAIN left, t < n
                 PROVE  left[t] + elapsed > 0
        OBVIOUS
    <2>1. CASE t < entry
        BY <1>5, <2>1
    <2>2. CASE ~(t < entry)
        <3>1. t \notin Due /\ t \in Nat
            BY <1>2, <1>3, <1>4
        <3>2. t >= entry /\ left[t] \in Int
            BY <1>2, <2>2, <3>1
        <3>3. ~(left[t] + elapsed <= 0)
            BY <3>1, <3>2 DEF Due
        <3> QED
            BY <1>2, <3>2, <3>3
    <2> QED
        BY <2>1, <2>2
<1>9. elapsed' + running' <= Total(durations')[entry']
    <2>1. entry - 1 \in 0..TaskCount /\ n - 1 \in 0..TaskCount /\ entry - 1 <= n - 1
          /\ n \in 1..TaskCount
        BY <1>2, <1>4
    <2>2. Total(durations)[entry - 1] <= Total(durations)[n - 1]
        BY <1>2, <2>1, TotalGrows
    <2>3. /\ Total(durations)[entry - 1] \in Nat /\ Total(durations)[n - 1] \in Nat
          /\ Total(durations)[n] = Total(durations)[n - 1] + LongestOf(durations, n)
        BY <1>2, <2>1, TotalFacts
    <2>4. /\ LongestOf(durations, n) \in Nat
          /\ running' \in Nat /\ running' <= LongestOf(durations, n)
        BY <1>1, <1>2, <1>4, LongestFacts
    <2>5. elapsed + running' <= Total(durations)[n]
        BY <1>2, <1>5, <2>2, <2>3, <2>4, SMTT(30)
    <2> QED
        BY <1>1, <1>4, <2>5
<1>10. InPass'
    BY <1>1, <1>4, <1>5, <1>7, <1>8, <1>9 DEF InPass
<1>11. \A c \in Clients : age[c] <= elapsed
    <2>1. CASE executed
        BY <1>1, <2>1 DEF Fit, Waits
    <2>2. CASE ~executed
        <3>1. elapsed = 0 /\ ~NoneDue
            <4>1. elapsed = 0
                BY <1>5, <2>2
            <4>2. ~(left[n] > 0)
                BY <1>6, <4>1
            <4> QED
                BY <1>4, <4>1, <4>2 DEF NoneDue
        <3>2. NoneWaits
            BY <1>1, <2>2, <3>1 DEF Fit, Waits
        <3> QED
            BY <3>1, <3>2 DEF NoneWaits
    <2> QED
        BY <2>1, <2>2
<1>12. \A c \in Clients : age[c] < MinuteLen
    BY DEF Fit, Waits
<1>13. Waits'
    BY <1>1, <1>11, <1>12 DEF Waits
<1>14. Aligned' /\ OnTime'
    BY <1>1 DEF Fit, Aligned, OnTime
<1> QED
    BY <1>10, <1>13, <1>14 DEF Fit

LEMMA FitOfRunEnds ==
    ASSUME TypeInv, RunsFit, Fit, RunEnds, UNCHANGED durations
    PROVE  Fit'
<1>1. /\ phase' = phase /\ elapsed' = elapsed /\ age' = age
      /\ durations' = durations /\ pc = "exec" /\ pc' = "scan"
      /\ executed' = executed /\ running = 0 /\ entry' = entry + 1
      /\ Passing /\ Passing'
    BY DEF RunEnds, clients, Passing
<1>2. /\ entry \in DOMAIN left /\ entry \in AllTasks /\ entry \in Nat
      /\ DOMAIN left \subseteq Nat
      /\ left \in [DOMAIN left -> Int]
      /\ phase \in Int /\ elapsed \in Nat
    BY <1>1, Lengths, SMTT(30) DEF TypeInv, TypeOK
<1>3. PICK next : next = NextOccurrence(entry, elapsed)
    OBVIOUS
<1>4. next \in Int /\ next + elapsed > 0 /\ Multiple(phase + next)
    BY <1>2, <1>3, NextFacts
<1>5. left' = [left EXCEPT ![entry] = next]
    BY <1>3 DEF RunEnds
<1>6. /\ DOMAIN left' = DOMAIN left /\ left'[entry] = next
      /\ \A t \in DOMAIN left : t # entry => left'[t] = left[t]
    BY <1>2, <1>5
<1>7. /\ \A t \in DOMAIN left : left[t] + elapsed >= 0
      /\ \A t \in DOMAIN left : t < entry => left[t] + elapsed > 0
      /\ executed /\ Multiple(phase - elapsed)
      /\ elapsed + running <= Total(durations)[entry]
    BY <1>1 DEF Fit, InPass
<1>8. Aligned'
    BY <1>1, <1>4, <1>6 DEF Fit, Aligned
<1>9. ASSUME NEW t \in DOMAIN left'
      PROVE  /\ left'[t] + elapsed' >= 0
             /\ t < entry' => left'[t] + elapsed' > 0
    <2>1. CASE t = entry
        BY <1>1, <1>2, <1>4, <1>6, <2>1
    <2>2. CASE t # entry
        <3>1. t \in DOMAIN left /\ t \in Nat /\ left'[t] = left[t]
            BY <1>2, <1>6, <2>2
        <3>2. t < entry' => t < entry
            BY <1>1, <1>2, <2>2, <3>1
        <3> QED
            BY <1>1, <1>7, <3>1, <3>2
    <2> QED
        BY <2>1, <2>2
<1>10. elapsed' <= Total(durations')[entry' - 1]
    <2>1. entry' - 1 = entry /\ elapsed + running = elapsed
        BY <1>1, <1>2
    <2> QED
        BY <1>1, <1>7, <2>1
<1>11. InPass'
    BY <1>1, <1>7, <1>9, <1>10 DEF InPass
<1>12. OnTime'
    BY <1>1 DEF OnTime
<1>13. Waits'
    BY <1>1, <1>7 DEF Fit, Waits
<1> QED
    BY <1>8, <1>11, <1>12, <1>13 DEF Fit

(* What is due again after a pass that runs tasks is due a minute after it *)
(* began, and it has taken less.                                           *)
LEMMA FitOfEnd ==
    ASSUME TypeInv, RunsFit, Fit, EndPass, UNCHANGED durations
    PROVE  Fit'
<1>1. /\ phase' = phase /\ left' = left /\ age' = age /\ executed' = executed
      /\ pc = "scan" /\ pc' = IF executed THEN "due" ELSE "loop"
      /\ Passing /\ ~Passing' /\ Due = {}
    BY DEF EndPass, clients, Passing
<1>2. /\ entry \in Nat /\ DOMAIN left \subseteq Nat
      /\ left \in [DOMAIN left -> Int] /\ phase \in Int
      /\ MinuteLen \in Nat
    BY Lengths, SMTT(30) DEF TypeInv, TypeOK
<1>3. /\ \A t \in DOMAIN left : t < entry => left[t] + elapsed > 0
      /\ ~executed => elapsed = 0
      /\ executed => Multiple(phase - elapsed)
    BY <1>1 DEF Fit, InPass
<1>4. elapsed \in Nat /\ elapsed < MinuteLen
    BY <1>1, ShortPass DEF Fit
<1>5. ASSUME NEW t \in DOMAIN left
      PROVE  left[t] > 0
    <2>1. left[t] \in Int /\ t \in Nat
        BY <1>2
    <2>2. left[t] + elapsed > 0
        <3>1. CASE t < entry
            BY <1>3, <3>1
        <3>2. CASE t >= entry
            <4>1. ~(left[t] + elapsed <= 0)
                BY <1>1, <3>2 DEF Due
            <4> QED
                BY <1>4, <2>1, <4>1
        <3> QED
            BY <1>2, <2>1, <3>1, <3>2
    <2>3. CASE ~executed
        BY <1>3, <2>1, <2>2, <2>3
    <2>4. CASE executed
        <3>1. PICK a \in Int, b \in Int : a = phase + left[t] /\ b = phase - elapsed
            BY <1>2, <1>4, <2>1
        <3>2. Multiple(a) /\ Multiple(b)
            BY <1>3, <2>4, <3>1 DEF Fit, Aligned
        <3>3. PICK y \in Int : y = a - b /\ y = left[t] + elapsed
            BY <1>2, <1>4, <2>1, <3>1
        <3>4. Multiple(y)
            BY <3>2, <3>3, MultipleSum
        <3>5. y > 0
            BY <2>2, <3>3
        <3>6. y >= MinuteLen
            BY <3>4, <3>5, MultiplePositive
        <3> QED
            BY <1>2, <1>4, <2>1, <3>3, <3>6
    <2> QED
        BY <2>3, <2>4
<1>6. NoneDue'
    BY <1>1, <1>5 DEF NoneDue
<1>7. Aligned' /\ InPass'
    BY <1>1 DEF Fit, Aligned, InPass
<1>8. OnTime'
    <2>1. \A t \in DOMAIN left' : left'[t] >= 0
        BY <1>1, <1>2, <1>5
    <2> QED
        BY <1>1, <2>1 DEF OnTime
<1>9. Waits'
    BY <1>1, <1>6 DEF Fit, Waits
<1> QED
    BY <1>7, <1>8, <1>9 DEF Fit

LEMMA PendingStep ==
    ASSUME TypeInv, OnlyPendingWait, [Next]_vars
    PROVE  OnlyPendingWait'
<1>1. CASE Tick
    BY <1>1 DEF Tick, OnlyPendingWait, Pending
<1>2. CASE SendRequest
    <2>1. PICK c \in Clients, kind \in Kinds :
              requests' = Append(requests, [client |-> c, kind |-> kind])
        BY <1>2 DEF SendRequest
    <2>2. requests \in Seq([client : Clients, kind : Kinds])
        BY DEF TypeInv, TypeOK
    <2>3. \A i \in DOMAIN requests : i \in DOMAIN requests' /\ requests'[i] = requests[i]
        BY <2>1, <2>2
    <2>4. Pending \subseteq Pending' /\ age' = age
        BY <1>2, <2>3 DEF Pending, SendRequest
    <2> QED
        BY <2>4 DEF OnlyPendingWait
<1>3. CASE HandleRequest
    <2>1. /\ requests \in Seq([client : Clients, kind : Kinds]) /\ requests # <<>>
          /\ age \in [Clients -> 0..MinuteLen]
          /\ requests' = Tail(requests)
          /\ age' = [age EXCEPT ![Head(requests).client] = 0]
        BY <1>3 DEF TypeInv, TypeOK, HandleRequest
    <2> SUFFICES ASSUME NEW c \in Clients, c \notin Pending'
                 PROVE  age'[c] = 0
        BY DEF OnlyPendingWait
    <2>2. CASE c = Head(requests).client
        BY <2>1, <2>2
    <2>3. CASE c # Head(requests).client
        <3>1. ASSUME NEW i \in DOMAIN requests
              PROVE  requests[i].client # c
            <4>1. CASE i = 1
                BY <2>1, <2>3, <4>1
            <4>2. CASE i # 1
                <5>1. i - 1 \in DOMAIN requests' /\ requests'[i - 1] = requests[i]
                    BY <2>1, <3>1, <4>2
                <5> QED
                    BY <5>1 DEF Pending
            <4> QED
                BY <4>1, <4>2
        <3>2. c \notin Pending
            BY <3>1 DEF Pending
        <3> QED
            BY <2>1, <2>3, <3>2 DEF OnlyPendingWait
    <2> QED
        BY <2>2, <2>3
<1>4. CASE UNCHANGED <<requests, age>>
    BY <1>4 DEF OnlyPendingWait, Pending
<1>5. Tick \/ SendRequest \/ HandleRequest \/ UNCHANGED <<requests, age>>
    BY DEF Next, Daemon, Signal, Poll, Stop, PollReturns, BeginPass, RunDue, RunEnds,
        EndPass, clients, vars
<1> QED
    BY <1>1, <1>2, <1>3, <1>4, <1>5

LEMMA FitInvHolds == Spec => []FitInv
<1>1. Init /\ TypeInv => FitInv
    <2> SUFFICES ASSUME Init, TypeInv PROVE FitInv
        OBVIOUS
    <2>1. /\ pc = "loop" /\ executed = FALSE /\ ~Passing
          /\ requests = <<>> /\ age = [c \in Clients |-> 0]
        BY DEF Init, Passing
    <2>2. OnlyPendingWait
        BY <2>1 DEF OnlyPendingWait
    <2>3. ASSUME NEW t \in DOMAIN left
          PROVE  Multiple(phase + left[t]) /\ left[t] >= 0
        <3>1. PICK planned \in SUBSET AllTasks :
                  left = [u \in planned |-> NextOccurrence(u, 0)]
            BY DEF Init
        <3>2. t \in AllTasks /\ left[t] = NextOccurrence(t, 0)
            BY <3>1
        <3>3. phase \in Int /\ 0 \in Nat
            BY Lengths DEF TypeInv, TypeOK
        <3>4. PICK next : next = NextOccurrence(t, 0)
            OBVIOUS
        <3>5. next \in Int /\ next + 0 > 0 /\ Multiple(phase + next)
            BY <3>2, <3>3, <3>4, NextFacts
        <3> QED
            BY <3>2, <3>4, <3>5
    <2>4. Aligned /\ OnTime /\ InPass
        BY <2>1, <2>3 DEF Aligned, OnTime, InPass
    <2>5. Waits
        BY <2>1, Lengths DEF Waits
    <2> QED
        BY <2>2, <2>4, <2>5 DEF FitInv, Fit
<1>2. FitInv /\ TypeInv /\ TypeInv' /\ [Next]_vars => FitInv'
    <2> SUFFICES ASSUME FitInv, TypeInv, [Next]_vars PROVE FitInv'
        OBVIOUS
    <2>1. OnlyPendingWait /\ OnlyPendingWait'
        BY PendingStep DEF FitInv
    <2>2. durations' = durations /\ (RunsFit' <=> RunsFit)
        <3>1. durations' = durations
            BY DEF Next, vars
        <3>2. RunsFit' <=> Total(durations')[TaskCount] < MinuteLen
            BY DEF RunsFit, Total, IsTotal, Longest, LongestOf
        <3> QED
            BY <3>1, <3>2, FitMeans
    <2>3. ASSUME RunsFit
          PROVE  Fit'
        <3>1. Fit
            BY <2>3 DEF FitInv
        <3>2. CASE Tick
            <4>1. pc \in {"poll", "exec"}
                BY <3>2 DEF Tick
            <4> QED
                BY <2>1, <2>2, <2>3, <3>1, <3>2, <4>1, FitOfSleep, FitOfChild
        <3>3. CASE UNCHANGED vars
            BY <3>1, <3>3
               DEF vars, Fit, Aligned, OnTime, InPass, Waits, Passing, NoneDue, NoneWaits
        <3> QED
            BY <2>1, <2>2, <2>3, <3>1, <3>2, <3>3, FitOfRequest, FitOfOutside, FitOfPoll,
               FitOfBegin, FitOfRun, FitOfRunEnds, FitOfEnd
               DEF Next, Daemon
    <2> QED
        BY <2>1, <2>2, <2>3 DEF FitInv
<1> QED
    BY <1>1, <1>2, TypeInvHolds, PTL DEF Spec

(* When one run of every task fits in a minute, no client waits a minute   *)
(* for its answer: for any number of clients and tasks, periods and        *)
(* lengths of runs, and however requests, signals and deadlines fall.      *)
THEOREM NoneWaitsAMinute == Spec => []AnsweredInTime
<1>1. FitInv => AnsweredInTime
    BY DEF FitInv, Fit, Waits, AnsweredInTime
<1> QED
    BY <1>1, FitInvHolds, PTL

(* Under the same condition a task that is due is run in the minute of its *)
(* deadline.                                                               *)
THEOREM RunsInTime == Spec => []RunInItsMinute
<1>1. ASSUME FitInv, TypeInv
      PROVE  RunInItsMinute
    <2> SUFFICES ASSUME RunsFit, NEW t \in DOMAIN left
                 PROVE  left[t] > -MinuteLen
        BY DEF RunInItsMinute
    <2>1. Fit /\ left[t] \in Int /\ MinuteLen \in Nat /\ MinuteLen >= 1
        BY <1>1, Lengths DEF FitInv, TypeInv, TypeOK
    <2>2. CASE Passing
        <3>1. elapsed \in Nat /\ elapsed < MinuteLen
            BY <1>1, <2>1, <2>2, ShortPass DEF Fit
        <3>2. left[t] + elapsed >= 0
            BY <2>1, <2>2 DEF Fit, InPass
        <3> QED
            BY <2>1, <3>1, <3>2
    <2>3. CASE ~Passing
        <3>1. left[t] >= 0
            BY <2>1, <2>3 DEF Fit, OnTime
        <3> QED
            BY <2>1, <3>1
    <2> QED
        BY <2>2, <2>3
<1> QED
    BY <1>1, FitInvHolds, TypeInvHolds, PTL
=============================================================================
