---------------------------- MODULE ErraidProofs ----------------------------
(***************************************************************************)
(* What the operators of Erraid return (loading, removing from the array,  *)
(* computing the plan and the timeout, writing files); that the daemon's   *)
(* variables keep their types, whatever is asked of it, fails or crashes;  *)
(* and, under the failures each theorem names, identifiers, removals, the  *)
(* agreement of memory and disk, and the runs: that they follow the        *)
(* schedule, once in a minute, and what the files then say of them, for    *)
(* every value of the constants.                                           *)
(***************************************************************************)
EXTENDS Erraid, SchedulerLemmas, FiniteSetTheorems, SequenceTheorems

(* The task files of d are well formed: finitely many, each under the name *)
(* of the task it holds.                                                   *)
Files(d) ==
    /\ IsFiniteSet(DOMAIN d)
    /\ DOMAIN d \subseteq TaskId
    /\ d \in [DOMAIN d -> Task]
    /\ \A id \in DOMAIN d : d[id].task_id = id

(* Loading gives each task file once, whatever the order of the directory. *)
LEMMA LoadedTasks ==
    ASSUME NEW d, Files(d), NEW ts \in LoadOrders(d)
    PROVE  /\ ts \in Seq(Task)
           /\ Len(ts) = Cardinality(DOMAIN d)
           /\ \A i \in 1..Len(ts) : /\ ts[i].task_id \in DOMAIN d
                                    /\ ts[i] = d[ts[i].task_id]
           /\ \A i, j \in 1..Len(ts) : ts[i].task_id = ts[j].task_id => i = j
           /\ \A id \in DOMAIN d : \E i \in 1..Len(ts) : ts[i].task_id = id
<1> DEFINE n == Cardinality(DOMAIN d)
<1>1. n \in Nat
    BY FS_CardinalityType DEF Files
<1>2. PICK order \in Bijection(1..n, DOMAIN d) :
            ts = [i \in DOMAIN order |-> d[order[i]]]
    BY DEF LoadOrders
<1> HIDE DEF n
<1>3. /\ order \in [1..n -> DOMAIN d]
      /\ \A i, j \in 1..n : order[i] = order[j] => i = j
      /\ \A id \in DOMAIN d : \E i \in 1..n : order[i] = id
    BY <1>2 DEF Bijection, Injection, Surjection, IsInjective
<1>4. ts = [i \in 1..n |-> d[order[i]]]
    BY <1>2, <1>3
<1>5. \A i \in 1..n : ts[i] \in Task /\ ts[i].task_id = order[i]
    BY <1>3, <1>4 DEF Files
<1>6. ts \in Seq(Task) /\ Len(ts) = n
    BY <1>1, <1>4, <1>5, IsASeq
<1>7. \A i \in 1..n : ts[i].task_id \in DOMAIN d /\ ts[i] = d[ts[i].task_id]
    BY <1>3, <1>4, <1>5
<1>8. \A i, j \in 1..n : ts[i].task_id = ts[j].task_id => i = j
    BY <1>3, <1>5
<1>9. \A id \in DOMAIN d : \E i \in 1..n : ts[i].task_id = id
    BY <1>3, <1>5
<1> QED
    BY <1>6, <1>7, <1>8, <1>9 DEF n

(* Removing the entry at k shifts the entries after it by one.             *)
LEMMA RemoveAtProperties ==
    ASSUME NEW S, NEW s \in Seq(S), NEW k \in 1..Len(s)
    PROVE  /\ RemoveAt(s, k) \in Seq(S)
           /\ Len(RemoveAt(s, k)) = Len(s) - 1
           /\ \A i \in 1..(Len(s) - 1) :
                  RemoveAt(s, k)[i] = IF i < k THEN s[i] ELSE s[i + 1]
<1> DEFINE a == SubSeq(s, 1, k - 1)
           b == SubSeq(s, k + 1, Len(s))
<1>1. Len(s) \in Nat /\ k \in Nat /\ \A i \in 1..Len(s) : s[i] \in S
    BY ElementOfSeq
<1>2. /\ a \in Seq(S) /\ Len(a) = k - 1
      /\ \A i \in 1..(k - 1) : a[i] = s[i]
    <2>1. \A i \in 1..(k - 1) : s[i] \in S
        BY <1>1
    <2> QED
        BY <1>1, <2>1, SubSeqProperties, Z3
<1>3. /\ b \in Seq(S) /\ Len(b) = Len(s) - k
      /\ \A i \in 1..(Len(s) - k) : b[i] = s[k + i]
    <2>1. \A i \in (k + 1)..Len(s) : s[i] \in S
        BY <1>1
    <2>2. /\ b \in Seq(S)
          /\ Len(b) = IF k + 1 <= Len(s) THEN Len(s) - (k + 1) + 1 ELSE 0
          /\ \A i \in 1..(Len(s) - (k + 1) + 1) : b[i] = s[k + 1 + i - 1]
        BY <1>1, <2>1, SubSeqProperties
    <2> QED
        BY <1>1, <2>2
<1>4. RemoveAt(s, k) = a \o b
    BY DEF RemoveAt
<1> HIDE DEF a, b
<1>5. /\ a \o b \in Seq(S)
      /\ Len(a \o b) = Len(a) + Len(b)
      /\ \A i \in 1..(Len(a) + Len(b)) :
             (a \o b)[i] = IF i <= Len(a) THEN a[i] ELSE b[i - Len(a)]
    BY <1>2, <1>3, ConcatProperties
<1>6. ASSUME NEW i \in 1..(Len(s) - 1)
      PROVE  RemoveAt(s, k)[i] = IF i < k THEN s[i] ELSE s[i + 1]
    <2>1. CASE i < k
        BY <1>1, <1>2, <1>3, <1>4, <1>5, <2>1
    <2>2. CASE i >= k
        <3>1. i - (k - 1) \in 1..(Len(s) - k) /\ k + (i - (k - 1)) = i + 1
            BY <1>1, <2>2
        <3>2. b[i - (k - 1)] = s[i + 1]
            BY <1>3, <3>1
        <3>3. (a \o b)[i] = b[i - (k - 1)]
            BY <1>1, <1>2, <1>3, <1>5, <2>2
        <3> QED
            BY <1>4, <2>2, <3>2, <3>3
    <2> QED
        BY <1>1, <2>1, <2>2
<1>7. Len(a \o b) = Len(s) - 1
    BY <1>1, <1>2, <1>3, <1>5
<1> QED
    BY <1>4, <1>5, <1>6, <1>7

(* context_find_task_index finds the task that is asked for.               *)
LEMMA FirstIndexFinds ==
    ASSUME tasks \in Seq(Task), NEW id \in TaskIds
    PROVE  /\ FirstIndex(id) \in 1..Len(tasks)
           /\ tasks[FirstIndex(id)].task_id = id
<1> DEFINE S == {i \in DOMAIN tasks : tasks[i].task_id = id}
<1>1. S \in SUBSET Nat /\ S # {}
    BY DEF TaskIds
<1>2. Min(S) \in S
    BY <1>1, MinProperty
<1> QED
    BY <1>2 DEF FirstIndex

(* The plan has one entry per task, in the order of the array, and its     *)
(* occurrences come after the instant it is computed from.                 *)
LEMMA PlanComputed ==
    ASSUME NEW ts \in Seq(Task), NEW at \in Nat
    PROVE  /\ ComputePlan(ts, at) \in Seq(PlanEntry)
           /\ Len(ComputePlan(ts, at)) = Len(ts)
           /\ \A i \in 1..Len(ts) :
                /\ ComputePlan(ts, at)[i].task_id = ts[i].task_id
                /\ ComputePlan(ts, at)[i].task_index = i
                /\ ComputePlan(ts, at)[i].next_epoch =
                       NextOccurrence(ts[i].schedule, at)
<1> DEFINE p == ComputePlan(ts, at)
<1>1. Len(ts) \in Nat
    OBVIOUS
<1>2. p = [i \in 1..Len(ts) |->
              [task_id    |-> ts[i].task_id,
               task_index |-> i,
               next_epoch |-> NextOccurrence(ts[i].schedule, at)]]
    BY DEF ComputePlan
<1>3. ASSUME NEW i \in 1..Len(ts)
      PROVE  p[i] \in PlanEntry
    <2>1. ts[i] \in Task
        BY ElementOfSeq
    <2>2. NextOccurrence(ts[i].schedule, at) \in Nat \cup {-1}
        BY NextOccurrenceResult
    <2> QED
        BY <1>2, <2>1, <2>2 DEF PlanEntry, Task
<1> HIDE DEF p
<1>4. p \in Seq(PlanEntry) /\ Len(p) = Len(ts)
    BY <1>1, <1>2, <1>3, IsASeq
<1> QED
    BY <1>2, <1>4 DEF p

(* The sequence of capacities of the doubling loop, as a recursive         *)
(* function from its first value b.                                        *)
IsDoubling(f, b, n) ==
    f = [k \in 0..n |-> IF k = 0 THEN b ELSE 2 * f[k - 1]]

(* There is one of every length: the shortest that is missing could be    *)
(* made from the one before it.                                            *)
LEMMA DoublingExists ==
    ASSUME NEW b \in Nat, NEW n \in Nat
    PROVE  \E f : IsDoubling(f, b, n)
<1> DEFINE Bad == {m \in Nat : ~\E f : IsDoubling(f, b, m)}
<1> SUFFICES ASSUME Bad # {}
             PROVE  FALSE
    OBVIOUS
<1>1. PICK m \in Bad : \A y \in Bad : m <= y
    <2>1. Bad \in SUBSET Nat
        OBVIOUS
    <2> QED
        BY <2>1, MinProperty
<1>2. CASE m = 0
    <2>1. IsDoubling([k \in 0..0 |-> b], b, 0)
        BY DEF IsDoubling
    <2> QED
        BY <1>1, <1>2, <2>1
<1>3. CASE m # 0
    <2>1. m - 1 \in Nat /\ ~(m <= m - 1)
        BY <1>1, <1>3
    <2>2. PICK f : IsDoubling(f, b, m - 1)
        BY <1>1, <2>1
    <2> DEFINE g == [k \in 0..m |-> IF k = m THEN 2 * f[m - 1] ELSE f[k]]
    <2>3. f = [k \in 0..(m - 1) |-> IF k = 0 THEN b ELSE 2 * f[k - 1]]
        BY <2>2 DEF IsDoubling
    <2>4. ASSUME NEW k \in 0..m
          PROVE  g[k] = IF k = 0 THEN b ELSE 2 * g[k - 1]
        <3>1. CASE k = m
            <4>1. g[k] = 2 * f[m - 1] /\ g[m - 1] = f[m - 1]
                BY <2>1, <3>1
            <4> QED
                BY <1>3, <3>1, <4>1
        <3>2. CASE k # m
            <4>1. k \in 0..(m - 1) /\ g[k] = f[k]
                BY <1>1, <3>2
            <4>2. f[k] = IF k = 0 THEN b ELSE 2 * f[k - 1]
                BY <2>3, <4>1
            <4>3. k # 0 => g[k - 1] = f[k - 1]
                BY <1>1, <4>1
            <4> QED
                BY <4>1, <4>2, <4>3
        <3> QED
            BY <3>1, <3>2
    <2>5. g = [k \in 0..m |-> IF k = 0 THEN b ELSE 2 * g[k - 1]]
        <3>1. g = [k \in 0..m |-> g[k]]
            OBVIOUS
        <3> HIDE DEF g
        <3> QED
            BY <2>4, <3>1
    <2>6. IsDoubling(g, b, m)
        BY <2>5 DEF IsDoubling
    <2> QED
        BY <1>1, <2>6
<1> QED
    BY <1>2, <1>3

(* After k doublings the capacity is at least k + 1.                       *)
LEMMA DoublingGrows ==
    ASSUME NEW b \in Nat \ {0}, NEW n \in Nat, NEW f, IsDoubling(f, b, n)
    PROVE  \A k \in 0..n : f[k] \in Nat /\ f[k] >= k + 1
<1> DEFINE Bad == {k \in 0..n : ~(f[k] \in Nat /\ f[k] >= k + 1)}
<1> SUFFICES ASSUME Bad # {}
             PROVE  FALSE
    OBVIOUS
<1>1. PICK m \in Bad : \A y \in Bad : m <= y
    <2>1. Bad \in SUBSET Nat
        OBVIOUS
    <2> QED
        BY <2>1, MinProperty
<1>2. \A k \in 0..n : f[k] = IF k = 0 THEN b ELSE 2 * f[k - 1]
    BY DEF IsDoubling
<1>3. m \in 0..n /\ ~(f[m] \in Nat /\ f[m] >= m + 1)
    BY <1>1
<1>4. CASE m = 0
    BY <1>2, <1>3, <1>4
<1>5. CASE m # 0
    <2>1. m - 1 \in 0..n /\ ~(m <= m - 1)
        BY <1>3, <1>5
    <2>2. f[m - 1] \in Nat /\ f[m - 1] >= m
        BY <1>1, <2>1
    <2>3. f[m] = 2 * f[m - 1]
        BY <1>2, <1>3, <1>5
    <2> QED
        BY <1>3, <1>5, <2>2, <2>3
<1> QED
    BY <1>4, <1>5

(* The capacity grown for n entries holds them.                            *)
LEMMA GrownFits ==
    ASSUME NEW capacity \in Nat, NEW n \in Nat
    PROVE  /\ GrownCapacity(capacity, n) \in Nat
           /\ GrownCapacity(capacity, n) >= n
<1> DEFINE b == IF capacity = 0 THEN PlanChunk ELSE capacity
           f == CHOOSE f : IsDoubling(f, b, n)
           Fit == {k \in 0..n : f[k] >= n}
<1>1. b \in Nat \ {0}
    BY ErraidAssumption
<1>2. IsDoubling(f, b, n)
    BY <1>1, DoublingExists
<1>3. CASE n > capacity
    <2>1. GrownCapacity(capacity, n) = f[Min(Fit)]
        BY <1>3 DEF GrownCapacity, IsDoubling
    <2> HIDE DEF f, b
    <2>2. \A k \in 0..n : f[k] \in Nat /\ f[k] >= k + 1
        BY <1>1, <1>2, DoublingGrows
    <2>3. n \in Fit /\ Fit \in SUBSET Nat
        BY <2>2
    <2>4. Min(Fit) \in Fit
        BY <2>3, MinProperty
    <2> QED
        BY <2>1, <2>2, <2>4
<1>4. CASE n <= capacity
    BY <1>4 DEF GrownCapacity
<1> QED
    BY <1>3, <1>4

(* The timeout of poll is an instant not before now, or none.              *)
LEMMA TimeoutTyped ==
    ASSUME NEW p \in Seq(PlanEntry), NEW at \in Nat
    PROVE  Timeout(p, at) \in Nat \cup {-1}
<1>1. Deadlines(p) \in SUBSET Nat
    <2>1. \A i \in DOMAIN p : p[i].next_epoch \in Nat \cup {-1}
        <3> SUFFICES ASSUME NEW i \in DOMAIN p
                     PROVE  p[i].next_epoch \in Nat \cup {-1}
            OBVIOUS
        <3>1. p[i] \in PlanEntry
            OBVIOUS
        <3> QED
            BY <3>1 DEF PlanEntry
    <2> QED
        BY <2>1 DEF Deadlines
<1>2. CASE Deadlines(p) # {}
    <2>1. PICK m \in Nat : m = Min(Deadlines(p))
        BY <1>1, <1>2, MinProperty
    <2>2. \E x \in {at, m} : \A y \in {at, m} : x >= y
        <3>1. at >= m \/ m >= at
            BY <2>1
        <3> QED
            BY <3>1, <2>1
    <2>3. Max({at, m}) \in {at, m}
        BY <2>2 DEF Max
    <2> QED
        BY <1>2, <2>1, <2>3 DEF Timeout
<1> QED
    BY <1>2 DEF Timeout

(* Writing a task file leaves well formed files.               *)
LEMMA WellFormedPut ==
    ASSUME NEW d, Files(d), NEW task \in Task
    PROVE  Files(Put(d, task.task_id, task))
<1> DEFINE id == task.task_id
<1>1. id \in TaskId
    BY DEF Task
<1>2. DOMAIN Put(d, id, task) = DOMAIN d \cup {id}
    BY DEF Put
<1>3. \A y \in DOMAIN d \cup {id} :
          Put(d, id, task)[y] = IF y = id THEN task ELSE d[y]
    BY DEF Put
<1>4. IsFiniteSet(DOMAIN d \cup {id})
    BY FS_AddElement DEF Files
<1>5. \A y \in DOMAIN d \cup {id} :
          Put(d, id, task)[y] \in Task /\ Put(d, id, task)[y].task_id = y
    BY <1>3 DEF Files
<1>6. Put(d, id, task) \in [DOMAIN d \cup {id} -> Task]
    BY <1>5 DEF Put
<1> QED
    BY <1>1, <1>2, <1>4, <1>5, <1>6 DEF Files

(* Removing a task file leaves well formed files.                          *)
LEMMA WellFormedDrop ==
    ASSUME NEW d, Files(d), NEW id
    PROVE  Files(Drop(d, id))
<1>1. IsFiniteSet(DOMAIN d \ {id})
    BY FS_RemoveElement DEF Files
<1> QED
    BY <1>1 DEF Files, Drop

(* A task made from an accepted request has the type of a task.            *)
LEMMA NewTaskTyped ==
    ASSUME NEW body \in CreateBodies, next_id \in Nat
    PROVE  /\ AllocatedId \in TaskId
           /\ NewTask(AllocatedId, body) \in Task
           /\ NewTask(AllocatedId, body).task_id = AllocatedId
<1>1. AllocatedId \in TaskId
    BY DEF AllocatedId, TaskId
<1>2. body \in CreateBody
    BY ErraidAssumption
<1>3. ParsedSchedule(body) \in Schedule
    BY <1>2 DEF ParsedSchedule, Schedule, CreateBody
<1> QED
    BY <1>1, <1>2, <1>3 DEF NewTask, Task, CreateBody

-----------------------------------------------------------------------------
(* Types                                                                   *)

(* The entry that is run is an entry of the plan, and its index is one of  *)
(* the array of tasks.                                                     *)
RunningOK ==
    pc \in {"exec", "append", "save"} =>
        /\ entry \in DOMAIN plan
        /\ Current.task_index \in DOMAIN tasks

(* TypeOK is not inductive: SaveTask reads the task of the entry that runs, *)
(* and a reload reads the task files.                                      *)
TypeInv == TypeOK /\ RunningOK /\ Files(disk)

(* The parts of TypeOK a request handler's answer determines.              *)
LEMMA Answered ==
    ASSUME TypeOK, requests # <<>>, NEW type, NEW code, NEW id,
           Answer(type, code, id)
    PROVE  /\ requests' \in Seq(Requests)
           /\ pc' \in {"serve", "due"}
           /\ UNCHANGED <<clock, sent, starts, timeout, now, entry, executed>>
BY HeadTailProperties DEF TypeOK, Answer, env

(* rebuild_plan leaves a typed array of tasks and a typed plan of it.      *)
LEMMA Planned ==
    ASSUME clock \in Nat, NEW ts \in Seq(Task), PlanRebuilt(ts)
    PROVE  /\ tasks' = ts
           /\ plan' \in Seq(PlanEntry)
           /\ Len(plan') = Len(ts)
BY PlanComputed DEF PlanRebuilt

(* So does its failure, whichever of the reload and the second rebuild     *)
(* fails as well.                                                          *)
LEMMA NotPlanned ==
    ASSUME TypeOK, NEW ts \in Seq(Task), NEW d, Files(d), PlanFailed(ts, d)
    PROVE  /\ tasks' \in Seq(Task)
           /\ plan' \in Seq(PlanEntry)
           /\ faults' \in Nat
<1>1. CASE Fails("plan") /\ \E loaded \in LoadOrders(d) : PlanRebuilt(loaded)
    <2>1. PICK loaded \in LoadOrders(d) : PlanRebuilt(loaded)
        BY <1>1
    <2>2. loaded \in Seq(Task)
        BY <2>1, LoadedTasks
    <2> QED
        BY <1>1, <2>1, <2>2, Planned DEF Fails, TypeOK
<1>2. CASE /\ BothFail("plan", "load") \/ Fails("plan")
           /\ tasks' = <<>>
           /\ UNCHANGED <<plan, plan_capacity>>
    BY <1>2 DEF BothFail, Fails, TypeOK
<1>3. CASE /\ BothFail("plan", "plan")
           /\ tasks' \in LoadOrders(d)
           /\ UNCHANGED <<plan, plan_capacity>>
    <2>1. tasks' \in Seq(Task)
        BY <1>3, LoadedTasks
    <2> QED
        BY <1>3, <2>1, SMTT(20) DEF BothFail, TypeOK
<1> QED
    BY <1>1, <1>2, <1>3 DEF PlanFailed

(* One lemma per handler that changes the tasks.                           *)
LEMMA CreateTypes == TypeInv /\ HandleCreate => TypeInv'
<1> SUFFICES ASSUME TypeInv, HandleCreate
             PROVE  TypeInv'
    OBVIOUS
<1> DEFINE body == Head(requests).body
           task == NewTask(AllocatedId, body)
<1>1. requests # <<>> /\ Head(requests).type = "CREATE" /\ pc = "serve"
    BY DEF HandleCreate, Serving
<1>2. body \in CreateBodies
    <2>1. Head(requests) \in Requests
        BY <1>1, HeadTailProperties DEF TypeInv, TypeOK
    <2> QED
        BY <1>1, <2>1, ErraidAssumption DEF Requests, AllQueries
<1>3. /\ AllocatedId \in TaskId
      /\ task \in Task
      /\ task.task_id = AllocatedId
    BY <1>2, NewTaskTyped DEF TypeInv, TypeOK
<1>4. Files(Put(disk, AllocatedId, task))
    BY <1>3, WellFormedPut DEF TypeInv
<1>5. Files(Drop(disk, AllocatedId))
    BY WellFormedDrop DEF TypeInv
<1>6. Append(tasks, task) \in Seq(Task)
    BY <1>3 DEF TypeInv, TypeOK
<1>7. AllocatedId + 1 \in Nat
    BY <1>3 DEF TaskId
<1> HIDE DEF body, task
<1>8. CASE CreateRefused(body)
    <2>1. Answer("RSP_ERROR", "INVALID_REQUEST", 0)
        BY <1>8 DEF CreateRefused, Refuse
    <2> QED
        BY <1>1, <1>8, <2>1, Answered
        DEF CreateRefused, Refuse, memory, store, seen, TypeInv, TypeOK, RunningOK
<1>9. CASE CreateNotAllocated(body)
    <2>1. Answer("RSP_ERROR", "PERSISTENCE_ERROR", 0)
        BY <1>9 DEF CreateNotAllocated, Refuse
    <2>2. next_id' \in Nat /\ faults' \in Nat
        BY <1>7, <1>9 DEF CreateNotAllocated, Fails, TypeInv, TypeOK
    <2> QED
        BY <1>1, <1>9, <2>1, <2>2, Answered
        DEF CreateNotAllocated, Refuse, memory, seen, TypeInv, TypeOK, RunningOK
<1>10. CASE CreateNotWritten(body)
    <2>1. Answer("RSP_ERROR", "PERSISTENCE_ERROR", 0)
        BY <1>10 DEF CreateNotWritten, Refuse
    <2>2. next_id' \in Nat /\ faults' \in Nat
        BY <1>7, <1>10 DEF CreateNotWritten, Fails, TypeInv, TypeOK
    <2> QED
        BY <1>1, <1>10, <2>1, <2>2, Answered
        DEF CreateNotWritten, Refuse, memory, seen, TypeInv, TypeOK, RunningOK
<1>11. CASE CreateNotAdded(body)
    <2>1. Answer("RSP_ERROR", "MEMORY_ERROR", 0)
        BY <1>11 DEF CreateNotAdded, Refuse
    <2>2. next_id' \in Nat /\ faults' \in Nat
        BY <1>7, <1>11, SMTT(20) DEF CreateNotAdded, Fails, BothFail, TypeInv, TypeOK
    <2>3. Files(disk')
        BY <1>4, <1>5, <1>11 DEF CreateNotAdded, task
    <2>4. DOMAIN logs' \subseteq TaskId /\ logs' \in [DOMAIN logs' -> Seq(Nat)]
        BY <1>11 DEF CreateNotAdded, Drop, TypeInv, TypeOK
    <2> QED
        BY <1>1, <1>11, <2>1, <2>2, <2>3, <2>4, Answered
        DEF CreateNotAdded, Refuse, Files, memory, seen, TypeInv, TypeOK, RunningOK
<1>12. CASE CreateNotPlanned(body)
    <2>1. Answer("RSP_ERROR", "SCHEDULER_ERROR", 0)
        BY <1>12 DEF CreateNotPlanned, Refuse
    <2>2. next_id' \in Nat /\ Files(disk')
        BY <1>4, <1>7, <1>12 DEF CreateNotPlanned, task
    <2>3. tasks' \in Seq(Task) /\ plan' \in Seq(PlanEntry) /\ faults' \in Nat
        BY <1>6, <1>12, <2>2, NotPlanned DEF CreateNotPlanned, task, TypeInv
    <2> QED
        BY <1>1, <1>12, <2>1, <2>2, <2>3, Answered
        DEF CreateNotPlanned, Refuse, Files, seen, TypeInv, TypeOK, RunningOK
<1>13. CASE Created(body)
    <2>1. Answer("RSP_CREATE", "OK", AllocatedId)
        BY <1>13 DEF Created
    <2>2. next_id' \in Nat /\ Files(disk')
        BY <1>4, <1>7, <1>13 DEF Created, task
    <2>3. tasks' \in Seq(Task) /\ plan' \in Seq(PlanEntry)
        BY <1>6, <1>13, Planned DEF Created, task, TypeInv, TypeOK
    <2> QED
        BY <1>1, <1>3, <1>13, <2>1, <2>2, <2>3, Answered
        DEF Created, Files, TypeInv, TypeOK, RunningOK
<1> QED
    BY <1>8, <1>9, <1>10, <1>11, <1>12, <1>13 DEF HandleCreate, body

(* A remove request keeps the types.                                       *)
LEMMA RemoveTypes == TypeInv /\ HandleRemove => TypeInv'
<1> SUFFICES ASSUME TypeInv, HandleRemove
             PROVE  TypeInv'
    OBVIOUS
<1> DEFINE id == Head(requests).task_id
           rest == RemoveAt(tasks, FirstIndex(id))
<1>1. requests # <<>> /\ pc = "serve"
    BY DEF HandleRemove, Serving
<1>2. Files(Drop(disk, id))
    BY WellFormedDrop DEF TypeInv
<1>3. ASSUME id \in TaskIds
      PROVE  rest \in Seq(Task)
    BY <1>3, FirstIndexFinds, RemoveAtProperties DEF TypeInv, TypeOK
<1>4. ASSUME Unlinked(id)
      PROVE  /\ id \in TaskIds /\ Files(disk')
             /\ DOMAIN logs' \subseteq TaskId
             /\ logs' \in [DOMAIN logs' -> Seq(Nat)]
             /\ acked' \subseteq TaskId /\ removed' \subseteq TaskId
             /\ next_id' \in Nat
    BY <1>2, <1>4 DEF Unlinked, Drop, Files, TypeInv, TypeOK
<1> HIDE DEF id, rest
<1>5. CASE RemoveRefused(id)
    <2>1. Answer("RSP_ERROR", IF id = -1 THEN "INVALID_REQUEST"
                                         ELSE "TASK_NOT_FOUND", 0)
        BY <1>5 DEF RemoveRefused, Refuse
    <2> QED
        BY <1>1, <1>5, <2>1, Answered
        DEF RemoveRefused, Refuse, memory, store, seen, TypeInv, TypeOK, RunningOK
<1>6. CASE RemoveNotUnlinked(id)
    <2>1. Answer("RSP_ERROR", "PERSISTENCE_ERROR", 0)
        BY <1>6 DEF RemoveNotUnlinked, Refuse
    <2>2. faults' \in Nat
        BY <1>6 DEF RemoveNotUnlinked, Fails, TypeInv, TypeOK
    <2> QED
        BY <1>1, <1>6, <2>1, <2>2, Answered
        DEF RemoveNotUnlinked, Refuse, memory, store, seen, TypeInv, TypeOK,
            RunningOK
<1>7. CASE RemoveNotPlanned(id)
    <2>1. Answer("RSP_ERROR", "SCHEDULER_ERROR", 0)
        BY <1>7 DEF RemoveNotPlanned, Refuse
    <2>2. Unlinked(id) /\ PlanFailed(rest, disk')
        BY <1>7 DEF RemoveNotPlanned, rest
    <2>3. tasks' \in Seq(Task) /\ plan' \in Seq(PlanEntry) /\ faults' \in Nat
        BY <1>3, <1>4, <2>2, NotPlanned DEF TypeInv
    <2> QED
        BY <1>1, <1>4, <1>7, <2>1, <2>2, <2>3, Answered
        DEF RemoveNotPlanned, Refuse, Files, TypeInv, TypeOK, RunningOK
<1>8. CASE Removed(id)
    <2>1. Answer("RSP_REMOVE", "OK", id)
        BY <1>8 DEF Removed
    <2>2. Unlinked(id) /\ PlanRebuilt(rest)
        BY <1>8 DEF Removed, rest
    <2>3. tasks' \in Seq(Task) /\ plan' \in Seq(PlanEntry)
        BY <1>3, <1>4, <2>2, Planned DEF TypeInv, TypeOK
    <2> QED
        BY <1>1, <1>4, <1>8, <2>1, <2>2, <2>3, Answered
        DEF Removed, Files, TypeInv, TypeOK, RunningOK
<1> QED
    BY <1>5, <1>6, <1>7, <1>8 DEF HandleRemove, id

(* The handlers that change no task.                                       *)
LEMMA OtherHandlersTypes ==
    TypeInv /\ (HandleQuery \/ HandleShutdown) => TypeInv'
<1> SUFFICES ASSUME TypeInv, HandleQuery \/ HandleShutdown
             PROVE  TypeInv'
    OBVIOUS
<1>1. CASE HandleQuery
    <2>1. requests # <<>> /\ pc = "serve"
        BY <1>1 DEF HandleQuery, Serving
    <2>2. \E type, code, id : Answer(type, code, id)
        BY <1>1, Zenon DEF HandleQuery
    <2> QED
        BY <1>1, <2>1, <2>2, Answered
        DEF HandleQuery, memory, store, seen, TypeInv, TypeOK, RunningOK
<1>2. CASE HandleShutdown
    <2>1. requests # <<>> /\ pc = "serve"
        BY <1>2 DEF HandleShutdown, Serving
    <2>2. Answer("RSP_SHUTDOWN", "OK", 0)
        BY <1>2 DEF HandleShutdown
    <2> QED
        BY <1>2, <2>1, <2>2, Answered
        DEF HandleShutdown, memory, store, seen, TypeInv, TypeOK, RunningOK
<1> QED
    BY <1>1, <1>2

(* The clock, the clients and the signals.                                 *)
LEMMA EnvironmentTypes == TypeInv /\ Environment => TypeInv'
<1> SUFFICES ASSUME TypeInv, Environment
             PROVE  TypeInv'
    OBVIOUS
<1>1. CASE Tick
    BY <1>1 DEF Tick, control, memory, store, seen, TypeInv, TypeOK, RunningOK,
                Current
<1>2. CASE SendRequest
    BY <1>2, SMTT(20) DEF SendRequest, control, memory, store, seen, TypeInv, TypeOK,
                RunningOK, Current
<1>3. CASE Signal
    BY <1>3 DEF Signal, env, memory, store, seen, TypeInv, TypeOK, RunningOK,
                Current
<1> QED
    BY <1>1, <1>2, <1>3 DEF Environment

(* A crash inside a creation is one after a request that was accepted.     *)
LEMMA CutBody ==
    ASSUME TypeInv, CreateCut
    PROVE  /\ Head(requests).body \in CreateBodies
           /\ NewTask(AllocatedId, Head(requests).body) \in Task
           /\ NewTask(AllocatedId, Head(requests).body).task_id = AllocatedId
           /\ AllocatedId \in TaskId
<1>1. requests # <<>> /\ Head(requests).type = "CREATE"
    BY DEF CreateCut, Serving
<1>2. Head(requests) \in Requests
    BY <1>1, HeadTailProperties DEF TypeInv, TypeOK
<1>3. Head(requests).body \in CreateBodies
    BY <1>1, <1>2, ErraidAssumption DEF Requests, AllQueries
<1> QED
    BY <1>3, NewTaskTyped DEF TypeInv, TypeOK

(* Whatever writes of a handler a crash follows, files and identifiers are *)
(* typed.                                                                  *)
LEMMA CutTypes ==
    ASSUME TypeInv, HandlerCrash
    PROVE  /\ Files(disk') /\ next_id' \in Nat
           /\ DOMAIN logs' \subseteq TaskId
           /\ logs' \in [DOMAIN logs' -> Seq(Nat)]
           /\ acked' \subseteq TaskId /\ removed' \subseteq TaskId
<1>1. CASE CreateCut
    <2> DEFINE task == NewTask(AllocatedId, Head(requests).body)
    <2>1. Files(Put(disk, AllocatedId, task)) /\ AllocatedId + 1 \in Nat
        BY <1>1, CutBody, WellFormedPut DEF TypeInv, TaskId
    <2> HIDE DEF task
    <2>2. /\ disk' \in {disk, Put(disk, AllocatedId, task)}
          /\ next_id' \in {AllocatedId + 1, 0}
          /\ logs' = logs /\ acked' = acked /\ removed' = removed
        BY <1>1 DEF CreateCut, task, seen
    <2> QED
        BY <2>1, <2>2 DEF TypeInv, TypeOK
<1>2. CASE RemoveCut
    <2> DEFINE id == Head(requests).task_id
    <2>1. Unlinked(id) /\ Files(Drop(disk, id))
        BY <1>2, WellFormedDrop DEF RemoveCut, TypeInv
    <2> HIDE DEF id
    <2> QED
        BY <2>1 DEF Unlinked, Drop, Files, TypeInv, TypeOK
<1>3. CASE UNCHANGED <<store, seen>>
    BY <1>3 DEF store, seen, TypeInv, TypeOK
<1> QED
    BY <1>1, <1>2, <1>3 DEF HandlerCrash

(* The process ends with its memory, and with all requests, all but the    *)
(* one it was at, or none.                                                 *)
LEMMA EndOfProcess ==
    ASSUME TypeInv, Crash \/ HandlerCrash \/ Stop
    PROVE  /\ requests' \in Seq(Requests)
           /\ \E left : ProcessGone(left)
<1>1. Tail(requests) \in Seq(Requests) \/ requests = <<>>
    BY HeadTailProperties DEF TypeInv, TypeOK
<1>2. <<>> \in Seq(Requests) /\ requests \in Seq(Requests)
    BY EmptySeq DEF TypeInv, TypeOK
<1> QED
    BY <1>1, <1>2 DEF Crash, HandlerCrash, Stop, ProcessGone

(* The start and the end of the process.                                   *)
LEMMA ProcessTypes == TypeInv /\ Process => TypeInv'
<1> SUFFICES ASSUME TypeInv, Process
             PROVE  TypeInv'
    OBVIOUS
<1>1. CASE Start
    <2>1. PICK loaded \in LoadOrders(disk) : PlanRebuilt(loaded)
        BY <1>1 DEF Start
    <2>2. loaded \in Seq(Task)
        BY <2>1, LoadedTasks DEF TypeInv
    <2>3. tasks' \in Seq(Task) /\ plan' \in Seq(PlanEntry)
        BY <2>1, <2>2, Planned DEF TypeInv, TypeOK
    <2> QED
        BY <1>1, <2>3, SMTT(20) DEF Start, store, seen, TypeInv, TypeOK, RunningOK
<1>2. CASE Crash \/ HandlerCrash \/ Stop
    <2>1. PICK left : ProcessGone(left)
        BY <1>2, EndOfProcess
    <2>2. tasks' \in Seq(Task) /\ plan' \in Seq(PlanEntry)
        BY <2>1, EmptySeq DEF ProcessGone
    <2>3. should_quit' \in BOOLEAN /\ wake' \in BOOLEAN /\ executed' \in BOOLEAN
        BY <2>1, Zenon DEF ProcessGone
    <2>4. /\ Files(disk') /\ next_id' \in Nat
          /\ DOMAIN logs' \subseteq TaskId
          /\ logs' \in [DOMAIN logs' -> Seq(Nat)]
          /\ acked' \subseteq TaskId /\ removed' \subseteq TaskId
        BY <1>2, CutTypes DEF Crash, Stop, store, seen, TypeInv, TypeOK
    <2>5. requests' \in Seq(Requests)
        BY <1>2, EndOfProcess
    <2>6. /\ pc' = "down" /\ timeout' = -1 /\ now' = 0 /\ entry' = 1
          /\ UNCHANGED <<clock, sent, starts, faults>>
        BY <2>1 DEF ProcessGone, env
    <2>7. TypeOK'
        BY <2>2, <2>3, <2>4, <2>5, <2>6 DEF Files, TypeInv, TypeOK
    <2> QED
        BY <2>4, <2>6, <2>7 DEF TypeInv, RunningOK
<1> QED
    BY <1>1, <1>2 DEF Process

(* Entering and leaving poll keep the types.                               *)
LEMMA LoopTypes == TypeInv /\ Loop => TypeInv'
<1> SUFFICES ASSUME TypeInv, Loop
             PROVE  TypeInv'
    OBVIOUS
<1>1. CASE Poll
    BY <1>1, TimeoutTyped
    DEF Poll, env, memory, store, seen, TypeInv, TypeOK, RunningOK
<1>2. CASE PollReturns
    BY <1>2 DEF PollReturns, env, memory, store, seen, TypeInv, TypeOK, RunningOK
<1> QED
    BY <1>1, <1>2 DEF Loop

(* The runs of due tasks.                                                  *)
LEMMA RunsTypes == TypeInv /\ Runs => TypeInv'
<1> SUFFICES ASSUME TypeInv, Runs
             PROVE  TypeInv'
    OBVIOUS
<1>1. CASE BeginPass
    <2>1. /\ pc' \in {"loop", "scan"}
          /\ now' \in Nat /\ entry' \in Nat \ {0}
        BY <1>1 DEF BeginPass, TypeInv, TypeOK
    <2>2. executed' \in BOOLEAN
        BY <1>1, Zenon DEF BeginPass, TypeInv, TypeOK
    <2> QED
        BY <1>1, <2>1, <2>2
        DEF BeginPass, env, memory, store, seen, TypeInv, TypeOK, RunningOK
<1>2. CASE EndPass
    BY <1>2 DEF EndPass, env, memory, store, seen, TypeInv, TypeOK, RunningOK
<1>3. CASE VisitDue
    <2> DEFINE i == Min(Due)
    <2>1. Due \in SUBSET Nat /\ Due # {}
        <3>1. entry \in Nat /\ Len(plan) \in Nat
            BY DEF TypeInv, TypeOK
        <3>2. Due # {}
            BY <1>3 DEF VisitDue
        <3>3. \A k \in entry..Len(plan) : k \in Nat
            BY <3>1
        <3> QED
            BY <3>2, <3>3 DEF Due
    <2>2. i \in Due
        BY <2>1, MinProperty
    <2>3. i \in DOMAIN plan /\ i \in Nat \ {0}
        BY <2>2 DEF Due, TypeInv, TypeOK
    <2>4. plan[i] \in PlanEntry
        BY <2>3 DEF TypeInv, TypeOK
    <2> HIDE DEF i
    <2>5. [plan EXCEPT ![i].next_epoch = -1] \in Seq(PlanEntry)
        <3>1. [plan[i] EXCEPT !.next_epoch = -1] \in PlanEntry
            BY <2>4 DEF PlanEntry
        <3> QED
            BY <2>3, <3>1 DEF TypeInv, TypeOK
    <2>6. plan[i].task_index \in Nat \ {0}
        BY <2>4 DEF PlanEntry
    <2>7. executed' \in BOOLEAN
        BY <1>3, Zenon DEF VisitDue
    <2>8. UNCHANGED <<clock, sent, starts, requests, should_quit, wake, timeout,
                      now, tasks, disk, logs, next_id, faults, acked, removed>>
        BY <1>3 DEF VisitDue, env, store, seen
    <2>9. \/ pc' = "scan" /\ entry' = i + 1
          \/ /\ pc' = "exec" /\ entry' = i /\ plan' = plan
             /\ plan[i].task_index <= Len(tasks)
        BY <1>3 DEF VisitDue, i
    <2>10. plan' \in Seq(PlanEntry)
        BY <1>3, <2>5 DEF VisitDue, i, TypeInv, TypeOK
    <2>11. RunningOK'
        BY <2>3, <2>6, <2>8, <2>9 DEF RunningOK, Current, TypeInv, TypeOK
    <2> QED
        BY <2>3, <2>7, <2>8, <2>9, <2>10, <2>11, SMTT(20) DEF TypeInv, TypeOK
<1>4. CASE ChildEnds
    BY <1>4 DEF ChildEnds, env, memory, store, seen, Current, TypeInv, TypeOK,
                RunningOK
<1>5. CASE AppendHistory
    <2> DEFINE id == RunningTask.task_id
    <2>1. RunningTask \in Task
        BY <1>5 DEF AppendHistory, RunningTask, TypeInv, TypeOK, RunningOK
    <2>2. id \in TaskId
        BY <2>1 DEF Task
    <2>3. Append(Log(id), now) \in Seq(Nat)
        BY DEF Log, TypeInv, TypeOK
    <2> HIDE DEF id
    <2>4. DOMAIN logs' \subseteq TaskId /\ logs' \in [DOMAIN logs' -> Seq(Nat)]
        BY <1>5, <2>2, <2>3 DEF AppendHistory, Put, id, TypeInv, TypeOK
    <2>5. faults' \in Nat
        BY <1>5 DEF AppendHistory, Fails, TypeInv, TypeOK
    <2> QED
        BY <1>5, <2>4, <2>5
        DEF AppendHistory, env, memory, seen, Current, TypeInv, TypeOK, RunningOK
<1>6. CASE SaveTask
    <2> DEFINE index == Current.task_index
               ran == [RunningTask EXCEPT !.last_run_epoch = now]
    <2>1. entry \in DOMAIN plan /\ index \in DOMAIN tasks
        BY <1>6 DEF SaveTask, TypeInv, RunningOK
    <2>2. ran \in Task
        <3>1. RunningTask \in Task
            BY <2>1 DEF RunningTask, TypeInv, TypeOK
        <3>2. now \in Int
            BY DEF TypeInv, TypeOK
        <3> QED
            BY <3>1, <3>2 DEF Task
    <2>3. NextOccurrence(ran.schedule, now) \in Nat \cup {-1}
        BY NextOccurrenceResult DEF TypeInv, TypeOK
    <2>4. Files(Put(disk, ran.task_id, ran))
        BY <2>2, WellFormedPut DEF TypeInv
    <2> HIDE DEF index, ran
    <2>5. [plan EXCEPT ![entry].next_epoch = NextOccurrence(ran.schedule, now)]
              \in Seq(PlanEntry)
        <3>1. plan[entry] \in PlanEntry
            BY <2>1 DEF TypeInv, TypeOK
        <3>2. [plan[entry] EXCEPT !.next_epoch =
                  NextOccurrence(ran.schedule, now)] \in PlanEntry
            BY <2>3, <3>1 DEF PlanEntry
        <3> QED
            BY <2>1, <3>2 DEF TypeInv, TypeOK
    <2>6. [tasks EXCEPT ![index] = ran] \in Seq(Task)
        BY <2>1, <2>2 DEF TypeInv, TypeOK
    <2>7. Files(disk') /\ faults' \in Nat
        BY <1>6, <2>4 DEF SaveTask, index, ran, Fails, TypeInv, TypeOK
    <2>8. tasks' \in Seq(Task) /\ plan' \in Seq(PlanEntry)
        BY <1>6, <2>5, <2>6 DEF SaveTask, index, ran
    <2>9. /\ pc' = "scan" /\ entry' = entry + 1
          /\ UNCHANGED <<clock, sent, starts, requests, should_quit, wake,
                         timeout, now, executed, logs, next_id, acked, removed>>
        BY <1>6 DEF SaveTask, env, seen
    <2>10. RunningOK'
        BY <2>9 DEF RunningOK
    <2>11. DOMAIN disk' \subseteq TaskId /\ disk' \in [DOMAIN disk' -> Task]
        BY <2>7 DEF Files
    <2>12. entry' \in Nat \ {0}
        BY <2>9 DEF TypeInv, TypeOK
    <2>13. TypeOK'
        BY <2>7, <2>8, <2>9, <2>11, <2>12 DEF TypeInv, TypeOK
    <2> QED
        BY <2>7, <2>10, <2>13 DEF TypeInv
<1> QED
    BY <1>1, <1>2, <1>3, <1>4, <1>5, <1>6 DEF Runs

(* The state before the first start is well typed.                         *)
LEMMA TypeInvInit == Init => TypeInv
<1> SUFFICES ASSUME Init
             PROVE  TypeInv
    OBVIOUS
<1>1. requests \in Seq(Requests) /\ tasks \in Seq(Task) /\ plan \in Seq(PlanEntry)
    BY EmptySeq DEF Init
<1>2. should_quit \in BOOLEAN /\ wake \in BOOLEAN /\ executed \in BOOLEAN
    BY Zenon DEF Init
<1>3. DOMAIN disk = {} /\ DOMAIN logs = {}
    BY DEF Init
<1>4. disk \in [{} -> Task] /\ logs \in [{} -> Seq(Nat)]
    BY DEF Init
<1>5. Files(disk)
    BY <1>3, <1>4, FS_EmptySet DEF Files
<1> QED
    BY <1>1, <1>2, <1>3, <1>4, <1>5 DEF Init, TypeInv, TypeOK, RunningOK

(* Every state is well typed, has well-formed task files, and has a plan   *)
(* entry for the task that runs.                                           *)
LEMMA TypeInvHolds == Spec => []TypeInv
<1>1. Init => TypeInv
    BY TypeInvInit
<1>2. TypeInv /\ [Next]_vars => TypeInv'
    <2> SUFFICES ASSUME TypeInv, [Next]_vars
                 PROVE  TypeInv'
        OBVIOUS
    <2>1. CASE Handle
        BY <2>1, CreateTypes, RemoveTypes, OtherHandlersTypes DEF Handle
    <2>2. CASE UNCHANGED vars
        BY <2>2 DEF vars, TypeInv, TypeOK, RunningOK, Current
    <2> QED
        BY <2>1, <2>2, EnvironmentTypes, ProcessTypes, LoopTypes, RunsTypes
        DEF Next
<1> QED
    BY <1>1, <1>2, PTL DEF Spec

(* For every calendar, set of requests, failures and bounds, the daemon's  *)
(* variables keep their types across handlers, runs, crashes and restarts. *)
THEOREM ErraidTypes == Spec => []TypeOK
BY TypeInvHolds, PTL DEF TypeInv

-----------------------------------------------------------------------------
(* The array of the plan                                                   *)

CapacityInv == TypeInv /\ plan_capacity \in Nat /\ PlanFits

(* A plan that is computed fits in the array grown for it.                 *)
LEMMA PlannedFits ==
    ASSUME CapacityInv, NEW ts \in Seq(Task), PlanRebuilt(ts)
    PROVE  plan_capacity' \in Nat /\ PlanFits'
<1>1. clock \in Nat /\ plan_capacity \in Nat
    BY DEF CapacityInv, TypeInv, TypeOK
<1>2. PICK n \in Nat : n = Len(ts)
    OBVIOUS
<1>3. Len(plan') = n /\ plan_capacity' = GrownCapacity(plan_capacity, n)
    BY <1>1, <1>2, Planned DEF PlanRebuilt
<1> QED
    BY <1>1, <1>2, <1>3, GrownFits DEF PlanFits

(* A step that changes at most deadlines in the plan keeps it in its array.*)
LEMMA SamePlanFits ==
    ASSUME CapacityInv, plan_capacity' = plan_capacity, Len(plan') = Len(plan)
    PROVE  plan_capacity' \in Nat /\ PlanFits'
BY DEF CapacityInv, PlanFits

(* A handler leaves the plan and its array, or computes it.                *)
LEMMA HandlersFit ==
    ASSUME CapacityInv, Handle
    PROVE  plan_capacity' \in Nat /\ PlanFits'
<1>0. tasks \in Seq(Task) /\ Files(disk) /\ requests \in Seq(Requests)
    BY DEF CapacityInv, TypeInv, TypeOK
<1>1. ASSUME NEW ts \in Seq(Task), NEW d, Files(d), PlanFailed(ts, d)
      PROVE  plan_capacity' \in Nat /\ PlanFits'
    <2>1. CASE \E loaded \in LoadOrders(d) : PlanRebuilt(loaded)
        BY <1>1, <2>1, LoadedTasks, PlannedFits
    <2>2. CASE UNCHANGED <<plan, plan_capacity>>
        BY <2>2, SamePlanFits
    <2> QED
        BY <1>1, <2>1, <2>2 DEF PlanFailed
<1>2. CASE HandleCreate
    <2> DEFINE body == Head(requests).body
               task == NewTask(AllocatedId, body)
    <2>1. body \in CreateBodies
        <3>1. requests # <<>> /\ Head(requests).type = "CREATE"
            BY <1>2 DEF HandleCreate, Serving
        <3>2. Head(requests) \in Requests
            BY <1>0, <3>1, HeadTailProperties
        <3> QED
            BY <3>1, <3>2, ErraidAssumption DEF Requests, AllQueries
    <2>2. task \in Task /\ task.task_id = AllocatedId
        BY <2>1, NewTaskTyped DEF CapacityInv, TypeInv, TypeOK
    <2>3. Append(tasks, task) \in Seq(Task) /\ Files(Put(disk, AllocatedId, task))
        BY <1>0, <2>2, WellFormedPut
    <2> HIDE DEF body, task
    <2>4. CASE CreateNotPlanned(body)
        <3>1. PlanFailed(Append(tasks, task), disk') /\ Files(disk')
            BY <2>3, <2>4 DEF CreateNotPlanned, task
        <3> QED
            BY <1>1, <2>3, <3>1
    <2>5. CASE Created(body)
        <3>1. PlanRebuilt(Append(tasks, task))
            BY <2>5 DEF Created, task
        <3> QED
            BY <2>3, <3>1, PlannedFits
    <2>6. CASE CreateRefused(body) \/ CreateNotAllocated(body)
               \/ CreateNotWritten(body) \/ CreateNotAdded(body)
        <3>1. UNCHANGED memory
            BY <2>6 DEF CreateRefused, CreateNotAllocated, CreateNotWritten,
                        CreateNotAdded
        <3> QED
            BY <3>1, SamePlanFits DEF memory
    <2> QED
        BY <1>2, <2>4, <2>5, <2>6 DEF HandleCreate, body
<1>3. CASE HandleRemove
    <2> DEFINE id == Head(requests).task_id
               rest == RemoveAt(tasks, FirstIndex(id))
    <2>1. ASSUME Unlinked(id)
          PROVE  Files(disk') /\ rest \in Seq(Task)
        <3>1. Files(Drop(disk, id))
            BY <1>0, WellFormedDrop
        <3>2. disk' = Drop(disk, id) /\ id \in TaskIds
            BY <2>1 DEF Unlinked
        <3> QED
            BY <1>0, <3>1, <3>2, FirstIndexFinds, RemoveAtProperties
    <2> HIDE DEF id, rest
    <2>2. CASE RemoveNotPlanned(id)
        <3>1. Unlinked(id) /\ PlanFailed(rest, disk')
            BY <2>2 DEF RemoveNotPlanned, rest
        <3> QED
            BY <1>1, <2>1, <3>1
    <2>3. CASE Removed(id)
        <3>1. Unlinked(id) /\ PlanRebuilt(rest)
            BY <2>3 DEF Removed, rest
        <3> QED
            BY <2>1, <3>1, PlannedFits
    <2>4. CASE RemoveRefused(id) \/ RemoveNotUnlinked(id)
        <3>1. UNCHANGED memory
            BY <2>4 DEF RemoveRefused, RemoveNotUnlinked
        <3> QED
            BY <3>1, SamePlanFits DEF memory
    <2> QED
        BY <1>3, <2>2, <2>3, <2>4 DEF HandleRemove, id
<1>4. CASE HandleQuery \/ HandleShutdown
    <2>1. UNCHANGED memory
        BY <1>4 DEF HandleQuery, HandleShutdown
    <2> QED
        BY <2>1, SamePlanFits DEF memory
<1> QED
    BY <1>2, <1>3, <1>4 DEF Handle

(* For every number of tasks, failures and restarts, the plan never has    *)
(* more entries than its array holds.                                      *)
THEOREM PlanAlwaysFits == Spec => []PlanFits
<1>1. Init /\ TypeInv => CapacityInv
    BY DEF Init, PlanFits, CapacityInv
<1>2. CapacityInv /\ TypeInv' /\ [Next]_vars => CapacityInv'
    <2> SUFFICES ASSUME CapacityInv, [Next]_vars
                 PROVE  plan_capacity' \in Nat /\ PlanFits'
        BY DEF CapacityInv
    <2>0. plan \in Seq(PlanEntry) /\ Files(disk)
        BY DEF CapacityInv, TypeInv, TypeOK
    <2>1. CASE Environment \/ Loop \/ UNCHANGED vars
        <3>1. UNCHANGED <<plan, plan_capacity>>
            BY <2>1 DEF Environment, Tick, SendRequest, Signal, Loop, Poll,
                        PollReturns, memory, vars
        <3> QED
            BY <3>1, SamePlanFits
    <2>2. CASE Start
        <3>1. PICK loaded \in LoadOrders(disk) : PlanRebuilt(loaded)
            BY <2>2 DEF Start
        <3> QED
            BY <2>0, <3>1, LoadedTasks, PlannedFits
    <2>3. CASE Crash \/ HandlerCrash \/ Stop
        <3>1. plan' = <<>> /\ plan_capacity' = 0
            BY <2>3 DEF Crash, HandlerCrash, Stop, ProcessGone
        <3> QED
            BY <3>1 DEF PlanFits
    <2>4. CASE Runs
        <3>1. plan_capacity' = plan_capacity
            BY <2>4 DEF Runs, BeginPass, EndPass, VisitDue, ChildEnds,
                        AppendHistory, SaveTask, memory
        <3>2. \/ plan' = plan
              \/ \E i, e : plan' = [plan EXCEPT ![i].next_epoch = e]
            BY <2>4 DEF Runs, BeginPass, EndPass, VisitDue, ChildEnds,
                        AppendHistory, SaveTask, memory
        <3>3. Len(plan') = Len(plan)
            BY <2>0, <3>2
        <3> QED
            BY <3>1, <3>3, SamePlanFits
    <2> QED
        BY <2>1, <2>2, <2>3, <2>4, HandlersFit DEF Next, Process
<1>3. CapacityInv => PlanFits
    BY DEF CapacityInv
<1> QED
    BY <1>1, <1>2, <1>3, TypeInvHolds, PTL DEF Spec

-----------------------------------------------------------------------------
(* Identifiers, removals, memory and disk                                  *)

IdsOf(ts) == {ts[i].task_id : i \in DOMAIN ts}

Distinct(ts) ==
    \A i, j \in DOMAIN ts : ts[i].task_id = ts[j].task_id => i = j

(* A load gives each identifier on disk to one task.                       *)
LEMMA LoadedIds ==
    ASSUME NEW d, Files(d), NEW ts \in LoadOrders(d)
    PROVE  Distinct(ts) /\ IdsOf(ts) = DOMAIN d
<1>1. /\ ts \in Seq(Task)
      /\ \A i \in 1..Len(ts) : ts[i].task_id \in DOMAIN d
      /\ \A i, j \in 1..Len(ts) : ts[i].task_id = ts[j].task_id => i = j
      /\ \A id \in DOMAIN d : \E i \in 1..Len(ts) : ts[i].task_id = id
    BY LoadedTasks
<1>2. DOMAIN ts = 1..Len(ts)
    BY <1>1
<1>3. Distinct(ts)
    BY <1>1, <1>2 DEF Distinct
<1>4. ASSUME NEW id
      PROVE  id \in IdsOf(ts) <=> id \in DOMAIN d
    BY <1>1, <1>2 DEF IdsOf
<1> QED
    BY <1>3, <1>4

(* Appending a task with a new identifier keeps identifiers distinct.      *)
LEMMA AppendedIds ==
    ASSUME NEW ts \in Seq(Task), Distinct(ts), NEW task \in Task,
           task.task_id \notin IdsOf(ts)
    PROVE  /\ Distinct(Append(ts, task))
           /\ IdsOf(Append(ts, task)) = IdsOf(ts) \cup {task.task_id}
<1> DEFINE a == Append(ts, task)
           n == Len(ts)
<1>1. /\ n \in Nat /\ DOMAIN ts = 1..n /\ DOMAIN a = 1..(n + 1)
      /\ \A i \in 1..n : a[i] = ts[i]
      /\ a[n + 1] = task
    OBVIOUS
<1> HIDE DEF a, n
<1>2. \A i \in DOMAIN a : i \in DOMAIN ts \/ i = n + 1
    BY <1>1
<1>3. DOMAIN ts \subseteq DOMAIN a /\ n + 1 \in DOMAIN a /\ n + 1 \notin DOMAIN ts
    BY <1>1
<1>4. Distinct(a)
    BY <1>1, <1>2 DEF Distinct, IdsOf
<1>5. IdsOf(a) = IdsOf(ts) \cup {task.task_id}
    BY <1>1, <1>2, <1>3 DEF IdsOf
<1> QED
    BY <1>4, <1>5 DEF a

(* Removing one task takes its identifier away and no other.               *)
LEMMA RemovedIds ==
    ASSUME NEW ts \in Seq(Task), Distinct(ts), NEW k \in 1..Len(ts)
    PROVE  /\ Distinct(RemoveAt(ts, k))
           /\ IdsOf(RemoveAt(ts, k)) = IdsOf(ts) \ {ts[k].task_id}
<1> DEFINE r == RemoveAt(ts, k)
           n == Len(ts)
<1>1. /\ n \in Nat /\ DOMAIN ts = 1..n /\ DOMAIN r = 1..(n - 1)
      /\ \A i \in 1..(n - 1) : r[i] = IF i < k THEN ts[i] ELSE ts[i + 1]
    BY RemoveAtProperties
<1> HIDE DEF r, n
<1>2. \A i \in DOMAIN r : \E j \in DOMAIN ts :
          j # k /\ r[i] = ts[j] /\ j = IF i < k THEN i ELSE i + 1
    BY <1>1 DEF n
<1>3. \A j \in DOMAIN ts \ {k} : \E i \in DOMAIN r : r[i] = ts[j]
    <2> SUFFICES ASSUME NEW j \in DOMAIN ts \ {k}
                 PROVE  \E i \in DOMAIN r : r[i] = ts[j]
        OBVIOUS
    <2>1. CASE j < k
        BY <1>1, <2>1 DEF n
    <2>2. CASE j > k
        <3>1. j - 1 \in 1..(n - 1) /\ ~(j - 1 < k) /\ (j - 1) + 1 = j
            BY <1>1, <2>2 DEF n
        <3> QED
            BY <1>1, <3>1
    <2> QED
        BY <1>1, <2>1, <2>2
<1>4. Distinct(r)
    <2> SUFFICES ASSUME NEW i \in DOMAIN r, NEW j \in DOMAIN r,
                        r[i].task_id = r[j].task_id
                 PROVE  i = j
        BY DEF Distinct
    <2>1. PICK i2 \in DOMAIN ts :
              r[i] = ts[i2] /\ i2 = IF i < k THEN i ELSE i + 1
        BY <1>2
    <2>2. PICK j2 \in DOMAIN ts :
              r[j] = ts[j2] /\ j2 = IF j < k THEN j ELSE j + 1
        BY <1>2
    <2>3. i2 = j2
        BY <2>1, <2>2 DEF Distinct
    <2> QED
        BY <1>1, <2>1, <2>2, <2>3
<1>5. IdsOf(r) = IdsOf(ts) \ {ts[k].task_id}
    <2>1. k \in DOMAIN ts
        BY <1>1 DEF n
    <2> QED
        BY <1>2, <1>3, <2>1 DEF IdsOf, Distinct
<1> QED
    BY <1>4, <1>5 DEF r

(* After a failure to plan, the tasks in memory are those of the task      *)
(* files; only a second failure, or a file that cannot be read, can leave  *)
(* none.                                                                   *)
LEMMA NotPlannedIds ==
    ASSUME NEW ts, NEW d, Files(d), PlanFailed(ts, d)
    PROVE  /\ Distinct(tasks') /\ TaskIds' \subseteq DOMAIN d
           /\ \/ faults + 2 <= MaxFaults /\ faults' = faults + 2
              \/ ~Loads(d) /\ Fails("plan")
              \/ tasks' \in LoadOrders(d)
<1>1. TaskIds' = IdsOf(tasks')
    BY DEF TaskIds, IdsOf
<1>2. ASSUME tasks' = <<>>
      PROVE  Distinct(tasks') /\ TaskIds' \subseteq DOMAIN d
    BY <1>1, <1>2 DEF Distinct, IdsOf
<1>3. ASSUME tasks' \in LoadOrders(d)
      PROVE  Distinct(tasks') /\ TaskIds' \subseteq DOMAIN d
    BY <1>1, <1>3, LoadedIds
<1>4. tasks' = <<>> \/ tasks' \in LoadOrders(d)
    BY DEF PlanFailed, PlanRebuilt
<1>5. \/ faults + 2 <= MaxFaults /\ faults' = faults + 2
      \/ ~Loads(d) /\ Fails("plan")
      \/ tasks' \in LoadOrders(d)
    BY DEF PlanFailed, PlanRebuilt, BothFail
<1> QED
    BY <1>2, <1>3, <1>4, <1>5

-----------------------------------------------------------------------------
(* Identifiers and removals, when no failure leaves next_id truncated.     *)

NeverTruncated == "truncated" \notin FaultKinds

IdInv == TypeInv /\ IdsUnique /\ RemovedIsGone

(* IdsUnique and RemovedIsGone in the terms of the lemmas above.           *)
LEMMA IdInvDef ==
    IdInv <=>
        /\ TypeInv
        /\ Distinct(tasks)
        /\ \A id \in IdsOf(tasks) \cup DOMAIN disk \cup DOMAIN logs
                         \cup acked \cup removed :
               id < AllocatedId
        /\ removed \cap (IdsOf(tasks) \cup DOMAIN disk) = {}
BY DEF IdInv, IdsUnique, RemovedIsGone, Distinct, IdsOf, TaskIds

(* The identifiers in memory or on disk, and the one a creation takes.     *)
Present == IdsOf(tasks) \cup DOMAIN disk
Fresh(id) == id = AllocatedId /\ AllocatedId < AllocatedId'

(* Any step that removes nothing: the identifiers it leaves were there, or *)
(* it took the next one.                                                   *)
LEMMA IdInvKept ==
    ASSUME IdInv, TypeInv', Distinct(tasks'), AllocatedId <= AllocatedId',
           \A id \in Present' : id \in Present \/ Fresh(id),
           \A id \in acked' : id \in acked \/ Fresh(id),
           \A id \in DOMAIN logs' : id \in DOMAIN logs \/ id \in Present,
           removed' = removed
    PROVE  IdInv'
<1>1. next_id \in Nat /\ next_id' \in Nat
    BY DEF IdInv, TypeInv, TypeOK
<1>2. AllocatedId \in Nat /\ AllocatedId' \in Nat
    BY <1>1 DEF AllocatedId
<1>3. Present \cup DOMAIN logs \cup acked \cup removed \subseteq Nat
    <2>1. ASSUME NEW i \in DOMAIN tasks
          PROVE  tasks[i].task_id \in TaskId
        <3>1. tasks \in Seq(Task)
            BY DEF IdInv, TypeInv, TypeOK
        <3>2. tasks[i] \in Task
            BY <3>1
        <3> QED
            BY <3>2 DEF Task
    <2>2. DOMAIN disk \cup DOMAIN logs \cup acked \cup removed \subseteq TaskId
        BY DEF IdInv, TypeInv, TypeOK
    <2> QED
        BY <2>1, <2>2 DEF Present, IdsOf, TaskId
<1>4. \A id \in Present \cup DOMAIN logs \cup acked \cup removed :
          id < AllocatedId
    BY IdInvDef DEF Present
<1>5. \A id \in Present' \cup DOMAIN logs' \cup acked' \cup removed' :
          id < AllocatedId'
    BY <1>2, <1>3, <1>4 DEF Fresh
<1>6. removed \cap Present = {}
    BY IdInvDef DEF Present
<1>7. removed' \cap Present' = {}
    <2>1. AllocatedId \notin removed
        BY <1>2, <1>4
    <2> QED
        BY <1>6, <2>1 DEF Fresh
<1>8. /\ \A id \in IdsOf(tasks') \cup DOMAIN disk' \cup DOMAIN logs'
                       \cup acked' \cup removed' :
             id < AllocatedId'
      /\ removed' \cap (IdsOf(tasks') \cup DOMAIN disk') = {}
    BY <1>5, <1>7 DEF Present
<1> QED
    BY <1>8 DEF IdInv, IdsUnique, RemovedIsGone, Distinct, IdsOf, TaskIds

(* A removal takes one identifier out of memory and disk.                  *)
LEMMA IdInvRemoved ==
    ASSUME IdInv, TypeInv', Distinct(tasks'), next_id' = next_id,
           NEW id \in Present,
           Present' \subseteq Present \ {id},
           acked' \subseteq acked,
           DOMAIN logs' \subseteq DOMAIN logs,
           removed' = removed \cup {id}
    PROVE  IdInv'
<1>1. \A i \in Present \cup DOMAIN logs \cup acked \cup removed :
          i < AllocatedId
    BY IdInvDef DEF Present
<1>2. removed \cap Present = {}
    BY IdInvDef DEF Present
<1>3. AllocatedId' = AllocatedId
    BY DEF AllocatedId
<1>4. /\ \A i \in Present' \cup DOMAIN logs' \cup acked' \cup removed' :
             i < AllocatedId'
      /\ removed' \cap Present' = {}
    BY <1>1, <1>2, <1>3
<1>5. /\ \A i \in IdsOf(tasks') \cup DOMAIN disk' \cup DOMAIN logs'
                      \cup acked' \cup removed' :
             i < AllocatedId'
      /\ removed' \cap (IdsOf(tasks') \cup DOMAIN disk') = {}
    BY <1>4 DEF Present
<1> QED
    BY <1>5 DEF IdInv, IdsUnique, RemovedIsGone, Distinct, IdsOf, TaskIds

(* A create request keeps the identifiers below next_id and distinct.      *)
LEMMA CreateIds ==
    ASSUME NeverTruncated, IdInv, TypeInv', HandleCreate
    PROVE  IdInv'
<1> DEFINE body == Head(requests).body
           task == NewTask(AllocatedId, body)
<1>1. body \in CreateBodies
    <2>1. requests # <<>> /\ Head(requests).type = "CREATE"
        BY DEF HandleCreate, Serving
    <2>2. Head(requests) \in Requests
        BY <2>1, HeadTailProperties DEF IdInv, TypeInv, TypeOK
    <2> QED
        BY <2>1, <2>2, ErraidAssumption DEF Requests, AllQueries
<1>2. /\ AllocatedId \in TaskId /\ task \in Task
      /\ task.task_id = AllocatedId
    BY <1>1, NewTaskTyped DEF IdInv, TypeInv, TypeOK
<1>3. Files(Put(disk, AllocatedId, task))
    BY <1>2, WellFormedPut DEF IdInv, TypeInv
<1>4. DOMAIN Put(disk, AllocatedId, task) = DOMAIN disk \cup {AllocatedId}
    BY DEF Put
<1>5. ASSUME next_id' = AllocatedId + 1
      PROVE  AllocatedId < AllocatedId' /\ AllocatedId <= AllocatedId'
             /\ Fresh(AllocatedId)
    BY <1>2, <1>5 DEF AllocatedId, TaskId, Fresh
<1>6. tasks \in Seq(Task) /\ Distinct(tasks) /\ AllocatedId \notin IdsOf(tasks)
    <2>1. tasks \in Seq(Task) /\ Distinct(tasks)
        BY IdInvDef DEF TypeInv, TypeOK
    <2>2. \A id \in IdsOf(tasks) : id < AllocatedId
        BY IdInvDef
    <2> QED
        BY <1>2, <2>1, <2>2 DEF TaskId
<1> HIDE DEF body, task
<1>7. CASE CreateRefused(body)
    <2>1. UNCHANGED <<tasks, disk, logs, next_id, acked, removed>>
        BY <1>7 DEF CreateRefused, memory, store, seen
    <2> QED
        BY <1>2, <1>6, <2>1, IdInvKept DEF Present, AllocatedId, TaskId
<1>8. CASE CreateNotAllocated(body)
    <2>1. next_id' \in {next_id, AllocatedId + 1}
        BY <1>8 DEF CreateNotAllocated, NeverTruncated, Fails
    <2>2. UNCHANGED <<tasks, disk, logs, acked, removed>>
        BY <1>8 DEF CreateNotAllocated, memory, seen
    <2>3. AllocatedId <= AllocatedId'
        <3>1. CASE next_id' = next_id
            BY <1>2, <3>1 DEF AllocatedId, TaskId
        <3>2. CASE next_id' = AllocatedId + 1
            BY <1>5, <3>2
        <3> QED
            BY <2>1, <3>1, <3>2
    <2> QED
        BY <1>6, <2>2, <2>3, IdInvKept DEF Present
<1>9. CASE CreateNotWritten(body)
    <2>1. UNCHANGED <<tasks, disk, logs, acked, removed>>
        BY <1>9 DEF CreateNotWritten, memory, seen
    <2>2. AllocatedId <= AllocatedId'
        BY <1>5, <1>9 DEF CreateNotWritten
    <2> QED
        BY <1>6, <2>1, <2>2, IdInvKept DEF Present
<1>10. CASE CreateNotAdded(body)
    <2>1. UNCHANGED <<tasks, acked, removed>>
        BY <1>10 DEF CreateNotAdded, memory, seen
    <2>2. Fresh(AllocatedId) /\ AllocatedId <= AllocatedId'
        BY <1>5, <1>10 DEF CreateNotAdded
    <2>3. \/ /\ DOMAIN disk' = DOMAIN disk \ {AllocatedId}
             /\ DOMAIN logs' = DOMAIN logs \ {AllocatedId}
          \/ /\ DOMAIN disk' = DOMAIN disk \cup {AllocatedId}
             /\ logs' = logs
        BY <1>4, <1>10 DEF CreateNotAdded, Drop, task
    <2> QED
        BY <1>6, <2>1, <2>2, <2>3, IdInvKept DEF Present
<1>11. CASE CreateNotPlanned(body)
    <2>1. /\ UNCHANGED <<logs, acked, removed>>
          /\ disk' = Put(disk, AllocatedId, task)
          /\ PlanFailed(Append(tasks, task), disk')
        BY <1>11 DEF CreateNotPlanned, seen, task
    <2>2. Fresh(AllocatedId) /\ AllocatedId <= AllocatedId'
        BY <1>5, <1>11 DEF CreateNotPlanned
    <2>3. Distinct(tasks') /\ TaskIds' \subseteq DOMAIN disk'
        BY <1>3, <2>1, NotPlannedIds
    <2>4. IdsOf(tasks') \subseteq DOMAIN disk \cup {AllocatedId}
        BY <1>4, <2>1, <2>3 DEF TaskIds, IdsOf
    <2> QED
        BY <1>4, <2>1, <2>2, <2>3, <2>4, IdInvKept DEF Present
<1>12. CASE Created(body)
    <2>1. /\ UNCHANGED <<logs, removed>>
          /\ acked' = acked \cup {AllocatedId}
          /\ disk' = Put(disk, AllocatedId, task)
          /\ tasks' = Append(tasks, task)
        BY <1>12 DEF Created, PlanRebuilt, task
    <2>2. Fresh(AllocatedId) /\ AllocatedId <= AllocatedId'
        BY <1>5, <1>12 DEF Created
    <2>3. Distinct(tasks') /\ IdsOf(tasks') = IdsOf(tasks) \cup {AllocatedId}
        BY <1>2, <1>6, <2>1, AppendedIds
    <2> QED
        BY <1>4, <2>1, <2>2, <2>3, IdInvKept DEF Present
<1> QED
    BY <1>7, <1>8, <1>9, <1>10, <1>11, <1>12 DEF HandleCreate, body

(* A remove request keeps them so; the removed task is gone.               *)
LEMMA RemoveIds ==
    ASSUME IdInv, TypeInv', HandleRemove
    PROVE  IdInv'
<1> DEFINE id == Head(requests).task_id
           rest == RemoveAt(tasks, FirstIndex(id))
<1>1. tasks \in Seq(Task) /\ Distinct(tasks) /\ TaskIds = IdsOf(tasks)
    BY IdInvDef DEF TypeInv, TypeOK, TaskIds, IdsOf
<1>2. ASSUME id \in TaskIds
      PROVE  Distinct(rest) /\ IdsOf(rest) = IdsOf(tasks) \ {id}
    BY <1>1, <1>2, FirstIndexFinds, RemovedIds
<1>3. ASSUME Unlinked(id)
      PROVE  /\ id \in TaskIds /\ id \in Present
             /\ Files(disk') /\ DOMAIN disk' = DOMAIN disk \ {id}
             /\ DOMAIN logs' \subseteq DOMAIN logs
             /\ acked' \subseteq acked /\ removed' = removed \cup {id}
             /\ next_id' = next_id
    <2>1. Files(Drop(disk, id))
        BY WellFormedDrop DEF IdInv, TypeInv
    <2> QED
        BY <1>3, <2>1 DEF Unlinked, Drop, Present
<1> HIDE DEF id, rest
<1>4. CASE RemoveRefused(id) \/ RemoveNotUnlinked(id)
    <2>1. UNCHANGED <<tasks, disk, logs, next_id, acked, removed>>
        BY <1>4 DEF RemoveRefused, RemoveNotUnlinked, memory, store, seen
    <2>2. next_id \in Nat
        BY DEF IdInv, TypeInv, TypeOK
    <2> QED
        BY <1>1, <2>1, <2>2, IdInvKept DEF Present, AllocatedId
<1>5. CASE RemoveNotPlanned(id)
    <2>1. Unlinked(id) /\ PlanFailed(rest, disk')
        BY <1>5 DEF RemoveNotPlanned, rest
    <2>2. Distinct(tasks') /\ IdsOf(tasks') \subseteq DOMAIN disk'
        BY <1>3, <2>1, NotPlannedIds DEF TaskIds, IdsOf
    <2> QED
        BY <1>3, <2>1, <2>2, IdInvRemoved DEF Present
<1>6. CASE Removed(id)
    <2>1. Unlinked(id) /\ tasks' = rest
        BY <1>6 DEF Removed, PlanRebuilt, rest
    <2>2. Distinct(tasks') /\ IdsOf(tasks') = IdsOf(tasks) \ {id}
        BY <1>2, <1>3, <2>1
    <2> QED
        BY <1>3, <2>1, <2>2, IdInvRemoved DEF Present
<1> QED
    BY <1>4, <1>5, <1>6 DEF HandleRemove, id

(* Steps that change neither the tasks in memory, nor the names of the     *)
(* files, nor what was confirmed and removed.                              *)
LEMMA SameIds ==
    ASSUME IdInv, TypeInv', Distinct(tasks'), next_id' = next_id,
           IdsOf(tasks') \subseteq Present, DOMAIN disk' \subseteq Present,
           DOMAIN logs' \subseteq DOMAIN logs \cup Present,
           acked' = acked, removed' = removed
    PROVE  IdInv'
<1>1. AllocatedId \in Int /\ AllocatedId' = AllocatedId
    BY DEF AllocatedId, IdInv, TypeInv, TypeOK
<1> QED
    BY <1>1, IdInvKept DEF Present

(* A run rewrites the file and the history of a task that has not been     *)
(* removed.                                                                *)
LEMMA RunsIds ==
    ASSUME IdInv, TypeInv', Runs
    PROVE  IdInv'
<1>1. Distinct(tasks) /\ tasks \in Seq(Task)
    BY IdInvDef DEF TypeInv, TypeOK
<1>2. CASE BeginPass \/ EndPass \/ VisitDue \/ ChildEnds
    <2>1. UNCHANGED <<tasks, disk, logs, next_id, acked, removed>>
        BY <1>2 DEF BeginPass, EndPass, VisitDue, ChildEnds, memory, store, seen
    <2> QED
        BY <1>1, <2>1, SameIds DEF Present
<1>3. CASE AppendHistory
    <2>1. UNCHANGED <<tasks, disk, next_id, acked, removed>>
        BY <1>3 DEF AppendHistory, memory, seen
    <2>2. Current.task_index \in DOMAIN tasks
        BY <1>3 DEF AppendHistory, IdInv, TypeInv, RunningOK
    <2>3. RunningTask.task_id \in Present
        BY <2>2 DEF RunningTask, Present, IdsOf
    <2>4. DOMAIN logs' \subseteq DOMAIN logs \cup {RunningTask.task_id}
        BY <1>3 DEF AppendHistory, Put
    <2> QED
        BY <1>1, <2>1, <2>3, <2>4, SameIds DEF Present
<1>4. CASE SaveTask
    <2> DEFINE index == Current.task_index
               ran == [RunningTask EXCEPT !.last_run_epoch = now]
    <2>1. index \in DOMAIN tasks
        BY <1>4 DEF SaveTask, IdInv, TypeInv, RunningOK
    <2>2. tasks[index] \in Task
        BY <1>1, <2>1
    <2>3. ran.task_id = tasks[index].task_id
        BY <2>2 DEF RunningTask, Task
    <2> HIDE DEF index, ran
    <2>4. tasks' = [tasks EXCEPT ![index] = ran]
        BY <1>4 DEF SaveTask, index, ran
    <2>5. /\ DOMAIN tasks' = DOMAIN tasks
          /\ \A i \in DOMAIN tasks : tasks'[i].task_id = tasks[i].task_id
        BY <1>1, <2>1, <2>3, <2>4
    <2>6. Distinct(tasks') /\ IdsOf(tasks') = IdsOf(tasks)
        BY <1>1, <2>5 DEF Distinct, IdsOf
    <2>7. ran.task_id \in Present
        BY <2>1, <2>3 DEF Present, IdsOf
    <2>8. disk' = disk \/ DOMAIN disk' = DOMAIN disk \cup {ran.task_id}
        BY <1>4 DEF SaveTask, Put, ran
    <2>9. UNCHANGED <<logs, next_id, acked, removed>>
        BY <1>4 DEF SaveTask, seen
    <2> QED
        BY <2>6, <2>7, <2>8, <2>9, SameIds DEF Present
<1> QED
    BY <1>2, <1>3, <1>4 DEF Runs

(* A crash inside a handler has taken the next identifier, removed a task, *)
(* or done neither.                                                        *)
LEMMA CrashIds ==
    ASSUME NeverTruncated, IdInv, TypeInv', HandlerCrash
    PROVE  IdInv'
<1>1. TypeInv /\ tasks' = <<>>
    BY DEF IdInv, HandlerCrash, ProcessGone
<1>2. Distinct(tasks') /\ IdsOf(tasks') = {}
    BY <1>1 DEF Distinct, IdsOf
<1>3. CASE CreateCut
    <2>1. /\ next_id' = AllocatedId + 1
          /\ DOMAIN disk' \subseteq DOMAIN disk \cup {AllocatedId}
          /\ UNCHANGED <<logs, acked, removed>>
        BY <1>3 DEF CreateCut, NeverTruncated, Put, seen
    <2>2. Fresh(AllocatedId) /\ AllocatedId <= AllocatedId'
        BY <1>1, <1>3, <2>1, CutBody DEF AllocatedId, TaskId, Fresh
    <2> QED
        BY <1>2, <2>1, <2>2, IdInvKept DEF Present
<1>4. CASE RemoveCut
    <2> DEFINE id == Head(requests).task_id
    <2>1. Unlinked(id)
        BY <1>4 DEF RemoveCut
    <2> HIDE DEF id
    <2>2. /\ id \in Present /\ DOMAIN disk' = DOMAIN disk \ {id}
          /\ DOMAIN logs' \subseteq DOMAIN logs
          /\ acked' \subseteq acked /\ removed' = removed \cup {id}
          /\ next_id' = next_id
        BY <2>1 DEF Unlinked, Drop, Present
    <2> QED
        BY <1>2, <2>2, IdInvRemoved DEF Present
<1>5. CASE UNCHANGED <<store, seen>>
    <2>1. UNCHANGED <<disk, logs, next_id, acked, removed>>
        BY <1>5 DEF store, seen
    <2> QED
        BY <1>2, <2>1, SameIds DEF Present
<1> QED
    BY <1>3, <1>4, <1>5 DEF HandlerCrash

(* The other steps load the files at most, or leave identifiers alone.     *)
LEMMA OtherIds ==
    ASSUME IdInv, TypeInv',
           Environment \/ Start \/ Crash \/ Stop \/ Loop \/ HandleQuery
               \/ HandleShutdown
    PROVE  IdInv'
<1>1. Distinct(tasks)
    BY IdInvDef
<1>2. CASE Environment \/ Loop \/ HandleQuery \/ HandleShutdown
    <2>1. UNCHANGED <<tasks, disk, logs, next_id, acked, removed>>
        BY <1>2 DEF Environment, Tick, SendRequest, Signal, Loop, Poll,
                    PollReturns, HandleQuery, HandleShutdown, memory, store, seen
    <2> QED
        BY <1>1, <2>1, SameIds DEF Present
<1>3. CASE Start
    <2>1. UNCHANGED <<disk, logs, next_id, acked, removed>>
        BY <1>3 DEF Start, store, seen
    <2>2. tasks' \in LoadOrders(disk) /\ Files(disk)
        BY <1>3 DEF Start, PlanRebuilt, IdInv, TypeInv
    <2>3. Distinct(tasks') /\ IdsOf(tasks') = DOMAIN disk
        BY <2>2, LoadedIds
    <2> QED
        BY <2>1, <2>3, SameIds DEF Present
<1>4. CASE Crash \/ Stop
    <2>1. tasks' = <<>> /\ UNCHANGED <<disk, logs, next_id, acked, removed>>
        BY <1>4 DEF Crash, Stop, ProcessGone, store, seen
    <2>2. Distinct(tasks') /\ IdsOf(tasks') = {}
        BY <2>1 DEF Distinct, IdsOf
    <2> QED
        BY <2>1, <2>2, SameIds DEF Present
<1> QED
    BY <1>2, <1>3, <1>4

(* While no next_id write is cut short, identifiers stay distinct, below   *)
(* next_id, and removed ones stay away.                                    *)
LEMMA IdInvHolds ==
    ASSUME NeverTruncated
    PROVE  Spec => []IdInv
<1>1. Init => IdInv
    <2> SUFFICES ASSUME Init
                 PROVE  IdInv
        OBVIOUS
    <2>1. TypeInv
        BY TypeInvInit
    <2> QED
        BY <2>1 DEF Init, IdInv, IdsUnique, RemovedIsGone, TaskIds
<1>2. IdInv /\ TypeInv' /\ [Next]_vars => IdInv'
    <2> SUFFICES ASSUME IdInv, TypeInv', [Next]_vars
                 PROVE  IdInv'
        OBVIOUS
    <2>1. CASE UNCHANGED vars
        <3>1. Distinct(tasks)
            BY IdInvDef
        <3>2. UNCHANGED <<tasks, disk, logs, next_id, acked, removed>>
            BY <2>1 DEF vars
        <3> QED
            BY <3>1, <3>2, SameIds DEF Present
    <2> QED
        BY <2>1, CreateIds, RemoveIds, RunsIds, CrashIds, OtherIds
        DEF Next, Handle, Process
<1> QED
    BY <1>1, <1>2, TypeInvHolds, PTL DEF Spec

(* Unless a write of next_id fails after its truncation, no identifier is  *)
(* shared by two tasks or given twice: for every number of requests,       *)
(* crashes and other failures.                                             *)
THEOREM IdsAreUnique ==
    ASSUME NeverTruncated
    PROVE  Spec => []IdsUnique
BY IdInvHolds, PTL DEF IdInv

(* Under the same condition a removed task never comes back, in memory or  *)
(* on disk, and the history that a failed unlink or a crash leaves behind  *)
(* is not found by any task created later.                                 *)
THEOREM RemovedStaysGone ==
    ASSUME NeverTruncated
    PROVE  Spec => []RemovedIsGone
BY IdInvHolds, PTL DEF IdInv

-----------------------------------------------------------------------------
(* Memory and disk.  Two failures in one handler can leave a task file     *)
(* without its task, or no task in memory; one failure to grow the plan    *)
(* leaves none either when a task file cannot be read again.  Without a    *)
(* failure files are read by a start only, which then fails.               *)

(* Two copies of a task that differ at most in the last run.               *)
SameTask(t, u) ==
    [t EXCEPT !.last_run_epoch = 0] = [u EXCEPT !.last_run_epoch = 0]

(* Every task of ts has its file in d.                                     *)
Covered(ts, d) ==
    /\ IdsOf(ts) \subseteq DOMAIN d
    /\ \A i \in DOMAIN ts : SameTask(ts[i], d[ts[i].task_id])

(* After n failures, a file of d has no task in ts only if n is two, or if *)
(* n is one and one of these files cannot be read.  Such a file is never   *)
(* removed, for a removal starts from the array: the reload would fail     *)
(* again, and so would a start.                                            *)
Explained(n, ts, d) ==
    \/ n >= 2
    \/ DOMAIN d \subseteq IdsOf(ts)
    \/ n = 1 /\ \E id \in DOMAIN d \ IdsOf(ts) : d[id].has_args

(* What is loaded agrees with the files.                                   *)
LEMMA CoveredLoaded ==
    ASSUME NEW d, Files(d), NEW ts \in LoadOrders(d)
    PROVE  Covered(ts, d) /\ DOMAIN d \subseteq IdsOf(ts)
<1>1. ts \in Seq(Task) /\ \A i \in 1..Len(ts) : ts[i] = d[ts[i].task_id]
    BY LoadedTasks
<1>2. DOMAIN ts = 1..Len(ts)
    BY <1>1
<1> QED
    BY <1>1, <1>2, LoadedIds DEF Covered, SameTask

(* A task added to both the array and the files keeps them in agreement.   *)
LEMMA CoveredAppended ==
    ASSUME NEW ts \in Seq(Task), Distinct(ts), NEW d, Covered(ts, d),
           NEW task \in Task, task.task_id \notin IdsOf(ts)
    PROVE  Covered(Append(ts, task), Put(d, task.task_id, task))
<1> DEFINE a == Append(ts, task)
           e == Put(d, task.task_id, task)
<1>1. IdsOf(a) = IdsOf(ts) \cup {task.task_id}
    BY AppendedIds
<1>2. /\ DOMAIN e = DOMAIN d \cup {task.task_id}
      /\ \A y \in DOMAIN e : e[y] = IF y = task.task_id THEN task ELSE d[y]
    BY DEF Put
<1>3. \A i \in DOMAIN a : \/ i \in DOMAIN ts /\ a[i] = ts[i]
                          \/ a[i] = task
    OBVIOUS
<1>4. \A i \in DOMAIN ts : ts[i].task_id \in DOMAIN d
    BY DEF Covered, IdsOf
<1>5. \A i \in DOMAIN ts : ts[i].task_id # task.task_id
    BY DEF IdsOf
<1> HIDE DEF a, e
<1>6. ASSUME NEW i \in DOMAIN a
      PROVE  SameTask(a[i], e[a[i].task_id])
    <2>1. CASE i \in DOMAIN ts /\ a[i] = ts[i]
        <3>1. e[a[i].task_id] = d[ts[i].task_id]
            BY <1>2, <1>4, <1>5, <2>1
        <3> QED
            BY <2>1, <3>1 DEF Covered
    <2>2. CASE a[i] = task
        <3>1. e[a[i].task_id] = task
            BY <1>2, <2>2
        <3> QED
            BY <2>2, <3>1 DEF SameTask
    <2> QED
        BY <1>3, <2>1, <2>2
<1> QED
    BY <1>1, <1>2, <1>6 DEF Covered, a, e

(* So does a task removed from both.                                       *)
LEMMA CoveredRemoved ==
    ASSUME NEW ts \in Seq(Task), Distinct(ts), NEW d, Covered(ts, d),
           NEW k \in 1..Len(ts)
    PROVE  Covered(RemoveAt(ts, k), Drop(d, ts[k].task_id))
<1> DEFINE r == RemoveAt(ts, k)
           e == Drop(d, ts[k].task_id)
<1>1. Distinct(r) /\ IdsOf(r) = IdsOf(ts) \ {ts[k].task_id}
    BY RemovedIds
<1>2. /\ DOMAIN e = DOMAIN d \ {ts[k].task_id}
      /\ \A y \in DOMAIN e : e[y] = d[y]
    BY DEF Drop
<1>3. /\ Len(ts) \in Nat /\ DOMAIN ts = 1..Len(ts)
      /\ DOMAIN r = 1..(Len(ts) - 1)
      /\ \A i \in 1..(Len(ts) - 1) : r[i] = IF i < k THEN ts[i] ELSE ts[i + 1]
    BY RemoveAtProperties
<1> HIDE DEF r, e
<1>4. ASSUME NEW i \in DOMAIN r
      PROVE  SameTask(r[i], e[r[i].task_id])
    <2>1. PICK j \in DOMAIN ts : r[i] = ts[j]
        BY <1>3
    <2>2. r[i].task_id \in DOMAIN e
        BY <1>1, <1>2 DEF IdsOf, Covered
    <2> QED
        BY <1>2, <2>1, <2>2 DEF Covered
<1> QED
    BY <1>1, <1>2, <1>4 DEF Covered, r, e

(* So does a run recorded in the array and, perhaps, in the file.          *)
LEMMA CoveredSaved ==
    ASSUME NEW ts \in Seq(Task), Distinct(ts), NEW d, Covered(ts, d),
           NEW k \in DOMAIN ts, NEW ran,
           ran.task_id = ts[k].task_id, SameTask(ran, ts[k]),
           NEW r, DOMAIN r = DOMAIN ts,
           \A i \in DOMAIN ts : r[i] = IF i = k THEN ran ELSE ts[i],
           NEW f, f = d \/ f = Put(d, ran.task_id, ran)
    PROVE  /\ IdsOf(r) = IdsOf(ts) /\ Covered(r, f)
           /\ DOMAIN f = DOMAIN d
           /\ \A y \in DOMAIN d \ IdsOf(ts) : f[y] = d[y]
<1> DEFINE e == Put(d, ran.task_id, ran)
<1>4. \A i \in DOMAIN ts : r[i].task_id = ts[i].task_id
    OBVIOUS
<1>5. IdsOf(r) = IdsOf(ts) /\ IdsOf(r) \subseteq DOMAIN d
    BY <1>4 DEF IdsOf, Covered
<1>6. ASSUME NEW i \in DOMAIN r
      PROVE  SameTask(r[i], d[r[i].task_id])
    BY <1>4, <1>6 DEF Covered, SameTask
<1>7. ran.task_id \in DOMAIN d
    BY DEF Covered, IdsOf
<1>8. /\ DOMAIN e = DOMAIN d
      /\ \A y \in DOMAIN e : e[y] = IF y = ran.task_id THEN ran ELSE d[y]
    BY <1>7 DEF Put
<1> HIDE DEF e
<1>9. ASSUME NEW i \in DOMAIN r
      PROVE  SameTask(r[i], e[r[i].task_id])
    <2>1. CASE i = k
        BY <1>7, <1>8, <2>1 DEF SameTask
    <2>2. CASE i # k
        <3>1. r[i].task_id # ran.task_id
            BY <2>2 DEF Distinct
        <3>2. r[i].task_id \in DOMAIN d
            BY <1>5 DEF IdsOf
        <3> QED
            BY <1>6, <1>8, <3>1, <3>2
    <2> QED
        BY <2>1, <2>2
<1>10. Covered(r, d)
    BY <1>5, <1>6 DEF Covered
<1>11. Covered(r, e)
    BY <1>5, <1>8, <1>9 DEF Covered
<1>12. ran.task_id \in IdsOf(ts)
    BY DEF IdsOf
<1> QED
    BY <1>5, <1>8, <1>10, <1>11, <1>12 DEF e

DiskInv ==
    /\ IdInv
    /\ pc # "down" => Covered(tasks, disk) /\ Explained(faults, tasks, disk)
    /\ acked \subseteq DOMAIN disk

(* Another failure needs no other explanation.                             *)
LEMMA StillExplained ==
    ASSUME NEW n \in Nat, NEW m \in Nat, m >= n, NEW ts, NEW d,
           Explained(n, ts, d)
    PROVE  Explained(m, ts, d)
BY DEF Explained

(* After a failure to plan, the tasks are loaded from the files, or none   *)
(* is left for a second failure or for a file that cannot be read.         *)
LEMMA CoveredNotPlanned ==
    ASSUME faults \in Nat, NEW ts, NEW d, Files(d), PlanFailed(ts, d)
    PROVE  Covered(tasks', d) /\ Explained(faults', tasks', d)
<1>1. CASE tasks' \in LoadOrders(d)
    BY <1>1, CoveredLoaded DEF Explained
<1>2. CASE tasks' = <<>>
    <2>1. IdsOf(tasks') = {} /\ DOMAIN tasks' = {}
        BY <1>2 DEF IdsOf
    <2>2. \/ faults' = faults + 2
          \/ ~Loads(d) /\ faults' = faults + 1
          \/ tasks' \in LoadOrders(d)
        BY NotPlannedIds DEF Fails
    <2>3. CASE ~Loads(d) /\ faults' = faults + 1
        BY <2>1, <2>3 DEF Loads, Covered, Explained
    <2>4. CASE faults' = faults + 2
        BY <2>1, <2>4 DEF Covered, Explained
    <2> QED
        BY <1>1, <2>2, <2>3, <2>4
<1>3. tasks' = <<>> \/ tasks' \in LoadOrders(d)
    BY DEF PlanFailed, PlanRebuilt
<1> QED
    BY <1>1, <1>2, <1>3

(* A create request leaves memory and disk in agreement.                   *)
LEMMA CreateDisk ==
    ASSUME DiskInv, HandleCreate
    PROVE  /\ Covered(tasks', disk') /\ Explained(faults', tasks', disk')
           /\ acked' \subseteq DOMAIN disk'
<1> DEFINE body == Head(requests).body
           task == NewTask(AllocatedId, body)
<1>1. requests # <<>> /\ Head(requests).type = "CREATE" /\ pc = "serve"
    BY DEF HandleCreate, Serving
<1>2. body \in CreateBodies
    <2>1. Head(requests) \in Requests
        BY <1>1, HeadTailProperties DEF DiskInv, IdInv, TypeInv, TypeOK
    <2> QED
        BY <1>1, <2>1, ErraidAssumption DEF Requests, AllQueries
<1>3. /\ AllocatedId \in TaskId /\ task \in Task
      /\ task.task_id = AllocatedId
    BY <1>2, NewTaskTyped DEF DiskInv, IdInv, TypeInv, TypeOK
<1>4. /\ tasks \in Seq(Task) /\ Distinct(tasks)
      /\ AllocatedId \notin IdsOf(tasks) /\ AllocatedId \notin DOMAIN disk
    <2>1. tasks \in Seq(Task) /\ Distinct(tasks)
        BY IdInvDef DEF DiskInv, TypeInv, TypeOK
    <2>2. \A id \in IdsOf(tasks) \cup DOMAIN disk : id < AllocatedId
        BY IdInvDef DEF DiskInv
    <2> QED
        BY <1>3, <2>1, <2>2 DEF TaskId
<1>5. /\ Covered(tasks, disk) /\ Explained(faults, tasks, disk)
      /\ acked \subseteq DOMAIN disk
    BY <1>1 DEF DiskInv
<1>6. faults \in Nat /\ faults + 1 \in Nat /\ faults + 2 \in Nat
    BY DEF DiskInv, IdInv, TypeInv, TypeOK
<1>7. Files(Put(disk, AllocatedId, task))
    BY <1>3, WellFormedPut DEF DiskInv, IdInv, TypeInv
<1>8. /\ DOMAIN Put(disk, AllocatedId, task) = DOMAIN disk \cup {AllocatedId}
      /\ \A y \in DOMAIN disk : Put(disk, AllocatedId, task)[y] = disk[y]
    BY <1>4 DEF Put
<1> HIDE DEF body, task
<1>9. CASE CreateRefused(body) \/ CreateNotAllocated(body) \/ CreateNotWritten(body)
    <2>1. UNCHANGED <<tasks, disk, acked>>
        BY <1>9 DEF CreateRefused, CreateNotAllocated, CreateNotWritten,
                    memory, store, seen
    <2>2. faults' \in {faults, faults + 1}
        BY <1>9 DEF CreateRefused, CreateNotAllocated, CreateNotWritten, Fails
    <2>3. Explained(faults', tasks, disk)
        BY <1>5, <1>6, <2>2, StillExplained
    <2> QED
        BY <1>5, <2>1, <2>3
<1>10. CASE CreateNotAdded(body)
    <2>1. UNCHANGED <<tasks, acked>>
        BY <1>10 DEF CreateNotAdded, memory, seen
    <2>2. CASE faults' = faults + 1 /\ disk' = Drop(disk, AllocatedId)
        <3>1. /\ DOMAIN disk' = DOMAIN disk
              /\ \A y \in DOMAIN disk : disk'[y] = disk[y]
            BY <1>4, <2>2 DEF Drop
        <3>2. Explained(faults', tasks, disk)
            BY <1>5, <1>6, <2>2, StillExplained
        <3>3. Explained(faults', tasks, disk')
            BY <3>1, <3>2 DEF Explained
        <3>4. \A i \in DOMAIN tasks : tasks[i].task_id \in DOMAIN disk
            BY <1>5 DEF Covered, IdsOf
        <3> QED
            BY <1>5, <2>1, <3>1, <3>3, <3>4 DEF Covered
    <2>3. CASE faults' = faults + 2 /\ disk' = Put(disk, AllocatedId, task)
        <3>1. Explained(faults', tasks, disk')
            BY <1>6, <2>3 DEF Explained
        <3>2. \A i \in DOMAIN tasks : tasks[i].task_id \in DOMAIN disk
            BY <1>5 DEF Covered, IdsOf
        <3> QED
            BY <1>5, <1>8, <2>1, <2>3, <3>1, <3>2 DEF Covered
    <2> QED
        BY <1>10, <2>2, <2>3 DEF CreateNotAdded, Fails, BothFail, task
<1>11. CASE CreateNotPlanned(body)
    <2>1. /\ acked' = acked
          /\ disk' = Put(disk, AllocatedId, task)
          /\ PlanFailed(Append(tasks, task), disk')
        BY <1>11 DEF CreateNotPlanned, seen, task
    <2>2. Covered(tasks', disk') /\ Explained(faults', tasks', disk')
        BY <1>6, <1>7, <2>1, CoveredNotPlanned
    <2> QED
        BY <1>5, <1>8, <2>1, <2>2
<1>12. CASE Created(body)
    <2>1. /\ acked' = acked \cup {AllocatedId} /\ faults' = faults
          /\ disk' = Put(disk, AllocatedId, task)
          /\ tasks' = Append(tasks, task)
        BY <1>12 DEF Created, PlanRebuilt, task
    <2>2. Covered(tasks', disk')
        BY <1>3, <1>4, <1>5, <2>1, CoveredAppended
    <2>3. IdsOf(tasks') = IdsOf(tasks) \cup {AllocatedId}
        BY <1>3, <1>4, <2>1, AppendedIds
    <2>4. Explained(faults', tasks', disk')
        BY <1>4, <1>5, <1>8, <2>1, <2>3 DEF Explained
    <2> QED
        BY <1>5, <1>8, <2>1, <2>2, <2>4
<1> QED
    BY <1>9, <1>10, <1>11, <1>12 DEF HandleCreate, body

(* So does a remove request.                                               *)
LEMMA RemoveDisk ==
    ASSUME DiskInv, HandleRemove
    PROVE  /\ Covered(tasks', disk') /\ Explained(faults', tasks', disk')
           /\ acked' \subseteq DOMAIN disk'
<1> DEFINE id == Head(requests).task_id
           k == FirstIndex(id)
           rest == RemoveAt(tasks, k)
<1>1. /\ Covered(tasks, disk) /\ Explained(faults, tasks, disk)
      /\ acked \subseteq DOMAIN disk
      /\ tasks \in Seq(Task) /\ Distinct(tasks)
      /\ faults \in Nat /\ faults + 1 \in Nat
    BY IdInvDef DEF HandleRemove, Serving, DiskInv, TypeInv, TypeOK
<1>2. ASSUME Unlinked(id)
      PROVE  /\ Files(disk') /\ disk' = Drop(disk, id)
             /\ DOMAIN disk' = DOMAIN disk \ {id}
             /\ \A y \in DOMAIN disk' : disk'[y] = disk[y]
             /\ acked' \subseteq DOMAIN disk'
             /\ k \in 1..Len(tasks) /\ tasks[k].task_id = id
    <2>1. Files(Drop(disk, id))
        BY WellFormedDrop DEF DiskInv, IdInv, TypeInv
    <2>2. id \in TaskIds /\ disk' = Drop(disk, id) /\ acked' = acked \ {id}
        BY <1>2 DEF Unlinked
    <2>3. /\ DOMAIN disk' = DOMAIN disk \ {id}
          /\ \A y \in DOMAIN disk' : disk'[y] = disk[y]
        BY <2>2 DEF Drop
    <2> QED
        BY <1>1, <2>1, <2>2, <2>3, FirstIndexFinds
<1> HIDE DEF id, k, rest
<1>3. CASE RemoveRefused(id) \/ RemoveNotUnlinked(id)
    <2>1. UNCHANGED <<tasks, disk, acked>>
        BY <1>3 DEF RemoveRefused, RemoveNotUnlinked, memory, store, seen
    <2>2. faults' \in {faults, faults + 1}
        BY <1>3 DEF RemoveRefused, RemoveNotUnlinked, Fails
    <2>3. Explained(faults', tasks, disk)
        BY <1>1, <2>2, StillExplained
    <2> QED
        BY <1>1, <2>1, <2>3
<1>4. CASE RemoveNotPlanned(id)
    <2>1. Unlinked(id) /\ PlanFailed(rest, disk')
        BY <1>4 DEF RemoveNotPlanned, rest, k
    <2> QED
        BY <1>1, <1>2, <2>1, CoveredNotPlanned
<1>5. CASE Removed(id)
    <2>1. Unlinked(id) /\ tasks' = rest /\ faults' = faults
        BY <1>5 DEF Removed, PlanRebuilt, rest, k
    <2>2. Covered(rest, Drop(disk, id))
        BY <1>1, <1>2, <2>1, CoveredRemoved DEF rest
    <2>3. IdsOf(rest) = IdsOf(tasks) \ {id} /\ id \in IdsOf(tasks)
        BY <1>1, <1>2, <2>1, RemovedIds DEF rest, IdsOf
    <2>4. Explained(faults', tasks', disk')
        BY <1>1, <1>2, <2>1, <2>3 DEF Explained
    <2> QED
        BY <1>2, <2>1, <2>2, <2>4
<1> QED
    BY <1>3, <1>4, <1>5 DEF HandleRemove, id

(* So does every step.                                                     *)
LEMMA DiskInvStep ==
    ASSUME DiskInv, IdInv', [Next]_vars
    PROVE  DiskInv'
<1>1. /\ tasks \in Seq(Task) /\ Distinct(tasks) /\ Files(disk) /\ now \in Nat
      /\ faults \in Nat /\ faults + 1 \in Nat /\ acked \subseteq DOMAIN disk
    BY IdInvDef DEF DiskInv, TypeInv, TypeOK
<1>2. CASE HandleCreate \/ HandleRemove
    BY <1>2, CreateDisk, RemoveDisk DEF DiskInv
<1>3. CASE Environment \/ Loop \/ HandleQuery \/ HandleShutdown \/ UNCHANGED vars
    <2>1. UNCHANGED <<tasks, disk, acked, faults>>
        BY <1>3 DEF Environment, Tick, SendRequest, Signal, Loop, Poll,
            PollReturns, HandleQuery, HandleShutdown, vars, memory, store, seen
    <2>2. pc = "down" => pc' = "down"
        BY <1>3 DEF Environment, Tick, SendRequest, Signal, Loop, Poll,
            PollReturns, HandleQuery, HandleShutdown, Serving, vars, control
    <2> QED
        BY <2>1, <2>2 DEF DiskInv
<1>4. CASE Start
    <2>1. UNCHANGED <<disk, acked>> /\ tasks' \in LoadOrders(disk)
        BY <1>4 DEF Start, PlanRebuilt, store, seen
    <2>2. Covered(tasks', disk') /\ Explained(faults', tasks', disk')
        BY <1>1, <2>1, CoveredLoaded DEF Explained
    <2> QED
        BY <1>1, <2>1, <2>2 DEF DiskInv
<1>5. CASE Crash \/ HandlerCrash \/ Stop
    <2>1. pc' = "down"
        BY <1>5 DEF Crash, HandlerCrash, Stop, ProcessGone
    <2>2. \/ UNCHANGED <<disk, acked>>
          \/ CreateCut
          \/ RemoveCut
        BY <1>5 DEF Crash, HandlerCrash, Stop, store, seen
    <2>3. CASE CreateCut
        <3>1. DOMAIN disk \subseteq DOMAIN disk' /\ acked' = acked
            BY <2>3 DEF CreateCut, Put, seen
        <3> QED
            BY <1>1, <2>1, <3>1 DEF DiskInv
    <2>4. CASE RemoveCut
        <3>1. \E id : /\ DOMAIN disk' = DOMAIN disk \ {id}
                      /\ acked' = acked \ {id}
            BY <2>4 DEF RemoveCut, Unlinked, Drop
        <3> QED
            BY <1>1, <2>1, <3>1 DEF DiskInv
    <2> QED
        BY <1>1, <2>1, <2>2, <2>3, <2>4 DEF DiskInv
<1>6. CASE BeginPass \/ EndPass \/ VisitDue \/ ChildEnds \/ AppendHistory
    <2>1. pc # "down" /\ UNCHANGED <<tasks, disk, acked>>
        BY <1>6 DEF BeginPass, EndPass, VisitDue, ChildEnds, AppendHistory,
                    memory, store, seen
    <2>2. faults' \in {faults, faults + 1}
        BY <1>6 DEF BeginPass, EndPass, VisitDue, ChildEnds, AppendHistory, Fails
    <2>3. Explained(faults', tasks, disk)
        BY <1>1, <2>1, <2>2, StillExplained DEF DiskInv
    <2> QED
        BY <2>1, <2>3 DEF DiskInv
<1>7. CASE SaveTask
    <2> DEFINE k == Current.task_index
               ran == [tasks[k] EXCEPT !.last_run_epoch = now]
    <2>1. pc = "save" /\ k \in DOMAIN tasks /\ acked' = acked
        BY <1>7 DEF SaveTask, DiskInv, IdInv, TypeInv, RunningOK, seen
    <2>2. /\ tasks' = [tasks EXCEPT ![k] = ran]
          /\ disk' = disk \/ disk' = Put(disk, ran.task_id, ran)
          /\ faults' \in {faults, faults + 1}
        BY <1>7 DEF SaveTask, RunningTask, Fails
    <2>3. Covered(tasks, disk) /\ Explained(faults, tasks, disk)
        BY <2>1 DEF DiskInv
    <2>4. ran.task_id = tasks[k].task_id /\ SameTask(ran, tasks[k])
        <3>1. tasks[k] \in Task
            BY <1>1, <2>1
        <3> QED
            BY <3>1 DEF SameTask, Task
    <2> HIDE DEF k, ran
    <2>a. /\ DOMAIN tasks' = DOMAIN tasks
          /\ \A i \in DOMAIN tasks : tasks'[i] = IF i = k THEN ran ELSE tasks[i]
        BY <2>2
    <2>5. PICK ts, d : /\ ts = tasks' /\ d = disk'
                       /\ d = disk \/ d = Put(disk, ran.task_id, ran)
        BY <2>2
    <2>6. /\ Covered(tasks', disk') /\ IdsOf(tasks') = IdsOf(tasks)
          /\ DOMAIN disk' = DOMAIN disk
          /\ \A y \in DOMAIN disk \ IdsOf(tasks) : disk'[y] = disk[y]
        <3>1. /\ IdsOf(ts) = IdsOf(tasks) /\ Covered(ts, d)
              /\ DOMAIN d = DOMAIN disk
              /\ \A y \in DOMAIN disk \ IdsOf(tasks) : d[y] = disk[y]
            BY <1>1, <2>1, <2>3, <2>4, <2>5, <2>a, CoveredSaved
        <3> QED
            BY <2>5, <3>1
    <2>7. Explained(faults', tasks, disk)
        BY <1>1, <2>2, <2>3, StillExplained
    <2>8. Explained(faults', tasks', disk')
        BY <2>6, <2>7 DEF Explained
    <2> QED
        BY <1>1, <2>1, <2>6, <2>8 DEF DiskInv
<1> QED
    BY <1>2, <1>3, <1>4, <1>5, <1>6, <1>7 DEF Next, Process, Handle, Runs

(* Memory and disk agree in every state, and hold what was confirmed.      *)
LEMMA DiskInvHolds ==
    ASSUME NeverTruncated
    PROVE  Spec => []DiskInv
<1>1. Init /\ IdInv => DiskInv
    BY DEF Init, DiskInv
<1>2. DiskInv /\ IdInv' /\ [Next]_vars => DiskInv'
    BY DiskInvStep
<1> QED
    BY <1>1, <1>2, IdInvHolds, PTL DEF Spec

(* While next_id is written whole, every task in memory has its file and,  *)
(* unless two calls failed or one did and a file cannot be read, every     *)
(* file its task, whenever erraid runs: for every number of requests,      *)
(* runs, failures, crashes and restarts.                                   *)
THEOREM MemoryIsDisk ==
    ASSUME NeverTruncated
    PROVE  Spec => []MemoryMatchesDisk
<1>1. DiskInv => MemoryMatchesDisk
    <2> SUFFICES ASSUME DiskInv, pc # "down"
                 PROVE  /\ TaskIds \subseteq DOMAIN disk
                        /\ Reloads => DOMAIN disk \subseteq TaskIds
                        /\ \A i \in DOMAIN tasks :
                               SameTask(tasks[i], disk[tasks[i].task_id])
        BY DEF MemoryMatchesDisk, SameTask
    <2>1. Covered(tasks, disk) /\ Explained(faults, tasks, disk)
        BY DEF DiskInv
    <2> QED
        BY <2>1 DEF Covered, Explained, Reloads, Loads, TaskIds, IdsOf
<1> QED
    BY <1>1, DiskInvHolds, PTL

(* Under the same condition a confirmed task stays on disk until a request *)
(* removes it, whatever fails or crashes, and in memory with the exception *)
(* of MemoryIsDisk.                                                        *)
THEOREM ConfirmedIsKept ==
    ASSUME NeverTruncated
    PROVE  Spec => []CreatedIsKept
<1>1. DiskInv => CreatedIsKept
    BY DEF DiskInv, CreatedIsKept, Explained, Reloads, Loads, TaskIds, IdsOf
<1> QED
    BY <1>1, DiskInvHolds, PTL

-----------------------------------------------------------------------------
(* What a reply says was done                                              *)

(* The identifier a creation takes is not that of a file.                  *)
LEMMA NewIdHasNoFile ==
    ASSUME IdInv
    PROVE  AllocatedId \notin DOMAIN disk
<1>1. AllocatedId \in Nat
    BY DEF AllocatedId, IdInv, TypeInv, TypeOK
<1>2. \A id \in DOMAIN disk : id < AllocatedId
    BY IdInvDef
<1> QED
    BY <1>1, <1>2

(* What the reply to r tells: the request has changed the task files, or   *)
(* it has left the tasks alone unless two calls failed.                    *)
Done(r) == DOMAIN disk' = Requested(r) /\ DOMAIN disk' # DOMAIN disk
Undone == faults' <= faults + 1 => DOMAIN disk' = DOMAIN disk /\ tasks' = tasks

(* A create request has created the task file if it is confirmed or        *)
(* answered with SCHEDULER_ERROR; otherwise it has taken it away, unless   *)
(* that failed in turn.                                                    *)
LEMMA CreateReplies ==
    ASSUME IdInv, HandleCreate
    PROVE  \/ Done(Head(requests)) /\ reply'.code \in {"OK", "SCHEDULER_ERROR"}
           \/ /\ Undone /\ reply'.type = "RSP_ERROR"
              /\ reply'.code # "SCHEDULER_ERROR"
<1> DEFINE body == Head(requests).body
           task == NewTask(AllocatedId, body)
<1>1. Head(requests).type = "CREATE"
    BY DEF HandleCreate, Serving
<1>2. DOMAIN Put(disk, AllocatedId, task) = DOMAIN disk \cup {AllocatedId}
    BY DEF Put
<1> HIDE DEF body, task
<1>3. CASE CreateRefused(body) \/ CreateNotAllocated(body) \/ CreateNotWritten(body)
    BY <1>3 DEF CreateRefused, CreateNotAllocated, CreateNotWritten, memory,
                store, Refuse, Answer, Undone
<1>4. CASE CreateNotAdded(body)
    <2>1. tasks' = tasks
        BY <1>4 DEF CreateNotAdded, memory
    <2>2. reply'.type = "RSP_ERROR" /\ reply'.code = "MEMORY_ERROR"
        BY <1>4 DEF CreateNotAdded, Refuse, Answer
    <2>3. \/ DOMAIN disk' = DOMAIN disk \ {AllocatedId}
          \/ faults' = faults + 2
        BY <1>4 DEF CreateNotAdded, Drop, BothFail
    <2>4. faults \in Nat
        BY DEF IdInv, TypeInv, TypeOK
    <2> QED
        BY <2>1, <2>2, <2>3, <2>4, NewIdHasNoFile DEF Undone
<1>5. CASE CreateNotPlanned(body)
    <2>1. /\ disk' = Put(disk, AllocatedId, task)
          /\ reply'.code = "SCHEDULER_ERROR"
        BY <1>5 DEF CreateNotPlanned, task, Refuse, Answer
    <2> QED
        BY <1>1, <1>2, <2>1, NewIdHasNoFile DEF Done, Requested
<1>6. CASE Created(body)
    <2>1. disk' = Put(disk, AllocatedId, task) /\ reply'.code = "OK"
        BY <1>6 DEF Created, task, Answer
    <2> QED
        BY <1>1, <1>2, <2>1, NewIdHasNoFile DEF Done, Requested
<1> QED
    BY <1>3, <1>4, <1>5, <1>6 DEF HandleCreate, body

(* A remove request has removed the task file if it is confirmed or        *)
(* answered with SCHEDULER_ERROR, and nothing otherwise.                   *)
LEMMA RemoveReplies ==
    ASSUME HandleRemove
    PROVE  \/ Done(Head(requests)) /\ reply'.code \in {"OK", "SCHEDULER_ERROR"}
           \/ /\ Undone /\ reply'.type = "RSP_ERROR"
              /\ reply'.code # "SCHEDULER_ERROR"
<1> DEFINE id == Head(requests).task_id
<1>1. Head(requests).type = "REMOVE"
    BY DEF HandleRemove, Serving
<1>2. ASSUME Unlinked(id)
      PROVE  Done(Head(requests))
    BY <1>1, <1>2 DEF Unlinked, Drop, Done, Requested
<1>3. CASE RemoveRefused(id) \/ RemoveNotUnlinked(id)
    BY <1>3 DEF RemoveRefused, RemoveNotUnlinked, memory, store, Refuse, Answer,
                Undone
<1>4. CASE RemoveNotPlanned(id)
    BY <1>2, <1>4 DEF RemoveNotPlanned, Refuse, Answer
<1>5. CASE Removed(id)
    BY <1>2, <1>5 DEF Removed, Answer
<1> QED
    BY <1>3, <1>4, <1>5 DEF HandleRemove

(* Unless next_id is truncated, a request that is confirmed or answered    *)
(* with SCHEDULER_ERROR has changed the task files as it asked, and one    *)
(* that is answered with another error has changed neither files nor array *)
(* when at most one call of its handler failed.                            *)
THEOREM RepliesAreTrue ==
    ASSUME NeverTruncated
    PROVE  Spec => RepliesTellEffect
<1> DEFINE Told ==
        /\ (reply'.type \in {"RSP_CREATE", "RSP_REMOVE"}
                \/ reply'.code = "SCHEDULER_ERROR")
              => /\ DOMAIN disk' = Requested(Head(requests))
                 /\ DOMAIN disk' # DOMAIN disk
        /\ (reply'.type = "RSP_ERROR" /\ reply'.code # "SCHEDULER_ERROR"
                /\ faults' <= faults + 1)
              => DOMAIN disk' = DOMAIN disk /\ tasks' = tasks
<1>1. IdInv /\ [Next]_vars => [Told]_vars
    <2> SUFFICES ASSUME IdInv, Next
                 PROVE  Told
        OBVIOUS
    <2>1. CASE Environment \/ Process \/ Loop \/ Runs
        <3>1. reply' = NoReply
            BY <2>1 DEF Environment, Tick, SendRequest, Signal, Process, Start,
                Crash, HandlerCrash, Stop, ProcessGone, Loop, Poll, PollReturns,
                Runs, BeginPass, EndPass, VisitDue, ChildEnds, AppendHistory,
                SaveTask
        <3> QED
            BY <3>1 DEF NoReply
    <2>2. CASE HandleQuery \/ HandleShutdown
        <3>1. tasks' = tasks /\ disk' = disk
            BY <2>2 DEF HandleQuery, HandleShutdown, memory, store
        <3>2. /\ reply'.type \notin {"RSP_CREATE", "RSP_REMOVE"}
              /\ reply'.code # "SCHEDULER_ERROR"
            BY <2>2 DEF HandleQuery, HandleShutdown, Answer
        <3> QED
            BY <3>1, <3>2
    <2>3. CASE HandleCreate \/ HandleRemove
        <3>1. \/ /\ Done(Head(requests))
                 /\ reply'.code \in {"OK", "SCHEDULER_ERROR"}
              \/ /\ Undone /\ reply'.type = "RSP_ERROR"
                 /\ reply'.code # "SCHEDULER_ERROR"
            BY <2>3, CreateReplies, RemoveReplies
        <3>2. reply'.type = "RSP_ERROR" => reply'.code # "OK"
            BY <2>3 DEF HandleCreate, CreateRefused, CreateNotAllocated,
                CreateNotWritten, CreateNotAdded, CreateNotPlanned, Created,
                HandleRemove, RemoveRefused, RemoveNotUnlinked,
                RemoveNotPlanned, Removed, Refuse, Answer
        <3> QED
            BY <3>1, <3>2 DEF Done, Undone
    <2> QED
        BY <2>1, <2>2, <2>3 DEF Next, Handle
<1>2. Spec => [][Told]_vars
    BY <1>1, IdInvHolds, PTL DEF Spec
<1> QED
    BY <1>2 DEF RepliesTellEffect

-----------------------------------------------------------------------------
(* The runs of the daemon: no task runs twice in a minute, whatever        *)
(* rebuilds or fails to rebuild the plan, and whenever erraid restarts.    *)

(* The runs in the history of a task, and of all of them.                  *)
EpochsOf(id) ==
    {e \in Nat : id \in DOMAIN logs /\ \E k \in DOMAIN logs[id] : logs[id][k] = e}

Epochs == {e \in Nat : \E id \in DOMAIN logs : e \in EpochsOf(id)}

(* A deadline whose run would not be in the minute of the run at e.        *)
Clear(deadline, e) == deadline = -1 \/ deadline >= StartEpoch(e)

(* The entry at i runs the task at i, and its deadline starts a minute.    *)
PlanIndexed ==
    \A i \in DOMAIN plan :
        /\ plan[i].task_index = i
        /\ \A u \in Nat : plan[i].next_epoch > u
                              => plan[i].next_epoch >= StartEpoch(u)

(* No deadline is in the minute of a run of the task at its index; after a *)
(* pass that found nothing due, of a run of any task.  The second is what  *)
(* keeps the first when a handler replaces the tasks under an old plan.    *)
NotRunYet ==
    \A i \in DOMAIN plan \cap DOMAIN tasks :
        \/ pc = "save" /\ i = entry
        \/ \A e \in EpochsOf(tasks[i].task_id) : Clear(plan[i].next_epoch, e)

Settled ==
    \/ pc \in {"poll", "serve"}
    \/ pc = "loop" /\ should_quit = FALSE

NothingRunYet ==
    Settled => \A i \in DOMAIN plan, e \in Epochs : Clear(plan[i].next_epoch, e)

(* The history ends at the last reading of the clock.                      *)
RunsArePast ==
    /\ \A e \in Epochs : e <= clock
    /\ now <= clock
    /\ pc \in {"scan", "exec", "append", "save"} => \A e \in Epochs : e <= now

(* What the loop over the plan knows.                                      *)
PassState ==
    /\ pc = "scan" /\ executed = FALSE => entry = 1
    /\ pc \in {"exec", "append", "save"} => executed = TRUE
    /\ pc \in {"exec", "append"} =>
           Current.next_epoch # -1 /\ Current.next_epoch <= now

RunInv ==
    /\ IdInv
    /\ PlanIndexed /\ NotRunYet /\ NothingRunYet /\ RunsArePast /\ PassState
    /\ OncePerMinute

(* Runs are instants, and a run of a task is a run.                        *)
LEMMA EpochTypes ==
    ASSUME TypeOK
    PROVE  /\ Epochs \subseteq Nat
           /\ \A id : EpochsOf(id) \subseteq Epochs
           /\ \A id \in DOMAIN logs : \A k \in DOMAIN logs[id] :
                  logs[id][k] \in EpochsOf(id)
<1>1. Epochs \subseteq Nat /\ \A id : EpochsOf(id) \subseteq Epochs
    BY DEF Epochs, EpochsOf
<1>2. ASSUME NEW id \in DOMAIN logs, NEW k \in DOMAIN logs[id]
      PROVE  logs[id][k] \in EpochsOf(id)
    <2>1. logs[id] \in Seq(Nat)
        BY DEF TypeOK
    <2>2. logs[id][k] \in Nat
        BY <2>1
    <2> QED
        BY <2>2 DEF EpochsOf
<1> QED
    BY <1>1, <1>2

(* A plan computed now is clear of everything that has run.                *)
LEMMA PlannedClear ==
    ASSUME clock \in Nat, NEW ts \in Seq(Task), PlanRebuilt(ts)
    PROVE  /\ PlanIndexed'
           /\ \A i \in DOMAIN plan' : \A e \in Nat :
                  e <= clock => Clear(plan'[i].next_epoch, e)
<1>1. /\ plan' \in Seq(PlanEntry) /\ Len(plan') = Len(ts)
      /\ \A i \in 1..Len(ts) :
             /\ plan'[i].task_index = i
             /\ plan'[i].next_epoch = NextOccurrence(ts[i].schedule, clock)
    BY PlanComputed DEF PlanRebuilt
<1>2. DOMAIN plan' = 1..Len(ts)
    BY <1>1
<1>3. ASSUME NEW i \in DOMAIN plan'
      PROVE  /\ plan'[i].task_index = i
             /\ \A u \in Nat : plan'[i].next_epoch > u
                                   => plan'[i].next_epoch >= StartEpoch(u)
             /\ \A e \in Nat : e <= clock => Clear(plan'[i].next_epoch, e)
    <2> DEFINE n == NextOccurrence(ts[i].schedule, clock)
    <2>1. plan'[i].task_index = i /\ plan'[i].next_epoch = n
        BY <1>1, <1>2
    <2>2. \/ n = -1
          \/ /\ n \in Nat /\ n >= StartEpoch(clock)
             /\ \A u \in Nat : n > u => n >= StartEpoch(u)
        BY NextOccurrenceResult
    <2> HIDE DEF n
    <2>3. ASSUME NEW e \in Nat, e <= clock
          PROVE  n = -1 \/ n >= StartEpoch(e)
        <3>1. StartEpoch(e) <= StartEpoch(clock)
            BY <2>3, StartMonotone
        <3>2. StartEpoch(e) \in Nat /\ StartEpoch(clock) \in Nat
            BY StartAfter
        <3> QED
            BY <2>2, <3>1, <3>2
    <2> QED
        BY <2>1, <2>2, <2>3 DEF Clear
<1> QED
    BY <1>3 DEF PlanIndexed

(* A handler leaves the plan, or computes it anew, or fails to and keeps   *)
(* it over other tasks; it adds no run.                                    *)
LEMMA HandlerRuns ==
    ASSUME RunInv, IdInv', pc = "serve", pc' \in {"serve", "due"},
           UNCHANGED <<clock, now>>,
           plan' = plan \/ \E ts \in Seq(Task) : PlanRebuilt(ts),
           DOMAIN logs' \subseteq DOMAIN logs,
           \A id \in DOMAIN logs' : logs'[id] = logs[id]
    PROVE  RunInv'
<1>1. TypeOK /\ TypeOK' /\ clock \in Nat
    BY DEF RunInv, IdInv, TypeInv, TypeOK
<1>2. Epochs \subseteq Nat /\ \A e \in Epochs : e <= clock
    BY <1>1, EpochTypes DEF RunInv, RunsArePast
<1>3. Epochs' \subseteq Epochs
    BY DEF Epochs, EpochsOf
<1>4. /\ PlanIndexed'
      /\ \A i \in DOMAIN plan' : \A e \in Epochs : Clear(plan'[i].next_epoch, e)
    <2>1. CASE plan' = plan
        BY <2>1 DEF RunInv, PlanIndexed, NothingRunYet, Settled
    <2>2. CASE \E ts \in Seq(Task) : PlanRebuilt(ts)
        BY <1>1, <1>2, <2>2, PlannedClear
    <2> QED
        BY <2>1, <2>2
<1>5. NothingRunYet'
    BY <1>3, <1>4 DEF NothingRunYet
<1>6. NotRunYet'
    <2>1. \A id : EpochsOf(id)' \subseteq Epochs
        BY <1>3 DEF Epochs, EpochsOf
    <2> QED
        BY <1>4, <2>1 DEF NotRunYet
<1>7. RunsArePast' /\ PassState'
    BY <1>2, <1>3 DEF RunInv, RunsArePast, PassState
<1>8. OncePerMinute'
    BY DEF RunInv, OncePerMinute
<1> QED
    BY <1>4, <1>5, <1>6, <1>7, <1>8 DEF RunInv

(* A create request keeps the invariant of runs.                           *)
LEMMA CreateRuns ==
    ASSUME RunInv, IdInv', HandleCreate
    PROVE  RunInv'
<1> DEFINE body == Head(requests).body
           task == NewTask(AllocatedId, body)
<1>1. requests # <<>> /\ Head(requests).type = "CREATE" /\ pc = "serve"
    BY DEF HandleCreate, Serving
<1>2. body \in CreateBodies
    <2>1. Head(requests) \in Requests
        BY <1>1, HeadTailProperties DEF RunInv, IdInv, TypeInv, TypeOK
    <2> QED
        BY <1>1, <2>1, ErraidAssumption DEF Requests, AllQueries
<1>3. /\ task \in Task /\ task.task_id = AllocatedId
      /\ tasks \in Seq(Task) /\ Files(disk)
    BY <1>2, NewTaskTyped DEF RunInv, IdInv, TypeInv, TypeOK
<1>4. Append(tasks, task) \in Seq(Task) /\ Files(Put(disk, AllocatedId, task))
    BY <1>3, WellFormedPut
<1>5. \E type, code, id : Answer(type, code, id)
    BY DEF HandleCreate, CreateRefused, CreateNotAllocated, CreateNotWritten,
           CreateNotAdded, CreateNotPlanned, Created, Refuse
<1>6. pc' \in {"serve", "due"} /\ UNCHANGED <<clock, now>>
    BY <1>1, <1>5, Answered DEF RunInv, IdInv, TypeInv
<1> HIDE DEF body, task
<1>7. CASE CreateRefused(body) \/ CreateNotAllocated(body) \/ CreateNotWritten(body)
    <2>1. plan' = plan /\ logs' = logs
        BY <1>7 DEF CreateRefused, CreateNotAllocated, CreateNotWritten,
                    memory, store
    <2> QED
        BY <1>1, <1>6, <2>1, HandlerRuns
<1>8. CASE CreateNotAdded(body)
    <2>1. plan' = plan /\ (logs' = logs \/ logs' = Drop(logs, AllocatedId))
        BY <1>8 DEF CreateNotAdded, memory
    <2>2. DOMAIN logs' \subseteq DOMAIN logs
          /\ \A id \in DOMAIN logs' : logs'[id] = logs[id]
        BY <2>1 DEF Drop
    <2> QED
        BY <1>1, <1>6, <2>1, <2>2, HandlerRuns
<1>9. CASE CreateNotPlanned(body)
    <2>1. /\ logs' = logs /\ Files(disk')
          /\ PlanFailed(Append(tasks, task), disk')
        BY <1>4, <1>9 DEF CreateNotPlanned, task
    <2>2. plan' = plan \/ \E ts \in Seq(Task) : PlanRebuilt(ts)
        BY <2>1, LoadedTasks DEF PlanFailed
    <2> QED
        BY <1>1, <1>6, <2>1, <2>2, HandlerRuns
<1>10. CASE Created(body)
    <2>1. logs' = logs /\ PlanRebuilt(Append(tasks, task))
        BY <1>10 DEF Created, task
    <2> QED
        BY <1>1, <1>4, <1>6, <2>1, HandlerRuns
<1> QED
    BY <1>7, <1>8, <1>9, <1>10 DEF HandleCreate, body

(* So does a remove request, which may drop a history.                     *)
LEMMA RemoveRuns ==
    ASSUME RunInv, IdInv', HandleRemove
    PROVE  RunInv'
<1> DEFINE id == Head(requests).task_id
           rest == RemoveAt(tasks, FirstIndex(id))
<1>1. requests # <<>> /\ pc = "serve"
    BY DEF HandleRemove, Serving
<1>2. \E type, code, n : Answer(type, code, n)
    BY DEF HandleRemove, RemoveRefused, RemoveNotUnlinked, RemoveNotPlanned,
           Removed, Refuse
<1>3. pc' \in {"serve", "due"} /\ UNCHANGED <<clock, now>>
    BY <1>1, <1>2, Answered DEF RunInv, IdInv, TypeInv
<1>4. tasks \in Seq(Task)
    BY DEF RunInv, IdInv, TypeInv, TypeOK
<1>5. ASSUME Unlinked(id)
      PROVE  /\ Files(disk') /\ rest \in Seq(Task)
             /\ DOMAIN logs' \subseteq DOMAIN logs
             /\ \A y \in DOMAIN logs' : logs'[y] = logs[y]
    <2>1. Files(Drop(disk, id))
        BY WellFormedDrop DEF RunInv, IdInv, TypeInv
    <2>2. /\ disk' = Drop(disk, id) /\ id \in TaskIds
          /\ logs' = logs \/ logs' = Drop(logs, id)
        BY <1>5 DEF Unlinked
    <2>3. rest \in Seq(Task)
        BY <1>4, <2>2, FirstIndexFinds, RemoveAtProperties
    <2>4. /\ DOMAIN logs' \subseteq DOMAIN logs
          /\ \A y \in DOMAIN logs' : logs'[y] = logs[y]
        BY <2>2 DEF Drop
    <2> QED
        BY <2>1, <2>2, <2>3, <2>4
<1> HIDE DEF id, rest
<1>6. CASE RemoveRefused(id) \/ RemoveNotUnlinked(id)
    <2>1. plan' = plan /\ logs' = logs
        BY <1>6 DEF RemoveRefused, RemoveNotUnlinked, memory, store
    <2> QED
        BY <1>1, <1>3, <2>1, HandlerRuns
<1>7. CASE RemoveNotPlanned(id)
    <2>1. Unlinked(id) /\ PlanFailed(rest, disk')
        BY <1>7 DEF RemoveNotPlanned, rest
    <2>2. plan' = plan \/ \E ts \in Seq(Task) : PlanRebuilt(ts)
        BY <1>5, <2>1, LoadedTasks DEF PlanFailed
    <2> QED
        BY <1>1, <1>3, <1>5, <2>1, <2>2, HandlerRuns
<1>8. CASE Removed(id)
    <2>1. Unlinked(id) /\ PlanRebuilt(rest)
        BY <1>8 DEF Removed, rest
    <2> QED
        BY <1>1, <1>3, <1>5, <2>1, HandlerRuns
<1> QED
    BY <1>6, <1>7, <1>8 DEF HandleRemove, id

(* So do the requests that change no task.                                 *)
LEMMA OtherHandlersRuns ==
    ASSUME RunInv, IdInv', HandleQuery \/ HandleShutdown
    PROVE  RunInv'
<1>1. requests # <<>> /\ pc = "serve" /\ plan' = plan /\ logs' = logs
    BY DEF HandleQuery, HandleShutdown, Serving, memory, store
<1>2. \E type, code, id : Answer(type, code, id)
    BY Zenon DEF HandleQuery, HandleShutdown
<1>3. pc' \in {"serve", "due"} /\ UNCHANGED <<clock, now>>
    BY <1>1, <1>2, Answered DEF RunInv, IdInv, TypeInv
<1> QED
    BY <1>1, <1>3, HandlerRuns

(* The parts of the invariant that every step uses.                        *)
LEMMA RunInvFacts ==
    ASSUME RunInv
    PROVE  /\ TypeOK
           /\ clock \in Nat /\ now \in Nat /\ entry \in Nat \ {0}
           /\ tasks \in Seq(Task) /\ plan \in Seq(PlanEntry)
           /\ \A i \in DOMAIN plan : plan[i].next_epoch \in Nat \cup {-1}
           /\ Distinct(tasks)
           /\ Epochs \subseteq Nat
           /\ \A id : EpochsOf(id) \subseteq Epochs
           /\ \A e \in Epochs : e <= clock
<1>1. TypeOK /\ Distinct(tasks)
    BY IdInvDef DEF RunInv, TypeInv
<1>2. ASSUME NEW i \in DOMAIN plan
      PROVE  plan[i].next_epoch \in Nat \cup {-1}
    <2>1. plan[i] \in PlanEntry
        BY <1>1 DEF TypeOK
    <2> QED
        BY <2>1 DEF PlanEntry
<1>3. /\ clock \in Nat /\ now \in Nat /\ entry \in Nat \ {0}
      /\ tasks \in Seq(Task) /\ plan \in Seq(PlanEntry)
    BY <1>1 DEF TypeOK
<1>4. \A e \in Epochs : e <= clock
    BY DEF RunInv, RunsArePast
<1> QED
    BY <1>1, <1>2, <1>3, <1>4, EpochTypes

(* Steps that touch neither the plan, nor the tasks, nor the history.      *)
LEMMA QuietRuns ==
    ASSUME RunInv, IdInv', UNCHANGED <<tasks, plan, logs>>,
           clock' \in Nat, clock' >= clock, now' <= clock',
           Settled' => Settled,
           pc = "save" => pc' = "save" /\ entry' = entry,
           pc' \in {"scan", "exec", "append", "save"} => \A e \in Epochs : e <= now',
           PassState'
    PROVE  RunInv'
<1>1. Epochs' = Epochs /\ \A id : EpochsOf(id)' = EpochsOf(id)
    BY DEF Epochs, EpochsOf
<1>2. NotRunYet'
    BY <1>1 DEF RunInv, NotRunYet
<1>3. NothingRunYet'
    BY <1>1 DEF RunInv, NothingRunYet
<1>4. RunsArePast'
    BY <1>1, RunInvFacts DEF RunsArePast
<1>5. PlanIndexed' /\ OncePerMinute'
    BY DEF RunInv, PlanIndexed, OncePerMinute
<1> QED
    BY <1>2, <1>3, <1>4, <1>5 DEF RunInv

(* The clock, the clients and the signals keep the invariant: time only    *)
(* grows.                                                                  *)
LEMMA EnvironmentRuns ==
    ASSUME RunInv, IdInv', Environment
    PROVE  RunInv'
<1>0. now <= clock /\ PassState
      /\ (pc \in {"scan", "exec", "append", "save"} => \A e \in Epochs : e <= now)
    BY DEF RunInv, RunsArePast
<1>1. CASE Tick \/ SendRequest
    <2>1. /\ UNCHANGED <<tasks, plan, logs, pc, should_quit, now, entry, executed>>
          /\ clock' = clock \/ clock' = clock + 1
        BY <1>1 DEF Tick, SendRequest, control, memory, store
    <2>2. PassState' /\ (Settled' => Settled)
        BY <1>0, <2>1 DEF PassState, Current, Settled
    <2>3. clock' \in Nat /\ clock' >= clock /\ now' <= clock'
        BY <1>0, <2>1, RunInvFacts
    <2> QED
        BY <1>0, <2>1, <2>2, <2>3, QuietRuns
<1>2. CASE Signal
    <2>1. /\ UNCHANGED <<tasks, plan, logs, clock, now, entry, executed>>
          /\ pc' = IF pc = "poll" THEN "loop" ELSE pc
        BY <1>2 DEF Signal, env, memory, store
    <2>2. should_quit' # FALSE
        BY <1>2, Zenon DEF Signal
    <2>3. PassState' /\ (Settled' => Settled)
        BY <1>0, <2>1, <2>2 DEF PassState, Current, Settled
    <2> QED
        BY <1>0, <2>1, <2>3, QuietRuns, RunInvFacts
<1> QED
    BY <1>1, <1>2 DEF Environment

(* A start plans from a time no earlier than any run; a crash adds none to *)
(* the history.                                                            *)
LEMMA ProcessRuns ==
    ASSUME RunInv, IdInv', Process
    PROVE  RunInv'
<1>1. CASE Start
    <2>1. PICK ts \in LoadOrders(disk) : PlanRebuilt(ts)
        BY <1>1 DEF Start
    <2>2. ts \in Seq(Task)
        BY <2>1, LoadedTasks DEF RunInv, IdInv, TypeInv
    <2>3. pc' = "loop" /\ UNCHANGED <<clock, now, entry, executed, logs>>
        BY <1>1 DEF Start, store
    <2>4. Epochs' = Epochs /\ \A id : EpochsOf(id)' = EpochsOf(id)
        BY <2>3 DEF Epochs, EpochsOf
    <2>5. /\ PlanIndexed'
          /\ \A i \in DOMAIN plan' : \A e \in Epochs : Clear(plan'[i].next_epoch, e)
        BY <2>1, <2>2, RunInvFacts, PlannedClear
    <2>6. \A id : EpochsOf(id)' \subseteq Epochs
        BY <2>4, RunInvFacts
    <2>7. NotRunYet' /\ NothingRunYet'
        BY <2>4, <2>5, <2>6 DEF NotRunYet, NothingRunYet
    <2>8. RunsArePast' /\ PassState' /\ OncePerMinute'
        BY <2>3, <2>4 DEF RunInv, RunsArePast, PassState, OncePerMinute
    <2> QED
        BY <2>5, <2>7, <2>8 DEF RunInv
<1>2. CASE Crash \/ HandlerCrash \/ Stop
    <2>0. /\ DOMAIN logs' \subseteq DOMAIN logs
          /\ \A id \in DOMAIN logs' : logs'[id] = logs[id]
        <3>1. \/ logs' = logs
              \/ \E id : logs' = Drop(logs, id)
            BY <1>2 DEF Crash, HandlerCrash, Stop, CreateCut, RemoveCut,
                        Unlinked, store
        <3> QED
            BY <3>1 DEF Drop
    <2>1. /\ pc' = "down" /\ plan' = <<>> /\ now' = 0
          /\ UNCHANGED clock
        BY <1>2 DEF Crash, HandlerCrash, Stop, ProcessGone, env
    <2>2. Epochs' \subseteq Epochs
        BY <2>0 DEF Epochs, EpochsOf
    <2>3. DOMAIN plan' = {}
        BY <2>1
    <2>4. PlanIndexed' /\ NotRunYet' /\ NothingRunYet'
        BY <2>3 DEF PlanIndexed, NotRunYet, NothingRunYet
    <2>5. RunsArePast' /\ PassState'
        BY <2>1, <2>2, RunInvFacts DEF RunsArePast, PassState
    <2>6. OncePerMinute'
        BY <2>0 DEF RunInv, OncePerMinute
    <2> QED
        BY <2>4, <2>5, <2>6 DEF RunInv
<1> QED
    BY <1>1, <1>2 DEF Process

(* Entering and leaving poll keep the invariant.                           *)
LEMMA LoopRuns ==
    ASSUME RunInv, IdInv', Loop
    PROVE  RunInv'
<1>1. /\ UNCHANGED <<tasks, plan, logs, clock, now, entry, executed, should_quit>>
      /\ pc \in {"loop", "poll"} /\ pc' \in {"poll", "serve", "due"}
    BY DEF Loop, Poll, PollReturns, env, memory, store
<1>2. Settled
    <2>1. CASE Poll
        <3>1. should_quit \in BOOLEAN
            BY RunInvFacts DEF TypeOK
        <3>2. ~should_quit /\ pc = "loop"
            BY <2>1 DEF Poll
        <3>3. should_quit = FALSE
            BY <3>1, <3>2, Zenon
        <3> QED
            BY <3>2, <3>3, Zenon DEF Settled
    <2>2. CASE PollReturns
        BY <2>2 DEF PollReturns, Settled
    <2> QED
        BY <2>1, <2>2 DEF Loop
<1>3. PassState'
    BY <1>1 DEF PassState
<1>4. now <= clock
    BY DEF RunInv, RunsArePast
<1> QED
    BY <1>1, <1>2, <1>3, <1>4, QuietRuns, RunInvFacts

(* A pass that found nothing due leaves every deadline after now, clear of *)
(* every run.                                                              *)
LEMMA PassRuns ==
    ASSUME RunInv, IdInv', BeginPass \/ ChildEnds
    PROVE  RunInv'
<1>1. CASE BeginPass
    <2>1. UNCHANGED <<tasks, plan, logs, clock>> /\ pc = "due"
        BY <1>1 DEF BeginPass, env, memory, store
    <2>2. should_quit' = should_quit
        BY <1>1 DEF BeginPass
    <2>3. \/ pc' = "loop" /\ should_quit /\ UNCHANGED now
          \/ pc' = "scan" /\ now' = clock /\ entry' = 1
        BY <1>1 DEF BeginPass
    <2>4. ~Settled'
        BY <2>2, <2>3, Zenon DEF Settled
    <2>5. now' <= clock' /\ PassState'
        BY <2>1, <2>3, RunInvFacts DEF RunInv, RunsArePast, PassState
    <2> QED
        BY <2>1, <2>3, <2>4, <2>5, QuietRuns, RunInvFacts
<1>2. CASE ChildEnds
    <2>1. /\ UNCHANGED <<tasks, plan, logs, clock, now, entry, executed>>
          /\ pc = "exec" /\ pc' = "append"
        BY <1>2 DEF ChildEnds, env, memory, store
    <2>2. PassState' /\ ~Settled'
        BY <2>1 DEF RunInv, PassState, Current, Settled
    <2>3. now <= clock /\ \A e \in Epochs : e <= now
        BY <2>1 DEF RunInv, RunsArePast
    <2> QED
        BY <2>1, <2>2, <2>3, QuietRuns, RunInvFacts
<1> QED
    BY <1>1, <1>2

(* A pass that ends without a run found no entry due: every deadline is    *)
(* after the clock's last reading, hence in a later minute than every run. *)
LEMMA EndPassRuns ==
    ASSUME RunInv, IdInv', EndPass
    PROVE  RunInv'
<1>1. /\ UNCHANGED <<tasks, plan, logs, clock, now, entry, executed>>
      /\ pc = "scan" /\ Due = {}
      /\ pc' = IF executed THEN "due" ELSE "loop"
    BY DEF EndPass, env, memory, store
<1>2. now <= clock /\ \A e \in Epochs : e <= now
    BY <1>1 DEF RunInv, RunsArePast
<1>3. NothingRunYet'
    <2>1. CASE executed
        BY <1>1, <2>1 DEF NothingRunYet, Settled
    <2>2. CASE ~executed
        <3>1. executed = FALSE
            <4>1. executed \in BOOLEAN
                BY RunInvFacts DEF TypeOK
            <4> QED
                BY <2>2, <4>1, Zenon
        <3>2. entry = 1
            BY <1>1, <3>1 DEF RunInv, PassState
        <3>3. \A i \in DOMAIN plan : i \in entry..Len(plan)
            BY <3>2, RunInvFacts
        <3>4. ASSUME NEW i \in DOMAIN plan, NEW e \in Epochs
              PROVE  Clear(plan[i].next_epoch, e)
            <4>1. plan[i].next_epoch = -1 \/ plan[i].next_epoch > now
                BY <1>1, <3>3, RunInvFacts DEF Due
            <4>2. plan[i].next_epoch \in Nat \cup {-1} /\ e \in Nat /\ e <= now
                BY <1>2, RunInvFacts
            <4>3. plan[i].next_epoch = -1 \/ plan[i].next_epoch > e
                BY <4>1, <4>2, RunInvFacts
            <4> QED
                BY <4>2, <4>3 DEF RunInv, PlanIndexed, Clear
        <3>5. Epochs' = Epochs
            BY <1>1 DEF Epochs, EpochsOf
        <3> QED
            BY <1>1, <3>4, <3>5 DEF NothingRunYet
    <2> QED
        BY <2>1, <2>2
<1>4. Epochs' = Epochs /\ \A id : EpochsOf(id)' = EpochsOf(id)
    BY <1>1 DEF Epochs, EpochsOf
<1>5. NotRunYet' /\ PlanIndexed' /\ OncePerMinute'
    BY <1>1, <1>4 DEF RunInv, NotRunYet, PlanIndexed, OncePerMinute
<1>6. RunsArePast' /\ PassState'
    BY <1>1, <1>2, <1>4, RunInvFacts DEF RunsArePast, PassState
<1> QED
    BY <1>3, <1>5, <1>6 DEF RunInv

(* A run is of a due entry, whose deadline no run of its task is in the    *)
(* minute of, so it is in a later minute than the last.                    *)
LEMMA VisitRuns ==
    ASSUME RunInv, IdInv', VisitDue
    PROVE  RunInv'
<1> DEFINE i == Min(Due)
<1>1. /\ UNCHANGED <<tasks, logs, clock, now>>
      /\ pc = "scan" /\ Due # {}
    BY DEF VisitDue, env, store
<1>2. executed' = TRUE
    BY DEF VisitDue
<1>3. Due \in SUBSET Nat
    <2>1. entry \in Nat /\ Len(plan) \in Nat
        BY RunInvFacts
    <2>2. \A k \in entry..Len(plan) : k \in Nat
        BY <2>1
    <2> QED
        BY <2>2 DEF Due
<1>4. i \in Due
    BY <1>1, <1>3, MinProperty
<1>5. /\ i \in DOMAIN plan
      /\ plan[i].next_epoch # -1 /\ plan[i].next_epoch <= now
    BY <1>4, RunInvFacts DEF Due
<1> HIDE DEF i
<1>6. \/ plan' = plan /\ pc' = "scan"
      \/ plan' = [plan EXCEPT ![i].next_epoch = -1] /\ pc' = "scan"
      \/ plan' = plan /\ pc' = "exec" /\ entry' = i
    BY <1>1 DEF VisitDue, i
<1>7. /\ DOMAIN plan' = DOMAIN plan
      /\ \A j \in DOMAIN plan :
             /\ plan'[j].task_index = plan[j].task_index
             /\ plan'[j].next_epoch \in {plan[j].next_epoch, -1}
    <2>1. CASE plan' = plan
        BY <2>1
    <2>2. CASE plan' = [plan EXCEPT ![i].next_epoch = -1]
        <3>1. \A j \in DOMAIN plan : plan[j] \in PlanEntry
            BY RunInvFacts
        <3> QED
            BY <1>5, <2>2, <3>1 DEF PlanEntry
    <2> QED
        BY <1>6, <2>1, <2>2
<1>8. Epochs' = Epochs /\ \A id : EpochsOf(id)' = EpochsOf(id)
    BY <1>1 DEF Epochs, EpochsOf
<1>9. PlanIndexed'
    BY <1>7 DEF RunInv, PlanIndexed
<1>10. NotRunYet'
    BY <1>1, <1>7, <1>8 DEF RunInv, NotRunYet, Clear
<1>11. NothingRunYet' /\ OncePerMinute'
    BY <1>1, <1>6 DEF RunInv, NothingRunYet, Settled, OncePerMinute
<1>12. RunsArePast'
    BY <1>1, <1>8 DEF RunInv, RunsArePast
<1>13. PassState'
    BY <1>1, <1>2, <1>5, <1>6 DEF PassState, Current
<1> QED
    BY <1>9, <1>10, <1>11, <1>12, <1>13 DEF RunInv

(* The run is recorded: its entry was due, hence its minute is after that  *)
(* of every earlier run of the task.                                       *)
LEMMA AppendRuns ==
    ASSUME RunInv, IdInv', AppendHistory
    PROVE  RunInv'
<1>0. PICK id : id = RunningTask.task_id
    OBVIOUS
<1>1. /\ UNCHANGED <<tasks, plan, clock, now, entry, executed>>
      /\ pc = "append" /\ pc' = "save"
      /\ logs' = logs \/ logs' = Put(logs, id, Append(Log(id), now))
    BY <1>0 DEF AppendHistory, env, memory
<1>2. /\ entry \in DOMAIN plan /\ entry \in DOMAIN tasks
      /\ RunningTask = tasks[entry] /\ id \in TaskId
    <2>1. entry \in DOMAIN plan /\ Current.task_index \in DOMAIN tasks
        BY <1>1 DEF RunInv, IdInv, TypeInv, RunningOK
    <2>2. Current.task_index = entry
        BY <2>1 DEF RunInv, PlanIndexed, Current
    <2>3. tasks[entry] \in Task
        BY <2>1, <2>2, RunInvFacts
    <2> QED
        BY <1>0, <2>1, <2>2, <2>3 DEF RunningTask, Task
<1>3. /\ plan[entry].next_epoch # -1 /\ plan[entry].next_epoch <= now
      /\ now <= clock /\ executed = TRUE
      /\ \A e \in Epochs : e <= now
    BY <1>1 DEF RunInv, PassState, RunsArePast, Current
<1>4. \A e \in EpochsOf(id) : plan[entry].next_epoch >= StartEpoch(e)
    BY <1>0, <1>1, <1>2, <1>3 DEF RunInv, NotRunYet, Clear
<1>5. \A e \in EpochsOf(id) : now >= StartEpoch(e)
    <2>1. \A e \in EpochsOf(id) : StartEpoch(e) \in Nat
        BY RunInvFacts, StartAfter
    <2> QED
        BY <1>2, <1>3, <1>4, <2>1, RunInvFacts
<1>6. Log(id) \in Seq(Nat) /\ \A k \in DOMAIN Log(id) : Log(id)[k] \in EpochsOf(id)
    <2>1. CASE id \in DOMAIN logs
        BY <2>1, RunInvFacts, EpochTypes DEF Log, TypeOK
    <2>2. CASE id \notin DOMAIN logs
        BY <2>2 DEF Log
    <2> QED
        BY <2>1, <2>2
<1> DEFINE L == Append(Log(id), now)
           n == Len(Log(id))
<1>7. /\ n \in Nat /\ DOMAIN L = 1..(n + 1)
      /\ \A k \in 1..n : L[k] = Log(id)[k] /\ L[k] \in EpochsOf(id)
      /\ L[n + 1] = now
    BY <1>6, RunInvFacts
<1> HIDE DEF L, n
<1>8. logs' = logs \/ logs' = Put(logs, id, L)
    BY <1>1 DEF L
<1>9. /\ \A y : y # id => EpochsOf(y)' = EpochsOf(y)
      /\ EpochsOf(id)' \subseteq EpochsOf(id) \cup {now}
      /\ Epochs' \subseteq Epochs \cup {now}
    <2>1. CASE logs' = logs
        BY <2>1 DEF EpochsOf, Epochs
    <2>2. CASE logs' = Put(logs, id, L)
        <3>1. /\ DOMAIN logs' = DOMAIN logs \cup {id}
              /\ \A y \in DOMAIN logs' : logs'[y] = IF y = id THEN L ELSE logs[y]
            BY <2>2 DEF Put
        <3>2. \A y : y # id => EpochsOf(y)' = EpochsOf(y)
            BY <3>1 DEF EpochsOf
        <3>3. EpochsOf(id)' \subseteq EpochsOf(id) \cup {now}
            <4>1. \A k \in DOMAIN L : L[k] \in EpochsOf(id) \/ L[k] = now
                BY <1>7
            <4>2. logs'[id] = L
                BY <3>1
            <4> QED
                BY <4>1, <4>2 DEF EpochsOf
        <3>4. ASSUME NEW e \in Epochs'
              PROVE  e \in Epochs \cup {now}
            <4>1. PICK y : e \in EpochsOf(y)'
                BY DEF Epochs
            <4>2. e \in EpochsOf(y) \/ e = now
                BY <3>2, <3>3, <4>1
            <4> QED
                BY <4>2, RunInvFacts
        <3> QED
            BY <3>2, <3>3, <3>4
    <2> QED
        BY <1>8, <2>1, <2>2
<1>10. OncePerMinute'
    <2> SUFFICES ASSUME NEW y \in DOMAIN logs', NEW i \in DOMAIN logs'[y],
                        NEW j \in DOMAIN logs'[y], i < j
                 PROVE  logs'[y][j] >= StartEpoch(logs'[y][i])
        BY DEF OncePerMinute
    <2>1. CASE logs' = logs \/ y # id
        <3>1. y \in DOMAIN logs /\ logs'[y] = logs[y]
            BY <1>8, <2>1 DEF Put
        <3> QED
            BY <3>1 DEF RunInv, OncePerMinute
    <2>2. CASE logs' = Put(logs, id, L) /\ y = id
        <3>1. logs'[y] = L
            BY <2>2 DEF Put
        <3>2. i \in 1..n
            BY <1>7, <3>1
        <3>3. CASE j = n + 1
            BY <1>5, <1>7, <3>1, <3>2, <3>3
        <3>4. CASE j \in 1..n
            <4>1. id \in DOMAIN logs /\ Log(id) = logs[id]
                BY <1>7, <3>2 DEF Log, n
            <4>2. i \in DOMAIN logs[id] /\ j \in DOMAIN logs[id]
                BY <1>6, <3>2, <3>4, <4>1 DEF n
            <4>3. L[i] = logs[id][i] /\ L[j] = logs[id][j]
                BY <1>7, <3>2, <3>4, <4>1
            <4> QED
                BY <3>1, <4>1, <4>2, <4>3 DEF RunInv, OncePerMinute
        <3> QED
            BY <1>7, <3>1, <3>3, <3>4
    <2> QED
        BY <1>8, <2>1, <2>2
<1>11. NotRunYet'
    <2> SUFFICES ASSUME NEW i \in DOMAIN plan \cap DOMAIN tasks, i # entry
                 PROVE  \A e \in EpochsOf(tasks[i].task_id)' :
                            Clear(plan[i].next_epoch, e)
        BY <1>1 DEF NotRunYet
    <2>1. tasks[i].task_id # id
        BY <1>0, <1>2, RunInvFacts DEF Distinct
    <2>2. EpochsOf(tasks[i].task_id)' = EpochsOf(tasks[i].task_id)
        <3>1. tasks' = tasks
            BY <1>1
        <3> QED
            BY <1>9, <2>1, <3>1
    <2> QED
        BY <1>1, <2>2 DEF RunInv, NotRunYet
<1>12. RunsArePast'
    <2>1. \A e \in Epochs' : e \in Nat /\ e <= now
        BY <1>3, <1>9, RunInvFacts
    <2>2. \A e \in Epochs' : e <= clock
        BY <1>3, <2>1, RunInvFacts
    <2> QED
        BY <1>1, <1>3, <2>1, <2>2 DEF RunsArePast
<1>13. PlanIndexed' /\ NothingRunYet' /\ PassState'
    BY <1>1, <1>3 DEF RunInv, PlanIndexed, NothingRunYet, Settled, PassState
<1> QED
    BY <1>10, <1>11, <1>12, <1>13 DEF RunInv

(* The entry's next deadline is in a later minute than the run.            *)
LEMMA SaveRuns ==
    ASSUME RunInv, IdInv', SaveTask
    PROVE  RunInv'
<1>0. PICK next : next = NextOccurrence(RunningTask.schedule, now)
    OBVIOUS
<1>1. /\ UNCHANGED <<logs, clock, now, executed>>
      /\ pc = "save" /\ pc' = "scan"
    BY DEF SaveTask, env
<1>2. entry \in DOMAIN plan /\ Current.task_index \in DOMAIN tasks
    BY <1>1 DEF RunInv, IdInv, TypeInv, RunningOK
<1>3. RunningTask \in Task
    BY <1>2, RunInvFacts DEF RunningTask
<1>4. /\ DOMAIN tasks' = DOMAIN tasks
      /\ \A i \in DOMAIN tasks : tasks'[i].task_id = tasks[i].task_id
    <2> DEFINE ran == [RunningTask EXCEPT !.last_run_epoch = now]
    <2>1. ran.task_id = tasks[Current.task_index].task_id
        BY <1>3 DEF Task, RunningTask
    <2> HIDE DEF ran
    <2>2. tasks' = [tasks EXCEPT ![Current.task_index] = ran]
        BY DEF SaveTask, ran
    <2> QED
        BY <1>2, <2>1, <2>2, RunInvFacts
<1>5. plan' = [plan EXCEPT ![entry].next_epoch = next]
    <2>1. [RunningTask EXCEPT !.last_run_epoch = now].schedule
              = RunningTask.schedule
        BY <1>3 DEF Task
    <2> QED
        BY <1>0, <2>1 DEF SaveTask
<1>6. /\ DOMAIN plan' = DOMAIN plan
      /\ \A i \in DOMAIN plan :
             /\ plan'[i].task_index = plan[i].task_index
             /\ plan'[i].next_epoch = IF i = entry THEN next
                                                   ELSE plan[i].next_epoch
    <2>1. \A i \in DOMAIN plan : plan[i] \in PlanEntry
        BY RunInvFacts
    <2> QED
        BY <1>2, <1>5, <2>1 DEF PlanEntry
<1>7. \/ next = -1
      \/ /\ next \in Nat /\ next >= StartEpoch(now)
         /\ \A u \in Nat : next > u => next >= StartEpoch(u)
    BY <1>0, RunInvFacts, NextOccurrenceResult
<1>8. \A e \in Epochs : Clear(next, e)
    <2> SUFFICES ASSUME NEW e \in Epochs, next # -1
                 PROVE  next >= StartEpoch(e)
        BY DEF Clear
    <2>1. e \in Nat /\ e <= now
        BY <1>1, RunInvFacts DEF RunInv, RunsArePast
    <2>2. StartEpoch(e) <= StartEpoch(now)
        BY <2>1, RunInvFacts, StartMonotone
    <2>3. StartEpoch(e) \in Nat /\ StartEpoch(now) \in Nat
        BY <2>1, RunInvFacts, StartAfter
    <2> QED
        BY <1>7, <2>2, <2>3
<1>9. Epochs' = Epochs /\ \A id : EpochsOf(id)' = EpochsOf(id)
    BY <1>1 DEF Epochs, EpochsOf
<1>10. NotRunYet'
    <2> SUFFICES ASSUME NEW i \in DOMAIN plan \cap DOMAIN tasks,
                        NEW e \in EpochsOf(tasks[i].task_id)
                 PROVE  Clear(plan'[i].next_epoch, e)
        BY <1>4, <1>6, <1>9 DEF NotRunYet
    <2>1. CASE i = entry
        BY <1>6, <1>8, <2>1, RunInvFacts
    <2>2. CASE i # entry
        BY <1>6, <2>2 DEF RunInv, NotRunYet
    <2> QED
        BY <2>1, <2>2
<1>11. PlanIndexed'
    <2>1. \A u \in Nat : next > u => next >= StartEpoch(u)
        BY <1>7
    <2> QED
        BY <1>6, <2>1 DEF RunInv, PlanIndexed
<1>12. /\ NothingRunYet' /\ PassState'
    BY <1>1 DEF RunInv, NothingRunYet, Settled, PassState
<1>13. RunsArePast' /\ OncePerMinute'
    BY <1>1, <1>9 DEF RunInv, RunsArePast, OncePerMinute
<1> QED
    BY <1>10, <1>11, <1>12, <1>13 DEF RunInv

(* The invariant of runs holds in every state, under any number of         *)
(* failures.                                                               *)
LEMMA RunInvHolds ==
    ASSUME NeverTruncated
    PROVE  Spec => []RunInv
<1>1. Init /\ IdInv => RunInv
    <2> SUFFICES ASSUME Init, IdInv
                 PROVE  RunInv
        OBVIOUS
    <2>1. DOMAIN plan = {} /\ DOMAIN logs = {}
        BY DEF Init
    <2>2. Epochs = {}
        BY <2>1 DEF Epochs
    <2> QED
        BY <2>1, <2>2 DEF Init, RunInv, PlanIndexed, NotRunYet, NothingRunYet,
            Settled, RunsArePast, PassState, OncePerMinute
<1>2. RunInv /\ IdInv' /\ [Next]_vars => RunInv'
    <2> SUFFICES ASSUME RunInv, IdInv', [Next]_vars
                 PROVE  RunInv'
        OBVIOUS
    <2>1. CASE Handle
        BY <2>1, CreateRuns, RemoveRuns, OtherHandlersRuns DEF Handle
    <2>2. CASE Runs
        BY <2>2, PassRuns, EndPassRuns, VisitRuns, AppendRuns, SaveRuns DEF Runs
    <2>3. CASE UNCHANGED vars
        <3>1. UNCHANGED <<tasks, plan, logs, clock, now, entry, pc, executed,
                          should_quit>>
            BY <2>3 DEF vars
        <3>2. PassState' /\ (Settled' => Settled)
            BY <3>1 DEF RunInv, PassState, Current, Settled
        <3>3. now <= clock
            /\ (pc \in {"scan", "exec", "append", "save"}
                    => \A e \in Epochs : e <= now)
            BY DEF RunInv, RunsArePast
        <3> QED
            BY <3>1, <3>2, <3>3, QuietRuns, RunInvFacts
    <2> QED
        BY <2>1, <2>2, <2>3, EnvironmentRuns, ProcessRuns, LoopRuns DEF Next
<1> QED
    BY <1>1, <1>2, IdInvHolds, PTL DEF Spec

(* Two runs of a task never start in the same minute: for every schedule,  *)
(* clock, number of requests, crashes, restarts and failures, also those   *)
(* that leave an old plan over reloaded tasks, unless next_id is truncated *)
(* and two tasks share a history.                                          *)
THEOREM RunsOncePerMinute ==
    ASSUME NeverTruncated
    PROVE  Spec => []OncePerMinute
BY RunInvHolds, PTL DEF RunInv

-----------------------------------------------------------------------------
(* What runs, and what poll waits for, when a failure to grow the array of *)
(* the plan is made up for by reloading the tasks: a second failure in the *)
(* handler may leave an old plan over reloaded tasks.                      *)

PlainBodies == \A body \in CreateBodies : ~body.has_args
PlanRecovers == "plan" \notin FaultKinds \/ (MaxFaults <= 1 /\ PlainBodies)

(* A task that has deadlines can run, so that its entry is never disarmed, *)
(* and its file can be read again if those of all requests can.            *)
CanRun(task) ==
    /\ task.schedule.enabled => task.command_count # 0
    /\ PlainBodies => ~task.has_args

AllCanRun ==
    /\ \A i \in DOMAIN tasks : CanRun(tasks[i])
    /\ \A id \in DOMAIN disk : CanRun(disk[id])

(* A deadline is the next occurrence of the task's schedule, searched at   *)
(* some instant of the past.                                               *)
PlannedFrom(task, deadline) ==
    \E t \in Nat : t <= clock /\ deadline = NextOccurrence(task.schedule, t)

PlanUpToDate ==
    /\ DOMAIN plan = DOMAIN tasks
    /\ \A i \in DOMAIN plan :
           /\ plan[i].task_index = i
           /\ plan[i].task_id = tasks[i].task_id
           /\ PlannedFrom(tasks[i], plan[i].next_epoch)

(* poll waits for no longer than any deadline, or has been waiting.        *)
TimeoutCovers ==
    pc = "poll" =>
        \A i \in DOMAIN plan :
            plan[i].next_epoch # -1 =>
                /\ timeout # -1
                /\ timeout <= clock \/ timeout <= plan[i].next_epoch

PlanInv == TypeInv /\ AllCanRun /\ PlanUpToDate /\ TimeoutCovers

(* A task made from an accepted request that is enabled has a command.     *)
LEMMA NewTaskCanRun ==
    ASSUME NEW body \in CreateBodies, CommandsParse(body), NEW id
    PROVE  CanRun(NewTask(id, body))
<1> DEFINE task == NewTask(id, body)
<1>1. body \in CreateBody
    BY ErraidAssumption
<1>2. /\ task.command_count = body.command_count
      /\ task.schedule.enabled => body.type # "ABSTRACT"
      /\ task.has_args = body.has_args
    BY DEF NewTask, ParsedSchedule
<1>3. PlainBodies => ~body.has_args
    BY DEF PlainBodies
<1>4. body.type \in {"SIMPLE", "SEQUENCE", "ABSTRACT"} /\ body.command_count \in Nat
    BY <1>1 DEF CreateBody, TaskType
<1> HIDE DEF task
<1>5. CanRun(task)
    BY <1>2, <1>3, <1>4 DEF CommandsParse, CanRun
<1> QED
    BY <1>5 DEF task

LEMMA PlanInvFacts ==
    ASSUME PlanInv
    PROVE  /\ TypeOK /\ Files(disk)
           /\ clock \in Nat /\ now \in Nat /\ entry \in Nat \ {0}
           /\ tasks \in Seq(Task) /\ plan \in Seq(PlanEntry)
           /\ \A i \in DOMAIN plan : plan[i] \in PlanEntry
           /\ \A i \in DOMAIN tasks : tasks[i] \in Task
<1>1. TypeOK /\ Files(disk)
    BY DEF PlanInv, TypeInv
<1> QED
    BY <1>1 DEF TypeOK

(* A plan computed from the tasks is up to date.                           *)
LEMMA PlannedUpToDate ==
    ASSUME clock \in Nat, clock' = clock, NEW ts \in Seq(Task), PlanRebuilt(ts)
    PROVE  PlanUpToDate'
<1>1. tasks' = ts /\ plan' = ComputePlan(ts, clock)
    BY DEF PlanRebuilt
<1>2. /\ plan' \in Seq(PlanEntry) /\ Len(plan') = Len(ts)
      /\ \A i \in 1..Len(ts) :
             /\ plan'[i].task_id = ts[i].task_id
             /\ plan'[i].task_index = i
             /\ plan'[i].next_epoch = NextOccurrence(ts[i].schedule, clock)
    BY <1>1, PlanComputed
<1>3. DOMAIN plan' = 1..Len(ts) /\ DOMAIN ts = 1..Len(ts)
    BY <1>2
<1> QED
    BY <1>1, <1>2, <1>3 DEF PlanUpToDate, PlannedFrom

(* As long as the tasks and the plan stay, time may pass.                  *)
LEMMA StaysUpToDate ==
    ASSUME PlanInv, UNCHANGED <<tasks, plan>>, clock' \in Nat, clock' >= clock
    PROVE  PlanUpToDate'
<1>1. ASSUME NEW task, NEW deadline, PlannedFrom(task, deadline)
      PROVE  PlannedFrom(task, deadline)'
    <2>1. PICK t \in Nat : t <= clock /\ deadline = NextOccurrence(task.schedule, t)
        BY <1>1 DEF PlannedFrom
    <2>2. t <= clock'
        BY <2>1, PlanInvFacts
    <2> QED
        BY <2>1, <2>2 DEF PlannedFrom
<1> QED
    BY <1>1 DEF PlanInv, PlanUpToDate

(* A handler leaves the tasks and the plan, or computes the plan of the    *)
(* new tasks, which are those of the files if a first attempt fails.       *)
LEMMA HandlersPlan ==
    ASSUME PlanRecovers, PlanInv, TypeInv', Handle
    PROVE  PlanInv'
<1>0. /\ clock \in Nat /\ tasks \in Seq(Task) /\ Files(disk)
      /\ requests \in Seq(Requests) /\ AllCanRun
    BY DEF PlanInv, TypeInv, TypeOK
<1>a. requests # <<>>
    BY DEF Handle, HandleCreate, HandleRemove, HandleQuery, HandleShutdown,
           Serving
<1>e. \E type, code, id : Answer(type, code, id)
    <2>2. CASE HandleCreate
        BY <2>2 DEF HandleCreate, CreateRefused, CreateNotAllocated,
            CreateNotWritten, CreateNotAdded, CreateNotPlanned, Created, Refuse
    <2>3. CASE HandleRemove
        BY <2>3 DEF HandleRemove, RemoveRefused, RemoveNotUnlinked,
                    RemoveNotPlanned, Removed, Refuse
    <2>4. CASE HandleQuery \/ HandleShutdown
        BY <2>4, Zenon DEF HandleQuery, HandleShutdown
    <2> QED
        BY <2>2, <2>3, <2>4 DEF Handle
<1>b. clock' = clock /\ TimeoutCovers'
    BY <1>a, <1>e, Answered DEF PlanInv, TypeInv, TimeoutCovers
<1>c. ASSUME UNCHANGED <<tasks, plan>>
      PROVE  PlanUpToDate'
    BY <1>0, <1>b, <1>c, StaysUpToDate
<1>d. ASSUME NEW ts, PlanFailed(ts, disk'), \A id \in DOMAIN disk' : CanRun(disk'[id])
      PROVE  AllCanRun' /\ PlanUpToDate'
    <2>1. "plan" \in FaultKinds
        BY <1>d DEF PlanFailed, Fails, BothFail
    <2>2. MaxFaults <= 1 /\ PlainBodies
        BY <2>1 DEF PlanRecovers
    <2>3. Loads(disk')
        BY <1>d, <2>2 DEF Loads, CanRun
    <2>4. \A kind : ~BothFail("plan", kind)
        <3>1. faults \in Nat /\ MaxFaults <= 1 /\ MaxFaults \in Nat
            BY <2>2, ErraidAssumption DEF PlanInv, TypeInv, TypeOK
        <3>2. ~(faults + 2 <= MaxFaults)
            BY <3>1
        <3> QED
            BY <3>2 DEF BothFail
    <2>5. PICK loaded \in LoadOrders(disk') : PlanRebuilt(loaded)
        BY <1>d, <2>3, <2>4 DEF PlanFailed
    <2>6. /\ loaded \in Seq(Task)
          /\ \A i \in 1..Len(loaded) : loaded[i].task_id \in DOMAIN disk'
                                       /\ loaded[i] = disk'[loaded[i].task_id]
        <3>1. Files(disk')
            BY DEF TypeInv
        <3> QED
            BY <2>5, <3>1, LoadedTasks
    <2>7. PlanUpToDate' /\ tasks' = loaded
        BY <1>0, <1>b, <2>5, <2>6, PlannedUpToDate DEF PlanRebuilt
    <2>8. DOMAIN loaded = 1..Len(loaded)
        BY <2>6
    <2> QED
        BY <1>d, <2>6, <2>7, <2>8 DEF AllCanRun
<1>1. CASE HandleCreate
    <2> DEFINE body == Head(requests).body
               task == NewTask(AllocatedId, body)
    <2>1. body \in CreateBodies
        <3>1. requests # <<>> /\ Head(requests).type = "CREATE"
            BY <1>1 DEF HandleCreate, Serving
        <3>2. Head(requests) \in Requests
            BY <1>0, <3>1, HeadTailProperties
        <3> QED
            BY <3>1, <3>2, ErraidAssumption DEF Requests, AllQueries
    <2>2. task \in Task /\ task.task_id = AllocatedId
        BY <2>1, NewTaskTyped DEF PlanInv, TypeInv, TypeOK
    <2>3. CommandsParse(body) => CanRun(task)
        BY <2>1, NewTaskCanRun
    <2> HIDE DEF body, task
    <2>4. CASE CreateRefused(body) \/ CreateNotAllocated(body)
               \/ CreateNotWritten(body)
        <3>1. UNCHANGED <<tasks, plan, disk>>
            BY <2>4 DEF CreateRefused, CreateNotAllocated, CreateNotWritten,
                        memory, store
        <3> QED
            BY <1>0, <1>b, <1>c, <3>1 DEF PlanInv, AllCanRun
    <2>5. CASE /\ ScheduleParses(body) /\ CommandsParse(body)
               /\ CreateNotAdded(body)
        <3>1. /\ UNCHANGED <<tasks, plan>>
              /\ \/ disk' = Drop(disk, AllocatedId)
                 \/ disk' = Put(disk, AllocatedId, task)
            BY <2>5 DEF CreateNotAdded, memory, task
        <3>2. AllCanRun'
            BY <1>0, <2>3, <2>5, <3>1 DEF AllCanRun, Put, Drop
        <3> QED
            BY <1>b, <1>c, <3>1, <3>2 DEF PlanInv
    <2>6. CASE /\ ScheduleParses(body) /\ CommandsParse(body)
               /\ Created(body)
        <3>1. /\ disk' = Put(disk, AllocatedId, task)
              /\ PlanRebuilt(Append(tasks, task))
            BY <2>6 DEF Created, task
        <3>2. Append(tasks, task) \in Seq(Task)
            BY <1>0, <2>2
        <3>3. PlanUpToDate'
            BY <1>0, <1>b, <3>1, <3>2, PlannedUpToDate
        <3>4. /\ tasks' = Append(tasks, task)
              /\ \A i \in DOMAIN tasks' :
                     \/ i \in DOMAIN tasks /\ tasks'[i] = tasks[i]
                     \/ tasks'[i] = task
            BY <1>0, <3>1 DEF PlanRebuilt
        <3>5. AllCanRun'
            BY <1>0, <2>3, <2>6, <3>1, <3>4 DEF AllCanRun, Put
        <3> QED
            BY <1>b, <3>3, <3>5 DEF PlanInv
    <2>7. CASE /\ ScheduleParses(body) /\ CommandsParse(body)
               /\ CreateNotPlanned(body)
        <3>1. /\ disk' = Put(disk, AllocatedId, task)
              /\ PlanFailed(Append(tasks, task), disk')
            BY <2>7 DEF CreateNotPlanned, task
        <3>2. \A id \in DOMAIN disk' : CanRun(disk'[id])
            BY <1>0, <2>3, <2>7, <3>1 DEF AllCanRun, Put
        <3> QED
            BY <1>b, <1>d, <3>1, <3>2 DEF PlanInv
    <2> QED
        BY <1>1, <2>4, <2>5, <2>6, <2>7 DEF HandleCreate, body
<1>2. CASE HandleRemove
    <2> DEFINE id == Head(requests).task_id
               k == FirstIndex(id)
               rest == RemoveAt(tasks, k)
    <2>1. CASE RemoveRefused(id) \/ RemoveNotUnlinked(id)
        <3>1. UNCHANGED <<tasks, plan, disk>>
            BY <2>1 DEF RemoveRefused, RemoveNotUnlinked, memory, store
        <3> QED
            BY <1>0, <1>b, <1>c, <3>1 DEF PlanInv, AllCanRun
    <2>2. CASE Removed(id)
        <3>1. /\ disk' = Drop(disk, id) /\ id \in TaskIds
              /\ PlanRebuilt(rest)
            BY <2>2 DEF Removed, Unlinked
        <3>2. k \in 1..Len(tasks)
            BY <1>0, <3>1, FirstIndexFinds
        <3> HIDE DEF k
        <3>3. /\ rest \in Seq(Task)
              /\ \A i \in DOMAIN rest : \E j \in DOMAIN tasks : rest[i] = tasks[j]
            <4>1. /\ Len(tasks) \in Nat /\ DOMAIN tasks = 1..Len(tasks)
                  /\ DOMAIN rest = 1..(Len(tasks) - 1) /\ rest \in Seq(Task)
                  /\ \A i \in 1..(Len(tasks) - 1) :
                         rest[i] = IF i < k THEN tasks[i] ELSE tasks[i + 1]
                BY <1>0, <3>2, RemoveAtProperties
            <4> HIDE DEF rest
            <4> QED
                BY <4>1
        <3> HIDE DEF rest
        <3>4. PlanUpToDate' /\ tasks' = rest
            BY <1>0, <1>b, <3>1, <3>3, PlannedUpToDate DEF PlanRebuilt
        <3>5. AllCanRun'
            BY <1>0, <3>1, <3>3, <3>4 DEF AllCanRun, Drop
        <3> QED
            BY <1>b, <3>4, <3>5 DEF PlanInv
    <2>3. CASE RemoveNotPlanned(id)
        <3>1. disk' = Drop(disk, id) /\ PlanFailed(rest, disk')
            BY <2>3 DEF RemoveNotPlanned, Unlinked
        <3>2. \A y \in DOMAIN disk' : CanRun(disk'[y])
            BY <1>0, <3>1 DEF AllCanRun, Drop
        <3> QED
            BY <1>b, <1>d, <3>1, <3>2 DEF PlanInv
    <2> QED
        BY <1>2, <2>1, <2>2, <2>3 DEF HandleRemove
<1>3. CASE HandleQuery \/ HandleShutdown
    <2>1. UNCHANGED <<tasks, plan, disk>>
        BY <1>3 DEF HandleQuery, HandleShutdown, memory, store
    <2> QED
        BY <1>0, <1>b, <1>c, <2>1 DEF PlanInv, AllCanRun
<1> QED
    BY <1>1, <1>2, <1>3 DEF Handle

(* A start plans what it loads; entering poll waits for the earliest       *)
(* deadline.                                                               *)
LEMMA LoopPlan ==
    ASSUME PlanInv, TypeInv', Environment \/ Process \/ Loop \/ UNCHANGED vars
    PROVE  PlanInv'
<1>0. clock \in Nat /\ AllCanRun /\ TimeoutCovers /\ plan \in Seq(PlanEntry)
    BY PlanInvFacts DEF PlanInv
<1>1. CASE Environment \/ PollReturns \/ UNCHANGED vars
    <2>1. /\ UNCHANGED <<tasks, plan, disk, timeout>>
          /\ clock' = clock \/ clock' = clock + 1
          /\ pc' = pc \/ pc' # "poll"
        BY <1>1 DEF Environment, Tick, SendRequest, Signal, PollReturns, env,
                    control, memory, store, vars
    <2>2. clock' \in Nat /\ clock' >= clock
        BY <1>0, <2>1
    <2>3. PlanUpToDate'
        BY <2>1, <2>2, StaysUpToDate
    <2>4. TimeoutCovers'
        <3>1. timeout \in Int
            <4>1. timeout \in Nat \cup {-1}
                BY DEF PlanInv, TypeInv, TypeOK
            <4> QED
                BY <4>1
        <3> QED
            BY <1>0, <2>1, <2>2, <3>1 DEF TimeoutCovers
    <2> QED
        BY <1>0, <2>1, <2>3, <2>4 DEF PlanInv, AllCanRun
<1>2. CASE Poll
    <2>1. UNCHANGED <<tasks, plan, disk, clock>> /\ timeout' = Timeout(plan, clock)
        BY <1>2 DEF Poll, env, memory, store
    <2>2. ASSUME NEW i \in DOMAIN plan, plan[i].next_epoch # -1
          PROVE  /\ timeout' # -1
                 /\ timeout' <= clock \/ timeout' <= plan[i].next_epoch
        <3> DEFINE D == Deadlines(plan)
        <3>1. D \in SUBSET Nat
            <4>1. \A j \in DOMAIN plan : plan[j].next_epoch \in Nat \cup {-1}
                BY PlanInvFacts DEF PlanEntry
            <4> QED
                BY <4>1 DEF Deadlines
        <3>2. plan[i].next_epoch \in D
            BY <2>2 DEF Deadlines
        <3> HIDE DEF D
        <3>3. PICK m \in Nat : m = Min(D) /\ m <= plan[i].next_epoch
            BY <3>1, <3>2, MinProperty
        <3>4. timeout' = Max({clock, m})
            BY <2>1, <3>2, <3>3 DEF Timeout, D
        <3>5. Max({clock, m}) \in {clock, m}
            <4>1. \E x \in {clock, m} : \A y \in {clock, m} : x >= y
                <5>1. CASE clock >= m
                    BY <1>0, <5>1
                <5>2. CASE clock < m
                    BY <1>0, <5>2
                <5> QED
                    BY <1>0, <5>1, <5>2
            <4> QED
                BY <4>1 DEF Max
        <3> QED
            BY <1>0, <3>1, <3>2, <3>3, <3>4, <3>5
    <2>3. PlanUpToDate' /\ TimeoutCovers'
        <3>1. PlanUpToDate'
            BY <1>0, <2>1, StaysUpToDate
        <3> QED
            BY <2>1, <2>2, <3>1 DEF TimeoutCovers
    <2> QED
        BY <1>0, <2>1, <2>3 DEF PlanInv, AllCanRun
<1>3. CASE Start
    <2>1. PICK ts \in LoadOrders(disk) : PlanRebuilt(ts)
        BY <1>3 DEF Start
    <2>2. /\ ts \in Seq(Task)
          /\ \A i \in 1..Len(ts) : ts[i].task_id \in DOMAIN disk
                                   /\ ts[i] = disk[ts[i].task_id]
        BY <2>1, PlanInvFacts, LoadedTasks
    <2>3. clock' = clock /\ disk' = disk /\ pc' # "poll"
        BY <1>3 DEF Start, store
    <2>4. PlanUpToDate' /\ tasks' = ts
        BY <1>0, <2>1, <2>2, <2>3, PlannedUpToDate DEF PlanRebuilt
    <2>5. AllCanRun'
        <3>1. DOMAIN ts = 1..Len(ts)
            BY <2>2
        <3> QED
            BY <1>0, <2>2, <2>3, <2>4, <3>1 DEF AllCanRun
    <2> QED
        BY <2>3, <2>4, <2>5 DEF PlanInv, TimeoutCovers
<1>4. CASE Crash \/ HandlerCrash \/ Stop
    <2>1. tasks' = <<>> /\ plan' = <<>> /\ pc' = "down"
        BY <1>4 DEF Crash, HandlerCrash, Stop, ProcessGone
    <2>2. DOMAIN tasks' = {} /\ DOMAIN plan' = {}
        BY <2>1
    <2>3. \/ disk' = disk
          \/ \E id : disk' = Drop(disk, id)
          \/ \E id : \E body \in CreateBodies :
                CommandsParse(body) /\ disk' = Put(disk, id, NewTask(id, body))
        <3>1. CASE UNCHANGED store
            BY <3>1 DEF store
        <3>2. CASE RemoveCut
            BY <3>2 DEF RemoveCut, Unlinked
        <3>3. CASE CreateCut
            <4> DEFINE body == Head(requests).body
            <4>1. body \in CreateBodies
                BY <3>3, CutBody DEF PlanInv
            <4>2. /\ CommandsParse(body)
                  /\ \/ disk' = disk
                     \/ disk' = Put(disk, AllocatedId, NewTask(AllocatedId, body))
                BY <3>3 DEF CreateCut
            <4> HIDE DEF body
            <4> QED
                BY <4>1, <4>2
        <3> QED
            BY <1>4, <3>1, <3>2, <3>3 DEF Crash, HandlerCrash, Stop
    <2>4. \A id \in DOMAIN disk' : CanRun(disk'[id])
        BY <1>0, <2>3, NewTaskCanRun DEF AllCanRun, Put, Drop
    <2> QED
        BY <2>1, <2>2, <2>4 DEF PlanInv, AllCanRun, PlanUpToDate, TimeoutCovers
<1> QED
    BY <1>1, <1>2, <1>3, <1>4 DEF Process, Loop

(* A pass reads the clock once; what it read is past.                      *)
NowPast == now <= clock

LEMMA NowPastHolds == Spec => []NowPast
<1>1. Init => NowPast
    BY DEF Init, NowPast
<1>2. TypeInv /\ NowPast /\ [Next]_vars => NowPast'
    <2> SUFFICES ASSUME TypeInv, NowPast, [Next]_vars
                 PROVE  NowPast'
        OBVIOUS
    <2>1. clock \in Nat /\ now \in Nat /\ now <= clock
        BY DEF TypeInv, TypeOK, NowPast
    <2>2. CASE Tick
        BY <2>1, <2>2 DEF Tick, control, NowPast
    <2>3. CASE Crash \/ HandlerCrash \/ Stop
        BY <2>1, <2>3 DEF Crash, HandlerCrash, Stop, ProcessGone, env, NowPast
    <2>4. CASE BeginPass
        BY <2>1, <2>4 DEF BeginPass, env, NowPast
    <2>5. CASE \/ SendRequest \/ Signal \/ Start \/ Loop \/ UNCHANGED vars
               \/ EndPass \/ VisitDue \/ ChildEnds \/ AppendHistory \/ SaveTask
        <3>1. clock' = clock /\ now' = now
            BY <2>5 DEF SendRequest, Signal, Start, Loop, Poll, PollReturns, vars,
                EndPass, VisitDue, ChildEnds, AppendHistory, SaveTask, env, control
        <3> QED
            BY <2>1, <3>1 DEF NowPast
    <2>6. CASE Handle
        <3>1. clock' = clock /\ now' = now
            BY <2>6 DEF Handle, HandleCreate, HandleRemove, HandleQuery,
                HandleShutdown, CreateRefused, CreateNotAllocated,
                CreateNotWritten, CreateNotAdded, CreateNotPlanned, Created,
                RemoveRefused, RemoveNotUnlinked, RemoveNotPlanned, Removed,
                Refuse, Answer, env
        <3> QED
            BY <2>1, <3>1 DEF NowPast
    <2> QED
        BY <2>2, <2>3, <2>4, <2>5, <2>6
        DEF Next, Environment, Process, Runs
<1> QED
    BY <1>1, <1>2, TypeInvHolds, PTL DEF Spec

(* A run computes the next deadline of its entry from the task that ran.   *)
LEMMA RunsPlan ==
    ASSUME PlanInv, NowPast, TypeInv', Runs
    PROVE  PlanInv'
<1>0. /\ clock \in Nat /\ AllCanRun /\ PlanUpToDate
      /\ clock' = clock /\ pc' # "poll"
    <2>1. clock' = clock /\ pc' # "poll"
        BY DEF Runs, BeginPass, EndPass, VisitDue, ChildEnds, AppendHistory,
               SaveTask, env
    <2> QED
        BY <2>1, PlanInvFacts DEF PlanInv
<1>1. CASE BeginPass \/ EndPass \/ ChildEnds \/ AppendHistory
    <2>1. UNCHANGED <<tasks, plan, disk>>
        BY <1>1 DEF BeginPass, EndPass, ChildEnds, AppendHistory, memory, store
    <2>2. PlanUpToDate'
        BY <1>0, <2>1, StaysUpToDate
    <2> QED
        BY <1>0, <2>1, <2>2 DEF PlanInv, AllCanRun, TimeoutCovers
<1>2. CASE VisitDue
    <2> DEFINE i == Min(Due)
    <2>1. i \in DOMAIN plan
        <3>1. Due \in SUBSET Nat /\ Due # {}
            <4>1. entry \in Nat /\ Len(plan) \in Nat
                BY PlanInvFacts
            <4>2. \A k \in entry..Len(plan) : k \in Nat
                BY <4>1
            <4> QED
                BY <1>2, <4>2 DEF Due, VisitDue
        <3>2. i \in Due
            BY <3>1, MinProperty
        <3> QED
            BY <3>2, PlanInvFacts DEF Due
    <2>2. /\ plan[i].task_index = i /\ i \in DOMAIN tasks
          /\ plan[i] \in PlanEntry
        BY <1>0, <2>1, PlanInvFacts DEF PlanUpToDate
    <2> HIDE DEF i
    <2>3. UNCHANGED <<tasks, disk>>
        BY <1>2 DEF VisitDue, store
    <2>4. \/ plan' = plan
          \/ /\ plan' = [plan EXCEPT ![i].next_epoch = -1]
             /\ ~tasks[i].schedule.enabled \/ tasks[i].command_count = 0
        BY <1>2, <2>2 DEF VisitDue, i
    <2>5. CASE plan' = plan
        <3>1. PlanUpToDate'
            BY <1>0, <2>3, <2>5, StaysUpToDate
        <3> QED
            BY <1>0, <2>3, <3>1 DEF PlanInv, AllCanRun, TimeoutCovers
    <2>6. CASE /\ plan' = [plan EXCEPT ![i].next_epoch = -1]
               /\ ~tasks[i].schedule.enabled \/ tasks[i].command_count = 0
        <3>1. ~tasks[i].schedule.enabled
            BY <1>0, <2>2, <2>6 DEF AllCanRun, CanRun
        <3>2. NextOccurrence(tasks[i].schedule, clock) = -1
            BY <3>1 DEF NextOccurrence
        <3>3. /\ DOMAIN plan' = DOMAIN plan
              /\ \A j \in DOMAIN plan :
                     /\ plan'[j].task_index = plan[j].task_index
                     /\ plan'[j].task_id = plan[j].task_id
                     /\ j # i => plan'[j].next_epoch = plan[j].next_epoch
              /\ plan'[i].next_epoch = -1
            <4>1. \A j \in DOMAIN plan : plan[j] \in PlanEntry
                BY PlanInvFacts
            <4> QED
                BY <2>1, <2>6, <4>1 DEF PlanEntry
        <3>4. PlannedFrom(tasks[i], -1)
            BY <1>0, <3>2 DEF PlannedFrom
        <3>5. \A j \in DOMAIN plan : PlannedFrom(tasks[j], plan'[j].next_epoch)
            BY <1>0, <3>3, <3>4 DEF PlanUpToDate
        <3>6. PlanUpToDate'
            BY <1>0, <2>3, <3>3, <3>5 DEF PlanUpToDate, PlannedFrom
        <3> QED
            BY <1>0, <2>3, <3>6 DEF PlanInv, AllCanRun, TimeoutCovers
    <2> QED
        BY <2>4, <2>5, <2>6
<1>3. CASE SaveTask
    <2> DEFINE ran == [RunningTask EXCEPT !.last_run_epoch = now]
    <2>1. entry \in DOMAIN plan /\ Current.task_index \in DOMAIN tasks
        BY <1>3 DEF SaveTask, PlanInv, TypeInv, RunningOK
    <2>2. Current.task_index = entry /\ entry \in DOMAIN tasks
        BY <1>0, <2>1 DEF PlanUpToDate, Current
    <2>3. RunningTask = tasks[entry] /\ tasks[entry] \in Task
        BY <2>2, PlanInvFacts DEF RunningTask
    <2>4. /\ ran.schedule = tasks[entry].schedule
          /\ ran.task_id = tasks[entry].task_id
          /\ ran.command_count = tasks[entry].command_count
          /\ ran.has_args = tasks[entry].has_args
        BY <2>3 DEF Task
    <2> HIDE DEF ran
    <2>5. /\ tasks' = [tasks EXCEPT ![entry] = ran]
          /\ disk' = disk \/ disk' = Put(disk, ran.task_id, ran)
          /\ plan' = [plan EXCEPT ![entry].next_epoch =
                                      NextOccurrence(ran.schedule, now)]
        BY <1>3, <2>2 DEF SaveTask, ran
    <2>6. /\ DOMAIN tasks' = DOMAIN tasks
          /\ \A i \in DOMAIN tasks : tasks'[i] = IF i = entry THEN ran ELSE tasks[i]
        BY <2>2, <2>5, PlanInvFacts
    <2>7. CanRun(ran)
        BY <1>0, <2>2, <2>4 DEF AllCanRun, CanRun
    <2>8. AllCanRun'
        BY <1>0, <2>5, <2>6, <2>7 DEF AllCanRun, Put
    <2>9. /\ DOMAIN plan' = DOMAIN plan
          /\ \A i \in DOMAIN plan :
                 /\ plan'[i].task_index = plan[i].task_index
                 /\ plan'[i].task_id = plan[i].task_id
                 /\ i # entry => plan'[i].next_epoch = plan[i].next_epoch
          /\ plan'[entry].next_epoch = NextOccurrence(ran.schedule, now)
        <3>1. \A i \in DOMAIN plan : plan[i] \in PlanEntry
            BY PlanInvFacts
        <3> QED
            BY <2>1, <2>5, <3>1 DEF PlanEntry
    <2>10. now \in Nat /\ now <= clock
        BY PlanInvFacts DEF NowPast
    <2>11. \A i \in DOMAIN plan : PlannedFrom(tasks'[i], plan'[i].next_epoch)
        <3>1. PlannedFrom(ran, plan'[entry].next_epoch)
            BY <2>9, <2>10 DEF PlannedFrom
        <3> QED
            BY <1>0, <2>6, <2>9, <3>1 DEF PlanUpToDate
    <2>12. \A i \in DOMAIN tasks : tasks'[i].task_id = tasks[i].task_id
        BY <2>4, <2>6
    <2>13. PlanUpToDate'
        BY <1>0, <2>6, <2>9, <2>11, <2>12 DEF PlanUpToDate, PlannedFrom
    <2> QED
        BY <1>0, <2>8, <2>13 DEF PlanInv, TimeoutCovers
<1> QED
    BY <1>1, <1>2, <1>3 DEF Runs

(* Whatever fails but the growth of the plan with the reload after it, it  *)
(* is the plan of the tasks in memory, in every state.                     *)
LEMMA PlanInvHolds ==
    ASSUME PlanRecovers
    PROVE  Spec => []PlanInv
<1>1. Init /\ TypeInv => PlanInv
    <2> SUFFICES ASSUME Init, TypeInv
                 PROVE  PlanInv
        OBVIOUS
    <2>1. DOMAIN tasks = {} /\ DOMAIN plan = {} /\ DOMAIN disk = {}
          /\ pc # "poll"
        BY DEF Init
    <2> QED
        BY <2>1 DEF PlanInv, AllCanRun, PlanUpToDate, TimeoutCovers
<1>2. PlanInv /\ NowPast /\ TypeInv' /\ [Next]_vars => PlanInv'
    BY HandlersPlan, LoopPlan, RunsPlan DEF Next
<1> QED
    BY <1>1, <1>2, TypeInvHolds, NowPastHolds, PTL DEF Spec

(* While the plan can be grown, or a single failure to grow it is all that *)
(* fails and files can be read again, and next_id is never truncated:      *)
(* under any other failures, crashes and restarts, what runs is the task   *)
(* its entry was planned for, at a minute its schedule allows, in which it *)
(* has not run yet.                                                        *)
THEOREM RunsAsScheduled ==
    ASSUME NeverTruncated, PlanRecovers
    PROVE  Spec => []RunsFollowSchedule
<1>1. RunInv /\ PlanInv => RunsFollowSchedule
    <2> SUFFICES ASSUME RunInv, PlanInv, pc \in {"exec", "append"}
                 PROVE  /\ Current.task_id = RunningTask.task_id
                        /\ RunningTask.schedule.enabled
                        /\ Allowed(RunningTask.schedule, Current.next_epoch)
                        /\ \A i \in DOMAIN Log(RunningTask.task_id) :
                               Log(RunningTask.task_id)[i] < Current.next_epoch
        BY DEF RunsFollowSchedule
    <2>1. entry \in DOMAIN plan /\ Current = plan[entry]
        BY DEF PlanInv, TypeInv, RunningOK, Current
    <2>2. /\ entry \in DOMAIN tasks /\ RunningTask = tasks[entry]
          /\ Current.task_id = RunningTask.task_id
          /\ PlannedFrom(RunningTask, Current.next_epoch)
        BY <2>1 DEF PlanInv, PlanUpToDate, RunningTask
    <2>3. Current.next_epoch # -1
        BY DEF RunInv, PassState
    <2>4. PICK t \in Nat : Current.next_epoch = NextOccurrence(RunningTask.schedule, t)
        BY <2>2 DEF PlannedFrom
    <2>5. /\ RunningTask.schedule.enabled
          /\ Allowed(RunningTask.schedule, Current.next_epoch)
        BY <2>3, <2>4, NextOccurrenceResult
    <2>6. Current.next_epoch \in Nat
        BY <2>3, <2>4, NextOccurrenceResult
    <2>7. PICK id : id = RunningTask.task_id
        OBVIOUS
    <2>8. ASSUME NEW k \in DOMAIN Log(id)
          PROVE  Log(id)[k] < Current.next_epoch
        <3>1. PICK e \in Nat : e = Log(id)[k] /\ e \in EpochsOf(id)
            <4>1. id \in DOMAIN logs /\ Log(id) = logs[id]
                BY <2>8 DEF Log
            <4>2. logs[id][k] \in EpochsOf(id) /\ EpochsOf(id) \subseteq Nat
                BY <4>1, RunInvFacts, EpochTypes
            <4> QED
                BY <4>1, <4>2
        <3>2. Clear(Current.next_epoch, e)
            BY <2>1, <2>2, <2>7, <3>1 DEF RunInv, NotRunYet
        <3>3. StartEpoch(e) > e /\ StartEpoch(e) \in Nat
            BY <3>1, StartAfter
        <3> QED
            BY <2>3, <2>6, <3>1, <3>2, <3>3 DEF Clear
    <2> QED
        BY <2>2, <2>5, <2>7, <2>8
<1> QED
    BY <1>1, RunInvHolds, PlanInvHolds, PTL

(* Under the same condition on the plan, when every window holds a week    *)
(* without a change of local time: the poll loop is never asleep beyond    *)
(* the next occurrence of a task in memory, whatever requests, runs,       *)
(* failures and restarts came before.                                      *)
THEOREM PollWaitsForDeadlines ==
    ASSUME PlanRecovers, SteadyWeek
    PROVE  Spec => []NeverSleepsPast
<1>1. PlanInv => NeverSleepsPast
    <2> SUFFICES ASSUME PlanInv, pc = "poll", NEW i \in DOMAIN tasks,
                        NextOccurrence(tasks[i].schedule, clock) # -1
                 PROVE  /\ timeout # -1
                        /\ timeout <= NextOccurrence(tasks[i].schedule, clock)
        BY DEF NeverSleepsPast
    <2>1. i \in DOMAIN plan /\ PlannedFrom(tasks[i], plan[i].next_epoch)
        BY DEF PlanInv, PlanUpToDate
    <2>2. PICK s : s = tasks[i].schedule
        OBVIOUS
    <2>3. PICK t \in Nat : t <= clock /\ plan[i].next_epoch = NextOccurrence(s, t)
        BY <2>1, <2>2 DEF PlannedFrom
    <2>4. clock \in Nat /\ timeout \in Nat \cup {-1}
        BY DEF PlanInv, TypeInv, TypeOK
    <2>5. /\ NextOccurrence(s, t) # -1
          /\ NextOccurrence(s, t) <= NextOccurrence(s, clock)
        BY <2>2, <2>3, <2>4, NextMonotone
    <2>6. /\ timeout # -1
          /\ timeout <= clock \/ timeout <= plan[i].next_epoch
        BY <2>1, <2>3, <2>5 DEF PlanInv, TimeoutCovers
    <2>7. NextOccurrence(s, clock) \in Nat /\ NextOccurrence(s, clock) > clock
        <3>1. StartEpoch(clock) > clock /\ StartEpoch(clock) \in Nat
            BY <2>4, StartAfter
        <3>2. /\ NextOccurrence(s, clock) \in Nat
              /\ NextOccurrence(s, clock) >= StartEpoch(clock)
            BY <2>2, <2>4, NextOccurrenceResult
        <3> QED
            BY <2>4, <3>1, <3>2
    <2>8. NextOccurrence(s, t) \in Nat
        BY <2>3, <2>5, NextOccurrenceResult
    <2> QED
        BY <2>2, <2>3, <2>4, <2>5, <2>6, <2>7, <2>8
<1> QED
    BY <1>1, PlanInvHolds, PTL

-----------------------------------------------------------------------------
(* The record of the last run in the task file, against the history.       *)

(* The runs in the history of a task that its file does not know of.       *)
Missed(id) == {k \in DOMAIN Log(id) : Log(id)[k] > disk[id].last_run_epoch}

(* The run of the task is in its history and not yet in its file.          *)
Unsaved(id) == pc = "save" /\ id = RunningTask.task_id

(* What the crashes and failures so far may have kept from the file, one   *)
(* run each.                                                               *)
Allowance(id) ==
    faults + (IF pc = "down" \/ Unsaved(id) THEN starts ELSE starts - 1)

Trails(id) ==
    /\ disk[id].last_run_epoch \in EpochsOf(id) \cup {-1} \/ faults > 0
    /\ Cardinality(Missed(id)) <= Allowance(id)

(* A new identifier has no history: every history is of an earlier one.    *)
LogsAreOld == \A id \in DOMAIN logs : id < AllocatedId

TrailInv ==
    /\ RunInv
    /\ LogsAreOld
    /\ pc # "down" => starts >= 1
    /\ \A id \in DOMAIN disk : Trails(id)
    /\ pc = "save" => now \in EpochsOf(RunningTask.task_id) \/ faults > 0

LEMMA TrailFacts ==
    ASSUME TrailInv
    PROVE  /\ TypeOK /\ Files(disk)
           /\ clock \in Nat /\ now \in Nat /\ faults \in Nat /\ starts \in Nat
           /\ tasks \in Seq(Task)
           /\ \A id : Log(id) \in Seq(Nat)
           /\ \A id \in DOMAIN disk :
                  disk[id] \in Task /\ disk[id].last_run_epoch \in Int
<1>1. TypeOK /\ Files(disk)
    BY DEF TrailInv, RunInv, IdInv, TypeInv
<1>2. ASSUME NEW id
      PROVE  Log(id) \in Seq(Nat)
    <2>1. CASE id \in DOMAIN logs
        BY <1>1, <2>1 DEF TypeOK, Log
    <2>2. CASE id \notin DOMAIN logs
        BY <2>2 DEF Log
    <2> QED
        BY <2>1, <2>2
<1>3. ASSUME NEW id \in DOMAIN disk
      PROVE  disk[id] \in Task /\ disk[id].last_run_epoch \in Int
    BY <1>1 DEF TypeOK, Task
<1> QED
    BY <1>1, <1>2, <1>3 DEF TypeOK

(* The missed runs of a task are finitely many.                            *)
LEMMA MissedFinite ==
    ASSUME NEW log \in Seq(Nat), NEW last \in Int
    PROVE  /\ IsFiniteSet({k \in DOMAIN log : log[k] > last})
           /\ Cardinality({k \in DOMAIN log : log[k] > last}) \in Nat
<1>1. DOMAIN log = 1..Len(log) /\ Len(log) \in Nat
    OBVIOUS
<1>2. IsFiniteSet(1..Len(log))
    BY <1>1, FS_Interval
<1> QED
    BY <1>1, <1>2, FS_Subset, FS_CardinalityType

(* The trail of a task does not change as long as its file and history     *)
(* stay, and no allowance is lost.                                         *)
LEMMA TrailKept ==
    ASSUME TrailInv, NEW id \in DOMAIN disk, id \in DOMAIN disk',
           disk'[id].last_run_epoch = disk[id].last_run_epoch,
           Log(id)' = Log(id),
           faults' \in Nat, faults' >= faults,
           Allowance(id)' \in Int, Allowance(id)' >= Allowance(id)
    PROVE  Trails(id)'
<1>1. Log(id) \in Seq(Nat) /\ disk[id].last_run_epoch \in Int
      /\ faults \in Nat /\ starts \in Nat
    BY TrailFacts
<1>2. Missed(id)' = Missed(id)
    BY DEF Missed
<1>3. Cardinality(Missed(id)) \in Nat
    BY <1>1, MissedFinite DEF Missed
<1>4. Allowance(id) \in Int /\ Trails(id)
    BY <1>1 DEF Allowance, TrailInv
<1>5. Cardinality(Missed(id)') <= Allowance(id)'
    BY <1>2, <1>3, <1>4 DEF Trails
<1>6. EpochsOf(id)' = EpochsOf(id)
    <2>2. EpochsOf(id) = {e \in Nat : \E k \in DOMAIN Log(id) : Log(id)[k] = e}
        BY DEF EpochsOf, Log
    <2>3. EpochsOf(id)' = {e \in Nat : \E k \in DOMAIN Log(id)' : Log(id)'[k] = e}
        BY DEF EpochsOf, Log
    <2> QED
        BY <2>2, <2>3
<1>7. disk'[id].last_run_epoch \in EpochsOf(id)' \cup {-1} \/ faults' > 0
    BY <1>1, <1>4, <1>6 DEF Trails
<1> QED
    BY <1>5, <1>7 DEF Trails

(* A task file without a history misses nothing.                           *)
LEMMA TrailNew ==
    ASSUME NEW id \in DOMAIN disk', disk'[id].last_run_epoch = -1,
           id \notin DOMAIN logs',
           faults' \in Nat, starts' \in Nat, pc' # "down" => starts' >= 1
    PROVE  Trails(id)'
<1>1. Log(id)' = <<>>
    BY DEF Log
<1>2. Missed(id)' = {}
    BY <1>1 DEF Missed
<1>3. Cardinality(Missed(id)') = 0
    BY <1>2, FS_EmptySet
<1>4. Allowance(id)' >= 0
    <2>1. Allowance(id)' \in {faults' + starts', faults' + (starts' - 1)}
        BY DEF Allowance
    <2>2. pc' = "down" => Allowance(id)' = faults' + starts'
        BY DEF Allowance
    <2> QED
        BY <2>1, <2>2
<1> QED
    BY <1>3, <1>4 DEF Trails

(* A create request writes the file of a task without history.             *)
LEMMA CreateTrail ==
    ASSUME NeverTruncated, TrailInv, RunInv', HandleCreate
    PROVE  /\ LogsAreOld'
           /\ \A id \in DOMAIN disk' : Trails(id)'
<1> DEFINE body == Head(requests).body
           task == NewTask(AllocatedId, body)
           new  == AllocatedId
<1>1. /\ requests # <<>> /\ pc = "serve" /\ starts \in Nat /\ starts >= 1
      /\ faults \in Nat /\ LogsAreOld
    BY TrailFacts DEF HandleCreate, Serving, TrailInv
<1>2. /\ new \in Nat
      /\ \A id \in DOMAIN disk \cup DOMAIN logs : id < new /\ id # new
    <2>1. new \in Nat
        BY TrailFacts DEF AllocatedId, TypeOK
    <2>2. \A id \in DOMAIN disk \cup DOMAIN logs : id < new
        BY <1>1, IdInvDef DEF TrailInv, RunInv, LogsAreOld
    <2> QED
        BY <2>1, <2>2
<1>3. \E type, code, id : Answer(type, code, id)
    BY DEF HandleCreate, CreateRefused, CreateNotAllocated, CreateNotWritten,
           CreateNotAdded, CreateNotPlanned, Created, Refuse
<1>4. starts' = starts /\ pc' \in {"serve", "due"} /\ TypeOK'
    <2>1. TypeOK /\ TypeOK'
        BY TrailFacts DEF RunInv, IdInv, TypeInv
    <2> QED
        BY <1>1, <1>3, <2>1, Answered
<1>5. faults' \in Nat /\ faults' >= faults
    <2>1. CASE faults' = faults
        BY <1>1, <2>1
    <2>2. CASE faults' = faults + 1 \/ faults' = faults + 2
        BY <1>1, <2>2
    <2>3. \/ faults' = faults
          \/ faults' = faults + 1 \/ faults' = faults + 2
        BY DEF HandleCreate, CreateRefused, CreateNotAllocated,
               CreateNotWritten, CreateNotAdded, CreateNotPlanned, Created,
               PlanFailed, Fails, BothFail
    <2> QED
        BY <2>1, <2>2, <2>3
<1>6. ASSUME NEW id \in DOMAIN disk
      PROVE  Allowance(id)' \in Int /\ Allowance(id)' >= Allowance(id)
    <2>1. ~Unsaved(id) /\ ~Unsaved(id)'
        BY <1>1, <1>4 DEF Unsaved
    <2>2. PICK n \in Int : n = starts - 1
        BY <1>1
    <2>3. PICK f \in Nat, g \in Nat : f = faults /\ g = faults' /\ g >= f
        BY <1>1, <1>5
    <2>4. Allowance(id) = f + n
        BY <1>1, <2>1, <2>2, <2>3 DEF Allowance
    <2>5. Allowance(id)' = g + n
        BY <1>1, <1>4, <2>1, <2>2, <2>3 DEF Allowance
    <2>6. f + n \in Int /\ g + n \in Int /\ g + n >= f + n
        BY <2>2, <2>3
    <2> QED
        BY <2>4, <2>5, <2>6
<1>7. AllocatedId' >= AllocatedId
    <2>1. next_id' = next_id \/ next_id' = AllocatedId + 1
        BY DEF HandleCreate, CreateRefused, CreateNotAllocated,
               CreateNotWritten, CreateNotAdded, CreateNotPlanned, Created,
               store, Fails, NeverTruncated
    <2> QED
        BY <1>2, <2>1, TrailFacts DEF AllocatedId, TypeOK
<1>8. /\ logs' = logs \/ logs' = Drop(logs, new)
      /\ \/ disk' = disk \/ disk' = Drop(disk, new)
         \/ disk' = Put(disk, new, task)
    BY DEF HandleCreate, CreateRefused, CreateNotAllocated, CreateNotWritten,
           CreateNotAdded, CreateNotPlanned, Created, store
<1>9. task.last_run_epoch = -1
    BY DEF NewTask
<1> HIDE DEF new, task
<1>10. /\ DOMAIN logs' \subseteq DOMAIN logs /\ new \notin DOMAIN logs'
       /\ \A id \in DOMAIN logs : id \in DOMAIN logs' /\ logs'[id] = logs[id]
    BY <1>2, <1>8 DEF Drop
<1>11. ASSUME NEW id \in DOMAIN disk'
       PROVE  Trails(id)'
    <2>1. CASE id = new
        <3>1. disk'[id] = task
            BY <1>2, <1>8, <2>1 DEF Drop, Put
        <3> QED
            BY <1>1, <1>4, <1>5, <1>9, <1>10, <2>1, <3>1, TrailNew
    <2>2. CASE id # new
        <3>1. id \in DOMAIN disk /\ disk'[id] = disk[id]
            BY <1>8, <2>2 DEF Drop, Put
        <3>2. Log(id)' = Log(id)
            BY <1>10 DEF Log
        <3> QED
            BY <1>5, <1>6, <3>1, <3>2, TrailKept
    <2> QED
        BY <2>1, <2>2
<1>12. LogsAreOld'
    <2>1. AllocatedId' \in Nat /\ AllocatedId \in Nat
        BY <1>4, TrailFacts DEF AllocatedId, TypeOK
    <2>2. DOMAIN logs \subseteq Nat
        BY TrailFacts DEF TypeOK, TaskId
    <2> QED
        BY <1>1, <1>7, <1>10, <2>1, <2>2 DEF LogsAreOld
<1> QED
    BY <1>11, <1>12

(* A remove request drops a file, with its history or without.             *)
LEMMA RemoveTrail ==
    ASSUME TrailInv, RunInv', HandleRemove
    PROVE  /\ LogsAreOld'
           /\ \A id \in DOMAIN disk' : Trails(id)'
<1> DEFINE gone == Head(requests).task_id
<1>1. /\ requests # <<>> /\ pc = "serve" /\ starts \in Nat /\ starts >= 1
      /\ faults \in Nat /\ LogsAreOld
    BY TrailFacts DEF HandleRemove, Serving, TrailInv
<1>2. \E type, code, id : Answer(type, code, id)
    BY DEF HandleRemove, RemoveRefused, RemoveNotUnlinked, RemoveNotPlanned,
           Removed, Refuse
<1>3. starts' = starts /\ pc' \in {"serve", "due"}
    BY <1>1, <1>2, TrailFacts, Answered
<1>4. faults' \in Nat /\ faults' >= faults
    <2>1. \/ faults' = faults
          \/ faults' = faults + 1 \/ faults' = faults + 2
        BY DEF HandleRemove, RemoveRefused, RemoveNotUnlinked,
               RemoveNotPlanned, Removed, PlanFailed, Fails, BothFail
    <2> QED
        BY <1>1, <2>1
<1>5. /\ next_id' = next_id
      /\ \/ disk' = disk /\ logs' = logs
         \/ disk' = Drop(disk, gone) /\ logs' \in {logs, Drop(logs, gone)}
    BY DEF HandleRemove, RemoveRefused, RemoveNotUnlinked, RemoveNotPlanned,
           Removed, Unlinked, store
<1> HIDE DEF gone
<1>6. ASSUME NEW id \in DOMAIN disk'
      PROVE  Trails(id)'
    <2>1. id \in DOMAIN disk /\ disk'[id] = disk[id] /\ Log(id)' = Log(id)
        BY <1>5 DEF Drop, Log
    <2>2. ~Unsaved(id) /\ ~Unsaved(id)'
        BY <1>1, <1>3 DEF Unsaved
    <2>3. PICK n \in Int : n = starts - 1
        BY <1>1
    <2>4. PICK f \in Nat, g \in Nat : f = faults /\ g = faults' /\ g >= f
        BY <1>1, <1>4
    <2>5. Allowance(id) = f + n /\ Allowance(id)' = g + n
        BY <1>1, <1>3, <2>2, <2>3, <2>4 DEF Allowance
    <2>6. f + n \in Int /\ g + n \in Int /\ g + n >= f + n
        BY <2>3, <2>4
    <2>7. Allowance(id)' \in Int /\ Allowance(id)' >= Allowance(id)
        BY <2>5, <2>6
    <2> QED
        BY <1>4, <2>1, <2>7, TrailKept
<1>7. LogsAreOld'
    BY <1>1, <1>5 DEF LogsAreOld, AllocatedId, Drop
<1> QED
    BY <1>6, <1>7

(* A run of the task adds one missed run, which its save takes away with   *)
(* all others, or leaves by a failure.                                     *)
LEMMA AppendTrail ==
    ASSUME TrailInv, RunInv', AppendHistory
    PROVE  TrailInv'
<1>0. PICK run : run = RunningTask.task_id
    OBVIOUS
<1>1. /\ pc = "append" /\ pc' = "save"
      /\ UNCHANGED <<tasks, plan, entry, disk, next_id, starts, now>>
      /\ \/ logs' = Put(logs, run, Append(Log(run), now)) /\ faults' = faults
         \/ logs' = logs /\ faults' = faults + 1
    BY <1>0 DEF AppendHistory, Fails, env, memory
<1>2. /\ faults \in Nat /\ starts \in Nat /\ starts >= 1 /\ now \in Nat
      /\ Log(run) \in Seq(Nat) /\ LogsAreOld
    BY <1>1, TrailFacts DEF TrailInv
<1>3. RunningTask' = RunningTask
    BY <1>1 DEF RunningTask, Current
<1>4. run \in IdsOf(tasks) /\ run < AllocatedId
    <2>1. Current.task_index \in DOMAIN tasks
        BY <1>1 DEF TrailInv, RunInv, IdInv, TypeInv, RunningOK
    <2>2. run \in IdsOf(tasks)
        BY <1>0, <2>1 DEF RunningTask, IdsOf
    <2> QED
        BY <2>2, IdInvDef DEF TrailInv, RunInv
<1>5. LogsAreOld'
    <2>1. DOMAIN logs' \subseteq DOMAIN logs \cup {run}
        BY <1>1 DEF Put
    <2>2. AllocatedId' = AllocatedId
        BY <1>1 DEF AllocatedId
    <2> QED
        BY <1>2, <1>4, <2>1, <2>2 DEF LogsAreOld
<1>6. faults' \in Nat /\ faults' >= faults
    BY <1>1, <1>2
<1>7. now \in EpochsOf(run)' \/ faults' > 0
    <2>1. CASE logs' = logs /\ faults' = faults + 1
        BY <1>2, <2>1
    <2>2. CASE logs' = Put(logs, run, Append(Log(run), now))
        <3>1. run \in DOMAIN logs' /\ logs'[run] = Append(Log(run), now)
            BY <2>2 DEF Put
        <3>2. PICK n \in Nat : n = Len(Log(run))
            BY <1>2
        <3>3. n + 1 \in DOMAIN Append(Log(run), now)
              /\ Append(Log(run), now)[n + 1] = now
            BY <1>2, <3>2
        <3> QED
            BY <1>2, <3>1, <3>3 DEF EpochsOf
    <2> QED
        BY <1>1, <2>1, <2>2
<1>8. PICK m \in Int : m = starts - 1
    BY <1>2
<1>9. \A id : /\ Unsaved(id)' <=> id = run
              /\ ~Unsaved(id)
    BY <1>0, <1>1, <1>3 DEF Unsaved
<1>10. \A id : Allowance(id) = faults + m
    BY <1>1, <1>8, <1>9 DEF Allowance
<1>11. \A id : Allowance(id)' = faults' + (IF id = run THEN starts ELSE m)
    BY <1>1, <1>8, <1>9 DEF Allowance
<1>12. ASSUME NEW id \in DOMAIN disk', id # run \/ logs' = logs
       PROVE  Trails(id)'
    <2>1. id \in DOMAIN disk /\ disk'[id] = disk[id] /\ Log(id)' = Log(id)
        BY <1>1, <1>12 DEF Put, Log
    <2>2. Allowance(id)' \in Int /\ Allowance(id)' >= Allowance(id)
        BY <1>2, <1>6, <1>8, <1>10, <1>11
    <2> QED
        BY <1>6, <2>1, <2>2, TrailKept
<1>13. ASSUME run \in DOMAIN disk, logs' = Put(logs, run, Append(Log(run), now))
       PROVE  Trails(run)'
    <2>1. PICK L \in Seq(Nat) : L = Log(run)
        BY <1>2
    <2>2. PICK last \in Int : last = disk[run].last_run_epoch
        BY <1>13, TrailFacts
    <2>3. PICK n \in Nat : n = Len(L)
        BY <2>1
    <2>4. Log(run)' = Append(L, now)
        BY <1>13, <2>1 DEF Log, Put
    <2>5. /\ DOMAIN L = 1..n /\ DOMAIN Append(L, now) = 1..(n + 1)
          /\ \A k \in 1..n : Append(L, now)[k] = L[k]
        BY <1>2, <2>1, <2>3
    <2> DEFINE old == {k \in DOMAIN L : L[k] > last}
    <2>6. IsFiniteSet(old) /\ Cardinality(old) \in Nat
        BY MissedFinite
    <2>7. Missed(run) = old /\ Missed(run)' \subseteq old \cup {n + 1}
        BY <1>1, <2>1, <2>2, <2>4, <2>5 DEF Missed
    <2> HIDE DEF old
    <2>8. IsFiniteSet(old \cup {n + 1})
          /\ Cardinality(old \cup {n + 1}) \in {Cardinality(old), Cardinality(old) + 1}
        BY <2>6, FS_AddElement
    <2>9. PICK a \in Nat, b \in Nat, c \in Nat :
              /\ a = Cardinality(Missed(run)') /\ b = Cardinality(old \cup {n + 1})
              /\ c = Cardinality(old)
        BY <2>6, <2>7, <2>8, FS_Subset, FS_CardinalityType
    <2>10. a <= b /\ b <= c + 1
        BY <2>6, <2>7, <2>8, <2>9, FS_Subset
    <2>11. c <= faults + m
        BY <1>10, <1>13, <2>7, <2>9 DEF TrailInv, Trails
    <2>12. a <= Allowance(run)'
        BY <1>2, <1>6, <1>8, <1>11, <2>10, <2>11
    <2>13. disk'[run].last_run_epoch \in EpochsOf(run)' \cup {-1} \/ faults' > 0
        <3>1. EpochsOf(run) \subseteq EpochsOf(run)'
            <4> SUFFICES ASSUME NEW e \in EpochsOf(run)
                         PROVE  e \in EpochsOf(run)'
                OBVIOUS
            <4>1. PICK k \in DOMAIN logs[run] :
                      run \in DOMAIN logs /\ logs[run][k] = e
                BY DEF EpochsOf
            <4>2. L = logs[run]
                BY <2>1, <4>1 DEF Log
            <4>3. /\ run \in DOMAIN logs' /\ logs'[run] = Append(L, now)
                  /\ k \in DOMAIN Append(L, now) /\ Append(L, now)[k] = e
                BY <1>13, <2>1, <2>5, <4>1, <4>2 DEF Put
            <4> QED
                BY <4>3 DEF EpochsOf
        <3>2. disk[run].last_run_epoch \in EpochsOf(run) \cup {-1} \/ faults > 0
            BY <1>13 DEF TrailInv, Trails
        <3> QED
            BY <1>1, <1>2, <1>6, <3>1, <3>2
    <2> QED
        BY <2>9, <2>12, <2>13 DEF Trails
<1>14. \A id \in DOMAIN disk' : Trails(id)'
    BY <1>1, <1>12, <1>13
<1> QED
    BY <1>0, <1>1, <1>2, <1>3, <1>5, <1>7, <1>14 DEF TrailInv

(* The file of the task that ran knows of every run; if it is not written, *)
(* one failure more accounts for the run.                                  *)
LEMMA SaveTrail ==
    ASSUME TrailInv, RunInv', SaveTask
    PROVE  TrailInv'
<1>0. PICK run : run = RunningTask.task_id
    OBVIOUS
<1> DEFINE ran == [RunningTask EXCEPT !.last_run_epoch = now]
<1>1. /\ pc = "save" /\ pc' = "scan" /\ UNCHANGED <<logs, next_id, starts>>
      /\ \/ disk' = Put(disk, ran.task_id, ran) /\ faults' = faults
         \/ disk' = disk /\ faults' = faults + 1
    BY DEF SaveTask, Fails, env
<1>2. /\ faults \in Nat /\ starts \in Nat /\ starts >= 1 /\ now \in Nat
      /\ Log(run) \in Seq(Nat) /\ LogsAreOld
    BY <1>1, TrailFacts DEF TrailInv
<1>3. /\ now \in EpochsOf(run) \/ faults > 0
      /\ \A e \in Epochs : e <= now
    BY <1>0, <1>1 DEF TrailInv, RunInv, RunsArePast
<1>4. ran.task_id = run /\ ran.last_run_epoch = now
    <2>1. Current.task_index \in DOMAIN tasks
        BY <1>1 DEF TrailInv, RunInv, IdInv, TypeInv, RunningOK
    <2>2. RunningTask \in Task
        BY <2>1, TrailFacts DEF RunningTask
    <2> QED
        BY <1>0, <2>2 DEF Task
<1> HIDE DEF ran
<1>5. faults' \in Nat /\ faults' >= faults
    BY <1>1, <1>2
<1>6. Log(run)' = Log(run) /\ EpochsOf(run)' = EpochsOf(run)
    BY <1>1 DEF Log, EpochsOf
<1>7. PICK m \in Int : m = starts - 1 /\ m >= 0
    BY <1>2
<1>8. \A id : Unsaved(id) <=> id = run
    BY <1>0, <1>1 DEF Unsaved
<1>9. \A id : Allowance(id) = faults + (IF id = run THEN starts ELSE m)
    BY <1>1, <1>7, <1>8 DEF Allowance
<1>10. \A id : Allowance(id)' = faults' + m
    BY <1>1, <1>7 DEF Allowance, Unsaved
<1>11. ASSUME NEW id \in DOMAIN disk',
              \/ id # run
              \/ disk' = disk /\ faults' = faults + 1
       PROVE  Trails(id)'
    <2>1. id \in DOMAIN disk /\ disk'[id] = disk[id] /\ Log(id)' = Log(id)
        BY <1>1, <1>4, <1>11 DEF Put, Log
    <2>2. id # run \/ faults' = faults + 1
        BY <1>11
    <2>3. Allowance(id)' \in Int /\ Allowance(id)' >= Allowance(id)
        BY <1>2, <1>5, <1>7, <1>9, <1>10, <2>2
    <2> QED
        BY <1>5, <2>1, <2>3, TrailKept
<1>12. ASSUME run \in DOMAIN disk', disk' = Put(disk, run, ran)
       PROVE  Trails(run)'
    <2>1. disk'[run].last_run_epoch = now
        BY <1>4, <1>12 DEF Put
    <2>2. \A k \in DOMAIN Log(run) : Log(run)[k] <= now
        <3> SUFFICES ASSUME NEW k \in DOMAIN Log(run)
                     PROVE  Log(run)[k] <= now
            OBVIOUS
        <3>1. run \in DOMAIN logs /\ Log(run) = logs[run]
            BY DEF Log
        <3>2. logs[run][k] \in EpochsOf(run) /\ EpochsOf(run) \subseteq Epochs
            BY <3>1, TrailFacts, EpochTypes
        <3> QED
            BY <1>3, <3>1, <3>2
    <2>3. Missed(run)' = {}
        <3>1. \A k \in DOMAIN Log(run) : Log(run)[k] \in Nat
            BY <1>2
        <3> QED
            BY <1>2, <1>6, <2>1, <2>2, <3>1 DEF Missed
    <2>4. Cardinality(Missed(run)') = 0
        BY <2>3, FS_EmptySet
    <2>5. Cardinality(Missed(run)') <= Allowance(run)'
        BY <1>5, <1>7, <1>10, <2>4
    <2>6. disk'[run].last_run_epoch \in EpochsOf(run)' \cup {-1} \/ faults' > 0
        BY <1>2, <1>3, <1>5, <1>6, <2>1
    <2> QED
        BY <2>5, <2>6 DEF Trails
<1>13. \A id \in DOMAIN disk' : Trails(id)'
    BY <1>1, <1>4, <1>11, <1>12
<1>14. LogsAreOld'
    BY <1>1, <1>2 DEF LogsAreOld, AllocatedId
<1> QED
    BY <1>1, <1>2, <1>13, <1>14 DEF TrailInv

(* A crash inside a handler leaves what it has written or removed.         *)
LEMMA CrashTrail ==
    ASSUME NeverTruncated, TrailInv, RunInv', HandlerCrash
    PROVE  TrailInv'
<1> DEFINE new  == AllocatedId
           task == NewTask(AllocatedId, Head(requests).body)
<1>1. /\ pc = "serve" /\ pc' = "down"
      /\ faults' = faults /\ starts' = starts
    BY DEF HandlerCrash, ProcessGone, env
<1>2. faults \in Nat /\ starts \in Nat /\ LogsAreOld
    BY TrailFacts DEF TrailInv
<1>3. new \in Nat /\ \A id \in DOMAIN disk \cup DOMAIN logs : id < new /\ id # new
    <2>1. new \in Nat
        BY TrailFacts DEF AllocatedId, TypeOK
    <2>2. \A id \in DOMAIN disk \cup DOMAIN logs : id < new
        BY <1>2, IdInvDef DEF TrailInv, RunInv, LogsAreOld
    <2> QED
        BY <2>1, <2>2
<1>4. /\ \/ disk' = disk \/ \E id : disk' = Drop(disk, id)
         \/ disk' = Put(disk, new, task) /\ logs' = logs
      /\ \/ logs' = logs
         \/ \E id : disk' = Drop(disk, id) /\ logs' = Drop(logs, id)
    <2>1. CASE CreateCut
        BY <2>1 DEF CreateCut
    <2>2. CASE RemoveCut
        BY <2>2 DEF RemoveCut, Unlinked
    <2>3. CASE UNCHANGED store
        BY <2>3 DEF store
    <2> QED
        BY <2>1, <2>2, <2>3 DEF HandlerCrash
<1>5. next_id' = next_id \/ next_id' = new + 1
    BY DEF HandlerCrash, CreateCut, RemoveCut, Unlinked, store, NeverTruncated
<1>6. task.last_run_epoch = -1
    BY DEF NewTask
<1>7. AllocatedId' >= new /\ AllocatedId' \in Nat
    BY <1>3, <1>5, TrailFacts DEF AllocatedId, TypeOK
<1> HIDE DEF new, task
<1>8. DOMAIN logs' \subseteq DOMAIN logs
    BY <1>4 DEF Drop
<1>9. ASSUME NEW id \in DOMAIN disk'
      PROVE  Trails(id)'
    <2>1. CASE id \notin DOMAIN disk
        <3>1. disk'[id].last_run_epoch = -1 /\ id \notin DOMAIN logs'
            BY <1>3, <1>4, <1>6, <1>8, <2>1 DEF Drop, Put
        <3> QED
            BY <1>1, <1>2, <3>1, TrailNew
    <2>2. CASE id \in DOMAIN disk
        <3>1. disk'[id] = disk[id] /\ Log(id)' = Log(id)
            BY <1>3, <1>4, <2>2 DEF Drop, Put, Log
        <3>2. PICK m \in Int : m = starts - 1
            BY <1>2
        <3>3. Allowance(id) \in {faults + starts, faults + m}
            BY <3>2 DEF Allowance
        <3>4. Allowance(id)' = faults + starts
            BY <1>1 DEF Allowance
        <3>5. Allowance(id)' \in Int /\ Allowance(id)' >= Allowance(id)
            BY <1>2, <3>2, <3>3, <3>4
        <3> QED
            BY <1>1, <1>2, <2>2, <3>1, <3>5, TrailKept
    <2> QED
        BY <2>1, <2>2
<1>10. LogsAreOld'
    <2>1. DOMAIN logs \subseteq Nat
        BY TrailFacts DEF TypeOK, TaskId
    <2> QED
        BY <1>3, <1>7, <1>8, <2>1 DEF LogsAreOld
<1> QED
    BY <1>1, <1>9, <1>10 DEF TrailInv

(* The other steps leave files and histories; a crash between the two      *)
(* writes of a run is paid for by the start that follows it.               *)
LEMMA OtherTrail ==
    ASSUME TrailInv, RunInv',
           \/ Environment \/ Start \/ Crash \/ Stop
           \/ Loop \/ HandleQuery \/ HandleShutdown
           \/ BeginPass \/ EndPass \/ VisitDue \/ ChildEnds \/ UNCHANGED vars
    PROVE  TrailInv'
<1>1. UNCHANGED <<disk, logs, next_id, faults>>
    BY DEF Environment, Tick, SendRequest, Signal, Start, Crash, Stop,
        ProcessGone, Loop, Poll, PollReturns, HandleQuery, HandleShutdown,
        BeginPass, EndPass, VisitDue, ChildEnds, memory, store, vars
<1>2. /\ faults \in Nat /\ starts \in Nat
      /\ pc # "down" => starts >= 1
      /\ LogsAreOld
      /\ pc = "save" => now \in EpochsOf(RunningTask.task_id) \/ faults > 0
    BY TrailFacts DEF TrailInv
<1>3. \/ /\ starts' = starts /\ pc' = "down"
      \/ /\ starts' = starts + 1 /\ pc = "down" /\ pc' = "loop"
      \/ /\ starts' = starts /\ pc' = pc
         /\ RunningTask' = RunningTask /\ now' = now
      \/ /\ starts' = starts /\ pc \notin {"down", "save"}
         /\ pc' \notin {"down", "save"}
    <2>1. CASE Environment
        <3>1. /\ UNCHANGED <<starts, tasks, plan, entry, now>>
              /\ \/ pc' = pc
                 \/ pc = "poll" /\ pc' = "loop"
            BY <2>1 DEF Environment, Tick, SendRequest, Signal, env, control, memory
        <3> QED
            BY <3>1 DEF RunningTask, Current
    <2>2. CASE Start \/ Crash \/ Stop
        BY <2>2 DEF Start, Crash, Stop, ProcessGone, env
    <2>3. CASE UNCHANGED vars
        BY <2>3 DEF vars, RunningTask, Current
    <2>4. CASE Loop
        BY <2>4 DEF Loop, Poll, PollReturns, env
    <2>5. CASE HandleQuery \/ HandleShutdown
        <3>1. requests # <<>> /\ pc = "serve"
            BY <2>5 DEF HandleQuery, HandleShutdown, Serving
        <3>2. \E type, code, id : Answer(type, code, id)
            BY <2>5, Zenon DEF HandleQuery, HandleShutdown
        <3> QED
            BY <3>1, <3>2, TrailFacts, Answered
    <2>6. CASE BeginPass \/ EndPass \/ VisitDue \/ ChildEnds
        BY <2>6 DEF BeginPass, EndPass, VisitDue, ChildEnds, env
    <2> QED
        BY <2>1, <2>2, <2>3, <2>4, <2>5, <2>6
<1>4. ASSUME NEW id \in DOMAIN disk'
      PROVE  Trails(id)'
    <2>1. id \in DOMAIN disk /\ disk'[id] = disk[id] /\ Log(id)' = Log(id)
        BY <1>1 DEF Log
    <2>2. PICK m \in Int : m = starts - 1
        BY <1>2
    <2>3. Allowance(id) \in {faults + starts, faults + m}
        BY <2>2 DEF Allowance
    <2>4. Allowance(id)' \in Int /\ Allowance(id)' >= Allowance(id)
        <3>1. CASE starts' = starts /\ pc' = "down"
            <4>1. Allowance(id)' = faults + starts
                BY <1>1, <3>1 DEF Allowance
            <4> QED
                BY <1>2, <2>2, <2>3, <4>1
        <3>2. CASE starts' = starts + 1 /\ pc = "down" /\ pc' = "loop"
            <4>1. Allowance(id)' = faults + ((starts + 1) - 1)
                BY <1>1, <3>2 DEF Allowance, Unsaved
            <4> QED
                BY <1>2, <2>2, <2>3, <4>1
        <3>3. CASE /\ starts' = starts /\ pc' = pc
                   /\ RunningTask' = RunningTask /\ now' = now
            <4>1. Allowance(id)' = Allowance(id)
                BY <1>1, <3>3 DEF Allowance, Unsaved
            <4> QED
                BY <1>2, <2>2, <2>3, <4>1
        <3>4. CASE /\ starts' = starts /\ pc \notin {"down", "save"}
                   /\ pc' \notin {"down", "save"}
            <4>1. Allowance(id)' = Allowance(id)
                BY <1>1, <3>4 DEF Allowance, Unsaved
            <4> QED
                BY <1>2, <2>2, <2>3, <4>1
        <3> QED
            BY <1>3, <3>1, <3>2, <3>3, <3>4
    <2> QED
        BY <1>1, <1>2, <2>1, <2>4, TrailKept
<1>5. LogsAreOld'
    BY <1>1, <1>2 DEF LogsAreOld, AllocatedId
<1>6. pc' # "down" => starts' >= 1
    BY <1>2, <1>3
<1>7. (pc = "save" => now \in EpochsOf(RunningTask.task_id) \/ faults > 0)'
    <2>1. CASE pc' # "save"
        BY <2>1
    <2>2. CASE /\ starts' = starts /\ pc' = pc
               /\ RunningTask' = RunningTask /\ now' = now
        <3>1. EpochsOf(RunningTask.task_id)' = EpochsOf(RunningTask.task_id)
            BY <1>1, <2>2 DEF EpochsOf
        <3> QED
            BY <1>1, <1>2, <2>2, <3>1
    <2> QED
        BY <1>3, <2>1, <2>2
<1> QED
    BY <1>4, <1>5, <1>6, <1>7 DEF TrailInv

(* Unless next_id is truncated, the last run in a task file is one of its  *)
(* history or a failure happened, and each run of the history it does not  *)
(* know of is accounted for by a failure or by a restart.                  *)
THEOREM LastRunIsTrailed ==
    ASSUME NeverTruncated
    PROVE  Spec => []LastRunTrailsHistory
<1>1. Init /\ RunInv => TrailInv
    BY DEF Init, TrailInv, LogsAreOld
<1>2. TrailInv /\ RunInv' /\ [Next]_vars => TrailInv'
    <2> SUFFICES ASSUME TrailInv, RunInv', [Next]_vars
                 PROVE  TrailInv'
        OBVIOUS
    <2>1. CASE HandleCreate \/ HandleRemove
        <3>1. requests # <<>> /\ pc = "serve" /\ starts >= 1
            BY <2>1 DEF HandleCreate, HandleRemove, Serving, TrailInv
        <3>2. \E type, code, id : Answer(type, code, id)
            BY <2>1 DEF HandleCreate, CreateRefused, CreateNotAllocated,
                CreateNotWritten, CreateNotAdded, CreateNotPlanned, Created,
                HandleRemove, RemoveRefused, RemoveNotUnlinked,
                RemoveNotPlanned, Removed, Refuse
        <3>3. starts' = starts /\ pc' \in {"serve", "due"}
            BY <3>1, <3>2, TrailFacts, Answered
        <3> QED
            BY <2>1, <3>1, <3>3, CreateTrail, RemoveTrail DEF TrailInv
    <2> QED
        BY <2>1, AppendTrail, SaveTrail, CrashTrail, OtherTrail
        DEF Next, Process, Handle, Runs
<1>3. TrailInv => LastRunTrailsHistory
    <2> SUFFICES ASSUME TrailInv, NEW id \in DOMAIN disk
                 PROVE  /\ \/ disk[id].last_run_epoch \in Range(Log(id)) \cup {-1}
                           \/ faults > 0
                        /\ Cardinality(Missed(id)) <= faults +
                             (IF pc \in {"save", "down"} THEN starts ELSE starts - 1)
        BY DEF LastRunTrailsHistory, Missed
    <2>1. Trails(id) /\ starts \in Nat /\ faults \in Nat
        BY TrailFacts DEF TrailInv
    <2>2. EpochsOf(id) \subseteq Range(Log(id))
        BY DEF EpochsOf, Log, Range
    <2>3. PICK c \in Nat : c = Cardinality(Missed(id))
        BY TrailFacts, MissedFinite DEF Missed
    <2>4. Allowance(id) <= faults +
              (IF pc \in {"save", "down"} THEN starts ELSE starts - 1)
        BY <2>1 DEF Allowance, Unsaved
    <2>5. Allowance(id) \in Int
        BY <2>1 DEF Allowance
    <2> QED
        BY <2>1, <2>2, <2>3, <2>4, <2>5 DEF Trails
<1> QED
    BY <1>1, <1>2, <1>3, RunInvHolds, PTL DEF Spec
=============================================================================
