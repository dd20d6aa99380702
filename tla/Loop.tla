-------------------------------- MODULE Loop --------------------------------
(***************************************************************************)
(* The poll loop of src/src/erraid/daemon.c over unbounded time, for what  *)
(* must eventually happen: requests are answered, due tasks are run, and a *)
(* request or a signal to stop ends the daemon.                            *)
(*                                                                         *)
(* Time is relative, so that the state space is finite without a last      *)
(* instant: a deadline is the time left until it.  Time passes only while  *)
(* the daemon sleeps in poll or waits for a child: its own steps take none *)
(* against the tick of the model.  Creations and removals are requests     *)
(* that change the set of tasks and rebuild the plan; storage, failures    *)
(* and crashes are in Erraid.                                              *)
(***************************************************************************)
EXTENDS Integers, Sequences, FiniteSets

CONSTANTS
    Clients,    \* processes that send requests, one at a time each
    TaskCount,  \* tasks that may exist, 1..TaskCount, in the plan's order
    MinuteLen,  \* ticks in a minute
    Period,     \* ticks between the occurrences of a task, whole minutes
    Workloads,  \* the choices of how many ticks a run of each task may last
    Cycle,      \* a common multiple of the periods
    MaxSleep    \* longest sleep of poll (INT_MAX / 1000 seconds)

AllTasks == 1..TaskCount

(* Bound: how late a deadline may be counted; a pass takes less.           *)
MaxLate == 2 * Cycle

(* Periods are whole minutes, and no run lasts for ever: each workload has *)
(* a longest run of each task.                                             *)
ASSUME LoopAssumption ==
    /\ TaskCount \in Nat /\ MinuteLen \in Nat \ {0} /\ Cycle \in Nat \ {0}
    /\ MaxSleep \in Nat \ {0}
    /\ Period \in [AllTasks -> Nat \ {0}]
    /\ \A t \in AllTasks : Period[t] % MinuteLen = 0 /\ Cycle % Period[t] = 0
    /\ Workloads \subseteq [AllTasks -> (SUBSET Nat) \ {{}}]
    /\ \A w \in Workloads : \A t \in AllTasks :
           \E d \in w[t] : \A e \in w[t] : e <= d

(* LIST_TASKS and the others that change nothing; CREATE and REMOVE; and   *)
(* SHUTDOWN.                                                               *)
Kinds == {"QUERY", "PLAN", "SHUTDOWN"}

VARIABLES
    durations,    \* the workload: ticks a run of each task may last
    phase,        \* the clock, modulo Cycle
    left,         \* ticks until next_epoch, of the tasks in the plan
    pc,           \* where the daemon is
    should_quit,
    wake,         \* a byte is in the wake pipe
    timer,        \* ticks until the current poll expires, -1 for never
    elapsed,      \* ticks since process_due_tasks read the clock
    entry,        \* next entry of its loop over the plan
    executed,
    running,      \* ticks the current child still runs
    requests,     \* [client, kind] in the request FIFO, oldest first
    sent,         \* clients that sent a request during this tick
    age           \* observed: ticks each client has waited for its answer, up
                  \* to MinuteLen

vars == <<durations, phase, left, pc, should_quit, wake, timer, elapsed,
          entry, executed, running, requests, sent, age>>

clients == <<requests, sent, age>>
pass    == <<elapsed, entry, executed, running>>

Pending == {requests[i].client : i \in DOMAIN requests}

-----------------------------------------------------------------------------
(* Mutant: the search starts at the minute of the run, not at the next.    *)
SameOccurrence(t, ago) ==
    LET p == (phase - ago) % Period[t]
    IN  IF p < MinuteLen THEN 0 - p - ago ELSE Period[t] - p - ago

(* scheduler_next_occurrence after the instant `ago` ticks in the past, as *)
(* the time left until it.                                                 *)
NextOccurrence(t, ago) == Period[t] - ((phase - ago) % Period[t]) - ago

Deadlines == {left[t] : t \in DOMAIN left}

(* Mutant: the sleep is not limited.                                       *)
TimeoutUnlimited ==
    IF left = <<>> THEN -1
    ELSE CHOOSE d \in Deadlines : \A e \in Deadlines : d <= e

(* Mutant: the latest deadline instead of the earliest.                    *)
TimeoutLatest ==
    IF left = <<>> THEN -1
    ELSE LET last == CHOOSE d \in Deadlines : \A e \in Deadlines : e <= d
         IN  IF last > MaxSleep THEN MaxSleep ELSE last

(* next_deadline, and the limits of the timeout of poll.                   *)
Timeout ==
    IF left = <<>> THEN -1
    ELSE LET first == CHOOSE d \in Deadlines : \A e \in Deadlines : d <= e
         IN  IF first < 0 THEN 0
             ELSE IF first > MaxSleep THEN MaxSleep ELSE first

(* Mutant: poll does not watch the request FIFO.                           *)
PollReadyButRequests == wake \/ timer = 0

PollReady == requests # <<>> \/ wake \/ timer = 0

-----------------------------------------------------------------------------
(* The environment                                                         *)

Tick ==
    /\ \/ pc = "poll" /\ ~PollReady
       \/ pc = "exec" /\ running > 0
    /\ phase' = (phase + 1) % Cycle
    /\ left' = [t \in DOMAIN left |->
                    IF left[t] > -MaxLate THEN left[t] - 1 ELSE left[t]]
    /\ timer' = IF pc = "poll" /\ timer > 0 THEN timer - 1 ELSE timer
    /\ elapsed' = IF pc = "exec" THEN elapsed + 1 ELSE elapsed
    /\ running' = IF pc = "exec" THEN running - 1 ELSE running
    /\ age' = [c \in Clients |->
                   IF c \notin Pending THEN 0
                   ELSE IF age[c] < MinuteLen THEN age[c] + 1 ELSE MinuteLen]
    /\ sent' = {}
    /\ UNCHANGED <<pc, should_quit, wake, entry, executed, requests>>

(* A client sends its next request after the answer to the last one, and   *)
(* at most one in a tick: a new tadmor process sends each.                 *)
SendRequest ==
    /\ pc # "down"
    /\ \E c \in Clients \ (Pending \cup sent), kind \in Kinds :
           /\ requests' = Append(requests, [client |-> c, kind |-> kind])
           /\ sent' = sent \cup {c}
    /\ UNCHANGED <<phase, left, pc, should_quit, wake, timer, pass, age>>

(* Mutant: the handler does not write to the wake pipe.                    *)
SignalUnseen ==
    /\ pc # "down" /\ ~should_quit
    /\ should_quit' = TRUE
    /\ UNCHANGED <<phase, left, pc, wake, timer, pass, clients>>

(* SIGINT or SIGTERM, between any two steps.                               *)
Signal ==
    /\ pc # "down" /\ ~should_quit
    /\ should_quit' = TRUE
    /\ wake' = TRUE
    /\ UNCHANGED <<phase, left, pc, timer, pass, clients>>

-----------------------------------------------------------------------------
(* The daemon: erraid_schedule_loop, process_requests, process_due_tasks   *)

Poll ==
    /\ pc = "loop" /\ ~should_quit
    /\ timer' = Timeout
    /\ pc' = "poll"
    /\ UNCHANGED <<phase, left, should_quit, wake, pass, clients>>

Stop ==
    /\ pc = "loop" /\ should_quit
    /\ pc' = "down"
    /\ UNCHANGED <<phase, left, should_quit, wake, timer, pass, clients>>

PollReturns ==
    /\ pc = "poll" /\ PollReady
    /\ wake' = FALSE
    /\ timer' = -1
    /\ pc' = IF requests # <<>> THEN "serve" ELSE "due"
    /\ UNCHANGED <<phase, left, should_quit, pass, clients>>

(* A creation or a removal adds or takes away one task, unless it is       *)
(* refused, and rebuilds the plan of all tasks.                            *)
Replan ==
    \E planned \in SUBSET AllTasks :
        /\ Cardinality(planned \ DOMAIN left)
               + Cardinality(DOMAIN left \ planned) = 1
        /\ left' = [t \in planned |-> NextOccurrence(t, 0)]
        /\ wake' = TRUE

(* The next request is handled if the FIFO holds one after this one.       *)
HandleRequest ==
    /\ pc = "serve"
    /\ LET kind == Head(requests).kind IN
       \/ kind = "PLAN" /\ Replan /\ UNCHANGED should_quit
       \/ kind \in {"PLAN", "QUERY"} /\ UNCHANGED <<left, wake, should_quit>>
       \/ kind = "SHUTDOWN" /\ should_quit' = TRUE /\ UNCHANGED <<left, wake>>
    /\ requests' = Tail(requests)
    /\ age' = [age EXCEPT ![Head(requests).client] = 0]
    /\ pc' = IF Tail(requests) # <<>> THEN "serve" ELSE "due"
    /\ UNCHANGED <<phase, timer, pass, sent>>

(* Mutant: should_quit is not tested before a pass.                        *)
BeginPassAnyway ==
    /\ pc = "due"
    /\ pc' = "scan" /\ elapsed' = 0 /\ entry' = 1 /\ executed' = FALSE
    /\ UNCHANGED <<phase, left, should_quit, wake, timer, running, clients>>

BeginPass ==
    /\ pc = "due"
    /\ \/ /\ should_quit
          /\ pc' = "loop"
          /\ UNCHANGED <<elapsed, entry, executed>>
       \/ /\ ~should_quit
          /\ pc' = "scan" /\ elapsed' = 0 /\ entry' = 1 /\ executed' = FALSE
    /\ UNCHANGED <<phase, left, should_quit, wake, timer, running, clients>>

(* Entries not yet visited that were due when the clock was read.          *)
Due == {t \in DOMAIN left : t >= entry /\ left[t] + elapsed <= 0}

RunDue ==
    /\ pc = "scan" /\ Due # {}
    /\ entry' = CHOOSE t \in Due : \A u \in Due : t <= u
    /\ executed' = TRUE
    /\ running' \in durations[entry']
    /\ pc' = "exec"
    /\ UNCHANGED <<phase, left, should_quit, wake, timer, elapsed, clients>>

(* Mutant: the loop over the plan is left after a run.                     *)
RunEndsPass ==
    /\ pc = "exec" /\ running = 0
    /\ left' = [left EXCEPT ![entry] = NextOccurrence(entry, elapsed)]
    /\ elapsed' = 0
    /\ pc' = "due"
    /\ UNCHANGED <<phase, should_quit, wake, timer, entry, executed, running,
                   clients>>

(* The child has ended: the next deadline is the first after the reading   *)
(* of the clock that found this one due.                                   *)
RunEnds ==
    /\ pc = "exec" /\ running = 0
    /\ left' = [left EXCEPT ![entry] = NextOccurrence(entry, elapsed)]
    /\ entry' = entry + 1
    /\ pc' = "scan"
    /\ UNCHANGED <<phase, should_quit, wake, timer, elapsed, executed, running,
                   clients>>

EndPass ==
    /\ pc = "scan" /\ Due = {}
    /\ pc' = IF executed THEN "due" ELSE "loop"
    /\ elapsed' = 0
    /\ UNCHANGED <<phase, left, should_quit, wake, timer, entry, executed,
                   running, clients>>

-----------------------------------------------------------------------------
Init ==
    /\ durations \in Workloads
    /\ phase \in 0..(Cycle - 1)
    /\ \E planned \in SUBSET AllTasks :
           left = [t \in planned |-> NextOccurrence(t, 0)]
    /\ pc = "loop" /\ should_quit = FALSE /\ wake = FALSE
    /\ timer = -1 /\ elapsed = 0 /\ entry = 1 /\ executed = FALSE
    /\ running = 0
    /\ requests = <<>> /\ sent = {} /\ age = [c \in Clients |-> 0]

Daemon ==
    \/ Poll \/ PollReturns \/ HandleRequest \/ Stop
    \/ BeginPass \/ RunDue \/ RunEnds \/ EndPass

Next == (Tick \/ SendRequest \/ Signal \/ Daemon) /\ UNCHANGED durations

(* The daemon is one runnable process, and time passes.                    *)
Spec == Init /\ [][Next]_vars /\ WF_vars(Daemon /\ UNCHANGED durations)
            /\ WF_vars(Tick /\ UNCHANGED durations)

-----------------------------------------------------------------------------
TypeOK ==
    /\ phase \in 0..(Cycle - 1)
    /\ DOMAIN left \subseteq AllTasks /\ left \in [DOMAIN left -> Int]
    /\ pc \in {"loop", "poll", "serve", "due", "scan", "exec", "down"}
    /\ should_quit \in BOOLEAN /\ wake \in BOOLEAN /\ executed \in BOOLEAN
    /\ timer \in -1..MaxSleep
    /\ elapsed \in Nat /\ entry \in 1..(TaskCount + 1) /\ running \in Nat
    /\ requests \in Seq([client : Clients, kind : Kinds])
    /\ sent \subseteq Clients
    /\ age \in [Clients -> 0..MinuteLen]

Longest(t) == CHOOSE d \in durations[t] : \A e \in durations[t] : e <= d

(* One run of every task takes less than a minute, however long each lasts. *)
RunsFit ==
    LET total[n \in 0..TaskCount] ==
            IF n = 0 THEN 0 ELSE total[n - 1] + Longest(n)
    IN  total[TaskCount] < MinuteLen

(* When one run of every task fits in a minute, no client waits a minute   *)
(* for its answer, however creations, removals and runs fall together.     *)
AnsweredInTime == RunsFit => \A c \in Clients : age[c] < MinuteLen

(* Under the same condition no deadline stays in the plan for a minute     *)
(* after it was reached: what is run is run in its minute.                 *)
RunInItsMinute == RunsFit => \A t \in DOMAIN left : left[t] > -MinuteLen

(* Every request is answered, unless the daemon ends, or the runs do not   *)
(* fit in a minute and process_due_tasks never returns: each of its passes *)
(* finds a task due again, and no request is read between two passes.      *)
RequestsServed ==
    \A c \in Clients :
        c \in Pending ~>
            \/ c \notin Pending
            \/ pc = "down"
            \/ ~RunsFit /\ [](pc \in {"due", "scan", "exec"})

(* A signal or a shutdown request ends the daemon, wherever it is, also    *)
(* when nothing else would wake it or when tasks never stop being due.     *)
ShutdownEnds == should_quit ~> pc = "down"

Overdue(t) == t \in DOMAIN left /\ left[t] <= 0

(* A deadline that was reached does not wait for ever behind the runs of   *)
(* other tasks, even when these are always due: its task is run, unless    *)
(* the plan is rebuilt or the daemon ends.                                 *)
DueTasksTakeTurns ==
    \A t \in AllTasks :
        Overdue(t) ~> (pc = "exec" /\ entry = t) \/ ~Overdue(t) \/ pc = "down"
=============================================================================
