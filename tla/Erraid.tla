------------------------------- MODULE Erraid -------------------------------
(***************************************************************************)
(* The daemon of src/src/erraid/daemon.c: its poll loop, the handlers of   *)
(* the requests that change state, the runs of due tasks, and the task     *)
(* files, history and identifier counter it keeps on disk, across crashes  *)
(* and restarts.  The daemon has one thread; what is concurrent with it is *)
(* the clock, the clients that write requests, the signals, and the child  *)
(* it waits for.                                                           *)
(*                                                                         *)
(* Abstractions: a request is the decoded JSON; of the commands of a task  *)
(* there is their number and whether any has an argument, which decides    *)
(* whether its file can be read again; the request FIFO holds whole        *)
(* messages (Pipes has what is on the FIFOs) and a reply is the value of   *)
(* `reply` after the step that sends it.                                   *)
(***************************************************************************)
EXTENDS Scheduler, SequencesExt

CONSTANTS
    CreateBodies,  \* decoded payloads of create requests
    RequestIds,    \* task_id of requests that name a task; -1 when it cannot
                   \* be parsed
    Queries,       \* requests that change nothing: PING, LIST_TASKS, ...
    MaxCommands,   \* commands a task may have (ERRAID_MAX_TASK_COMMANDS, 16)
    FaultKinds,    \* the failures that may happen, see AllFaultKinds
    MaxFaults,     \* bound: failures in a behaviour
    MaxRequests,   \* bound: requests sent in a behaviour
    MaxStarts,     \* bound: times erraid is started in a behaviour
    MaxTime,       \* bound: last value of the clock
    PlanChunk,     \* first capacity of the plan's array (4)
    ListLimit,     \* tasks a list reply can hold (PIPE_MESSAGE_LIMIT)
    HistoryLimit   \* runs a history reply can hold

AllFaultKinds ==
    {"id",        \* storage_allocate_task_id fails, next_id left readable
     "truncated", \* it fails between ftruncate and write
     "write",     \* storage_write_task fails while a task is created
     "unlink",    \* unlink of a task file fails (of a history, see Unlinked)
     "add",       \* realloc of the array of tasks fails
     "plan",      \* realloc of the plan fails
     "load",      \* storage_load_tasks fails in erraid_reload_tasks
     "append",    \* storage_append_history fails
     "save"}      \* storage_write_task fails after a run

TaskType == {"SIMPLE", "SEQUENCE", "ABSTRACT"}

CreateBody ==
    [type : TaskType, schedule : {"none", "valid", "malformed"},
     command_count : Nat, has_args : BOOLEAN,
     minutes : SUBSET Nat, hours : SUBSET Nat, weekdays : SUBSET Nat]

(* GET_STDIO stands for MSG_REQ_GET_STDOUT and MSG_REQ_GET_STDERR, UNKNOWN  *)
(* for a type erraid does not know.                                        *)
AllQueries == {"PING", "LIST_TASKS", "LIST_HISTORY", "GET_STDIO", "UNKNOWN"}

ASSUME ErraidAssumption ==
    /\ CreateBodies \subseteq CreateBody
    /\ RequestIds \subseteq Int
    /\ Queries \subseteq AllQueries
    /\ FaultKinds \subseteq AllFaultKinds
    /\ MaxFaults \in Nat /\ MaxRequests \in Nat /\ MaxStarts \in Nat
    /\ MaxTime \in Nat
    /\ PlanChunk \in Nat \ {0} /\ MaxCommands \in Nat
    /\ ListLimit \in Nat /\ HistoryLimit \in Nat

Requests ==
    [type : {"CREATE"}, body : CreateBodies]
        \cup [type : {"REMOVE"}, task_id : RequestIds]
        \cup [type : Queries, task_id : RequestIds]
        \cup [type : {"SHUTDOWN"}]

TaskId == Nat \ {0}

Task ==
    [task_id : TaskId, type : TaskType, schedule : Schedule,
     command_count : Nat, has_args : BOOLEAN, last_run_epoch : Int]

PlanEntry ==
    [task_id : TaskId, task_index : Nat \ {0}, next_epoch : Nat \cup {-1}]

NoReply == [type |-> "NONE", code |-> "OK", task_id |-> 0]

VARIABLES
    clock,         \* time(NULL)
    requests,      \* whole requests in the request FIFO, oldest first
    sent,          \* requests sent so far
    pc,            \* where the daemon is; "down" when it does not run
    should_quit,
    wake,          \* a byte is in the wake pipe
    timeout,       \* instant at which the current poll expires, -1 for never
    now,           \* clock read by process_due_tasks
    entry,         \* index of the current plan entry in its loop
    executed,      \* an entry was due in the current pass
    tasks,         \* ctx->tasks
    plan,          \* ctx->plan, plan_count entries
    plan_capacity,
    disk,          \* task files, by identifier
    logs,          \* epochs in history.log, by identifier
    next_id,       \* contents of the next_id file, 0 when missing or empty
    reply,         \* reply sent by the last step
    faults,        \* failures so far
    starts,        \* times erraid was started
    acked,         \* observed: created (reply OK received) and not removed
    removed        \* observed: identifiers whose task was removed

env     == <<clock, sent, starts>>
control == <<pc, should_quit, timeout, now, entry, executed>>
memory  == <<tasks, plan, plan_capacity>>
store   == <<disk, logs, next_id>>
seen    == <<acked, removed>>

vars == <<clock, requests, sent, pc, should_quit, wake, timeout, now, entry,
          executed, tasks, plan, plan_capacity, disk, logs, next_id, reply,
          faults, starts, acked, removed>>

-----------------------------------------------------------------------------
(* Files and arrays                                                        *)

Put(f, x, v) == [y \in DOMAIN f \cup {x} |-> IF y = x THEN v ELSE f[y]]
Drop(f, x) == [y \in DOMAIN f \ {x} |-> f[y]]

(* history.log of a task: none is the same as an empty one.                *)
Log(id) == IF id \in DOMAIN logs THEN logs[id] ELSE <<>>

(* Mutant: one task file is not loaded.                                    *)
LoadOrdersButOne(d) ==
    {[i \in DOMAIN order |-> d[order[i]]] :
        order \in Injection(1..(Cardinality(DOMAIN d) - 1), DOMAIN d)}

(* The orders in which readdir may return the task files of d.             *)
LoadOrders(d) ==
    {[i \in DOMAIN order |-> d[order[i]]] :
        order \in Bijection(1..Cardinality(DOMAIN d), DOMAIN d)}

(* storage_load_tasks reads every file or fails: parse_command_line, after *)
(* the bracket that follows the last argument of a command, looks for one  *)
(* more argument or bracket, and refuses the end of the line it finds.     *)
Loads(d) == \A id \in DOMAIN d : ~d[id].has_args

(* Mutant: identifiers are taken from the number of tasks.                 *)
AllocatedFromCount == Len(tasks) + 1

(* A missing or empty next_id file counts as 1.                            *)
AllocatedId == IF next_id = 0 THEN 1 ELSE next_id

(* Mutant: the capacity is doubled once.                                   *)
GrownOnce(capacity, n) ==
    IF n <= capacity THEN capacity
                     ELSE IF capacity = 0 THEN PlanChunk ELSE 2 * capacity

(* ensure_plan_capacity doubles the capacity until n entries fit.          *)
GrownCapacity(capacity, n) ==
    IF n <= capacity
    THEN capacity
    ELSE LET doubled[k \in 0..n] ==
                 IF k = 0 THEN IF capacity = 0 THEN PlanChunk ELSE capacity
                          ELSE 2 * doubled[k - 1]
         IN  doubled[Min({k \in 0..n : doubled[k] >= n})]

MustGrow(n) == n > plan_capacity

TaskIds == {tasks[i].task_id : i \in DOMAIN tasks}

(* Mutant: the latest deadline instead of the earliest.                    *)
TimeoutLatest(p, at) ==
    LET deadlines == {p[i].next_epoch : i \in DOMAIN p} \ {-1}
    IN  IF deadlines = {} THEN -1 ELSE Max({at} \cup deadlines)

(* next_deadline, then the timeout of poll: an instant already reached is a *)
(* timeout of 0.  (It is capped at INT_MAX milliseconds, which wakes the    *)
(* loop earlier: Loop has the cap.)                                         *)
Deadlines(p) == {p[i].next_epoch : i \in DOMAIN p} \ {-1}
Timeout(p, at) ==
    IF Deadlines(p) = {} THEN -1 ELSE Max({at, Min(Deadlines(p))})

-----------------------------------------------------------------------------
(* Failures                                                                *)

Fails(kind) ==
    /\ kind \in FaultKinds
    /\ faults < MaxFaults
    /\ faults' = faults + 1

BothFail(kind1, kind2) ==
    /\ {kind1, kind2} \subseteq FaultKinds
    /\ faults + 2 <= MaxFaults
    /\ faults' = faults + 2

-----------------------------------------------------------------------------
(* Decoding of a create request: parse_schedule_field and                  *)
(* parse_commands_field.  Only an ABSTRACT task may have no schedule, and  *)
(* it is never enabled.                                                    *)
ScheduleParses(body) ==
    body.schedule = "valid" \/ (body.type = "ABSTRACT" /\ body.schedule = "none")

CommandsParse(body) ==
    /\ body.command_count <= MaxCommands
    /\ body.type = "SIMPLE" => body.command_count = 1
    /\ body.type = "SEQUENCE" => body.command_count >= 1

ParsedSchedule(body) ==
    [enabled  |-> body.type # "ABSTRACT",
     minutes  |-> IF body.schedule = "valid" THEN body.minutes ELSE {},
     hours    |-> IF body.schedule = "valid" THEN body.hours ELSE {},
     weekdays |-> IF body.schedule = "valid" THEN body.weekdays ELSE {}]

NewTask(id, body) ==
    [task_id        |-> id,
     type           |-> body.type,
     schedule       |-> ParsedSchedule(body),
     command_count  |-> body.command_count,
     has_args       |-> body.has_args,
     last_run_epoch |-> -1]

-----------------------------------------------------------------------------
(* The plan                                                                *)

(* rebuild_plan succeeds on the array of tasks ts, from the current time.  *)
PlanRebuilt(ts) ==
    /\ tasks' = ts
    /\ plan' = ComputePlan(ts, clock)
    /\ plan_capacity' = GrownCapacity(plan_capacity, Len(ts))

(* rebuild_plan fails on a first attempt: the handler reloads every task   *)
(* file of d, in the order of the directory, and rebuilds again.  Loading  *)
(* may fail, and does if a file cannot be read: then no task is left in    *)
(* memory; or the second rebuild may fail; both keep the entries of the    *)
(* old plan.  The handler ignores it.                                      *)
PlanFailed(ts, d) ==
    /\ MustGrow(Len(ts))
    /\ \/ /\ Fails("plan") /\ Loads(d)
          /\ \E loaded \in LoadOrders(d) : PlanRebuilt(loaded)
       \/ /\ BothFail("plan", "load") \/ (~Loads(d) /\ Fails("plan"))
          /\ tasks' = <<>>
          /\ UNCHANGED <<plan, plan_capacity>>
       \/ /\ BothFail("plan", "plan") /\ Loads(d)
          /\ MustGrow(Cardinality(DOMAIN d))
          /\ tasks' \in LoadOrders(d)
          /\ UNCHANGED <<plan, plan_capacity>>

-----------------------------------------------------------------------------
(* The environment                                                         *)

Tick ==
    /\ clock < MaxTime
    /\ clock' = clock + 1
    /\ reply' = NoReply
    /\ UNCHANGED <<requests, sent, starts, control, wake, memory, store,
                   faults, seen>>

SendRequest ==
    /\ sent < MaxRequests
    /\ \E r \in Requests : requests' = Append(requests, r)
    /\ sent' = sent + 1
    /\ reply' = NoReply
    /\ UNCHANGED <<clock, starts, control, wake, memory, store, faults, seen>>

(* The handler of SIGINT and SIGTERM; a signal interrupts poll, whose      *)
(* EINTR restarts the loop.                                                *)
Signal ==
    /\ pc # "down" /\ ~should_quit
    /\ should_quit' = TRUE
    /\ wake' = TRUE
    /\ pc' = IF pc = "poll" THEN "loop" ELSE pc
    /\ reply' = NoReply
    /\ UNCHANGED <<env, requests, timeout, now, entry, executed, memory,
                   store, faults, seen>>

-----------------------------------------------------------------------------
(* The life of the process                                                 *)

(* erraid_init: the tasks are loaded in the order of the directory and the *)
(* plan is computed from the current time.  (A start that fails exits and  *)
(* changes nothing.)                                                       *)
Start ==
    /\ pc = "down" /\ starts < MaxStarts
    /\ Loads(disk)
    /\ starts' = starts + 1
    /\ \E loaded \in LoadOrders(disk) : PlanRebuilt(loaded)
    /\ pc' = "loop"
    /\ reply' = NoReply
    /\ UNCHANGED <<clock, sent, requests, should_quit, wake, timeout, now,
                   entry, executed, store, faults, seen>>

(* The end of the process: its memory is gone, and the requests left in the *)
(* FIFO too unless a client still holds it open.                            *)
ProcessGone(left) ==
    /\ pc' = "down" /\ should_quit' = FALSE /\ wake' = FALSE
    /\ timeout' = -1 /\ now' = 0 /\ entry' = 1 /\ executed' = FALSE
    /\ tasks' = <<>> /\ plan' = <<>> /\ plan_capacity' = 0
    /\ requests' \in {left, <<>>}
    /\ reply' = NoReply
    /\ UNCHANGED <<env, faults>>

(* A crash between two steps; HandlerCrash is one inside a handler.         *)
Crash ==
    /\ pc # "down"
    /\ ProcessGone(requests)
    /\ UNCHANGED <<store, seen>>

(* erraid_shutdown, once the loop has seen should_quit.                     *)
Stop ==
    /\ pc = "loop" /\ should_quit
    /\ ProcessGone(requests)
    /\ UNCHANGED <<store, seen>>

-----------------------------------------------------------------------------
(* The loop: erraid_schedule_loop                                          *)

Poll ==
    /\ pc = "loop" /\ ~should_quit
    /\ timeout' = Timeout(plan, clock)
    /\ pc' = "poll"
    /\ reply' = NoReply
    /\ UNCHANGED <<env, requests, should_quit, wake, now, entry, executed,
                   memory, store, faults, seen>>

(* poll returns: requests first, then the due tasks.  The wake pipe is     *)
(* drained.                                                                *)
PollReturns ==
    /\ pc = "poll"
    /\ requests # <<>> \/ wake \/ (timeout >= 0 /\ clock >= timeout)
    /\ wake' = FALSE
    /\ pc' = IF requests # <<>> THEN "serve" ELSE "due"
    /\ reply' = NoReply
    /\ UNCHANGED <<env, requests, should_quit, timeout, now, entry, executed,
                   memory, store, faults, seen>>

-----------------------------------------------------------------------------
(* Requests: process_requests and erraid_handle_message.  After a request  *)
(* is handled, the next one is read if the FIFO holds it.                  *)

Serving(type) ==
    pc = "serve" /\ requests # <<>> /\ Head(requests).type = type

Answer(type, code, id) ==
    /\ reply' = [type |-> type, code |-> code, task_id |-> id]
    /\ requests' = Tail(requests)
    /\ pc' = IF Tail(requests) # <<>> THEN "serve" ELSE "due"
    /\ UNCHANGED <<env, timeout, now, entry, executed>>

Refuse(code) == Answer("RSP_ERROR", code, 0) /\ UNCHANGED should_quit

(* handle_create_task, one operator per way it ends.                       *)

CreateRefused(body) ==
    /\ ~ScheduleParses(body) \/ ~CommandsParse(body)
    /\ Refuse("INVALID_REQUEST")
    /\ UNCHANGED <<wake, memory, store, faults, seen>>

CreateNotAllocated(body) ==
    /\ \/ /\ Fails("id")
          /\ next_id' \in {next_id, AllocatedId + 1}
       \/ /\ Fails("truncated")
          /\ next_id' = 0
    /\ Refuse("PERSISTENCE_ERROR")
    /\ UNCHANGED <<wake, memory, disk, logs, seen>>

CreateNotWritten(body) ==
    /\ Fails("write")
    /\ next_id' = AllocatedId + 1
    /\ Refuse("PERSISTENCE_ERROR")
    /\ UNCHANGED <<wake, memory, disk, logs, seen>>

(* Mutant: the task file is left when the task cannot be added.            *)
CreateNotTakenBack(body) ==
    /\ next_id' = AllocatedId + 1
    /\ Fails("add")
    /\ disk' = Put(disk, AllocatedId, NewTask(AllocatedId, body))
    /\ Refuse("MEMORY_ERROR")
    /\ UNCHANGED <<wake, memory, logs, seen>>

(* The handler takes the task file back, which may fail in turn.           *)
CreateNotAdded(body) ==
    /\ next_id' = AllocatedId + 1
    /\ \/ /\ Fails("add")
          /\ disk' = Drop(disk, AllocatedId)
          /\ logs' = Drop(logs, AllocatedId)
       \/ /\ BothFail("add", "unlink")
          /\ disk' = Put(disk, AllocatedId, NewTask(AllocatedId, body))
          /\ UNCHANGED logs
    /\ Refuse("MEMORY_ERROR")
    /\ UNCHANGED <<wake, memory, seen>>

CreateNotPlanned(body) ==
    LET task == NewTask(AllocatedId, body) IN
    /\ next_id' = AllocatedId + 1
    /\ disk' = Put(disk, AllocatedId, task)
    /\ PlanFailed(Append(tasks, task), disk')
    /\ Refuse("SCHEDULER_ERROR")
    /\ UNCHANGED <<wake, logs, seen>>

Created(body) ==
    LET task == NewTask(AllocatedId, body) IN
    /\ next_id' = AllocatedId + 1
    /\ disk' = Put(disk, AllocatedId, task)
    /\ PlanRebuilt(Append(tasks, task))
    /\ wake' = TRUE
    /\ acked' = acked \cup {AllocatedId}
    /\ Answer("RSP_CREATE", "OK", AllocatedId)
    /\ UNCHANGED <<should_quit, logs, faults, removed>>

HandleCreate ==
    /\ Serving("CREATE")
    /\ LET body == Head(requests).body IN
       \/ CreateRefused(body)
       \/ /\ ScheduleParses(body) /\ CommandsParse(body)
          /\ \/ CreateNotAllocated(body)
             \/ CreateNotWritten(body)
             \/ CreateNotAdded(body)
             \/ CreateNotPlanned(body)
             \/ Created(body)

(* handle_remove_task                                                      *)

(* Mutant: the last task of the array is removed.                          *)
LastIndex(id) == Len(tasks)

FirstIndex(id) == Min({i \in DOMAIN tasks : tasks[i].task_id = id})

RemoveRefused(id) ==
    /\ id \notin TaskIds
    /\ Refuse(IF id = -1 THEN "INVALID_REQUEST" ELSE "TASK_NOT_FOUND")
    /\ UNCHANGED <<wake, memory, store, faults, seen>>

(* unlink fails, also because the task has no file.                        *)
RemoveNotUnlinked(id) ==
    /\ id \in TaskIds
    /\ \/ Fails("unlink")
       \/ id \notin DOMAIN disk /\ UNCHANGED faults
    /\ Refuse("PERSISTENCE_ERROR")
    /\ UNCHANGED <<wake, memory, store, seen>>

(* Mutant: the result of the first unlink is ignored as the second is.     *)
UnlinkUnchecked(id) ==
    /\ id \in TaskIds /\ id \in DOMAIN disk
    /\ disk' \in {disk, Drop(disk, id)}
    /\ logs' \in {logs, Drop(logs, id)}
    /\ acked' = acked \ {id}
    /\ removed' = removed \cup {id}
    /\ UNCHANGED next_id

(* The task file is unlinked.  The history is next, but it may stay: the   *)
(* result of its unlink is ignored, and a kill may come first.             *)
Unlinked(id) ==
    /\ id \in TaskIds /\ id \in DOMAIN disk
    /\ disk' = Drop(disk, id)
    /\ logs' \in {logs, Drop(logs, id)}
    /\ acked' = acked \ {id}
    /\ removed' = removed \cup {id}
    /\ UNCHANGED next_id

RemoveNotPlanned(id) ==
    /\ Unlinked(id)
    /\ PlanFailed(RemoveAt(tasks, FirstIndex(id)), disk')
    /\ Refuse("SCHEDULER_ERROR")
    /\ UNCHANGED wake

(* Mutant: the plan is not rebuilt.                                        *)
RemovedNotReplanned(id) ==
    /\ Unlinked(id)
    /\ tasks' = RemoveAt(tasks, FirstIndex(id))
    /\ wake' = TRUE
    /\ Answer("RSP_REMOVE", "OK", id)
    /\ UNCHANGED <<should_quit, faults, plan, plan_capacity>>

Removed(id) ==
    /\ Unlinked(id)
    /\ PlanRebuilt(RemoveAt(tasks, FirstIndex(id)))
    /\ wake' = TRUE
    /\ Answer("RSP_REMOVE", "OK", id)
    /\ UNCHANGED <<should_quit, faults>>

HandleRemove ==
    /\ Serving("REMOVE")
    /\ LET id == Head(requests).task_id IN
       \/ RemoveRefused(id)
       \/ RemoveNotUnlinked(id)
       \/ RemoveNotPlanned(id)
       \/ Removed(id)

(* What a creation cut short has left on disk: the next identifier, or     *)
(* nothing in its file, and then the task file.                            *)
CreateCut ==
    /\ Serving("CREATE")
    /\ LET body == Head(requests).body IN
       /\ ScheduleParses(body) /\ CommandsParse(body)
       /\ \/ /\ next_id' = AllocatedId + 1
             /\ disk' \in {disk,
                          Put(disk, AllocatedId, NewTask(AllocatedId, body))}
          \/ /\ "truncated" \in FaultKinds
             /\ next_id' = 0
             /\ UNCHANGED disk
    /\ UNCHANGED <<logs, seen>>

RemoveCut == Serving("REMOVE") /\ Unlinked(Head(requests).task_id)

(* A crash inside a handler, between any two of its writes: the request is *)
(* lost without a reply, and what was written stays.                       *)
HandlerCrash ==
    /\ pc = "serve" /\ requests # <<>>
    /\ ProcessGone(Tail(requests))
    /\ CreateCut \/ RemoveCut \/ UNCHANGED <<store, seen>>

(* MSG_PING, respond_list_tasks, respond_history, respond_stdio and the    *)
(* default of the switch.  A list or a history that does not fit in a      *)
(* message is an error; whether the last outputs can be read and fit       *)
(* depends on data that is not modelled.                                   *)
HandleQuery ==
    /\ \E type \in Queries : Serving(type)
    /\ LET type == Head(requests).type
           id   == Head(requests).task_id
       IN  \/ /\ type = "PING"
              /\ Answer("PONG", "OK", 0)
           \/ /\ type = "LIST_TASKS" /\ Len(tasks) <= ListLimit
              /\ Answer("RSP_LIST_TASKS", "OK", 0)
           \/ /\ type = "LIST_TASKS" /\ Len(tasks) > ListLimit
              /\ Answer("RSP_ERROR", "LIST_FAILED", 0)
           \/ /\ type \in {"LIST_HISTORY", "GET_STDIO"} /\ id = -1
              /\ Answer("RSP_ERROR", "INVALID_REQUEST", 0)
           \/ /\ type = "LIST_HISTORY" /\ id # -1
              /\ Len(Log(id)) <= HistoryLimit
              /\ Answer("RSP_LIST_HISTORY", "OK", id)
           \/ /\ type = "LIST_HISTORY" /\ id # -1
              /\ Len(Log(id)) > HistoryLimit
              /\ Answer("RSP_ERROR", "HISTORY_FAILED", 0)
           \/ /\ type = "GET_STDIO" /\ id # -1
              /\ \/ Answer("RSP_GET_STDIO", "OK", id)
                 \/ Answer("RSP_ERROR", "STDIO_FAILED", 0)
           \/ /\ type = "UNKNOWN"
              /\ Answer("RSP_ERROR", "UNKNOWN_REQUEST", 0)
    /\ UNCHANGED <<should_quit, wake, memory, store, faults, seen>>

HandleShutdown ==
    /\ Serving("SHUTDOWN")
    /\ should_quit' = TRUE
    /\ Answer("RSP_SHUTDOWN", "OK", 0)
    /\ UNCHANGED <<wake, memory, store, faults, seen>>

-----------------------------------------------------------------------------
(* Runs: process_due_tasks and run_task_instance.  The due entries of the  *)
(* plan are visited in order, against one reading of the clock, until a    *)
(* pass finds none.                                                        *)

(* The plan entries not yet visited that are due.                          *)
Due == {i \in entry..Len(plan) :
            plan[i].next_epoch >= 0 /\ plan[i].next_epoch <= now}

Current == plan[entry]
RunningTask == tasks[Current.task_index]

(* The test of the while loop, and the start of a pass.                    *)
BeginPass ==
    /\ pc = "due"
    /\ \/ /\ should_quit
          /\ pc' = "loop"
          /\ UNCHANGED <<now, entry, executed>>
       \/ /\ ~should_quit
          /\ pc' = "scan"
          /\ now' = clock /\ entry' = 1 /\ executed' = FALSE
    /\ reply' = NoReply
    /\ UNCHANGED <<env, requests, should_quit, wake, timeout, memory, store,
                   faults, seen>>

EndPass ==
    /\ pc = "scan" /\ Due = {}
    /\ pc' = IF executed THEN "due" ELSE "loop"
    /\ reply' = NoReply
    /\ UNCHANGED <<env, requests, should_quit, wake, timeout, now, entry,
                   executed, memory, store, faults, seen>>

(* run_task_instance on the next due entry: an index beyond the array is   *)
(* an error its caller ignores; a task that cannot run loses its deadline; *)
(* any other task is handed to the executor.                               *)
VisitDue ==
    /\ pc = "scan" /\ Due # {}
    /\ executed' = TRUE
    /\ LET i == Min(Due)
           index == plan[i].task_index
       IN  \/ /\ index > Len(tasks)
              /\ entry' = i + 1
              /\ UNCHANGED <<pc, plan>>
           \/ /\ index <= Len(tasks)
              /\ ~tasks[index].schedule.enabled \/ tasks[index].command_count = 0
              /\ plan' = [plan EXCEPT ![i].next_epoch = -1]
              /\ entry' = i + 1
              /\ UNCHANGED pc
           \/ /\ index <= Len(tasks)
              /\ tasks[index].schedule.enabled /\ tasks[index].command_count # 0
              /\ entry' = i
              /\ pc' = "exec"
              /\ UNCHANGED plan
    /\ reply' = NoReply
    /\ UNCHANGED <<env, requests, should_quit, wake, timeout, now, tasks,
                   plan_capacity, store, faults, seen>>

(* executor_run_task returns, after any time.                              *)
ChildEnds ==
    /\ pc = "exec"
    /\ pc' = "append"
    /\ reply' = NoReply
    /\ UNCHANGED <<env, requests, should_quit, wake, timeout, now, entry,
                   executed, memory, store, faults, seen>>

(* storage_append_history, whose result is ignored.                        *)
AppendHistory ==
    /\ pc = "append"
    /\ pc' = "save"
    /\ LET id == RunningTask.task_id IN
       \/ /\ logs' = Put(logs, id, Append(Log(id), now))
          /\ UNCHANGED faults
       \/ /\ Fails("append")
          /\ UNCHANGED logs
    /\ reply' = NoReply
    /\ UNCHANGED <<env, requests, should_quit, wake, timeout, now, entry,
                   executed, memory, disk, next_id, seen>>

(* Mutant: the next deadline follows the one missed, not the run.          *)
SaveTaskCatchUp ==
    /\ pc = "save"
    /\ pc' = "scan"
    /\ LET index == Current.task_index
           ran   == [RunningTask EXCEPT !.last_run_epoch = now]
       IN  /\ tasks' = [tasks EXCEPT ![index] = ran]
           /\ disk' = Put(disk, ran.task_id, ran)
           /\ plan' = [plan EXCEPT ![entry].next_epoch =
                           NextOccurrence(ran.schedule, Current.next_epoch)]
    /\ entry' = entry + 1
    /\ reply' = NoReply
    /\ UNCHANGED <<env, requests, should_quit, wake, timeout, now, executed,
                   plan_capacity, logs, next_id, faults, seen>>

(* Mutant: the end of the run is recorded instead of its start.            *)
SaveTaskAtEnd ==
    /\ pc = "save"
    /\ pc' = "scan"
    /\ LET index == Current.task_index
           ran   == [RunningTask EXCEPT !.last_run_epoch = clock]
       IN  /\ tasks' = [tasks EXCEPT ![index] = ran]
           /\ disk' = Put(disk, ran.task_id, ran)
           /\ plan' = [plan EXCEPT ![entry].next_epoch =
                                       NextOccurrence(ran.schedule, now)]
    /\ entry' = entry + 1
    /\ reply' = NoReply
    /\ UNCHANGED <<env, requests, should_quit, wake, timeout, now, executed,
                   plan_capacity, logs, next_id, faults, seen>>

(* The end of run_task_instance: last_run_epoch, the task file (a failure  *)
(* is ignored), and the next deadline of the entry.                        *)
SaveTask ==
    /\ pc = "save"
    /\ pc' = "scan"
    /\ LET index == Current.task_index
           ran   == [RunningTask EXCEPT !.last_run_epoch = now]
       IN  /\ tasks' = [tasks EXCEPT ![index] = ran]
           /\ \/ /\ disk' = Put(disk, ran.task_id, ran)
                 /\ UNCHANGED faults
              \/ /\ Fails("save")
                 /\ UNCHANGED disk
           /\ plan' = [plan EXCEPT ![entry].next_epoch =
                                       NextOccurrence(ran.schedule, now)]
    /\ entry' = entry + 1
    /\ reply' = NoReply
    /\ UNCHANGED <<env, requests, should_quit, wake, timeout, now, executed,
                   plan_capacity, logs, next_id, seen>>

-----------------------------------------------------------------------------
(* Before the first start the run directory is empty.                      *)
Init ==
    /\ clock = 0 /\ sent = 0 /\ starts = 0
    /\ requests = <<>>
    /\ pc = "down" /\ should_quit = FALSE /\ wake = FALSE
    /\ timeout = -1 /\ now = 0 /\ entry = 1 /\ executed = FALSE
    /\ tasks = <<>> /\ plan = <<>> /\ plan_capacity = 0
    /\ disk = <<>> /\ logs = <<>> /\ next_id = 0
    /\ reply = NoReply
    /\ faults = 0
    /\ acked = {} /\ removed = {}

Environment == Tick \/ SendRequest \/ Signal

Process == Start \/ Crash \/ HandlerCrash \/ Stop

Loop == Poll \/ PollReturns

Handle ==
    \/ HandleCreate \/ HandleRemove \/ HandleQuery
    \/ HandleShutdown

Runs ==
    \/ BeginPass \/ EndPass \/ VisitDue
    \/ ChildEnds \/ AppendHistory \/ SaveTask

Next == Environment \/ Process \/ Loop \/ Handle \/ Runs

Spec == Init /\ [][Next]_vars

-----------------------------------------------------------------------------
(* Properties                                                              *)

TypeOK ==
    /\ clock \in Nat /\ sent \in Nat /\ starts \in Nat /\ faults \in Nat
    /\ requests \in Seq(Requests)
    /\ pc \in {"down", "loop", "poll", "serve", "due", "scan", "exec",
               "append", "save"}
    /\ should_quit \in BOOLEAN /\ wake \in BOOLEAN /\ executed \in BOOLEAN
    /\ timeout \in Nat \cup {-1}
    /\ now \in Nat /\ entry \in Nat \ {0}
    /\ tasks \in Seq(Task)
    /\ plan \in Seq(PlanEntry)
    /\ DOMAIN disk \subseteq TaskId /\ disk \in [DOMAIN disk -> Task]
    /\ DOMAIN logs \subseteq TaskId /\ logs \in [DOMAIN logs -> Seq(Nat)]
    /\ next_id \in Nat
    /\ acked \subseteq TaskId /\ removed \subseteq TaskId

(* The plan never has more entries than the array it is written to holds,  *)
(* also after a start that loads many tasks at once and after failures to  *)
(* grow it: scheduler_compute_plan writes one entry per task.              *)
PlanFits == Len(plan) <= plan_capacity

(* Identifiers are never shared nor given twice, whatever was removed,     *)
(* whenever erraid crashed, in a handler too, and whatever failed except a *)
(* next_id file cut short (storage.c:1359), after which identifiers begin  *)
(* at 1 again: context_find_task_index and the files on disk rely on it.   *)
IdsUnique ==
    /\ \A i, j \in DOMAIN tasks :
           tasks[i].task_id = tasks[j].task_id => i = j
    /\ \A id \in TaskIds \cup DOMAIN disk \cup acked \cup removed :
           id < AllocatedId

(* A reload still brings every task back: nothing has failed, or one call  *)
(* has and every task file can be read.                                    *)
Reloads == faults = 0 \/ (faults = 1 /\ Loads(disk))

(* While erraid runs, every task in memory has its file, with the same     *)
(* schedule, after any handler, failure and reload; and every file has its *)
(* task in memory, unless two calls have failed, or one has and a file     *)
(* cannot be read again: a reload may then have left the array empty.      *)
MemoryMatchesDisk ==
    pc # "down" =>
        /\ TaskIds \subseteq DOMAIN disk
        /\ Reloads => DOMAIN disk \subseteq TaskIds
        /\ \A i \in DOMAIN tasks :
               [tasks[i] EXCEPT !.last_run_epoch = 0] =
               [disk[tasks[i].task_id] EXCEPT !.last_run_epoch = 0]

(* A task whose creation was confirmed stays on disk until a request       *)
(* removes it, across crashes, restarts and the failures of other          *)
(* requests; and in the memory of a running erraid, with the exception of  *)
(* MemoryMatchesDisk.                                                      *)
CreatedIsKept ==
    /\ acked \subseteq DOMAIN disk
    /\ pc # "down" /\ Reloads => acked \subseteq TaskIds

(* A removed task never comes back, in memory or on disk: not by a reload, *)
(* a crash inside its removal or the rewriting of its file after a run.    *)
(* Its history may stay (storage.c:980), but no task to come finds it.     *)
RemovedIsGone ==
    /\ removed \cap (TaskIds \cup DOMAIN disk) = {}
    /\ \A id \in DOMAIN logs : id < AllocatedId

(* Two runs of a task never start in the same minute, whatever requests    *)
(* rebuild the plan and whenever erraid restarts between them.             *)
OncePerMinute ==
    \A id \in DOMAIN logs : \A i, j \in DOMAIN logs[id] :
        i < j => logs[id][j] >= StartEpoch(logs[id][i])

(* What runs is the task the plan entry was computed for, at or after a    *)
(* minute its schedule allows, and it has not run since that minute: the   *)
(* indices of the plan follow the removals from the array.                 *)
RunsFollowSchedule ==
    pc \in {"exec", "append"} =>
        /\ Current.task_id = RunningTask.task_id
        /\ RunningTask.schedule.enabled
        /\ Allowed(RunningTask.schedule, Current.next_epoch)
        /\ \A i \in DOMAIN Log(RunningTask.task_id) :
               Log(RunningTask.task_id)[i] < Current.next_epoch

(* The timeout of poll is never later than the next occurrence of any task *)
(* in memory: erraid does not sleep past a deadline.                       *)
NeverSleepsPast ==
    pc = "poll" =>
        \A i \in DOMAIN tasks :
            LET next == NextOccurrence(tasks[i].schedule, clock)
            IN  next # -1 => timeout # -1 /\ timeout <= next

(* A task file records a run its history does not have only after a failed *)
(* append, and each run it misses costs a crash between the two writes of  *)
(* the run, or a failure of the second.                                    *)
LastRunTrailsHistory ==
    \A id \in DOMAIN disk :
        LET last == disk[id].last_run_epoch
            missed == {i \in DOMAIN Log(id) : Log(id)[i] > last}
        IN  /\ last \in Range(Log(id)) \cup {-1} \/ faults > 0
            /\ Cardinality(missed) <= faults +
                   (IF pc \in {"save", "down"} THEN starts ELSE starts - 1)

(* The task files a request to create or remove a task asks for.           *)
Requested(r) ==
    IF r.type = "CREATE" THEN DOMAIN disk \cup {AllocatedId}
                         ELSE DOMAIN disk \ {r.task_id}

(* The reply tells a client what its request did.  A confirmed request and *)
(* one answered with SCHEDULER_ERROR have created or removed the task file *)
(* (a client that repeats a creation after this error has the task twice); *)
(* any other error leaves the task files and the array as they were,       *)
(* unless two calls of the handler failed.                                 *)
RepliesTellEffect ==
    [][/\ (reply'.type \in {"RSP_CREATE", "RSP_REMOVE"}
                \/ reply'.code = "SCHEDULER_ERROR")
              => /\ DOMAIN disk' = Requested(Head(requests))
                 /\ DOMAIN disk' # DOMAIN disk
       /\ (reply'.type = "RSP_ERROR" /\ reply'.code # "SCHEDULER_ERROR"
                /\ faults' <= faults + 1)
              => DOMAIN disk' = DOMAIN disk /\ tasks' = tasks]_vars

Overdue ==
    {plan[i].task_id : i \in {j \in DOMAIN plan :
        plan[j].next_epoch >= 0 /\ plan[j].next_epoch <= clock}}

(* ARCHITECTURE.md:49, "Lorsqu'une échéance est atteinte, erraid exécute   *)
(* les commandes": a deadline that is reached stays in the plan of a       *)
(* running erraid until the task has run or is removed.                    *)
DeadlineIsRun ==
    [][\A id \in Overdue :
           \/ id \in Overdue'
           \/ id \notin TaskIds'
           \/ pc = "save" /\ id = RunningTask.task_id]_vars
=============================================================================
