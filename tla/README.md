# A verification project for erraid and tadmor

`erraid` is a daemon that runs commands at the minutes a cron-like schedule
selects; `tadmor` is its command line client. They talk over two named pipes.
This directory models the code under `src/src` and `src/include` in TLA+, checks
the models with TLC and proves theorems about them with TLAPS.

## 1. Inventory

| Part | Code | State it keeps | Operations |
|---|---|---|---|
| scheduler | `shared/scheduler.c` | none | `scheduler_next_occurrence`, `scheduler_compute_plan` |
| daemon core | `erraid/daemon.c` | array of tasks, plan, `should_quit`, pipe descriptors | poll loop, one handler per request, run of due tasks, reload, init, shutdown |
| storage | `shared/storage.c` | `tasks/<id>.task`, `tasks/next_id`, `logs/<id>/history.log`, `last.stdout`, `last.stderr`, snapshots | write, remove, load, append to history, rotate and prune, allocate an identifier |
| executor | `erraid/executor.c` | buffers of a run, pipes, child | fork, read stdout then stderr, waitpid, sequences |
| notifier | `erraid/notifier.c` | the context the signal handlers reach | SIGINT/SIGTERM set `should_quit` and wake, SIGPIPE wakes |
| protocol | `shared/proto.c` | bytes in the two FIFOs | header and payload, written and read by separate calls |
| client | `tadmor/*.c` | options, two descriptors | parse, connect, send one request, read one reply, print |
| utilities | `shared/utils.c` | none | paths, integers, base64, read/write loops, clock |

How they interact: a client writes a header and a payload to the request FIFO
and blocks on the reply FIFO; the daemon has one thread, which sleeps in `poll`
on the request FIFO, a wake pipe written by signal handlers and by its own
handlers, and a timeout that is the earliest deadline of the plan. On waking it
first handles every request that is readable, then runs the due tasks one after
the other, waiting for each child. A handler writes the disk first, the array
of tasks second, the plan last, and then answers. A run appends to the history,
then rewrites the task file, then computes the next deadline.

What is hard here:

* *ordering inside a wake-up*: requests are handled before deadlines, and the
  handlers recompute the whole plan from the current time;
* *one thread*: a long command delays requests and other tasks, and several
  blocking reads have no timeout;
* *two copies*: tasks are in memory and on disk, and the plan refers to the
  array by index; every failure path has to keep the three in step;
* *crashes* between two writes: `next_id` is truncated and rewritten in place,
  the outputs are replaced before the history line is appended, the task file is
  rewritten after it;
* *shared FIFOs*: messages in two writes, several clients, clients that die;
* *four writers and readers of nearly the same JSON*: the client, the daemon and
  the storage each write and parse strings and arrays in their own way;
* *children*: two pipes read one after the other, a wait a signal interrupts.

What makes each part correct: the scheduler returns the first selected minute
after an instant and no other; the daemon never sleeps past an occurrence, runs
exactly what is due and at most once per minute, keeps what it confirmed and
forgets what it removed; the storage leaves, at every crash, a state the next
start can load and that agrees with what was answered; the executor collects
what the child wrote and its status; the protocol pairs each reply with its
request; the client prints what the daemon sent, and the task it creates, in
memory, on disk and after a restart, is the one that was typed.

## 2. Plan

Built (sections 3 to 6):

1. `Scheduler`, `SchedulerScan`: the search, its loop, and the proof that the
   loop computes the first occurrence.
2. `Erraid`: the daemon core with the storage operations as the daemon sees
   them, crashes, restarts and failures; `ErraidProofs`: types, unique
   identifiers, removed tasks, memory and disk, the plan, and the runs: at most
   one per minute, where the schedule says, and what the files know of them.
3. `Loop`: the poll loop with unbounded relative time, for liveness;
   `LoopProofs`: how long a request and a deadline wait.
4. `TaskStore`, `Storage`: the system calls of `storage.c`, with the process
   killed between any two, refining an abstract store of tasks whose creation,
   removal and run are single steps; `StorageProofs`: the refinement, and what is
   kept of the outputs.
5. `Executor`: child, two pipes of bounded capacity, `waitpid` and signals;
   `ExecutorProofs`.
6. `Pipes`: the two shared FIFOs in pieces, several clients that may be killed,
   a daemon that starts, stops and crashes; `PipesProofs`: undisturbed exchanges.
7. `Base64`, `Tadmor`: the texts of a command from the user to the disk and back,
   and of an output from the disk to the user; `TadmorProofs`: what is written
   on either way is read as it was meant.

Left, in this order:

8. The text of lists and of lines of history, with the lengths of all payloads.

## 3. Modules and code

### Scheduler, SchedulerScan

`Scheduler` defines what an occurrence is (`Allowed`, `NextOccurrence`,
`ComputePlan`) over a calendar given by constants: `MinuteLen` clock units in a
minute, and the numbers of minutes, hours and week days. `localtime_r` is
external: local time is a constant operator `LocalOffset`, any number of minutes
at each instant, so that daylight saving time is an instance.
`SchedulerScan` is the loop of `scheduler_next_occurrence`, one action per
branch: `Disabled` (the early return), `Enter` (the first minute), `Found`,
`Skip`, `Exhausted`. `MCSchedulerScan` gives a week of eight minutes with an hour that is
skipped and one that is repeated.

### Erraid

State: `tasks`, `plan` and `plan_capacity` are `ctx->tasks`, `ctx->plan` and the
capacity of its array; `disk` is the set of task files, `logs` the epochs in the
histories, `next_id` the counter file (0 when missing or empty); `requests` the
request FIFO, `reply` the reply sent by the last step, `wake` the wake pipe,
`timeout`, `now`, `entry`, `executed` the locals of the loop. `acked` and
`removed` only observe.

| Actions | Code |
|---|---|
| `Start`, `Stop`, `Crash` | `erraid_init`, end of the loop and `erraid_shutdown`, the process killed |
| `HandlerCrash` (`CreateCut`, `RemoveCut`) | the process killed inside a handler |
| `Poll`, `PollReturns` | `erraid_schedule_loop` and `next_deadline` |
| `HandleCreate`, `HandleRemove`, `HandleQuery`, `HandleShutdown` | the handlers, in `process_requests` |
| `BeginPass`, `EndPass`, `VisitDue` | `process_due_tasks` |
| `ChildEnds`, `AppendHistory`, `SaveTask` | `run_task_instance` around the executor and its two writes |
| `Signal`, `Tick`, `SendRequest` | `notifier.c`, the clock, clients |

A handler is one step, because nothing in the process runs beside it. A crash
inside a handler is an action of its own, with an outcome for every point between
two of its writes to the disk: of a creation, the next identifier may be written,
and then the task file; of a removal, the task file may be unlinked, and then the
history (`Unlinked`). The result of this last `unlink` is not looked at
(`storage.c:980`), so that a removal that is confirmed may leave the history as well.
Every call a handler tests for failure may fail
(`FaultKinds`), with the recovery the code has: a failed `rebuild_plan` reloads
and rebuilds, each of which may fail too. A run is several steps, since time
passes and signals arrive while the child runs. The order in which `readdir`
returns the files is arbitrary (`LoadOrders`).

`acked` loses a task when its file is unlinked by a removal, confirmed or not.
`SCHEDULER_ERROR` is sent by handlers that could not rebuild the plan, after they
created or removed the task: `RepliesTellEffect` says so, and what the other replies mean.

Masks are sets and a request is the decoded JSON; of its commands there is their
number and whether one has an argument (`has_args`), because that decides whether
the task file can be loaded again (`Loads`; see `Tadmor`). Whether a list or a
history fits in a reply is decided by two limits. `tadmor` always sends an argument,
so after any of its creations `Start` is not possible, and neither is the reload
after a failed growth of the plan: it leaves no task in memory while the files stay,
which is the exception (`Reloads`) of `MemoryMatchesDisk` and `CreatedIsKept`. What the run
`failures` and the theorems say of restarts is about requests of other clients,
whose commands may be empty, and about the daemon once that parser is repaired.

### Loop

The same loop for what must eventually happen. Time is relative (`left` is the
time until each deadline, `phase` the clock modulo the periods), so there is no
last instant. Time passes while the daemon sleeps or waits for a child. A
creation or removal is a request that adds or takes away one deadline and
recomputes all of them. `Timeout` has the limit of `poll`'s argument in
milliseconds (`MaxSleep`). A client sends one request per tick at most and waits
for its answer: each is sent by a new `tadmor`. `Workloads` has, for each
behaviour, how long the runs of each task may last: less than a minute together
(`RunsFit`), or as long as their period, when `process_due_tasks` never returns; no
run lasts for ever. Storage, failures and crashes
are left to `Erraid`.

### TaskStore, Storage

`Storage` has one action per system call of `storage_allocate_task_id`,
`storage_write_task`, `storage_remove_task` and `storage_append_history`, in the
order of `handle_create_task`, `handle_remove_task` and `run_task_instance`: the
truncation of `next_id` and its write, the temporary file and its `rename`, the
three `unlink`s, the rotation and pruning of both outputs, their creation and
write, the line of history. Each may fail, with the code's continuation (an
error of `storage_append_history` is ignored and the task file is written all
the same), and the process may be killed before each. A file is its decoded
content and an output its length.

`TaskStore` is what the daemon needs: `Create`, `Remove`, `Run` and `Save` happen
at once or not at all, identifiers are never given twice, histories only grow,
`last_run_epoch` is not behind the history, and a task whose line of history was
cut short loses its history but stays. `Storage` implements it under the mapping
of `IsTaskStore`: the tasks are the task files, the histories are those of
existing tasks that no torn line makes unreadable (a line cut short lets the next
one be appended to it). One case is left out by `AtomicIds`: `next_id` caught
between `ftruncate` and `write` starts the identifiers again from 1, over existing
files. With `AtomicIds = FALSE` TLC finds `IsTaskStore` violated, and in `Erraid` the
fault `truncated` violates `IdsUnique`.

### Executor

The parent's calls in `run_single_command` and `executor_run_task` (two pipes, `fork`, the
two reading loops, `waitpid`, the concatenation of the outputs of a sequence),
beside any child that writes, closes its outputs, leaves them to a background
process, and ends. A command without words is refused before its pipes are opened
(`Refuse`). Bytes are counted, pipes are bounded, and a write blocks or
kills as it does on a pipe.

### Pipes

Both FIFOs hold units: two for a header, so that it is read in two pieces or
from its middle, one for a payload and two for that of a list or an output. A
unit says whose message it is of, which no byte of the real ones does.

| Actions | Code |
|---|---|
| `OpenRequests`, `OpenReplies` | `tadmor_connect`: the first `open` waits for `erraid`, the second (`O_NONBLOCK`) for nobody |
| `WriteHeader`, `WritePayload` | the two writes of `proto_write_message`; with no reader, SIGPIPE |
| `ReadReply`, `ReadEnd` | one `read` of `read_exact`; the end of the file when `erraid` is gone |
| `Kill` | a client ends between any two steps |
| `Start`, `Ready`, `Stop`, `Crash`, `Signal` | `erraid_init` up to each of the two opens, the end of the loop, a kill, `notifier.c` |
| `Poll`, `ReadRequest`, `Handle`, `ReplyHeader`, `ReplyPayload`, `NextRequest` | `process_requests`, `erraid_handle_message`, `send_json_response` |

A FIFO loses what it holds when the last process closes it. The observer
`disturbed` is set when an exchange is not alone or not finished: a second client
connects, one is killed in the middle, `erraid` starts under a client, a client
connects before `erraid` has the reply FIFO open, or finds no reply or none it can
read. What holds of undisturbed exchanges is that each is in step and leaves
nothing behind (`InStep`, `QuietIsEmpty`, `BlockedMeansOwed`, `AnswersAreTrue`,
`ClientsEnd`). Of disturbed ones nothing of the kind is true: clients at once get each
other's replies, or mix their messages into a header that is not valid, which
`process_requests` gives up without a reply; replies nobody read fill their FIFO until
one does not fit, and later ones are out of step; a client killed between header and
payload leaves the daemon in a read. What holds of all exchanges is that nothing but
such a read keeps the daemon from stopping (`ShutdownEnds`).

### Base64, Tadmor

`Tadmor` follows one command of the user. A text is a sequence of characters in
which a run of ordinary letters, a key and the object of the schedule are one
character each; quotes, backslashes, newlines, other control characters,
brackets and commas are themselves, so that each writer and reader is modelled by
what it does with them. `Characters` are those a user may type, any set without the
value `At` gives beyond the end of a text.

| Actions | Code |
|---|---|
| `Send`, `SendRaw` | `tadmor_parse_args`, `build_request_payload`; another program that follows the protocol |
| `Create` | `handle_create_task`: `parse_schedule_field`, `parse_commands_field`, `storage_write_task` |
| `Load` | `storage_load_tasks` at the next start: `parse_task_file`, `parse_command_line` |
| `Answer` | `respond_stdio`, with the limits of the buffers behind it |
| `HandleReply` | `decode_base64_field` |

The two readers of arrays are one operator; `closes` says whether a bracket after
an element ends the array, as it does in the daemon and not in the storage.
`getopt` stops at the first word that is no option, because the build defines
`_POSIX_C_SOURCE`: words after it are never options. `ReadBackUnlessArgs` is what
justifies `Loads` of `Erraid`. `Base64` has encoder and decoder on octets, with the
padding as the code writes and reads it.

## 4. Runs

Mutants of the code (definitions commented `Mutant:`) show that each property of
each passing run can fail.

| Run | Question | Bounds |
|---|---|---|
| `scan` | does the search return the first allowed minute, from every instant, for every combination of masks, and stop? | 513 schedules, 20 instants, a week of 8 minutes: every phase of the calendar and of the daylight saving hours |
| `failures` | what survives a crash or stop anywhere, inside handlers too, a restart, and failures anywhere? | 3 requests (two tasks and a removal, or three tasks), a body with arguments and one without, 3 minutes, 2 starts and 1 failure of 8 kinds, or 1 start and 2 failures (`FewMishaps`) |
| `requests` | does what runs follow the schedule, for any order of all requests and deadlines? | 3 requests of all kinds and 5 bodies, 2 minutes |
| `loop` | is every request answered and every deadline met when runs are short, and what is left when a run lasts as long as its period? | 2 clients, 2 tasks, periods of one and three minutes, two workloads |
| `storage` | does a reader of the files see each operation at once, and are the newest outputs kept? | 2 tasks, 4 runs, 1 snapshot, 2 kills, 1 failed or short call |
| `executor` | is all output collected, no descriptor left, and does a run end? | 2 commands, outputs beyond the limit, 1 failure, stderr within a pipe |
| `fifo` | are requests and replies paired, does every client end, and can the daemon always be stopped? | 2 clients, 1 of them killed, 2 starts, a reply FIFO of 6 units |
| `texts` | is the task that runs, is stored and is loaded the one typed, and does an output reach the client? | lines of up to 3 words of 11 kinds and up to 5 of 3 kinds, 2 commands, 2 arguments, 128 outputs |

The bounds let each interesting case happen. Three requests give two tasks and
a removal that shifts the indices of the plan, in both orders of the directory.
`PlanChunk = 1` makes the plan's array grow at the second task and twice on a load
of three. Two failures are what a handler needs to fail in its recovery too, and the
body with arguments makes a reload fail without a second one. Task 1 is the one that is
removed: it has either body, and either place in the array after a restart. Two minutes are enough for a run to be repeated in its minute and for
a deadline to move; what holds for longer behaviours is the theorem
`RunsOncePerMinute`. In `Storage` one snapshot and four runs give a pruning cut
short and the one that makes up for it. In `Executor` a pipe of 3 bytes, reads of
2 and a limit of 3 give reads that cross the limit, a full pipe, and a partial
last read. In `Pipes` two starts let a client outlive an `erraid` and meet
the next one, and 6 units of replies have no room for two lists nobody reads: the
payload of the second fails, and so does the header of the error sent in its place. In `Tadmor` the kinds of words are one
for each character that a writer or a reader treats apart, with the name of a
field whole, begun and ended by a quote; two commands and two arguments let a
third exceed each limit; outputs end in each of the three places of a group and
reach the limit from both sides. Deadlock is not checked: `erraid` may stop, a run
returns, a client ends, and the bounds end behaviours.

Four runs have `expect` "violation": they check what a document says and the
code does not do.

* `lost_deadline`: a deadline that is reached is not always run. If a create or
  remove request is readable in the same wake-up, it is handled first and
  `rebuild_plan` moves every deadline after the current time.
* `blocked`: a command that fills the pipe of stderr while stdout is open blocks
  itself and the daemon.
* `unread`: the file of a task that has a command with an argument is refused by
  `parse_command_line`, which reads past the bracket that ends the array. After
  any creation by `tadmor`, `erraid` does not start again.
* `outputs`: `tadmor -o` and `-e` print no output. `decode_base64_field` moves to the quote
  that closes the text and looks for one more, finds none, and calls the field
  malformed.

Seen while modelling, and part of the model without a run of their own: masks
with a digit that is not hexadecimal, or one of them missing, become zero, so that
such a task is created and never runs; a word `schedule` in a command hides the
schedule of the task (`RefusedForCause`, `CreatedAsTyped` say how far this goes);
control characters other than the usual ones are escaped by `tadmor` as `\u`, which
`erraid` refuses; the pass over due tasks never returns when runs last as long as
their period (`RequestsServed` has it as its exception); a write of `next_id` that
fails after `ftruncate` (a full disk) leaves a file that counts as 1, so that the next
creation overwrites task 1, although ARCHITECTURE.md:55 promises unique identifiers;
two clients at once may get each other's replies or none, although protocole.md:8 and
:55 promise each its reply and an error for every message that is not understood.

`RunsFollowSchedule` and `NeverSleepsPast` are checked in the run `requests`, which
has no failure and one start: with two failures to grow the plan in one handler
(`rebuild_plan` and the one after the reload) an old plan is left over tasks in another order,
and TLC finds both violated. Which failures they bear, restarts and reloads
included, is said by `RunsAsScheduled` and `PollWaitsForDeadlines`. The other properties
of `Erraid` hold in the run `failures` with up to two failures, of any kind but the truncated
`next_id`, and are proved for any number.

## 5. Fairness

* `Loop`: weak fairness of the daemon's steps (one process, always runnable, and
  none of its steps waits for anything but `poll` or a child) and of `Tick` (time
  passes while it waits, and a child that runs for a given time ends). Nothing
  is assumed of clients and signals.
* `Executor`: weak fairness of the parent, of the child (any program that ends)
  and of `BackgroundEnds` (what it leaves in the background ends). Without the
  last a run may never return, as the code reads until the last writer closes.
* `SchedulerScan`: weak fairness of the loop, which is sequential code.
* `Pipes`: weak fairness of the daemon's steps and of each client once its first
  open has returned: both are processes that run whenever no call blocks them, and
  a `read` that finds something returns. Nothing is assumed of starts, kills, signals and of
  clients that have not begun.
* `Erraid`, `Storage` and `Tadmor` have safety properties only, and no fairness.

## 6. Proofs

Each theorem is for all values of the constants of its module: any numbers of
tasks, clients, requests, runs, failures, crashes and restarts, any calendar, and
any sizes.

| Theorem | Says | Under |
|---|---|---|
| `NextOccurrenceResult` | an occurrence is an allowed instant in a later minute | |
| `ScanTypes`, `ScanIsCorrect` | the search loop returns the first allowed minute, or -1 if its window has none | |
| `WindowIsEnough` | the search of a schedule that selects something succeeds | `SteadyWeek` |
| `ErraidTypes` | types | |
| `PlanAlwaysFits` | the plan never outgrows its array | |
| `IdsAreUnique` | no identifier is shared or given twice | `NeverTruncated` |
| `RemovedStaysGone` | a removed task is gone from memory and task files for good; its history may stay, and no later task finds it | `NeverTruncated` |
| `MemoryIsDisk` | a task in memory has its file; a file has its task in memory, unless two calls failed, or one did and a file cannot be read | `NeverTruncated` |
| `ConfirmedIsKept` | a confirmed task is kept on disk until it is removed, and in memory with the same exception | `NeverTruncated` |
| `RepliesAreTrue` | a confirmed request, or one answered with `SCHEDULER_ERROR`, has changed the task files as it asked; one answered with another error has changed neither files nor array, unless two calls of its handler failed | `NeverTruncated` |
| `RunsOncePerMinute` | two runs of a task never start in one minute | `NeverTruncated` |
| `RunsAsScheduled` | what runs is the task its entry was planned for, at a minute its schedule allows | `NeverTruncated`, `PlanRecovers` |
| `PollWaitsForDeadlines` | `poll` never sleeps beyond the next occurrence of a task | `PlanRecovers`, `SteadyWeek` |
| `LastRunIsTrailed` | what a task file does not know of its history is accounted for by failures and restarts | `NeverTruncated` |
| `LoopTypes` | types | |
| `NoneWaitsAMinute` | no client waits a minute for its answer | `RunsFit` (in the property) |
| `RunsInTime` | no deadline stays in the plan for a minute after it was reached | `RunsFit` (in the property) |
| `StorageTypes` | types | |
| `TaskFilesAreWhole` | a task file is never half written | |
| `StorageIsTaskStore` | `Storage` implements `TaskStore` | `AtomicIds` |
| `NewestAreKept` | the newest replaced outputs are kept, and hardly more | |
| `OutputIsCollected` | a run that succeeds has what its commands wrote, up to the limit | |
| `NoDescriptorIsLeft` | a run leaves no descriptor open | |
| `PipesTypes` | types; no message is more than half read | |
| `ExchangeInStep`, `NothingIsLeft`, `BlockedOnlyIfOwed`, `AnswersTrue` | the properties of undisturbed exchanges | `RoomForOne` |
| `GroupIsDecoded` | what the encoder writes for a group of octets, the decoder reads as these octets | |
| `RepliesCarryOutputs` | an output can be decoded whole from its reply | |
| `EveryOutputFits` | an output that `respond_stdio` accepts fits in its buffers and in the message | |
| `TasksAreAsTyped` | a task has the words typed, in the commands typed, and the schedule given unless a word hides it | |
| `RefusalsHaveCause` | a request is refused for one of three causes, and always for one | |
| `FilesAreRight` | each line of a task file gives the words of its command back to the parser of requests | |
| `FilesReadBackUnlessArgs` | a restart reads back the files of commands without arguments, and no others | |

The hypotheses. Those on failures exclude what TLC shows to be possible otherwise: with
a truncated `next_id` it finds counterexamples to each property proved under
`NeverTruncated` (for `CreatedIsKept` a second failure is needed, which takes back the task
that overwrote the confirmed one). `SteadyWeek` is sufficient, and not shown to be
necessary.

* `NeverTruncated`, and `AtomicIds` in `Storage`: no write of `next_id` stops after
  `ftruncate`. That failure is modelled, and no run has it.
* `PlanRecovers`: the plan can be grown (`realloc`), or one failure to grow it is all that
  fails and files can be read again, so that the reload after it makes up for it.
  When it fails twice in a handler, and the reload brings the tasks in another order,
  an entry of the old plan names another task: TLC then finds `RunsFollowSchedule` and
  `NeverSleepsPast` violated.
* `SteadyWeek`: wherever a search starts, its window holds a week in which local time
  keeps its distance of UTC. The code searches 366 days. `DaylightSaving` proves it
  for local time that changes, as often as it likes but not twice in a week
  (`RareChanges`), in a window of two weeks or more; TLC's small calendar has it too,
  with changes that are closer.
* `RoomForOne`: the reply FIFO has room for one reply. A message has at most
  `ERRAID_PIPE_MESSAGE_LIMIT` = 4096 octets, a pipe has 64 KiB.
* The named `ASSUME`s of the modules give types, positive lengths, periods of whole
  minutes and, in `Loop`, that the runs of a task in a workload have a longest one.
  Nothing is assumed of `LocalOffset` beyond what is named here.

The arguments:

* `ScanInv` says that every minute between the argument and `current` has been
  examined and is not allowed, and that `current` is the start of a minute after
  the argument; `Found` and `Exhausted` then give the result. `SchedulerLemmas` has
  the arithmetic of minutes. For `WindowIsEnough`, the minutes of a steady week run through
  every combination of minute, hour and weekday: the one selected is given, and a
  search that ended without it would have examined it.
* `TypeInv` adds to the types that the entry being run is one of the plan's and
  its index is in the array while it runs, and that a task file has the
  identifier of its name: without them the run of a task could not be typed.
* `CapacityInv`: the array is only ever grown, by doubling, to what it must hold
  (`GrownFits`); a plan that is not rebuilt only changes deadlines.
* `IdInv` = `TypeInv`, `IdsUnique`, `RemovedIsGone`. The last is not inductive alone:
  a removed identifier stays gone, and the history that may be left is not found
  again, because every later identifier is greater.
* `DiskInv` adds what memory and disk have in common. Every task in memory has its
  file, always (`Covered`). A file without its task is explained by two failures, or by
  one and a file among those missing that cannot be read (`Explained`): such a file is
  never removed, since a removal begins with the array, so that this stays true however
  many requests follow, and no start succeeds. It needs `IdInv`: the first index with an
  identifier is the only one, so that removing the entry and the file remove the
  same task.
* `RepliesAreTrue` looks at the ways each handler ends, one by one. It needs `IdInv`: a
  creation adds an identifier no file has.
* `RunInv` adds to `IdInv` that the deadline of an entry is not in the minute of
  a run of the task its index names (`NotRunYet`), that runs are not after the
  last reading of the clock, and what a pass has done so far. A plan rebuilt from
  the clock keeps this. A failed rebuild leaves the old plan over other tasks:
  what saves it is that handlers follow a pass that found nothing due, after
  which no deadline is in the minute of a run of any task (`NothingRunYet`).
* `PlanInv`: the plan is that of the array of tasks, and each deadline is the next
  occurrence of its task after some instant of the past (`PlanUpToDate`); the
  timeout of a sleeping `poll` is no later than any deadline (`TimeoutCovers`). With
  `RunInv` it gives `RunsAsScheduled`; `PollWaitsForDeadlines` follows, since a later
  instant has no earlier next occurrence, where the search finds one
  (`NextMonotone`).
* `TrailInv`: the runs of a history that are later than the task file's last run
  (`Missed`) are at most as many as failures and restarts and the run being saved.
  It needs `RunInv`, which makes runs of a task distinct, and that histories are of
  identifiers already given (`LogsAreOld`), so that a new task begins with none.
* `FitInv` of `LoopProofs`, while one run of every task fits in a minute: deadlines are
  at the starts of minutes (`Aligned`); none passes but during the runs of a pass
  (`OnTime`); a pass that runs tasks began at the start of a minute, has lasted no
  longer than one run of each task it came to, and those are now due in a later
  minute (`InPass`); so the next pass finds nothing due, and requests wait for one
  pass only (`Waits`). `process_requests` reads until nobody waits, which is why
  ages are counted from the beginning of the pass.
* `FileInv` of `StorageProofs`: a file is whole because what is renamed was written,
  by the operation under way, whose record is typed (`OpOK`). `IdInv` there has the
  identifier the next creation takes above all those given, also between the
  truncation of the file and its write. With both each system call maps to one
  step of `TaskStore` or to a stutter: the rename is `Create` or `Save`, the first
  unlink `Remove`, the line of history `Run`.
* `SnapInv` bounds what is kept by the limit, one for each kill and failure so far,
  and one more while pruning, a step of which removes the oldest that is kept.
* `ExecutorInv` accounts for each octet written: in the pipe, in the buffer, or
  beyond the limit (`Accounted`), and for the descriptors open at each step.
* `PipesInv` has, for any exchange, what the daemon and each client have read so far
  (`HalfRead`, `HalfHeard`), and for one that is not disturbed the whole of both FIFOs:
  what is in them and what was read are consecutive slices of one message
  (`Slice`, `OneRead`), in one of the forms `Asking` and `Answered`.
* `GroupCharacters` finds the four characters of a group in the text, `Bits` is the
  arithmetic of six bits and eight, and the three lengths of a last group are
  cases. That the whole text is decoded to the whole output is an induction over
  groups. It is done by least counterexample: of the groups at which the
  concatenation would differ there would be a first one (`Flattened`, `Decoded`).
  `ReplyInv` only says that the reply is the encoded output and what ends it.
* `FitsIsEnough` compares the 64 octets `respond_stdio` sets aside with what is
  written around the text; `OutputInv` only adds that outputs are octets.
* `TextInv` has, at every stage, commands that were typed or sent by another program,
  and says of the payload, the task and the file that they are what `Payload`,
  `TaskOf` and `WrittenFile` make of these commands. It is inductive because the
  readers undo the writers, for texts of any length, which is most of
  `TadmorProofs`:
  - the readers are recursive functions; that they have values is `Recursion`, for
    functions whose value depends on values of lower rank (here the distance to the
    end of the text), and what they return is in `StringRead`, `CommandRead` and
    the lemmas named after them, by `RankInduction`;
  - `FlattenSeq` is a fold, which `ChainIsFlatten` turns into the places where each
    part of the whole stands (`Layout`); `StringLayout`, `ArrayLayout` and
    `PayloadLayout` say where each character of what is written stands;
  - `ListRead` is the common form of the loops that read a list: when each element
    is read as itself, all are, and when one is lost, it is an error. `WordRead`,
    `CommandIsRead` and `CommandsAreRead` are its three uses;
  - `Coding` is what a pair of escapes and letters must satisfy: a character is
    understood, or its letter is unknown. The two pairs of the code have it
    (`Codings`); they differ in what is lost;
  - `ScheduleField` finds the first place at which the name of the field stands in
    quotes: behind the commands, or in a word (`InsideCommands`, `ScheduleInWord`);
  - `SplitIs` and `LinesRead` are inductions over the words typed and the
    characters of the file, with what has been cut so far as the invariant.

Sums, growth and the loops that read texts are local recursive functions (`RunsFit`,
`GrownCapacity`, `ReadString`). The proofs say of them that a function with that
equation exists, and reason from the equation by least counterexample: an induction
over data that needs no theorem of the library.

Only model-checked: liveness (`ScanTerminates`, `RequestsServed`, `ShutdownEnds`,
`DueTasksTakeTurns`, `RunReturns`, `ClientsEnd`), which this prover cannot do, as it has no rule
for fairness and `ENABLED`. The properties of the runs that expect a violation are
false, and for each the run shows the step that breaks it.

## 7. Not modelled

* A request in pieces in `Erraid` and `Loop`, where it is whole when `poll` reports it
  and its reply is always written: `Pipes` has the pieces, without the runs.
* The text of lists, of lines of history and of errors, and the lengths of all
  payloads but those of outputs, among them the buffer of 4096 octets of
  `write_command_line_fd`. A list too long for a message is an error that changes
  nothing (`ListLimit`, `HistoryLimit`).
* The parsing of integers and of masks, digit by digit; paths and directories;
  the options of `erraid` and the build: they have no state.
* SIGPIPE in the notifier, which only wakes the loop.
* Loss of power: a killed process loses nothing it wrote, so `fsync` has no
  effect here, and the absence of an `fsync` of directories is not examined.
* `snapshot` names that collide: runs of a task have different epochs, by
  `RunsOncePerMinute`, unless the clock is set back, which is not modelled.
* The flags that say an output was truncated, which nothing reads.
