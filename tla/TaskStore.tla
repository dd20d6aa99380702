----------------------------- MODULE TaskStore -----------------------------
(***************************************************************************)
(* What the daemon needs of its storage: a store of tasks and of their     *)
(* runs, in which a creation, a removal, and each of the two records a run *)
(* leaves happen at once or not at all; a full disk may cost a task its    *)
(* history, never the task.  Storage implements it.                        *)
(***************************************************************************)
EXTENDS Integers, Sequences

CONSTANTS
    Ids,      \* identifiers of tasks
    Epochs    \* instants

VARIABLES
    tasks,    \* last_run_epoch of each task
    runs,     \* epochs in the history of each task that can be read
    created   \* identifiers ever given to a task

store == <<tasks, runs, created>>

Init == tasks = <<>> /\ runs = <<>> /\ created = {}

Set(f, id, v) == [x \in DOMAIN f \cup {id} |-> IF x = id THEN v ELSE f[x]]
Unset(f, id)  == [x \in DOMAIN f \ {id} |-> f[x]]

(* A task gets an identifier no task has had, and has never run.           *)
Create(id) ==
    /\ id \notin created
    /\ tasks' = Set(tasks, id, -1)
    /\ runs' = Set(runs, id, <<>>)
    /\ created' = created \cup {id}

Remove(id) ==
    /\ id \in DOMAIN tasks
    /\ tasks' = Unset(tasks, id)
    /\ runs' = Unset(runs, id)
    /\ UNCHANGED created

(* The history only grows, in the order of time.                           *)
Run(id) ==
    /\ id \in DOMAIN runs
    /\ \E epoch \in Epochs :
           /\ \A i \in DOMAIN runs[id] : runs[id][i] < epoch
           /\ tasks[id] < epoch
           /\ runs' = Set(runs, id, Append(runs[id], epoch))
    /\ UNCHANGED <<tasks, created>>

(* The last run of a task only grows, and is not behind its history.       *)
Save(id) ==
    /\ id \in DOMAIN tasks
    /\ \E epoch \in Epochs :
           /\ id \in DOMAIN runs =>
                  \A i \in DOMAIN runs[id] : runs[id][i] <= epoch
           /\ tasks[id] < epoch
           /\ tasks' = Set(tasks, id, epoch)
    /\ UNCHANGED <<runs, created>>

(* A line of the history is cut short, and the history with it.            *)
LoseHistory(id) ==
    /\ id \in DOMAIN runs
    /\ runs' = Unset(runs, id)
    /\ UNCHANGED <<tasks, created>>

Next ==
    \E id \in Ids :
        Create(id) \/ Remove(id) \/ Run(id) \/ Save(id) \/ LoseHistory(id)

Spec == Init /\ [][Next]_store
=============================================================================
