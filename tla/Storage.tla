------------------------------ MODULE Storage ------------------------------
(***************************************************************************)
(* The operations of src/src/shared/storage.c that change files, one step  *)
(* per system call that matters, as the handlers and runs of daemon.c call *)
(* them.  The process may be killed between any two calls and started      *)
(* again.                                                                  *)
(*                                                                         *)
(* Abstractions: a file is its decoded content, an output its length;      *)
(* directories exist; a killed process loses nothing it has written (fsync *)
(* matters only to the loss of power, which is not modelled).              *)
(***************************************************************************)
EXTENDS Integers, Sequences, FiniteSets

CONSTANTS
    MaxId,         \* bound: tasks created in a behaviour
    MaxRuns,       \* bound: runs in a behaviour
    Lengths,       \* lengths of an output
    SnapshotCount, \* outputs kept besides the last (ERRAID_STDIO_SNAPSHOT_COUNT)
    FaultKinds,    \* failures that may happen, see AllFaultKinds
    MaxFaults,     \* bound: failures in a behaviour
    MaxCrashes,    \* bound: times the process is killed
    AtomicIds      \* next_id is never left without its number

AllFaultKinds ==
    {"call",  \* a call fails and changes nothing
     "torn"}  \* a write of next_id or history.log stops short (no space)

ASSUME StorageAssumption ==
    /\ MaxId \in Nat /\ MaxRuns \in Nat /\ Lengths \subseteq Nat
    /\ SnapshotCount \in Nat
    /\ FaultKinds \subseteq AllFaultKinds
    /\ MaxFaults \in Nat /\ MaxCrashes \in Nat /\ AtomicIds \in BOOLEAN

Ids == 1..MaxId
Epochs == 1..MaxRuns
Streams == {"out", "err"}

(* Content of a file that is open and not fully written.                   *)
Partial == -2
(* Length of an output file that does not exist.                           *)
Missing == -1

VARIABLES
    next_id,    \* content of next_id, 0 when missing or empty
    task_file,  \* last_run_epoch in <id>.task, of the files that exist
    tmp_file,   \* the same for <id>.task.tmp
    history,    \* lines of history.log, of the files that exist
    torn,       \* identifiers whose history.log ends inside a line
    last,       \* lengths of last.stdout and last.stderr
    snaps,      \* epochs in the names of the snapshots
    pc,         \* next call; "idle" between operations
    op,         \* the operation: identifier, epoch, lengths
    known,      \* identifiers in the array of the daemon
    clock,      \* runs started
    faults, crashes,
    created,    \* observed: identifiers given to a task
    displaced   \* observed: epochs of all snapshots ever made

files == <<next_id, task_file, tmp_file, history, torn, last, snaps>>
vars == <<files, pc, op, known, clock, faults, crashes, created, displaced>>

NoOp == [id |-> 0, epoch |-> 0, out |-> 0, err |-> 0]

Put(f, x, v) == [y \in DOMAIN f \cup {x} |-> IF y = x THEN v ELSE f[y]]
Drop(f, x)   == [y \in DOMAIN f \ {x} |-> f[y]]

History(id) == IF id \in DOMAIN history THEN history[id] ELSE <<>>

Fails(kind) ==
    /\ kind \in FaultKinds /\ faults < MaxFaults
    /\ faults' = faults + 1

(* A call succeeds, or it fails and the operation goes on at `next`.       *)
FailsTo(next) ==
    /\ Fails("call")
    /\ pc' = next
    /\ UNCHANGED <<files, displaced>>

quiet == <<op, known, clock, crashes, created>>

-----------------------------------------------------------------------------
(* handle_create_task: storage_allocate_task_id, then storage_write_task.  *)

(* Mutant: last_run_epoch is left at zero.                                 *)
BeginCreateZero ==
    /\ pc = "idle"
    /\ Cardinality(created) < MaxId
    /\ pc' = "truncate_id" /\ op' = NoOp
    /\ UNCHANGED <<files, known, clock, faults, crashes, created, displaced>>

BeginCreate ==
    /\ pc = "idle"
    /\ Cardinality(created) < MaxId
    /\ pc' = "truncate_id" /\ op' = [NoOp EXCEPT !.epoch = -1]
    /\ UNCHANGED <<files, known, clock, faults, crashes, created, displaced>>

(* next_id is read, one if it is empty, and emptied.                       *)
TruncateId ==
    /\ pc = "truncate_id"
    /\ LET id == IF next_id = 0 THEN 1 ELSE next_id IN
       /\ id <= MaxId
       /\ \/ /\ op' = [op EXCEPT !.id = id]
             /\ next_id' = 0
             /\ pc' = "write_id"
             /\ UNCHANGED <<task_file, tmp_file, history, torn, last, snaps,
                            faults, displaced>>
          \/ FailsTo("idle") /\ UNCHANGED op
    /\ UNCHANGED <<known, clock, crashes, created>>

(* A write that stops short leaves no digit, or a number without its end   *)
(* of line.                                                                *)
WriteId ==
    /\ pc = "write_id"
    /\ \/ next_id' = op.id + 1 /\ pc' = "open_tmp" /\ UNCHANGED faults
       \/ /\ next_id' \in {op.id + 1} \cup (IF AtomicIds THEN {} ELSE {0})
          /\ pc' = "idle" /\ Fails("torn")
       \/ next_id' = op.id + 1 /\ pc' = "idle" /\ Fails("call")
    /\ UNCHANGED <<task_file, tmp_file, history, torn, last, snaps, displaced,
                   quiet>>

-----------------------------------------------------------------------------
(* write_task_file, of a new task (epoch -1) or after a run.               *)

(* Mutant: the file itself is opened and truncated.                        *)
OpenInPlace ==
    /\ pc = "open_tmp"
    /\ tmp_file' = Put(tmp_file, op.id, Partial)
    /\ task_file' = Put(task_file, op.id, Partial)
    /\ pc' = "write_tmp"
    /\ UNCHANGED <<next_id, history, torn, last, snaps, displaced, faults,
                   quiet>>

OpenTmp ==
    /\ pc = "open_tmp"
    /\ \/ /\ tmp_file' = Put(tmp_file, op.id, Partial)
          /\ pc' = "write_tmp"
          /\ UNCHANGED <<next_id, task_file, history, torn, last, snaps,
                         displaced, faults>>
       \/ FailsTo("idle")
    /\ UNCHANGED quiet

(* The writes and fsync; a failure removes the temporary file.             *)
WriteTmp ==
    /\ pc = "write_tmp"
    /\ \/ /\ tmp_file' = Put(tmp_file, op.id, op.epoch)
          /\ pc' = "rename_tmp" /\ UNCHANGED faults
       \/ /\ tmp_file' = Drop(tmp_file, op.id)
          /\ pc' = "idle" /\ Fails("call")
    /\ UNCHANGED <<next_id, task_file, history, torn, last, snaps, displaced,
                   quiet>>

(* A creation then adds the task to the array of the daemon.               *)
RenameTmp ==
    /\ pc = "rename_tmp"
    /\ \/ /\ task_file' = Put(task_file, op.id, tmp_file[op.id])
          /\ known' = known \cup {op.id}
          /\ created' = created \cup {op.id}
          /\ UNCHANGED faults
       \/ /\ Fails("call")
          /\ UNCHANGED <<task_file, known, created>>
    /\ tmp_file' = Drop(tmp_file, op.id)
    /\ pc' = "idle"
    /\ UNCHANGED <<next_id, history, torn, last, snaps, displaced, op, clock,
                   crashes>>

-----------------------------------------------------------------------------
(* storage_remove_task                                                     *)

BeginRemove ==
    /\ pc = "idle"
    /\ \E id \in known : op' = [NoOp EXCEPT !.id = id]
    /\ pc' = "unlink_task"
    /\ UNCHANGED <<files, known, clock, faults, crashes, created, displaced>>

(* Mutant: the history is unlinked first.                                  *)
UnlinkHistoryFirst ==
    /\ pc = "unlink_task"
    /\ \/ /\ op.id \in DOMAIN history
          /\ history' = Drop(history, op.id)
          /\ UNCHANGED <<task_file, pc, known>>
       \/ /\ op.id \notin DOMAIN history
          /\ task_file' = Drop(task_file, op.id)
          /\ known' = known \ {op.id}
          /\ pc' = "unlink_history"
          /\ UNCHANGED history
    /\ UNCHANGED <<next_id, tmp_file, torn, last, snaps, displaced, faults, op,
                   clock, crashes, created>>

UnlinkTask ==
    /\ pc = "unlink_task"
    /\ \/ /\ op.id \in DOMAIN task_file
          /\ task_file' = Drop(task_file, op.id)
          /\ known' = known \ {op.id}
          /\ pc' = "unlink_history"
          /\ UNCHANGED <<next_id, tmp_file, history, torn, last, snaps, displaced,
                         faults>>
       \/ FailsTo("idle") /\ UNCHANGED known
    /\ UNCHANGED <<op, clock, crashes, created>>

(* The results of these calls are ignored.                                 *)
UnlinkHistory ==
    /\ pc = "unlink_history"
    /\ pc' = "unlink_outputs"
    /\ \/ /\ history' = Drop(history, op.id) /\ torn' = torn \ {op.id}
          /\ UNCHANGED faults
       \/ Fails("call") /\ UNCHANGED <<history, torn>>
    /\ UNCHANGED <<next_id, task_file, tmp_file, last, snaps, displaced, quiet>>

(* Both outputs; the snapshots stay, and rmdir fails if there are any.     *)
UnlinkOutputs ==
    /\ pc = "unlink_outputs"
    /\ pc' = "idle"
    /\ last' = [last EXCEPT ![op.id] = [s \in Streams |-> Missing]]
    /\ UNCHANGED <<next_id, task_file, tmp_file, history, torn, snaps, displaced,
                   faults, quiet>>

-----------------------------------------------------------------------------
(* run_task_instance: storage_append_history, whose result is ignored, and *)
(* then storage_write_task.  Runs have increasing epochs.                  *)

BeginRun ==
    /\ pc = "idle" /\ clock < MaxRuns
    /\ \E id \in known, out \in Lengths, err \in Lengths :
           op' = [id |-> id, epoch |-> clock + 1, out |-> out, err |-> err]
    /\ clock' = clock + 1
    /\ pc' = "rotate_out"
    /\ UNCHANGED <<files, known, faults, crashes, created, displaced>>

(* rotate_stdio_snapshot: an output that is not empty becomes a snapshot   *)
(* named after the run that displaces it.  No snapshot has that name: two  *)
(* runs of a task never start in the same second.                          *)
Rotate(stream, pruning, next) ==
    /\ \/ /\ last[op.id][stream] \in {Missing, 0}
          /\ pc' = next
          /\ UNCHANGED <<last, snaps, displaced, faults>>
       \/ /\ last[op.id][stream] \notin {Missing, 0}
          /\ last' = [last EXCEPT ![op.id][stream] = Missing]
          /\ snaps' = [snaps EXCEPT ![op.id][stream] = @ \cup {op.epoch}]
          /\ displaced' = [displaced EXCEPT ![op.id][stream] = @ \cup {op.epoch}]
          /\ pc' = pruning
          /\ UNCHANGED faults
       \/ /\ Fails("call")
          /\ pc' = "open_tmp"
          /\ UNCHANGED <<last, snaps, displaced>>
    /\ UNCHANGED <<next_id, task_file, tmp_file, history, torn, quiet>>

(* Mutant: the sort is ascending.                                          *)
BeyondOldest(S, n) == {e \in S : Cardinality({x \in S : x < e}) >= n}

(* The epochs of S with at least n greater ones in S.                      *)
Beyond(S, n) == {e \in S : Cardinality({x \in S : x > e}) >= n}

(* prune_snapshots: one unlink at a time of those after the newest.  To    *)
(* list the directory may fail; a failed unlink is ignored.                *)
Prune(stream, next) ==
    LET excess == Beyond(snaps[op.id][stream], SnapshotCount) IN
    /\ \/ /\ excess # {}
          /\ LET e == CHOOSE x \in excess : \A y \in excess : y <= x
             IN  snaps' = [snaps EXCEPT ![op.id][stream] = @ \ {e}]
          /\ UNCHANGED <<pc, faults>>
       \/ /\ excess = {}
          /\ pc' = next
          /\ UNCHANGED <<snaps, faults>>
       \/ /\ Fails("call")
          /\ pc' \in {"open_tmp"} \cup (IF excess # {} THEN {next} ELSE {})
          /\ UNCHANGED snaps
    /\ UNCHANGED <<next_id, task_file, tmp_file, history, torn, last, displaced,
                   quiet>>

(* An output file is created empty, and then written.                      *)
OpenOutput(stream, next) ==
    /\ \/ /\ last' = [last EXCEPT ![op.id][stream] = 0]
          /\ pc' = next
          /\ UNCHANGED <<next_id, task_file, tmp_file, history, torn, snaps,
                         displaced, faults>>
       \/ FailsTo("open_tmp")
    /\ UNCHANGED quiet

WriteOutput(stream, length, next) ==
    /\ \/ /\ last' = [last EXCEPT ![op.id][stream] = length]
          /\ pc' = next
          /\ UNCHANGED <<next_id, task_file, tmp_file, history, torn, snaps,
                         displaced, faults>>
       \/ FailsTo("open_tmp")
    /\ UNCHANGED quiet

RotateOut == pc = "rotate_out" /\ Rotate("out", "prune_out", "rotate_err")
PruneOut  == pc = "prune_out" /\ Prune("out", "rotate_err")
RotateErr == pc = "rotate_err" /\ Rotate("err", "prune_err", "open_out")
PruneErr  == pc = "prune_err" /\ Prune("err", "open_out")
OpenOut   == pc = "open_out" /\ OpenOutput("out", "write_out")
WriteOut  == pc = "write_out" /\ WriteOutput("out", op.out, "open_err")
OpenErr   == pc = "open_err" /\ OpenOutput("err", "write_err")
WriteErr  == pc = "write_err" /\ WriteOutput("err", op.err, "append_line")

Line == [epoch |-> op.epoch, out |-> op.out, err |-> op.err]

(* A line appended after a torn one continues it, and is lost with it.     *)
AppendLine ==
    /\ pc = "append_line"
    /\ pc' = "open_tmp"
    /\ \/ /\ history' = IF op.id \in torn
                        THEN history
                        ELSE Put(history, op.id, Append(History(op.id), Line))
          /\ UNCHANGED <<torn, faults>>
       \/ Fails("torn") /\ torn' = torn \cup {op.id} /\ UNCHANGED history
       \/ Fails("call") /\ UNCHANGED <<history, torn>>
    /\ UNCHANGED <<next_id, task_file, tmp_file, last, snaps, displaced, quiet>>

-----------------------------------------------------------------------------
(* The process is killed, and the next one loads the task files.           *)
Crash ==
    /\ pc # "idle" /\ crashes < MaxCrashes
    /\ AtomicIds => pc # "write_id"
    /\ crashes' = crashes + 1
    /\ pc' = "idle" /\ op' = NoOp
    /\ known' = DOMAIN task_file
    /\ UNCHANGED <<files, clock, faults, created, displaced>>

Init ==
    /\ next_id = 0 /\ task_file = <<>> /\ tmp_file = <<>> /\ history = <<>>
    /\ torn = {}
    /\ last = [id \in Ids |-> [s \in Streams |-> Missing]]
    /\ snaps = [id \in Ids |-> [s \in Streams |-> {}]]
    /\ pc = "idle" /\ op = NoOp /\ known = {} /\ clock = 0
    /\ faults = 0 /\ crashes = 0
    /\ created = {} /\ displaced = snaps

Create == BeginCreate \/ TruncateId \/ WriteId
Write  == OpenTmp \/ WriteTmp \/ RenameTmp
Remove == BeginRemove \/ UnlinkTask \/ UnlinkHistory \/ UnlinkOutputs

Append_history ==
    \/ BeginRun \/ RotateOut \/ PruneOut \/ RotateErr \/ PruneErr
    \/ OpenOut \/ WriteOut \/ OpenErr \/ WriteErr \/ AppendLine

Next == Create \/ Write \/ Remove \/ Append_history \/ Crash

Spec == Init /\ [][Next]_vars

-----------------------------------------------------------------------------
TypeOK ==
    /\ next_id \in 0..(MaxId + 1)
    /\ DOMAIN task_file \subseteq Ids /\ DOMAIN history \subseteq Ids
    /\ \A id \in DOMAIN task_file :
           task_file[id] \in Epochs \cup {-1, Partial}
    /\ DOMAIN tmp_file \subseteq Ids
    /\ \A id \in DOMAIN tmp_file :
           tmp_file[id] \in Epochs \cup {-1, Partial}
    /\ \A id \in DOMAIN history :
           history[id] \in Seq([epoch : Epochs, out : Lengths, err : Lengths])
    /\ torn \subseteq Ids /\ known \subseteq Ids /\ created \subseteq Ids
    /\ last \in [Ids -> [Streams -> Lengths \cup {0, Missing}]]
    /\ snaps \in [Ids -> [Streams -> SUBSET Epochs]]
    /\ clock \in 0..MaxRuns

(* ARCHITECTURE.md:67: whenever the process is killed, the file of every   *)
(* task is there and complete.  One file that is cut short would keep      *)
(* erraid from starting again.                                             *)
TaskFilesWhole == \A id \in DOMAIN task_file : task_file[id] # Partial

(* The newest outputs that were replaced are kept, whatever is cut short   *)
(* while older ones are pruned, and pruning makes up for it.               *)
SnapshotsAreNewest ==
    \A id \in Ids, stream \in Streams :
        LET kept == snaps[id][stream]
            all  == displaced[id][stream]
        IN  /\ \A e \in all :
                   Cardinality({x \in all : x > e}) < SnapshotCount => e \in kept
            /\ pc = "idle" => Cardinality(kept) <=
                                  SnapshotCount + crashes + faults

(* To a reader of the files, every operation happens at once: creation and *)
(* removal with the task file, a run with its line of history and then     *)
(* with its last_run_epoch, a removed task's history with its file.  A     *)
(* history with a line cut short is not readable: storage_load_history     *)
(* refuses all of it, or reads runs that never were.                       *)
Abstract == INSTANCE TaskStore WITH
    tasks <- task_file,
    runs  <- [id \in DOMAIN task_file \ torn |->
                  [i \in DOMAIN History(id) |-> History(id)[i].epoch]]

IsTaskStore == Abstract!Spec
=============================================================================
