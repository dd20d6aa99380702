--------------------------- MODULE StorageProofs ---------------------------
(***************************************************************************)
(* The storage for every number of tasks, runs, failures and kills: types, *)
(* task files that are always whole, the snapshots that are kept, and the  *)
(* implementation of TaskStore.                                            *)
(***************************************************************************)
EXTENDS Storage, FiniteSetTheorems, SequenceTheorems, WellFoundedInduction,
        TLAPS

Pcs ==
    {"idle", "truncate_id", "write_id", "open_tmp", "write_tmp", "rename_tmp",
     "unlink_task", "unlink_history", "unlink_outputs", "rotate_out",
     "prune_out", "rotate_err", "prune_err", "open_out", "write_out",
     "open_err", "write_err", "append_line"}

Writing == {"open_tmp", "write_tmp", "rename_tmp"}
Running == {"rotate_out", "prune_out", "rotate_err", "prune_err", "open_out",
            "write_out", "open_err", "write_err", "append_line"}

OpType ==
    [id : Ids \cup {0}, epoch : Epochs \cup {-1, 0},
     out : Lengths \cup {0}, err : Lengths \cup {0}]

(* A task file is written for a task that is created, whose epoch is -1,   *)
(* or after the run that was started last, for a task that exists.         *)
Run == op.epoch = clock /\ clock \in Epochs /\ op.id \in known

(* What the operation is, at each of its calls.                            *)
OpOK ==
    /\ pc \in Pcs /\ op \in OpType
    /\ pc \in {"truncate_id", "write_id"} => op.epoch = -1
    /\ pc = "write_id" => op.id \in Ids
    /\ pc \in Writing => op.id \in Ids /\ (op.epoch = -1 \/ Run)
    /\ pc \in Running => Run /\ op.out \in Lengths /\ op.err \in Lengths
    /\ pc = "unlink_task" => op.id \in known
    /\ pc \in {"unlink_history", "unlink_outputs"} => op.id \in created \ known

(* The daemon and the files have the same tasks, and nothing is left of a  *)
(* task that never was; the temporary file is the one that is written.     *)
TasksOK ==
    /\ known = DOMAIN task_file /\ known \subseteq created
    /\ DOMAIN history \subseteq created /\ torn \subseteq created
    /\ pc = "rename_tmp" =>
           op.id \in DOMAIN tmp_file /\ tmp_file[op.id] = op.epoch

(* No file is ahead of the clock, and during a run the task's are behind.  *)
TimesOK ==
    /\ \A id \in DOMAIN task_file : task_file[id] <= clock
    /\ \A id \in DOMAIN history : \A i \in DOMAIN history[id] :
           history[id][i].epoch <= clock
    /\ pc \in Running \cup Writing /\ op.epoch # -1 => task_file[op.id] < clock
    /\ pc \in Running /\ op.id \in DOMAIN history =>
           \A i \in DOMAIN history[op.id] : history[op.id][i].epoch < clock

(* The invariant needs all of it: a file is whole because what is renamed  *)
(* was written, and typed because the operation is.                        *)
FileInv == TypeOK /\ TaskFilesWhole /\ OpOK /\ TasksOK /\ TimesOK

(* The identifier that the next creation, or this one, takes.              *)
NextId == IF pc = "write_id" THEN op.id ELSE IF next_id = 0 THEN 1 ELSE next_id

(* No identifier is given twice.                                           *)
IdInv ==
    /\ \A id \in created : id < NextId
    /\ pc \in Writing /\ op.epoch = -1 =>
           op.id \notin created /\ op.id < NextId


-----------------------------------------------------------------------------
(* Which steps may change what.                                            *)

LEMMA Changes ==
    ASSUME [Next]_vars
    PROVE  /\ RenameTmp \/ UnlinkTask \/ UNCHANGED task_file
           /\ \/ RenameTmp \/ UnlinkTask \/ Crash
              \/ UNCHANGED <<known, created>>
           /\ AppendLine \/ UnlinkHistory \/ UNCHANGED <<history, torn>>
           /\ \/ UnlinkOutputs \/ RotateOut \/ RotateErr \/ OpenOut \/ OpenErr
              \/ WriteOut \/ WriteErr \/ UNCHANGED last
           /\ \/ RotateOut \/ RotateErr \/ PruneOut \/ PruneErr
              \/ UNCHANGED <<snaps, displaced>>
           /\ BeginRun \/ UNCHANGED clock
BY DEF Next, Create, Write, Remove, Append_history, BeginCreate, TruncateId,
        WriteId, OpenTmp, WriteTmp, RenameTmp, BeginRemove, UnlinkTask,
        UnlinkHistory, UnlinkOutputs, BeginRun, RotateOut, RotateErr, Rotate,
        PruneOut, PruneErr, Prune, OpenOut, OpenErr, OpenOutput, WriteOut,
        WriteErr, WriteOutput, AppendLine, Crash, files, quiet, vars, Fails,
        FailsTo

(* The counters, and the file of the next identifier.                      *)
LEMMA CountersChange ==
    ASSUME [Next]_vars
    PROVE  /\ crashes' = crashes \/ crashes' = crashes + 1
           /\ faults' = faults \/ faults' = faults + 1
           /\ TruncateId \/ WriteId \/ UNCHANGED next_id
<1>1. Crash \/ crashes' = crashes
    BY DEF Next, Create, Write, Remove, Append_history, BeginCreate, TruncateId,
        WriteId, OpenTmp, WriteTmp, RenameTmp, BeginRemove, UnlinkTask,
        UnlinkHistory, UnlinkOutputs, BeginRun, RotateOut, RotateErr, Rotate,
        PruneOut, PruneErr, Prune, OpenOut, OpenErr, OpenOutput, WriteOut,
        WriteErr, WriteOutput, AppendLine, Crash, files, quiet, vars, Fails,
        FailsTo
<1>2. faults' = faults \/ faults' = faults + 1
    BY DEF Next, Create, Write, Remove, Append_history, BeginCreate, TruncateId,
        WriteId, OpenTmp, WriteTmp, RenameTmp, BeginRemove, UnlinkTask,
        UnlinkHistory, UnlinkOutputs, BeginRun, RotateOut, RotateErr, Rotate,
        PruneOut, PruneErr, Prune, OpenOut, OpenErr, OpenOutput, WriteOut,
        WriteErr, WriteOutput, AppendLine, Crash, files, quiet, vars, Fails,
        FailsTo
<1>3. TruncateId \/ WriteId \/ UNCHANGED next_id
    BY DEF Next, Create, Write, Remove, Append_history, BeginCreate, TruncateId,
        WriteId, OpenTmp, WriteTmp, RenameTmp, BeginRemove, UnlinkTask,
        UnlinkHistory, UnlinkOutputs, BeginRun, RotateOut, RotateErr, Rotate,
        PruneOut, PruneErr, Prune, OpenOut, OpenErr, OpenOutput, WriteOut,
        WriteErr, WriteOutput, AppendLine, Crash, files, quiet, vars, Fails,
        FailsTo
<1> QED
    BY <1>1, <1>2, <1>3 DEF Crash

(* One entry of a table of both outputs of every task is replaced.         *)
LEMMA EntryReplaced ==
    ASSUME NEW T, NEW f \in [Ids -> [Streams -> T]], NEW id \in Ids,
           NEW stream \in Streams, NEW v \in T
    PROVE  /\ [f EXCEPT ![id][stream] = v] \in [Ids -> [Streams -> T]]
           /\ \A i \in Ids, s \in Streams :
                  [f EXCEPT ![id][stream] = v][i][s] =
                      IF i = id /\ s = stream THEN v ELSE f[i][s]
OBVIOUS

(* A call of a run replaces at most one entry, of the task that runs.      *)
LEMMA RunFacts ==
    ASSUME FileInv, pc \in Running
    PROVE  /\ op.id \in Ids /\ op.epoch \in Epochs
           /\ op.out \in Lengths /\ op.err \in Lengths
BY DEF FileInv, OpOK, Run, TypeOK

LEMMA LastChanges ==
    ASSUME FileInv, [Next]_vars
    PROVE  \/ UnlinkOutputs \/ UNCHANGED last
           \/ /\ op.id \in Ids
              /\ \E stream \in Streams, v \in Lengths \cup {0, Missing} :
                     last' = [last EXCEPT ![op.id][stream] = v]
<1> USE DEF Streams, Running
<1>1. CASE RotateOut \/ RotateErr
    BY <1>1, RunFacts DEF RotateOut, RotateErr, Rotate
<1>2. CASE OpenOut \/ OpenErr
    BY <1>2, RunFacts DEF OpenOut, OpenErr, OpenOutput, FailsTo, files
<1>3. CASE WriteOut \/ WriteErr
    BY <1>3, RunFacts DEF WriteOut, WriteErr, WriteOutput, FailsTo, files
<1> QED
    BY <1>1, <1>2, <1>3, Changes

LEMMA SnapsChange ==
    ASSUME FileInv, [Next]_vars
    PROVE  \/ UNCHANGED <<snaps, displaced>>
           \/ /\ op.id \in Ids /\ op.epoch \in Epochs
              /\ \E stream \in Streams :
                     \E S \in SUBSET (snaps[op.id][stream] \cup {op.epoch}) :
                         snaps' = [snaps EXCEPT ![op.id][stream] = S]
<1> USE DEF Streams, Running
<1>1. CASE RotateOut \/ RotateErr
    BY <1>1, RunFacts DEF RotateOut, RotateErr, Rotate
<1>2. CASE PruneOut \/ PruneErr
    BY <1>2, RunFacts DEF PruneOut, PruneErr, Prune
<1> QED
    BY <1>1, <1>2, Changes

LEMMA TypeStep ==
    ASSUME FileInv, [Next]_vars
    PROVE  TypeOK'
<1> USE StorageAssumption DEF FileInv, TypeOK, OpOK, Ids, Epochs
<1>1. (next_id \in 0..(MaxId + 1) /\ clock \in 0..MaxRuns)'
    <2>1. next_id' \in 0..(MaxId + 1)
        <3>1. CASE TruncateId
            BY <3>1 DEF TruncateId, FailsTo, files
        <3>2. CASE WriteId
            <4>1. op.id \in 1..MaxId
                BY <3>2 DEF WriteId, Writing
            <4>2. next_id' = op.id + 1 \/ next_id' = 0
                BY <3>2 DEF WriteId
            <4> QED
                BY <4>1, <4>2
        <3> QED
            BY <3>1, <3>2, CountersChange
    <2>2. clock' \in 0..MaxRuns
        BY Changes DEF BeginRun
    <2> QED
        BY <2>1, <2>2
<1>2. (/\ DOMAIN task_file \subseteq Ids
       /\ \A id \in DOMAIN task_file :
              task_file[id] \in Epochs \cup {-1, Partial})'
    BY Changes DEF RenameTmp, UnlinkTask, FailsTo, files, Put, Drop, TasksOK, Writing, Run
<1>3. (/\ DOMAIN tmp_file \subseteq Ids
       /\ \A id \in DOMAIN tmp_file :
              tmp_file[id] \in Epochs \cup {-1, Partial})'
    BY DEF Pcs, OpType, Writing, Run, Put, Drop, Next, Create, Write, Remove, Append_history, BeginCreate, TruncateId,
        WriteId, OpenTmp, WriteTmp, RenameTmp, BeginRemove, UnlinkTask,
        UnlinkHistory, UnlinkOutputs, BeginRun, RotateOut, RotateErr, Rotate,
        PruneOut, PruneErr, Prune, OpenOut, OpenErr, OpenOutput, WriteOut,
        WriteErr, WriteOutput, AppendLine, Crash, files, quiet, vars, Fails,
        FailsTo
<1>4. (/\ DOMAIN history \subseteq Ids
       /\ \A id \in DOMAIN history :
           history[id] \in Seq([epoch : Epochs, out : Lengths, err : Lengths]))'
    <2> DEFINE Entry == [epoch : Epochs, out : Lengths, err : Lengths]
               Lines == Seq(Entry)
    <2>1. CASE AppendLine
        <3>1. Line \in Entry
            BY <2>1 DEF AppendLine, Line, OpType, Running, Run
        <3>2. History(op.id) \in Lines
            BY EmptySeq DEF History
        <3>3. Append(History(op.id), Line) \in Lines
            BY <3>1, <3>2
        <3>4. op.id \in Ids
            BY <2>1 DEF AppendLine, Running, Run
        <3>5. /\ DOMAIN history \subseteq Ids
              /\ \A id \in DOMAIN history : history[id] \in Lines
            OBVIOUS
        <3> HIDE DEF Lines
        <3>6. \/ UNCHANGED history
              \/ history' = Put(history, op.id, Append(History(op.id), Line))
            BY <2>1 DEF AppendLine
        <3>7. DOMAIN history' \subseteq Ids /\ \A id \in DOMAIN history' : history'[id] \in Lines
            BY <3>3, <3>4, <3>5, <3>6 DEF Put
        <3> QED
            BY <3>7 DEF Lines
    <2>2. CASE UnlinkHistory
        BY <2>2 DEF UnlinkHistory, Drop
    <2>3. CASE UNCHANGED <<history, torn>>
        BY <2>3
    <2> QED
        BY <2>1, <2>2, <2>3, Changes
<1>5. (torn \subseteq Ids /\ known \subseteq Ids /\ created \subseteq Ids)'
    BY Changes DEF RenameTmp, UnlinkTask, Crash, AppendLine, UnlinkHistory, TasksOK,
        Pcs, OpType, Writing, Running, Run, files, quiet
<1>6. (last \in [Ids -> [Streams -> Lengths \cup {0, Missing}]])'
    <2>1. CASE UnlinkOutputs
        BY <2>1 DEF UnlinkOutputs
    <2>2. ASSUME NEW stream \in Streams, NEW v \in Lengths \cup {0, Missing},
                 op.id \in Ids, last' = [last EXCEPT ![op.id][stream] = v]
          PROVE  last' \in [Ids -> [Streams -> Lengths \cup {0, Missing}]]
        BY <2>2, EntryReplaced DEF Ids
    <2>3. CASE UNCHANGED last
        BY <2>3
    <2> QED
        BY <2>1, <2>2, <2>3, LastChanges
<1>7. (snaps \in [Ids -> [Streams -> SUBSET Epochs]])'
    <2>1. ASSUME NEW stream \in Streams, op.id \in Ids, op.epoch \in Epochs,
                 NEW S \in SUBSET (snaps[op.id][stream] \cup {op.epoch}),
                 snaps' = [snaps EXCEPT ![op.id][stream] = S]
          PROVE  snaps' \in [Ids -> [Streams -> SUBSET Epochs]]
        <3>1. S \in SUBSET Epochs
            BY <2>1, SMTT(20)
        <3> QED
            BY <2>1, <3>1, EntryReplaced
    <2>2. CASE UNCHANGED <<snaps, displaced>>
        BY <2>2
    <2> QED
        BY <2>1, <2>2, SnapsChange
<1> QED
    BY <1>1, <1>2, <1>3, <1>4, <1>5, <1>6, <1>7

(* What is renamed is complete.                                            *)
LEMMA WholeStep ==
    ASSUME FileInv, [Next]_vars
    PROVE  TaskFilesWhole'
<1> USE DEF FileInv, TaskFilesWhole
<1>1. CASE RenameTmp
    <2>1. op.epoch \in Int /\ op.epoch # Partial
        BY <1>1, StorageAssumption DEF RenameTmp, OpOK, OpType, Run, Writing, Epochs, Partial
    <2> QED
        BY <1>1, <2>1 DEF RenameTmp, Put, TasksOK
<1>2. CASE UnlinkTask
    BY <1>2 DEF UnlinkTask, FailsTo, files, Drop
<1>3. CASE UNCHANGED task_file
    BY <1>3
<1> QED
    BY <1>1, <1>2, <1>3, Changes

LEMMA OpStep ==
    ASSUME FileInv, [Next]_vars
    PROVE  OpOK'
<1> USE StorageAssumption
        DEF FileInv, TypeOK, OpOK, OpType, Run, Pcs, Writing, Running, Ids, Epochs,
        NoOp, Fails, FailsTo, files, quiet
<1>1. CASE Create
    <2>1. CASE BeginCreate
        BY <2>1 DEF BeginCreate
    <2>2. CASE TruncateId
        BY <2>2, SMTT(20) DEF TruncateId
    <2>3. CASE WriteId
        BY <2>3 DEF WriteId
    <2> QED
        BY <1>1, <2>1, <2>2, <2>3 DEF Create
<1>2. CASE Write
    <2>1. CASE OpenTmp \/ WriteTmp
        BY <2>1 DEF OpenTmp, WriteTmp
    <2>2. CASE RenameTmp
        BY <2>2 DEF RenameTmp
    <2> QED
        BY <1>2, <2>1, <2>2 DEF Write
<1>3. CASE Remove
    BY <1>3 DEF Remove, BeginRemove, UnlinkTask, UnlinkHistory, UnlinkOutputs, TasksOK
<1>4. CASE Append_history
    <2>1. CASE BeginRun
        BY <2>1 DEF BeginRun
    <2>2. CASE RotateOut \/ RotateErr
        BY <2>2 DEF RotateOut, RotateErr, Rotate
    <2>3. CASE PruneOut \/ PruneErr
        BY <2>3 DEF PruneOut, PruneErr, Prune
    <2>4. CASE OpenOut \/ OpenErr
        BY <2>4 DEF OpenOut, OpenErr, OpenOutput
    <2>5. CASE WriteOut \/ WriteErr
        BY <2>5 DEF WriteOut, WriteErr, WriteOutput
    <2>6. CASE AppendLine
        BY <2>6 DEF AppendLine
    <2> QED
        BY <1>4, <2>1, <2>2, <2>3, <2>4, <2>5, <2>6 DEF Append_history
<1>5. CASE Crash
    BY <1>5 DEF Crash
<1>6. CASE UNCHANGED vars
    BY <1>6 DEF vars
<1> QED
    BY <1>1, <1>2, <1>3, <1>4, <1>5, <1>6 DEF Next

LEMMA TasksStep ==
    ASSUME FileInv, [Next]_vars
    PROVE  TasksOK'
<1> USE DEF FileInv, TasksOK
<1>1. (known = DOMAIN task_file /\ known \subseteq created)'
    BY Changes DEF RenameTmp, UnlinkTask, Crash, FailsTo, files, Put, Drop
<1>2. (DOMAIN history \subseteq created /\ torn \subseteq created)'
    BY Changes DEF AppendLine, UnlinkHistory, RenameTmp, UnlinkTask, Crash, FailsTo, files,
        quiet, Put, Drop, OpOK, Run, Running
<1>3. (pc = "rename_tmp" =>
           op.id \in DOMAIN tmp_file /\ tmp_file[op.id] = op.epoch)'
    BY DEF OpOK, Pcs, Put, Next, Create, Write, Remove, Append_history, BeginCreate, TruncateId,
        WriteId, OpenTmp, WriteTmp, RenameTmp, BeginRemove, UnlinkTask,
        UnlinkHistory, UnlinkOutputs, BeginRun, RotateOut, RotateErr, Rotate,
        PruneOut, PruneErr, Prune, OpenOut, OpenErr, OpenOutput, WriteOut,
        WriteErr, WriteOutput, AppendLine, Crash, files, quiet, vars, Fails,
        FailsTo, NoOp
<1> QED
    BY <1>1, <1>2, <1>3

(* A run, once begun, keeps its operation and its time until it is saved.  *)
LEMMA RunGoesOn ==
    ASSUME FileInv, [Next]_vars, pc' \in Running \cup Writing, op'.epoch # -1
    PROVE  \/ BeginRun
           \/ /\ pc \in Running \cup Writing
              /\ UNCHANGED <<op, clock, task_file>>
              /\ pc' \in Running => pc \in Running /\ UNCHANGED history
<1> USE DEF Running, Writing, Fails, FailsTo, files, quiet, NoOp
<1>1. CASE Create
    BY <1>1 DEF Create, BeginCreate, TruncateId, WriteId, FileInv, OpOK, OpType
<1>2. CASE Write \/ Remove \/ Crash
    BY <1>2 DEF Write, OpenTmp, WriteTmp, RenameTmp, Remove, BeginRemove, UnlinkTask,
        UnlinkHistory, UnlinkOutputs, Crash
<1>3. CASE Append_history
    BY <1>3 DEF Append_history, RotateOut, RotateErr, Rotate, PruneOut, PruneErr, Prune,
        OpenOut, OpenErr, OpenOutput, WriteOut, WriteErr, WriteOutput, AppendLine
<1>4. CASE UNCHANGED vars
    BY <1>4 DEF vars
<1> QED
    BY <1>1, <1>2, <1>3, <1>4 DEF Next

(* Every line of a history was written by a run.                           *)
Entry == [epoch : Epochs, out : Lengths, err : Lengths]

LEMMA EntryOfHistory ==
    ASSUME TypeOK, NEW id \in DOMAIN history, NEW i \in DOMAIN history[id]
    PROVE  history[id][i] \in Entry
<1>1. history[id] \in Seq(Entry)
    BY DEF TypeOK, Entry
<1> QED
    BY <1>1, ElementOfSeq, LenProperties

LEMMA TypeOfHistory ==
    ASSUME TypeOK, NEW id
    PROVE  History(id) \in Seq(Entry)
<1>1. \A x \in DOMAIN history : history[x] \in Seq(Entry)
    BY DEF TypeOK, Entry
<1> QED
    BY <1>1, EmptySeq DEF History

(* What an appended line changes of the history.                           *)
LEMMA Appended ==
    ASSUME NEW T, NEW s \in Seq(T), NEW e \in T
    PROVE  /\ Append(s, e) \in Seq(T)
           /\ DOMAIN Append(s, e) = 1..(Len(s) + 1)
           /\ DOMAIN s = 1..Len(s) /\ Len(s) \in Nat
           /\ \A i \in 1..Len(s) : Append(s, e)[i] = s[i]
           /\ Append(s, e)[Len(s) + 1] = e
OBVIOUS

LEMMA TimesStep ==
    ASSUME FileInv, [Next]_vars
    PROVE  TimesOK'
<1> USE StorageAssumption DEF FileInv, TimesOK, TypeOK, Epochs
<1>1. clock \in Int /\ clock' \in Int /\ clock <= clock'
    BY Changes DEF BeginRun
<1>2. (\A id \in DOMAIN task_file : task_file[id] <= clock)'
    <2>1. CASE RenameTmp
        <3>1. op.epoch \in Int /\ op.epoch <= clock
            BY <2>1 DEF RenameTmp, OpOK, OpType, Run, Writing
        <3> QED
            BY <1>1, <2>1, <3>1 DEF RenameTmp, Put, TasksOK, Partial
    <2>2. CASE UnlinkTask
        BY <1>1, <2>2 DEF UnlinkTask, FailsTo, files, Drop, Partial
    <2>3. CASE UNCHANGED task_file
        BY <1>1, <2>3 DEF Partial
    <2> QED
        BY <2>1, <2>2, <2>3, Changes
<1>3. \A id \in DOMAIN history : \A i \in DOMAIN history[id] :
          /\ history[id][i].epoch \in Int
          /\ history[id][i].epoch <= clock /\ history[id][i].epoch <= clock'
    <2> SUFFICES ASSUME NEW id \in DOMAIN history, NEW i \in DOMAIN history[id]
                 PROVE  /\ history[id][i].epoch \in Int
                        /\ history[id][i].epoch <= clock
                        /\ history[id][i].epoch <= clock'
        OBVIOUS
    <2>1. history[id][i] \in Entry
        BY EntryOfHistory
    <2>2. history[id][i].epoch \in Int
        BY <2>1 DEF Entry
    <2> QED
        BY <1>1, <2>2
<1>4. (\A id \in DOMAIN history : \A i \in DOMAIN history[id] :
           history[id][i].epoch <= clock)'
    <2>1. CASE AppendLine
        <3> DEFINE Longer == Append(History(op.id), Line)
        <3>1. CASE UNCHANGED history
            BY <1>3, <3>1
        <3>2. CASE history' = Put(history, op.id, Longer)
            <4>1. Line \in Entry /\ Line.epoch <= clock'
                BY <2>1 DEF AppendLine, Line, OpOK, Run, Running, quiet, Entry, OpType
            <4>2. History(op.id) \in Seq(Entry)
                BY TypeOfHistory
            <4>3. \A i \in DOMAIN History(op.id) : History(op.id)[i].epoch <= clock'
                BY <1>3 DEF History
            <4> HIDE DEF Entry
            <4>4. \A i \in DOMAIN Longer : Longer[i].epoch <= clock'
                BY <4>1, <4>2, <4>3, Appended
            <4> HIDE DEF Longer
            <4> QED
                BY <1>3, <3>2, <4>4 DEF Put
        <3> QED
            BY <2>1, <3>1, <3>2 DEF AppendLine
    <2>2. CASE UnlinkHistory
        BY <1>3, <2>2 DEF UnlinkHistory, Drop
    <2>3. CASE UNCHANGED <<history, torn>>
        BY <1>3, <2>3
    <2> QED
        BY <2>1, <2>2, <2>3, Changes
<1>5. (pc \in Running \cup Writing /\ op.epoch # -1 => task_file[op.id] < clock)'
    <2> SUFFICES ASSUME pc' \in Running \cup Writing, op'.epoch # -1
                 PROVE  (task_file[op.id] < clock)'
        OBVIOUS
    <2>1. CASE BeginRun
        BY <2>1 DEF BeginRun, files, TasksOK, Partial
    <2> QED
        BY <2>1, RunGoesOn
<1>6. (pc \in Running /\ op.id \in DOMAIN history =>
           \A i \in DOMAIN history[op.id] : history[op.id][i].epoch < clock)'
    <2> SUFFICES ASSUME pc' \in Running
                 PROVE  (op.id \in DOMAIN history =>
                            \A i \in DOMAIN history[op.id] : history[op.id][i].epoch < clock)'
        OBVIOUS
    <2>1. CASE BeginRun
        <3>1. UNCHANGED history /\ clock' = clock + 1
            BY <2>1 DEF BeginRun, files
        <3> QED
            BY <1>3, <3>1
    <2>2. op'.epoch # -1
        <3>1. OpOK'
            BY OpStep
        <3>2. op'.epoch = clock' /\ clock' \in 1..MaxRuns
            BY <3>1 DEF OpOK, Run
        <3> QED
            BY <3>2
    <2> QED
        BY <2>1, <2>2, RunGoesOn
<1> QED
    BY <1>2, <1>4, <1>5, <1>6

LEMMA FileInvHolds == Spec => []FileInv
<1>1. Init => FileInv
    <2> SUFFICES ASSUME Init PROVE FileInv
        OBVIOUS
    <2>1. last \in [Ids -> [Streams -> Lengths \cup {0, Missing}]]
        BY DEF Init
    <2>2. snaps \in [Ids -> [Streams -> SUBSET Epochs]]
        BY DEF Init
    <2>3. TypeOK
        BY <2>1, <2>2, StorageAssumption DEF Init, TypeOK
    <2>4. TaskFilesWhole /\ OpOK
        BY DEF Init, TaskFilesWhole, OpOK, Pcs, OpType, NoOp, Writing, Running
    <2>5. TasksOK /\ TimesOK
        BY DEF Init, TasksOK, TimesOK, Writing, Running
    <2> QED
        BY <2>3, <2>4, <2>5 DEF FileInv
<1>2. FileInv /\ [Next]_vars => FileInv'
    BY TypeStep, WholeStep, OpStep, TasksStep, TimesStep DEF FileInv
<1> QED
    BY <1>1, <1>2, PTL DEF Spec

(* Every state of the files and of the operation has its type.             *)
THEOREM StorageTypes == Spec => []TypeOK
<1>1. FileInv => TypeOK
    BY DEF FileInv
<1> QED
    BY <1>1, FileInvHolds, PTL

(* Whenever the process is killed, and whatever calls fail, the file of    *)
(* every task is complete: write_task_file renames only what it wrote.     *)
THEOREM TaskFilesAreWhole == Spec => []TaskFilesWhole
<1>1. FileInv => TaskFilesWhole
    BY DEF FileInv
<1> QED
    BY <1>1, FileInvHolds, PTL

-----------------------------------------------------------------------------
(* The implementation of TaskStore.                                        *)

LEMMA IdStep ==
    ASSUME AtomicIds, FileInv, IdInv, [Next]_vars
    PROVE  IdInv'
<1> USE StorageAssumption
        DEF FileInv, IdInv, TypeOK, OpOK, OpType, Run, Writing, Running, Ids, Epochs,
        NoOp, NextId, Fails, FailsTo, files, quiet
<1>1. CASE BeginCreate \/ TruncateId \/ WriteId
    BY <1>1, SMTT(20) DEF BeginCreate, TruncateId, WriteId
<1>2. CASE OpenTmp \/ WriteTmp
    BY <1>2 DEF OpenTmp, WriteTmp
<1>3. CASE RenameTmp
    BY <1>3 DEF RenameTmp, TasksOK
<1>4. CASE Remove
    BY <1>4 DEF Remove, BeginRemove, UnlinkTask, UnlinkHistory, UnlinkOutputs
<1>5. CASE BeginRun
    BY <1>5 DEF BeginRun
<1>6. ASSUME pc \in Running, UNCHANGED <<next_id, op, created>>, pc' # "write_id"
      PROVE  IdInv'
    <2>1. op.epoch # -1
        BY <1>6
    <2> QED
        BY <1>6, <2>1
<1>7. CASE \/ RotateOut \/ RotateErr \/ PruneOut \/ PruneErr
           \/ OpenOut \/ OpenErr \/ WriteOut \/ WriteErr \/ AppendLine
    <2>1. pc \in Running /\ UNCHANGED <<next_id, op, created>> /\ pc' # "write_id"
        BY ONLY <1>7
        DEF RotateOut, RotateErr, Rotate, PruneOut, PruneErr, Prune, OpenOut, OpenErr,
            OpenOutput, WriteOut, WriteErr, WriteOutput, AppendLine, Running,
            files, quiet, FailsTo, Fails
    <2> QED
        BY ONLY <1>6, <2>1
<1>8. CASE Crash
    BY <1>8 DEF Crash
<1>9. CASE UNCHANGED vars
    BY <1>9 DEF vars
<1> QED
    BY ONLY [Next]_vars, <1>1, <1>2, <1>3, <1>4, <1>5, <1>7, <1>8, <1>9
    DEF Next, Create, Write, Append_history

(* The runs of Abstract: the histories that can be read.                   *)
EpochsIn(lines) == [i \in DOMAIN lines |-> lines[i].epoch]
Readable == [id \in DOMAIN task_file \ torn |-> EpochsIn(History(id))]

LEMMA NoEpochs == EpochsIn(<<>>) = <<>>
BY DEF EpochsIn

LEMMA EpochsAppended ==
    ASSUME NEW lines \in Seq(Entry), NEW line \in Entry
    PROVE  EpochsIn(Append(lines, line)) = Append(EpochsIn(lines), line.epoch)
<1> USE DEF EpochsIn, Entry
<1>1. EpochsIn(lines) \in Seq(Epochs)
    <2>1. \A i \in DOMAIN lines : lines[i] \in Entry
        BY ElementOfSeq, LenProperties
    <2>2. \A i \in 1..Len(lines) : lines[i].epoch \in Epochs
        BY <2>1
    <2>3. EpochsIn(lines) = [i \in 1..Len(lines) |-> lines[i].epoch]
        BY LenProperties
    <2> QED
        BY <2>2, <2>3, LenProperties
<1> QED
    BY <1>1

(* The rename that ends a creation creates the task.                       *)
LEMMA RenameCreates ==
    ASSUME NEW id, id = op.id, AtomicIds, FileInv, IdInv, RenameTmp, op.epoch = -1,
           task_file' = Put(task_file, op.id, tmp_file[op.id]),
           created' = created \cup {op.id}
    PROVE  Abstract!Create(id)
<1>1. id \in Ids /\ id \notin created
    BY DEF RenameTmp, FileInv, IdInv, OpOK, Writing
<1>2. task_file' = Put(task_file, id, -1) /\ UNCHANGED <<history, torn>>
    BY DEF RenameTmp, FileInv, TasksOK
<1>3. id \notin torn /\ id \notin DOMAIN history /\ id \notin DOMAIN task_file
    BY <1>1 DEF FileInv, TasksOK
<1>4. DOMAIN Readable' = DOMAIN Readable \cup {id}
    BY <1>2, <1>3 DEF Readable, Put
<1>5. Readable'[id] = <<>>
    BY <1>2, <1>3, <1>4, NoEpochs DEF Readable, Put, History
<1>6. \A x \in DOMAIN Readable : Readable'[x] = Readable[x]
    BY <1>2, <1>3, <1>4, NoEpochs DEF Readable, Put, History
<1>7. Readable' = Abstract!Set(Readable, id, <<>>)
    BY <1>4, <1>5, <1>6 DEF Abstract!Set, Readable
<1>8. created' = created \cup {id}
    OBVIOUS
<1> QED
    BY <1>1, <1>2, <1>7, <1>8 DEF Abstract!Create, Abstract!Set, Put, Readable, EpochsIn

(* The rename after a run saves it.                                        *)
LEMMA RenameSaves ==
    ASSUME NEW id, id = op.id, FileInv, RenameTmp, op.epoch # -1,
           task_file' = Put(task_file, op.id, tmp_file[op.id]),
           created' = created \cup {op.id}
    PROVE  Abstract!Save(id)
<1>1. /\ id \in Ids /\ id \in DOMAIN task_file /\ UNCHANGED created
      /\ op.epoch = clock /\ clock \in Epochs
    BY DEF RenameTmp, FileInv, OpOK, TasksOK, Writing, Run
<1>2. task_file' = Put(task_file, id, clock) /\ UNCHANGED <<history, torn>>
    BY <1>1 DEF RenameTmp, FileInv, TasksOK
<1>3. task_file[id] < clock
    BY <1>1 DEF RenameTmp, FileInv, TimesOK, Writing
<1>4. UNCHANGED Readable
    BY <1>1, <1>2 DEF Readable, Put, History
<1>5. id \in DOMAIN Readable =>
          \A i \in DOMAIN Readable[id] : Readable[id][i] <= clock
    BY DEF Readable, EpochsIn, History, FileInv, TimesOK
<1> QED
    BY <1>1, <1>2, <1>3, <1>4, <1>5
    DEF Abstract!Save, Abstract!Set, Put, Readable, EpochsIn

(* The unlink of the task file removes the task, and its history with it.  *)
LEMMA UnlinkRemoves ==
    ASSUME NEW id, id = op.id, FileInv, UnlinkTask, task_file' = Drop(task_file, op.id)
    PROVE  Abstract!Remove(id)
<1>1. op.id \in DOMAIN task_file /\ UNCHANGED <<history, torn, created>>
    BY DEF UnlinkTask, FileInv, OpOK, TasksOK, FailsTo, files
<1>2. Readable' = Abstract!Unset(Readable, op.id)
    BY <1>1 DEF Readable, Drop, Abstract!Unset, History
<1> QED
    BY <1>1, <1>2 DEF Abstract!Remove, Abstract!Unset, Drop, Readable, EpochsIn

(* A line added to a history that can be read is a run, in its time.       *)
LEMMA AppendRuns ==
    ASSUME NEW id, id = op.id, FileInv, AppendLine, op.id \notin torn, UNCHANGED torn,
           history' = Put(history, op.id, Append(History(op.id), Line))
    PROVE  Abstract!Run(id)
<1>1. /\ id \in DOMAIN task_file /\ UNCHANGED <<task_file, created>>
      /\ op.epoch = clock /\ clock \in Epochs
      /\ id \in Ids
    BY DEF AppendLine, FileInv, OpOK, TasksOK, Running, Run, quiet, TypeOK
<1>2. Line \in Entry /\ Line.epoch = clock
    BY <1>1 DEF AppendLine, FileInv, OpOK, Running, Line, Entry
<1>3. /\ task_file[id] < clock
      /\ \A i \in DOMAIN History(id) : History(id)[i].epoch < clock
    BY <1>1, StorageAssumption DEF AppendLine, FileInv, TimesOK, Running, History, Epochs
<1>4. History(id) \in Seq(Entry)
    BY TypeOfHistory DEF FileInv
<1> DEFINE longer == Append(History(id), Line)
<1>5. EpochsIn(longer) = Append(EpochsIn(History(id)), clock)
    BY <1>2, <1>4, EpochsAppended
<1>6. history' = Put(history, id, longer) /\ UNCHANGED torn
    OBVIOUS
<1> HIDE DEF longer, Entry, Line
<1>7. /\ DOMAIN Readable' = DOMAIN Readable /\ id \in DOMAIN Readable
      /\ Readable'[id] = EpochsIn(longer)
      /\ \A x \in DOMAIN Readable \ {id} : Readable'[x] = Readable[x]
    BY <1>1, <1>6 DEF Readable, Put, History
<1>8. /\ Readable[id] = EpochsIn(History(id))
      /\ Readable' = [x \in DOMAIN Readable' |-> Readable'[x]]
    BY <1>7 DEF Readable
<1>9. Readable' = Abstract!Set(Readable, id, Append(Readable[id], clock))
    BY <1>5, <1>7, <1>8 DEF Abstract!Set
<1>10. \A i \in DOMAIN Readable[id] : Readable[id][i] < clock
    BY <1>3, <1>8 DEF EpochsIn
<1> QED
    BY <1>1, <1>3, <1>7, <1>9, <1>10 DEF Abstract!Run, Abstract!Set, Readable, EpochsIn

(* A line that is cut short loses the history, once.                       *)
LEMMA TornLoses ==
    ASSUME NEW id, id = op.id, FileInv, AppendLine, torn' = torn \cup {op.id}, UNCHANGED history
    PROVE  Abstract!LoseHistory(id) \/ UNCHANGED <<task_file, Readable, created>>
<1>1. op.id \in DOMAIN task_file /\ UNCHANGED <<task_file, created>>
    BY DEF AppendLine, FileInv, OpOK, TasksOK, Running, Run, quiet
<1>2. CASE op.id \in torn
    BY <1>1, <1>2 DEF Readable, History
<1>3. CASE op.id \notin torn
    <2>1. Readable' = Abstract!Unset(Readable, op.id)
        BY <1>1 DEF Readable, Abstract!Unset, History
    <2> QED
        BY <1>1, <1>3, <2>1 DEF Abstract!LoseHistory, Abstract!Unset, Readable, EpochsIn
<1> QED
    BY <1>2, <1>3

(* Each step of the storage is one of the store, or changes nothing of it. *)
LEMMA StoreStep ==
    ASSUME AtomicIds, FileInv, IdInv, [Next]_vars
    PROVE  [Abstract!Next]_(Abstract!store)
<1> DEFINE Same == UNCHANGED <<task_file, Readable, created>>
<1>0. PICK id : id = op.id
    OBVIOUS
<1>1. ASSUME Same PROVE UNCHANGED Abstract!store
    BY <1>1 DEF Abstract!store, Readable, EpochsIn
<1>2. CASE UNCHANGED <<task_file, history, torn, created>>
    BY <1>1, <1>2 DEF Readable, History
<1>3. CASE RenameTmp
    <2>1. op.id \in Ids
        BY <1>3 DEF RenameTmp, FileInv, OpOK, Writing
    <2>2. CASE /\ task_file' = Put(task_file, op.id, tmp_file[op.id])
               /\ created' = created \cup {op.id}
        <3>1. Abstract!Create(id) \/ Abstract!Save(id)
            BY <1>0, <1>3, <2>2, RenameCreates, RenameSaves
        <3> QED
            BY <1>0, <2>1, <3>1 DEF Abstract!Next
    <2>3. CASE UNCHANGED <<task_file, history, torn, created>>
        BY <1>2, <2>3
    <2> QED
        BY <1>3, <2>2, <2>3 DEF RenameTmp
<1>4. CASE UnlinkTask
    <2>1. op.id \in Ids
        BY <1>4 DEF UnlinkTask, FileInv, OpOK, TypeOK
    <2>2. CASE task_file' = Drop(task_file, op.id)
        <3>1. Abstract!Remove(id)
            BY <1>0, <1>4, <2>2, UnlinkRemoves
        <3> QED
            BY <1>0, <2>1, <3>1 DEF Abstract!Next
    <2>3. CASE UNCHANGED <<task_file, history, torn, created>>
        BY <1>2, <2>3
    <2> QED
        BY <1>4, <2>2, <2>3 DEF UnlinkTask, FailsTo, files
<1>5. CASE AppendLine
    <2>1. op.id \in Ids /\ UNCHANGED <<task_file, created>>
        BY <1>5 DEF AppendLine, FileInv, OpOK, Running, Run, TypeOK, quiet
    <2>2. CASE history' = Put(history, op.id, Append(History(op.id), Line))
               /\ op.id \notin torn /\ UNCHANGED torn
        <3>1. Abstract!Run(id)
            BY <1>0, <1>5, <2>2, AppendRuns
        <3> QED
            BY <1>0, <2>1, <3>1 DEF Abstract!Next
    <2>3. CASE torn' = torn \cup {op.id} /\ UNCHANGED history
        <3>1. Abstract!LoseHistory(id) \/ Same
            BY <1>0, <1>5, <2>3, TornLoses
        <3> QED
            BY <1>0, <1>1, <2>1, <3>1 DEF Abstract!Next
    <2>4. CASE UNCHANGED <<task_file, history, torn, created>>
        BY <1>2, <2>4
    <2> QED
        BY <1>5, <2>1, <2>2, <2>3, <2>4 DEF AppendLine
<1>6. CASE UnlinkHistory
    <2>1. op.id \notin DOMAIN task_file /\ UNCHANGED <<task_file, created>>
        BY <1>6 DEF UnlinkHistory, FileInv, OpOK, TasksOK, quiet
    <2>2. CASE history' = Drop(history, op.id) /\ torn' = torn \ {op.id}
        <3>1. UNCHANGED Readable
            BY <2>1, <2>2 DEF Readable, Drop, History
        <3> QED
            BY <1>1, <2>1, <3>1
    <2>3. CASE UNCHANGED <<task_file, history, torn, created>>
        BY <1>2, <2>3
    <2> QED
        BY <1>6, <2>1, <2>2, <2>3 DEF UnlinkHistory
<1>7. CASE Crash
    BY <1>2, <1>7 DEF Crash, files
<1> QED
    BY <1>2, <1>3, <1>4, <1>5, <1>6, <1>7, Changes

(* To a reader of the files every operation happens at once or not at all, *)
(* whenever the process is killed and whatever fails, as long as no write  *)
(* of next_id is cut short.                                                *)
THEOREM StorageIsTaskStore ==
    ASSUME AtomicIds
    PROVE  Spec => IsTaskStore
<1>1. Init => IdInv /\ Abstract!Init
    <2> SUFFICES ASSUME Init PROVE IdInv /\ Abstract!Init
        OBVIOUS
    <2>1. Readable = <<>>
        BY DEF Init, Readable
    <2> QED
        BY <2>1 DEF Init, IdInv, Writing, Abstract!Init, Readable, EpochsIn
<1>2. IdInv /\ FileInv /\ [Next]_vars => IdInv' /\ [Abstract!Next]_(Abstract!store)
    BY IdStep, StoreStep
<1> QED
    BY <1>1, <1>2, FileInvHolds, PTL DEF Spec, IsTaskStore, Abstract!Spec

-----------------------------------------------------------------------------
(* The snapshots.                                                          *)

(* Of the outputs displaced so far those are kept that fewer than          *)
(* SnapshotCount are newer than, and no more than there is room for.       *)
Newest(kept, all, room) ==
    /\ kept \subseteq all
    /\ \A e \in all :
           Cardinality({x \in all : x > e}) < SnapshotCount => e \in kept
    /\ Cardinality(kept) <= room

(* Each failure and each kill may leave one snapshot too many, and so does *)
(* a rotation until it has pruned.                                         *)
Pruning(stream) == IF stream = "out" THEN "prune_out" ELSE "prune_err"

Base == SnapshotCount + crashes + faults
Room(id, stream) == IF op.id = id /\ pc = Pruning(stream) THEN Base + 1 ELSE Base

SnapInv ==
    /\ faults \in Nat /\ crashes \in Nat
    /\ displaced \in [Ids -> [Streams -> SUBSET Epochs]]
    /\ \A id \in Ids, stream \in Streams :
           Newest(snaps[id][stream], displaced[id][stream], Room(id, stream))

(* A set of instants is finite, and so is each part of it.                 *)
LEMMA EpochsAreFinite ==
    ASSUME NEW S \in SUBSET Epochs
    PROVE  /\ IsFiniteSet(S) /\ Cardinality(S) \in Nat
           /\ \A T \in SUBSET S :
                  /\ IsFiniteSet(T) /\ Cardinality(T) \in Nat
                  /\ Cardinality(T) <= Cardinality(S)
<1>1. IsFiniteSet(Epochs)
    BY StorageAssumption, FS_Interval DEF Epochs
<1>2. IsFiniteSet(S)
    BY <1>1, FS_Subset
<1> QED
    BY <1>2, FS_Subset, FS_CardinalityType

(* A set of instants that is not empty has an earliest and a latest one.   *)
LEMMA Earliest ==
    ASSUME NEW S \in SUBSET Nat, S # {}
    PROVE  \E x \in S : \A y \in S : x <= y
<1> DEFINE R == {ss \in Nat \X Nat : ss[1] < ss[2]}
<1>1. IsWellFoundedOn(R, Nat)
    BY NatLessThanWellFounded DEF OpToRel
<1>2. ASSUME NEW x \in Nat, NEW y \in Nat, y < x
      PROVE  <<y, x>> \in R
    BY <1>2
<1> HIDE DEF R
<1>3. PICK x \in S : \A y \in S : <<y, x>> \notin R
    BY <1>1, WFMin
<1>4. \A y \in S : ~(y < x)
    BY <1>2, <1>3
<1> QED
    BY <1>4

LEMMA Latest ==
    ASSUME NEW S \in SUBSET Epochs, S # {}
    PROVE  \E x \in S : \A y \in S : y <= x
<1> DEFINE T == {MaxRuns - x : x \in S}
<1> USE StorageAssumption DEF Epochs
<1>1. T \in SUBSET Nat /\ T # {}
    <2>1. \A x \in S : x \in Int /\ x <= MaxRuns
        OBVIOUS
    <2>2. \A x \in S : MaxRuns - x \in Nat
        BY <2>1
    <2> QED
        BY <2>2
<1>2. PICK m \in T : \A n \in T : m <= n
    BY <1>1, Earliest
<1>3. PICK x \in S : m = MaxRuns - x
    OBVIOUS
<1>4. ASSUME NEW y \in S PROVE y <= x
    <2>1. MaxRuns - y \in T
        OBVIOUS
    <2> HIDE DEF T
    <2>2. m <= MaxRuns - y
        BY <1>2, <2>1
    <2> QED
        BY <1>3, <2>2
<1> QED
    BY <1>4

(* A rotation adds a snapshot to those kept, and to all.                   *)
LEMMA Rotated ==
    ASSUME NEW all \in SUBSET Epochs, NEW kept \in SUBSET Epochs,
           NEW room \in Nat, NEW e \in Epochs, Newest(kept, all, room)
    PROVE  Newest(kept \cup {e}, all \cup {e}, room + 1)
<1>1. ASSUME NEW d \in all,
             Cardinality({x \in all \cup {e} : x > d}) < SnapshotCount
      PROVE  d \in kept
    <2>1. /\ {x \in all \cup {e} : x > d} \in SUBSET Epochs
          /\ {x \in all : x > d} \in SUBSET {x \in all \cup {e} : x > d}
        OBVIOUS
    <2>2. Cardinality({x \in all : x > d}) < SnapshotCount
        BY <1>1, <2>1, EpochsAreFinite, StorageAssumption
    <2> QED
        BY <2>2 DEF Newest
<1>2. Cardinality(kept \cup {e}) <= room + 1
    BY EpochsAreFinite, FS_AddElement DEF Newest
<1> QED
    BY <1>1, <1>2 DEF Newest

(* What pruning unlinks is older than SnapshotCount that are kept.         *)
LEMMA Pruned ==
    ASSUME NEW all \in SUBSET Epochs, NEW kept \in SUBSET Epochs,
           NEW room \in Nat, Newest(kept, all, room),
           NEW e \in Beyond(kept, SnapshotCount)
    PROVE  Newest(kept \ {e}, all, room)
<1>1. Cardinality({x \in all : x > e}) >= SnapshotCount
    <2>1. /\ {x \in all : x > e} \in SUBSET Epochs
          /\ {x \in kept : x > e} \in SUBSET {x \in all : x > e}
        BY DEF Newest
    <2>2. Cardinality({x \in kept : x > e}) >= SnapshotCount
        BY DEF Beyond
    <2> QED
        BY <2>1, <2>2, EpochsAreFinite, StorageAssumption
<1>2. Cardinality({x \in all : x > e}) \in Nat
    BY EpochsAreFinite
<1>3. ASSUME NEW d \in all, Cardinality({x \in all : x > d}) < SnapshotCount
      PROVE  d \in kept \ {e}
    BY <1>1, <1>2, <1>3, StorageAssumption DEF Newest
<1>4. Cardinality(kept \ {e}) <= room
    BY EpochsAreFinite, FS_RemoveElement DEF Newest, Beyond
<1> QED
    BY <1>3, <1>4 DEF Newest

(* When nothing is left to prune there are at most SnapshotCount.          *)
LEMMA PruningDone ==
    ASSUME NEW all \in SUBSET Epochs, NEW kept \in SUBSET Epochs,
           NEW room \in Nat, Newest(kept, all, room),
           Beyond(kept, SnapshotCount) = {}
    PROVE  Newest(kept, all, SnapshotCount)
<1>1. CASE kept = {}
    BY <1>1, FS_EmptySet, StorageAssumption DEF Newest
<1>2. CASE kept # {}
    <2>1. kept \in SUBSET Nat
        BY StorageAssumption DEF Epochs
    <2>2. PICK e \in kept : \A x \in kept : e <= x
        BY <1>2, <2>1, Earliest
    <2>3. {x \in kept : x > e} = kept \ {e}
        <3>1. \A x \in kept : x \in Nat /\ (x > e <=> x # e)
            BY <2>1, <2>2
        <3> QED
            BY <3>1
    <2>4. Cardinality(kept \ {e}) < SnapshotCount
        <3>1. Cardinality(kept \ {e}) \in Nat
            BY EpochsAreFinite
        <3> QED
            BY <2>3, <3>1, StorageAssumption DEF Beyond
    <2>5. Cardinality(kept) <= SnapshotCount
        BY <2>4, EpochsAreFinite, FS_RemoveElement, StorageAssumption
    <2> QED
        BY <2>5 DEF Newest
<1> QED
    BY <1>1, <1>2

LEMMA MoreRoom ==
    ASSUME NEW all \in SUBSET Epochs, NEW kept \in SUBSET Epochs,
           NEW room \in Nat, NEW more \in Nat, room <= more, Newest(kept, all, room)
    PROVE  Newest(kept, all, more)
BY EpochsAreFinite DEF Newest

LEMMA Sums ==
    \A x, y, z, u, v \in Nat :
        /\ x + y + z \in Nat /\ x + y + z + 1 \in Nat
        /\ x <= x + y + z /\ x <= x + y + z + 1
        /\ y <= u /\ z <= v => /\ x + y + z <= x + u + v
                              /\ x + y + z <= x + u + v + 1
                              /\ x + y + z + 1 <= x + u + v + 1
        /\ y <= u /\ z <= v /\ (u = y + 1 \/ v = z + 1) => x + y + z + 1 <= x + u + v
OBVIOUS

LEMMA SnapStep ==
    ASSUME FileInv, SnapInv, [Next]_vars
    PROVE  SnapInv'
<1> USE StorageAssumption
<1>1. /\ crashes \in Nat /\ faults \in Nat
      /\ displaced \in [Ids -> [Streams -> SUBSET Epochs]]
      /\ snaps \in [Ids -> [Streams -> SUBSET Epochs]]
    BY DEF SnapInv, FileInv, TypeOK
<1>2. /\ crashes' \in Nat /\ crashes <= crashes'
      /\ faults' \in Nat /\ faults <= faults'
    BY <1>1, CountersChange
<1>base. /\ Base \in Nat /\ Base' \in Nat /\ Base + 1 \in Nat /\ Base' + 1 \in Nat
         /\ Base <= Base' /\ Base <= Base' + 1 /\ Base + 1 <= Base' + 1
         /\ SnapshotCount <= Base' /\ SnapshotCount <= Base' + 1
         /\ (crashes' = crashes + 1 \/ faults' = faults + 1) => Base + 1 <= Base'
    <2>1. /\ SnapshotCount \in Nat /\ crashes \in Nat /\ faults \in Nat
          /\ crashes' \in Nat /\ faults' \in Nat
          /\ crashes <= crashes' /\ faults <= faults'
        BY <1>1, <1>2
    <2> QED
        BY ONLY <2>1, Sums DEF Base
<1>3. \A id \in Ids, stream \in Streams :
          /\ snaps[id][stream] \in SUBSET Epochs
          /\ displaced[id][stream] \in SUBSET Epochs
          /\ Room(id, stream) \in Nat /\ Room(id, stream)' \in Nat
          /\ Newest(snaps[id][stream], displaced[id][stream], Room(id, stream))
    BY ONLY <1>1, <1>base, SnapInv DEF SnapInv, Room
<1> DEFINE SameAt(id, stream) ==
               UNCHANGED <<snaps[id][stream], displaced[id][stream]>>
           OK(id, stream) ==
               Newest(snaps[id][stream], displaced[id][stream], Room(id, stream))
<1>4. ASSUME NEW id \in Ids, NEW stream \in Streams, SameAt(id, stream),
             Room(id, stream) <= Room(id, stream)'
      PROVE  OK(id, stream)'
    BY <1>3, <1>4, MoreRoom
<1>5. ASSUME NEW stream \in Streams, NEW next, NEW t \in Ids, t = op.id, op.epoch \in Epochs,
             \A s \in Streams : pc # Pruning(s),
             Rotate(stream, Pruning(stream), next)
      PROVE  SnapInv'
    <2>1. UNCHANGED op
        BY <1>5 DEF Rotate, quiet
    <2>2. \A id \in Ids, s \in Streams : Room(id, s) <= Room(id, s)'
        BY <1>base, <1>5, <2>1 DEF Room
    <2>3. CASE UNCHANGED <<snaps, displaced>>
        BY <1>1, <1>2, <1>4, <2>2, <2>3 DEF SnapInv
    <2>4. CASE /\ snaps' = [snaps EXCEPT ![t][stream] = @ \cup {op.epoch}]
               /\ displaced' = [displaced EXCEPT ![t][stream] = @ \cup {op.epoch}]
               /\ pc' = Pruning(stream)
               /\ UNCHANGED faults
        <3>1. /\ snaps'[t][stream] = snaps[t][stream] \cup {op.epoch}
              /\ displaced'[t][stream] = displaced[t][stream] \cup {op.epoch}
              /\ \A id \in Ids, s \in Streams :
                     id # t \/ s # stream => SameAt(id, s)
              /\ displaced' \in [Ids -> [Streams -> SUBSET Epochs]]
            BY <1>1, <1>5, <2>4
        <3>2. Room(t, stream)' = Room(t, stream) + 1
            <4>1. Base' = Base
                BY <1>5, <2>4 DEF Base, Rotate, quiet
            <4> QED
                BY <1>base, <1>5, <2>1, <2>4, <4>1 DEF Room
        <3>3. OK(t, stream)'
            BY <1>3, <1>5, <3>1, <3>2, Rotated
        <3>4. ASSUME NEW id \in Ids, NEW s \in Streams PROVE OK(id, s)'
            <4>1. CASE id = t /\ s = stream
                BY <3>3, <4>1
            <4>2. CASE id # t \/ s # stream
                BY <1>4, <2>2, <3>1, <4>2
            <4> QED
                BY <4>1, <4>2
        <3> QED
            BY <1>2, <3>1, <3>4 DEF SnapInv
    <2> QED
        BY <1>5, <2>3, <2>4 DEF Rotate
<1>6. ASSUME NEW stream \in Streams, NEW next, NEW t \in Ids, t = op.id,
             pc = Pruning(stream), Prune(stream, next)
      PROVE  SnapInv'
    <2> DEFINE kept == snaps[t][stream]
               excess == Beyond(kept, SnapshotCount)
    <2>1. UNCHANGED <<op, displaced>>
        BY <1>6 DEF Prune, quiet
    <2>2. ASSUME NEW id \in Ids, NEW s \in Streams, id # t \/ s # stream
          PROVE  Room(id, s) <= Room(id, s)'
        <3>1. id = t => pc # Pruning(s)
            BY <1>6, <2>2 DEF Pruning, Streams
        <3> QED
            BY <1>base, <1>6, <2>1, <2>2, <3>1 DEF Room
    <2>3. CASE excess # {} /\ UNCHANGED <<pc, faults>>
               /\ LET e == CHOOSE x \in excess : \A y \in excess : y <= x
                  IN  snaps' = [snaps EXCEPT ![t][stream] = @ \ {e}]
        <3> DEFINE e == CHOOSE x \in excess : \A y \in excess : y <= x
        <3>1. e \in excess
            <4>1. excess \in SUBSET Epochs
                BY <1>3, <1>6 DEF Beyond
            <4> HIDE DEF excess
            <4> QED
                BY <2>3, <4>1, Latest
        <3>2. snaps' = [snaps EXCEPT ![t][stream] = @ \ {e}]
            BY <2>3
        <3> HIDE DEF e
        <3>3. /\ snaps'[t][stream] = kept \ {e}
              /\ \A id \in Ids, s \in Streams :
                     id # t \/ s # stream => SameAt(id, s)
            BY <1>1, <1>6, <2>1, <3>2
        <3>4. Room(t, stream)' = Room(t, stream)
            BY <1>6, <2>1, <2>3 DEF Room, Base, Prune, quiet
        <3>5. OK(t, stream)'
            BY <1>3, <1>6, <2>1, <3>1, <3>3, <3>4, Pruned
        <3>6. ASSUME NEW id \in Ids, NEW s \in Streams PROVE OK(id, s)'
            <4>1. CASE id = t /\ s = stream
                BY <3>5, <4>1
            <4>2. CASE id # t \/ s # stream
                BY <1>4, <2>2, <3>3, <4>2
            <4> QED
                BY <4>1, <4>2
        <3> QED
            BY <1>1, <1>2, <2>1, <3>6 DEF SnapInv
    <2>4. CASE UNCHANGED snaps /\ (excess = {} \/ faults' = faults + 1)
        <3>1. \A id \in Ids, s \in Streams : SameAt(id, s)
            BY <2>1, <2>4
        <3>2. ASSUME excess = {} PROVE OK(t, stream)'
            <4>1. Newest(kept, displaced[t][stream], SnapshotCount)
                BY <1>3, <1>6, <3>2, PruningDone
            <4>2. SnapshotCount <= Room(t, stream)' /\ SnapshotCount \in Nat
                BY <1>base, <1>6 DEF Room
            <4> QED
                BY <1>3, <1>6, <2>1, <2>4, <4>1, <4>2, MoreRoom
        <3>3. ASSUME faults' = faults + 1 PROVE OK(t, stream)'
            <4>1. Room(t, stream) <= Room(t, stream)'
                BY <1>base, <1>6, <3>3 DEF Room
            <4> QED
                BY <1>4, <1>6, <3>1, <4>1
        <3>4. OK(t, stream)'
            BY <2>4, <3>2, <3>3
        <3>5. ASSUME NEW id \in Ids, NEW s \in Streams PROVE OK(id, s)'
            <4>1. CASE id = t /\ s = stream
                BY <3>4, <4>1
            <4>2. CASE id # t \/ s # stream
                BY <1>4, <2>2, <3>1, <4>2
            <4> QED
                BY <4>1, <4>2
        <3> QED
            BY <1>1, <1>2, <2>1, <3>5 DEF SnapInv
    <2> QED
        BY <1>6, <2>3, <2>4 DEF Prune, Fails
<1>7. CASE RotateOut \/ RotateErr
    <2>1. op.id \in Ids /\ op.epoch \in Epochs
        BY <1>7, RunFacts DEF RotateOut, RotateErr, Running
    <2>2. /\ Pruning("out") = "prune_out" /\ Pruning("err") = "prune_err"
          /\ \A s \in Streams : pc # Pruning(s)
        BY <1>7 DEF RotateOut, RotateErr, Pruning, Streams
    <2> QED
        BY <1>5, <1>7, <2>1, <2>2 DEF RotateOut, RotateErr, Streams
<1>8. CASE PruneOut \/ PruneErr
    <2>1. op.id \in Ids
        BY <1>8, RunFacts DEF PruneOut, PruneErr, Running
    <2>2. Pruning("out") = "prune_out" /\ Pruning("err") = "prune_err"
        BY DEF Pruning
    <2> QED
        BY <1>6, <1>8, <2>1, <2>2 DEF PruneOut, PruneErr, Streams
<1>9. CASE UNCHANGED <<snaps, displaced>> /\ ~(RotateOut \/ RotateErr \/ PruneOut \/ PruneErr)
    <2>1. \/ \A s \in Streams : pc # Pruning(s)
          \/ crashes' = crashes + 1
          \/ UNCHANGED vars
        BY <1>9 DEF Next, Create, Write, Remove, Append_history, BeginCreate, TruncateId,
            WriteId, OpenTmp, WriteTmp, RenameTmp, BeginRemove, UnlinkTask,
            UnlinkHistory, UnlinkOutputs, BeginRun, OpenOut, OpenErr, WriteOut,
            WriteErr, AppendLine, Crash, Pruning
    <2>2. ASSUME NEW id \in Ids, NEW s \in Streams
          PROVE  Room(id, s) <= Room(id, s)'
        BY <1>base, <2>1 DEF Room, vars, Base
    <2> QED
        BY <1>1, <1>2, <1>4, <1>9, <2>2 DEF SnapInv
<1> QED
    BY <1>7, <1>8, <1>9, Changes

(* Whatever is cut short while older ones are pruned, the newest outputs   *)
(* that were replaced are kept, and between operations no more of them     *)
(* than SnapshotCount and one for each failure and kill so far.            *)
THEOREM NewestAreKept == Spec => []SnapshotsAreNewest
<1>1. Init => SnapInv
    <2> SUFFICES ASSUME Init PROVE SnapInv
        OBVIOUS
    <2>1. snaps = [id \in Ids |-> [s \in Streams |-> {}]] /\ displaced = snaps
        BY DEF Init
    <2>2. Cardinality({}) = 0
        BY FS_EmptySet
    <2>3. \A id \in Ids, s \in Streams : Room(id, s) = SnapshotCount
        BY StorageAssumption DEF Init, Base, Room, NoOp, Ids
    <2> QED
        BY <2>1, <2>2, <2>3, StorageAssumption DEF Init, SnapInv, Newest
<1>2. FileInv /\ SnapInv /\ [Next]_vars => SnapInv'
    BY SnapStep
<1>3. SnapInv => SnapshotsAreNewest
    <2> SUFFICES ASSUME SnapInv, NEW id \in Ids, NEW stream \in Streams, pc = "idle"
                 PROVE  Room(id, stream) = SnapshotCount + crashes + faults
        BY DEF SnapInv, Newest, SnapshotsAreNewest
    <2> QED
        BY StorageAssumption DEF Room, Base, Pruning, SnapInv
<1> QED
    BY <1>1, <1>2, <1>3, FileInvHolds, PTL DEF Spec

=============================================================================
