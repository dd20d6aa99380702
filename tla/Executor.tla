------------------------------ MODULE Executor ------------------------------
(***************************************************************************)
(* executor_run_task of src/src/erraid/executor.c: the commands of a task  *)
(* are run one after the other, each in a child whose standard output and  *)
(* error are pipes.  The parent reads the first to its end, then the       *)
(* second, then waits for the child.  Concurrent with it are the child,    *)
(* what the child leaves in the background, and signals.                   *)
(*                                                                         *)
(* Abstractions: bytes are counted; a child is any program that writes at  *)
(* most MaxOut and MaxErr bytes, closes its outputs or leaves them to a    *)
(* process in the background that writes nothing, and ends; a command that *)
(* cannot be executed is one of them.  A task has at least one command,    *)
(* since run_task_instance (daemon.c:1018) runs no others.                 *)
(***************************************************************************)
EXTENDS Integers

CONSTANTS
    MaxCommands,  \* commands of a task
    MaxOut,       \* bytes a command may write to its standard output
    MaxErr,       \* bytes a command may write to its standard error
    PipeCap,      \* capacity of a pipe
    Chunk,        \* bytes read at a time (4096)
    Limit,        \* bytes kept of an output (ERRAID_MAX_STDIO_SNAPSHOT)
    FaultKinds,   \* the failures that may happen, see AllFaultKinds
    MaxFaults     \* bound: failures in a run

AllFaultKinds ==
    {"pipe",      \* a call of pipe fails
     "fork",      \* fork fails
     "alloc",     \* a buffer cannot be extended
     "interrupt"} \* a signal interrupts waitpid

ASSUME ExecutorAssumption ==
    /\ MaxCommands \in Nat \ {0}
    /\ MaxOut \in Nat /\ MaxErr \in Nat
    /\ PipeCap \in Nat \ {0} /\ Chunk \in Nat \ {0} /\ Limit \in Nat \ {0}
    /\ FaultKinds \subseteq AllFaultKinds /\ MaxFaults \in Nat

Statuses == {0, 1}

VARIABLES
    type, count,         \* of the task
    pc,                  \* where the parent is
    index,               \* command being run
    fds,                 \* ends of the pipes open in the parent
    rc,                  \* of the current command, then of the run
    cmd_out, cmd_err,    \* bytes kept of the current command's outputs
    out_len, err_len,    \* stdout_len and stderr_len of the result
    status,              \* status of the result
    child,               \* "none", "runs", or "zombie"
    want,                \* what the child is about to do
    out_open, err_open,  \* the write end is open in some other process
    out_pipe, err_pipe,  \* bytes in the pipes
    out_left, err_left,  \* bytes the child may still write
    exit_status,         \* of the last child that ended
    wrote_out, wrote_err,\* observed: bytes written by the commands of the run
    faults

parent == <<type, count, pc, index, fds, rc, cmd_out, cmd_err, out_len,
            err_len, status>>
process == <<child, want, out_open, err_open, out_left, err_left, exit_status,
             wrote_out, wrote_err>>
pipes == <<out_pipe, err_pipe>>

vars == <<parent, process, pipes, faults>>

Least(m, n) == IF m < n THEN m ELSE n

Fails(kind) ==
    /\ kind \in FaultKinds
    /\ faults < MaxFaults
    /\ faults' = faults + 1

(* executor_run_task returns -1: the result is the one it cleared, but for *)
(* the status, which is that of the last command that was collected.       *)
ReturnError ==
    /\ pc' = "returned" /\ rc' = -1
    /\ out_len' = 0 /\ err_len' = 0
    /\ UNCHANGED status

-----------------------------------------------------------------------------
(* The parent                                                              *)

(* A command without words is refused (EINVAL), whatever was run before it. *)
Refuse ==
    /\ pc = "open_out"
    /\ ReturnError
    /\ UNCHANGED <<type, count, index, fds, cmd_out, cmd_err, process, pipes,
                   faults>>

OpenOut ==
    /\ pc = "open_out"
    /\ \/ /\ fds' = {"out_r", "out_w"}
          /\ pc' = "open_err"
          /\ UNCHANGED <<rc, out_len, err_len, status, faults>>
       \/ /\ Fails("pipe")
          /\ ReturnError
          /\ UNCHANGED fds
    /\ UNCHANGED <<type, count, index, cmd_out, cmd_err, process, pipes>>

(* Mutant: the first pipe is left open when the second fails.              *)
OpenErrLeaks ==
    /\ pc = "open_err"
    /\ \/ /\ fds' = fds \cup {"err_r", "err_w"}
          /\ pc' = "fork"
          /\ UNCHANGED <<rc, out_len, err_len, status, faults>>
       \/ /\ Fails("pipe")
          /\ ReturnError
          /\ UNCHANGED fds
    /\ UNCHANGED <<type, count, index, cmd_out, cmd_err, process, pipes>>

OpenErr ==
    /\ pc = "open_err"
    /\ \/ /\ fds' = fds \cup {"err_r", "err_w"}
          /\ pc' = "fork"
          /\ UNCHANGED <<rc, out_len, err_len, status, faults>>
       \/ /\ Fails("pipe")
          /\ fds' = {}
          /\ ReturnError
    /\ UNCHANGED <<type, count, index, cmd_out, cmd_err, process, pipes>>

Forked ==
    /\ child' = "runs" /\ want' = "none"
    /\ out_open' = TRUE /\ err_open' = TRUE
    /\ out_pipe' = 0 /\ err_pipe' = 0
    /\ out_left' = MaxOut /\ err_left' = MaxErr
    /\ UNCHANGED <<exit_status, wrote_out, wrote_err, faults>>

(* Mutant: the parent keeps a write end, and never sees the end of stdout. *)
ForkKeepsEnd ==
    /\ pc = "fork"
    /\ Forked
    /\ fds' = fds \ {"err_w"}
    /\ pc' = "read_out" /\ rc' = 0 /\ cmd_out' = 0 /\ cmd_err' = 0
    /\ UNCHANGED <<type, count, index, out_len, err_len, status>>

(* The parent closes the write ends once the child has them.               *)
Fork ==
    /\ pc = "fork"
    /\ \/ /\ Forked
          /\ fds' = fds \ {"out_w", "err_w"}
          /\ pc' = "read_out" /\ rc' = 0 /\ cmd_out' = 0 /\ cmd_err' = 0
          /\ UNCHANGED <<out_len, err_len, status>>
       \/ /\ Fails("fork")
          /\ fds' = {}
          /\ ReturnError
          /\ UNCHANGED <<cmd_out, cmd_err, process, pipes>>
    /\ UNCHANGED <<type, count, index>>

(* read_fd_into_buffer on stdout: a read takes what is there, up to Chunk, *)
(* and keeps what fits; it blocks on an empty pipe with a writer.          *)
ReadOut ==
    /\ pc = "read_out"
    /\ \/ /\ out_pipe > 0
          /\ out_pipe' = out_pipe - Least(Chunk, out_pipe)
          /\ cmd_out' = Least(Limit, cmd_out + Least(Chunk, out_pipe))
          /\ UNCHANGED <<pc, fds, rc, faults>>
       \/ /\ out_pipe = 0 /\ ~out_open /\ "out_w" \notin fds
          /\ pc' = "read_err" /\ fds' = fds \ {"out_r"}
          /\ UNCHANGED <<out_pipe, cmd_out, rc, faults>>
       \/ /\ \/ out_pipe > 0 /\ cmd_out < Limit
             \/ out_pipe = 0 /\ ~out_open /\ cmd_out = 0
          /\ Fails("alloc")
          /\ out_pipe' = out_pipe - Least(Chunk, out_pipe)
          /\ rc' = -1
          /\ pc' = "wait" /\ fds' = fds \ {"out_r", "err_r"}
          /\ UNCHANGED cmd_out
    /\ UNCHANGED <<type, count, index, cmd_err, out_len, err_len, status,
                   process, err_pipe>>

(* Mutant: one read of stderr, not to its end.                             *)
ReadErrOnce ==
    /\ pc = "read_err"
    /\ err_pipe > 0 \/ ~err_open
    /\ err_pipe' = err_pipe - Least(Chunk, err_pipe)
    /\ cmd_err' = Least(Limit, cmd_err + Least(Chunk, err_pipe))
    /\ pc' = "wait" /\ fds' = fds \ {"err_r"}
    /\ UNCHANGED <<type, count, index, rc, cmd_out, out_len, err_len, status,
                   process, out_pipe, faults>>

ReadErr ==
    /\ pc = "read_err"
    /\ \/ /\ err_pipe > 0
          /\ err_pipe' = err_pipe - Least(Chunk, err_pipe)
          /\ cmd_err' = Least(Limit, cmd_err + Least(Chunk, err_pipe))
          /\ UNCHANGED <<pc, fds, rc, faults>>
       \/ /\ err_pipe = 0 /\ ~err_open /\ "err_w" \notin fds
          /\ pc' = "wait" /\ fds' = fds \ {"err_r"}
          /\ UNCHANGED <<err_pipe, cmd_err, rc, faults>>
       \/ /\ \/ err_pipe > 0 /\ cmd_err < Limit
             \/ err_pipe = 0 /\ ~err_open /\ cmd_err = 0
          /\ Fails("alloc")
          /\ err_pipe' = err_pipe - Least(Chunk, err_pipe)
          /\ rc' = -1
          /\ pc' = "wait" /\ fds' = fds \ {"err_r"}
          /\ UNCHANGED cmd_err
    /\ UNCHANGED <<type, count, index, cmd_out, out_len, err_len, status,
                   process, out_pipe>>

(* waitpid, once: interrupted, it fails the run and the child is not       *)
(* waited for again.                                                       *)
Wait ==
    /\ pc = "wait"
    /\ \/ /\ child = "zombie"
          /\ child' = "none"
          /\ IF rc = 0
             THEN pc' = "collect" /\ UNCHANGED <<rc, out_len, err_len, status>>
             ELSE ReturnError
          /\ UNCHANGED faults
       \/ /\ child = "runs"
          /\ Fails("interrupt")
          /\ ReturnError
          /\ UNCHANGED child
    /\ UNCHANGED <<type, count, index, fds, cmd_out, cmd_err, want, out_open,
                   err_open, out_left, err_left, exit_status, wrote_out,
                   wrote_err, pipes>>

(* The outputs of the command are added to those of the run, within the    *)
(* limit, and a sequence goes on whatever the status.                      *)
Collect ==
    /\ pc = "collect"
    /\ \/ /\ out_len' = Least(Limit, out_len + cmd_out)
          /\ err_len' = Least(Limit, err_len + cmd_err)
          /\ status' = exit_status
          /\ IF type = "SIMPLE" \/ index = count
             THEN pc' = "returned" /\ UNCHANGED index
             ELSE pc' = "open_out" /\ index' = index + 1
          /\ UNCHANGED <<rc, faults>>
       \/ /\ cmd_out + cmd_err > 0
          /\ Fails("alloc")
          /\ ReturnError
          /\ UNCHANGED index
    /\ UNCHANGED <<type, count, fds, cmd_out, cmd_err, process, pipes>>

-----------------------------------------------------------------------------
(* The child: it decides what to do next, and may then have to wait.       *)

Decide ==
    /\ child = "runs" /\ want = "none"
    /\ want' \in (IF out_open /\ out_left > 0 THEN {"out"} ELSE {})
                 \cup (IF err_open /\ err_left > 0 THEN {"err"} ELSE {})
                 \cup (IF out_open THEN {"close_out"} ELSE {})
                 \cup (IF err_open THEN {"close_err"} ELSE {})
                 \cup {"exit"}
    /\ UNCHANGED <<parent, child, out_open, err_open, out_left, err_left,
                   exit_status, wrote_out, wrote_err, pipes, faults>>

(* A write blocks while the pipe is full; without a reader it is fatal.    *)
WriteOut ==
    /\ child = "runs" /\ want = "out"
    /\ \/ /\ "out_r" \in fds /\ out_pipe < PipeCap
          /\ out_pipe' = out_pipe + 1
          /\ out_left' = out_left - 1 /\ wrote_out' = wrote_out + 1
          /\ want' = "none"
       \/ /\ "out_r" \notin fds
          /\ want' = "exit"
          /\ UNCHANGED <<out_pipe, out_left, wrote_out>>
    /\ UNCHANGED <<parent, child, out_open, err_open, err_left, exit_status,
                   wrote_err, err_pipe, faults>>

WriteErr ==
    /\ child = "runs" /\ want = "err"
    /\ \/ /\ "err_r" \in fds /\ err_pipe < PipeCap
          /\ err_pipe' = err_pipe + 1
          /\ err_left' = err_left - 1 /\ wrote_err' = wrote_err + 1
          /\ want' = "none"
       \/ /\ "err_r" \notin fds
          /\ want' = "exit"
          /\ UNCHANGED <<err_pipe, err_left, wrote_err>>
    /\ UNCHANGED <<parent, child, out_open, err_open, out_left, exit_status,
                   wrote_out, out_pipe, faults>>

CloseOutput ==
    /\ child = "runs" /\ want \in {"close_out", "close_err"}
    /\ out_open' = (out_open /\ want # "close_out")
    /\ err_open' = (err_open /\ want # "close_err")
    /\ want' = "none"
    /\ UNCHANGED <<parent, child, out_left, err_left, exit_status, wrote_out,
                   wrote_err, pipes, faults>>

(* The child ends; what it left in the background may hold its outputs.    *)
Exit ==
    /\ child = "runs" /\ want = "exit"
    /\ child' = "zombie"
    /\ exit_status' \in Statuses
    /\ out_open' \in {FALSE, out_open}
    /\ err_open' \in {FALSE, err_open}
    /\ want' = "none"
    /\ UNCHANGED <<parent, out_left, err_left, wrote_out, wrote_err, pipes,
                   faults>>

BackgroundEnds ==
    /\ child # "runs" /\ (out_open \/ err_open)
    /\ out_open' = FALSE /\ err_open' = FALSE
    /\ UNCHANGED <<parent, child, want, out_left, err_left, exit_status,
                   wrote_out, wrote_err, pipes, faults>>

-----------------------------------------------------------------------------
Init ==
    /\ type \in {"SIMPLE", "SEQUENCE"}
    /\ count \in 1..MaxCommands /\ (type = "SIMPLE" => count = 1)
    /\ pc = "open_out" /\ index = 1 /\ fds = {} /\ rc = 0
    /\ cmd_out = 0 /\ cmd_err = 0 /\ out_len = 0 /\ err_len = 0 /\ status = 0
    /\ child = "none" /\ want = "none"
    /\ out_open = FALSE /\ err_open = FALSE
    /\ out_pipe = 0 /\ err_pipe = 0 /\ out_left = 0 /\ err_left = 0
    /\ exit_status = 0 /\ wrote_out = 0 /\ wrote_err = 0
    /\ faults = 0

Parent ==
    Refuse \/ OpenOut \/ OpenErr \/ Fork \/ ReadOut \/ ReadErr \/ Wait \/ Collect

Child == Decide \/ WriteOut \/ WriteErr \/ CloseOutput \/ Exit

Next == Parent \/ Child \/ BackgroundEnds

(* The parent and the child are runnable processes; what a child leaves in *)
(* the background ends.                                                    *)
Spec ==
    /\ Init /\ [][Next]_vars
    /\ WF_vars(Parent) /\ WF_vars(Child) /\ WF_vars(BackgroundEnds)

-----------------------------------------------------------------------------
(* A run that succeeds has run its commands to the end, has everything     *)
(* they wrote up to the limit, and has the status of the last, however     *)
(* their writes, closes and ends fall between the reads of the parent.     *)
OutputCollected ==
    pc = "returned" /\ rc = 0 =>
        /\ out_len = Least(Limit, wrote_out)
        /\ err_len = Least(Limit, wrote_err)
        /\ status = exit_status
        /\ index = count /\ child = "none"

(* The daemon runs for months: no run leaves a descriptor open, whichever  *)
(* call of whichever command of a sequence failed.                         *)
NoDescriptorLeft == pc = "returned" => fds = {}

(* ARCHITECTURE.md:63, "Les sorties sont collectees via des pipes [...]. A *)
(* la fin de l'execution, elles sont ecrites sur disque": a run of         *)
(* commands that end, ends.                                                *)
RunReturns == <>(pc = "returned")
=============================================================================
