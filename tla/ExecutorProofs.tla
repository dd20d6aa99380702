--------------------------- MODULE ExecutorProofs ---------------------------
(***************************************************************************)
(* A run of a task, for every number of commands, amount of output, size   *)
(* of the pipes and failures: nothing that was written is lost within the  *)
(* limit, and no descriptor stays open.                                    *)
(***************************************************************************)
EXTENDS Executor, TLAPS

(* The descriptors the parent has open, from one call to the next.         *)
Descriptors ==
    /\ pc \in {"open_out", "open_err", "fork", "read_out", "read_err", "wait",
               "collect", "returned"}
    /\ fds = CASE pc = "open_err" -> {"out_r", "out_w"}
               [] pc = "fork"     -> {"out_r", "out_w", "err_r", "err_w"}
               [] pc = "read_out" -> {"out_r", "err_r"}
               [] pc = "read_err" -> {"err_r"}
               [] OTHER           -> {}

(* What was written is in the result, in the buffer, or in the pipe; no    *)
(* more than Limit of it is kept.                                          *)
Accounted(len, cmd, pipe, wrote) == Least(Limit, len + cmd + pipe) = Least(Limit, wrote)

Lengths ==
    /\ out_len \in Nat /\ cmd_out \in Nat /\ out_pipe \in Nat /\ wrote_out \in Nat
    /\ err_len \in Nat /\ cmd_err \in Nat /\ err_pipe \in Nat /\ wrote_err \in Nat

(* A task that is not a sequence has one command.                          *)
Commands ==
    /\ count \in Nat /\ index \in Nat
    /\ type \in {"SIMPLE", "SEQUENCE"}
    /\ type = "SIMPLE" => count = 1 /\ index = 1

(* Where everything written is, as long as the run has not failed.         *)
Collected ==
    /\ pc \in {"open_out", "open_err", "fork"} =>
           /\ rc = 0 /\ child = "none"
           /\ Accounted(out_len, 0, 0, wrote_out)
           /\ Accounted(err_len, 0, 0, wrote_err)
    /\ pc \in {"read_out", "read_err", "wait", "collect"} /\ rc = 0 =>
           /\ Accounted(out_len, cmd_out, out_pipe, wrote_out)
           /\ Accounted(err_len, cmd_err, err_pipe, wrote_err)
           /\ pc # "read_out" => out_pipe = 0
           /\ pc \in {"wait", "collect"} => err_pipe = 0
    /\ pc = "collect" => rc = 0 /\ child = "none"

(* Each part is needed: OutputCollected speaks of the end only.            *)
ExecutorInv == Descriptors /\ Lengths /\ Commands /\ Collected /\ OutputCollected

-----------------------------------------------------------------------------
(* A read moves bytes from the pipe to the buffer, or drops what is beyond *)
(* the limit; a write adds to the pipe; Collect adds to the result.        *)
LEMMA LeastOf ==
    \A m, n \in Nat : Least(m, n) \in Nat /\ Least(m, n) <= m /\ Least(m, n) <= n
BY DEF Least

LEMMA ReadKeeps ==
    ASSUME NEW len \in Nat, NEW cmd \in Nat, NEW pipe \in Nat, NEW wrote \in Nat,
           NEW k \in Nat, k <= pipe, Accounted(len, cmd, pipe, wrote)
    PROVE  Accounted(len, Least(Limit, cmd + k), pipe - k, wrote)
BY ExecutorAssumption DEF Accounted, Least

LEMMA WriteKeeps ==
    ASSUME NEW len \in Nat, NEW cmd \in Nat, NEW pipe \in Nat, NEW wrote \in Nat,
           Accounted(len, cmd, pipe, wrote)
    PROVE  Accounted(len, cmd, pipe + 1, wrote + 1)
BY ExecutorAssumption DEF Accounted, Least

LEMMA CollectKeeps ==
    ASSUME NEW len \in Nat, NEW cmd \in Nat, NEW wrote \in Nat,
           Accounted(len, cmd, 0, wrote)
    PROVE  /\ Accounted(Least(Limit, len + cmd), 0, 0, wrote)
           /\ Least(Limit, len + cmd) = Least(Limit, wrote)
BY ExecutorAssumption DEF Accounted, Least

LEMMA DescriptorsStep ==
    ASSUME ExecutorInv, [Next]_vars
    PROVE  Descriptors'
<1> USE DEF ExecutorInv, Descriptors, parent, process, pipes
<1>1. CASE Refuse \/ OpenOut \/ OpenErr \/ Fork
    BY <1>1 DEF Refuse, OpenOut, OpenErr, Fork, ReturnError
<1>2. CASE ReadOut \/ ReadErr
    BY <1>2 DEF ReadOut, ReadErr
<1>3. CASE Wait \/ Collect
    BY <1>3 DEF Wait, Collect, ReturnError
<1>4. CASE Child \/ BackgroundEnds
    BY <1>4 DEF Child, Decide, WriteOut, WriteErr, CloseOutput, Exit, BackgroundEnds
<1>5. CASE UNCHANGED vars
    BY <1>5 DEF vars
<1> QED
    BY <1>1, <1>2, <1>3, <1>4, <1>5 DEF Next, Parent

LEMMA CommandsStep ==
    ASSUME ExecutorInv, [Next]_vars
    PROVE  Commands'
<1> USE DEF ExecutorInv, Commands
<1>1. CASE Collect
    BY <1>1 DEF Collect
<1>2. CASE ~Collect
    BY <1>2 DEF Next, Parent, Refuse, ReturnError, OpenOut, OpenErr, Fork, ReadOut, ReadErr, Wait,
        Child, Decide, WriteOut, WriteErr, CloseOutput, Exit, BackgroundEnds, vars,
        parent
<1> QED
    BY <1>1, <1>2

(* Where nothing is read, written or collected, the lengths stay as they   *)
(* are, or the run has failed.                                             *)
LEMMA LengthsStep ==
    ASSUME ExecutorInv, [Next]_vars
    PROVE  Lengths'
<1> USE ExecutorAssumption DEF ExecutorInv, Lengths, process, pipes, parent
<1>1. CASE Refuse \/ OpenOut \/ OpenErr \/ Fork
    BY <1>1 DEF Refuse, OpenOut, OpenErr, Fork, Forked, ReturnError
<1>2. CASE ReadOut
    BY <1>2 DEF ReadOut, Least
<1>3. CASE ReadErr
    BY <1>3 DEF ReadErr, Least
<1>4. CASE Wait
    BY <1>4 DEF Wait, ReturnError
<1>5. CASE Collect
    BY <1>5 DEF Collect, ReturnError, Least
<1>6. CASE Decide \/ CloseOutput \/ Exit \/ BackgroundEnds
    BY <1>6 DEF Decide, CloseOutput, Exit, BackgroundEnds
<1>7. CASE WriteOut \/ WriteErr
    BY <1>7 DEF WriteOut, WriteErr
<1>8. CASE UNCHANGED vars
    BY <1>8 DEF vars
<1> QED
    BY <1>1, <1>2, <1>3, <1>4, <1>5, <1>6, <1>7, <1>8 DEF Next, Parent, Child

LEMMA CollectedStep ==
    ASSUME ExecutorInv, [Next]_vars
    PROVE  Collected'
<1> USE ExecutorAssumption DEF ExecutorInv, Collected, Descriptors, process, pipes, parent
<1>1. CASE Refuse \/ OpenOut \/ OpenErr
    BY <1>1 DEF Refuse, OpenOut, OpenErr, ReturnError
<1>2. CASE Fork
    BY <1>2 DEF Fork, Forked, ReturnError
<1>3. CASE ReadOut
    <2> DEFINE k == Least(Chunk, out_pipe)
    <2>1. k \in Nat /\ k <= out_pipe
        BY LeastOf DEF Lengths
    <2>2. CASE /\ out_pipe > 0 /\ UNCHANGED <<pc, rc>>
               /\ out_pipe' = out_pipe - k /\ cmd_out' = Least(Limit, cmd_out + k)
        <3>1. rc = 0 => Accounted(out_len, cmd_out', out_pipe', wrote_out)
            BY <1>3, <2>1, <2>2, ReadKeeps DEF ReadOut, Lengths
        <3> QED
            BY <1>3, <2>2, <3>1 DEF ReadOut
    <2>3. CASE out_pipe = 0 /\ pc' = "read_err" /\ UNCHANGED <<out_pipe, cmd_out, rc>>
        BY <1>3, <2>3 DEF ReadOut
    <2>4. CASE rc' = -1 /\ pc' = "wait"
        BY <1>3, <2>4 DEF ReadOut
    <2> QED
        BY <1>3, <2>2, <2>3, <2>4 DEF ReadOut
<1>4. CASE ReadErr
    <2> DEFINE k == Least(Chunk, err_pipe)
    <2>1. k \in Nat /\ k <= err_pipe
        BY LeastOf DEF Lengths
    <2>2. CASE /\ err_pipe > 0 /\ UNCHANGED <<pc, rc>>
               /\ err_pipe' = err_pipe - k /\ cmd_err' = Least(Limit, cmd_err + k)
        <3>1. rc = 0 => Accounted(err_len, cmd_err', err_pipe', wrote_err)
            BY <1>4, <2>1, <2>2, ReadKeeps DEF ReadErr, Lengths
        <3> QED
            BY <1>4, <2>2, <3>1 DEF ReadErr
    <2>3. CASE err_pipe = 0 /\ pc' = "wait" /\ UNCHANGED <<err_pipe, cmd_err, rc>>
        BY <1>4, <2>3 DEF ReadErr
    <2>4. CASE rc' = -1 /\ pc' = "wait"
        BY <1>4, <2>4 DEF ReadErr
    <2> QED
        BY <1>4, <2>2, <2>3, <2>4 DEF ReadErr
<1>5. CASE Wait
    BY <1>5 DEF Wait, ReturnError
<1>6. CASE Collect
    BY <1>6, CollectKeeps DEF Collect, ReturnError, Lengths
<1>7. CASE Decide \/ CloseOutput \/ Exit \/ BackgroundEnds
    BY <1>7 DEF Decide, CloseOutput, Exit, BackgroundEnds
<1>8. CASE WriteOut
    BY <1>8, WriteKeeps DEF WriteOut, Lengths
<1>9. CASE WriteErr
    BY <1>9, WriteKeeps DEF WriteErr, Lengths
<1>10. CASE UNCHANGED vars
    BY <1>10 DEF vars
<1> QED
    BY <1>1, <1>2, <1>3, <1>4, <1>5, <1>6, <1>7, <1>8, <1>9, <1>10
    DEF Next, Parent, Child

LEMMA OutputCollectedStep ==
    ASSUME ExecutorInv, [Next]_vars
    PROVE  OutputCollected'
<1> USE DEF ExecutorInv, OutputCollected, process, pipes, parent
<1>1. CASE Refuse \/ OpenOut \/ OpenErr \/ Fork
    BY <1>1 DEF Refuse, OpenOut, OpenErr, Fork, ReturnError
<1>2. CASE ReadOut \/ ReadErr
    BY <1>2 DEF ReadOut, ReadErr
<1>3. CASE Wait
    BY <1>3 DEF Wait, ReturnError
<1>4. CASE Collect
    BY <1>4, CollectKeeps DEF Collect, ReturnError, Lengths, Collected, Commands
<1>5. CASE Child \/ BackgroundEnds
    <2>1. pc = "returned" /\ rc = 0 => child = "none"
        OBVIOUS
    <2> QED
        BY <1>5, <2>1, ExecutorAssumption DEF Child, Decide, WriteOut, WriteErr, CloseOutput,
            Exit, BackgroundEnds
<1>6. CASE UNCHANGED vars
    BY <1>6 DEF vars
<1> QED
    BY <1>1, <1>2, <1>3, <1>4, <1>5, <1>6 DEF Next, Parent

LEMMA ExecutorInvHolds == Spec => []ExecutorInv
<1>1. Init => ExecutorInv
    BY ExecutorAssumption DEF Init, ExecutorInv, Descriptors, Lengths, Commands, Collected,
        OutputCollected, Accounted
<1>2. ExecutorInv /\ [Next]_vars => ExecutorInv'
    BY DescriptorsStep, CommandsStep, LengthsStep, CollectedStep, OutputCollectedStep
    DEF ExecutorInv
<1> QED
    BY <1>1, <1>2, PTL DEF Spec

(* A run that succeeds has, up to the limit, everything its commands wrote *)
(* to either output, however their writes, closes and ends fall between    *)
(* the reads of read_fd_into_buffer, and the status of the last command.   *)
THEOREM OutputIsCollected == Spec => []OutputCollected
<1>1. ExecutorInv => OutputCollected
    BY DEF ExecutorInv
<1> QED
    BY <1>1, ExecutorInvHolds, PTL

(* No run leaves a descriptor open in the daemon, whichever call of        *)
(* whichever command failed.                                               *)
THEOREM NoDescriptorIsLeft == Spec => []NoDescriptorLeft
<1>1. ExecutorInv => NoDescriptorLeft
    BY DEF ExecutorInv, Descriptors, NoDescriptorLeft
<1> QED
    BY <1>1, ExecutorInvHolds, PTL

=============================================================================
