------------------------------- MODULE RepBatch -------------------------------
(***************************************************************************)
(* One worker thread of spdk_nvme_perf_rep_batch (app/                     *)
(* spdk_nvme_perf_rep_batch/perf_rep_batch.c) with -R, a limit on the I/Os *)
(* of a second.  The program is perf_rep.c with one difference: a round is *)
(* not submitted where it becomes due, in submit_io_rep and task_complete, *)
(* but waits in a list (perf_task_link) from which work_fn, after each     *)
(* pass over the namespaces, submits batch_size rounds at a time.          *)
(*                                                                         *)
(* So this module takes every action of RepWorker but the three that       *)
(* differ, and adds the list and its two counters.                         *)
(***************************************************************************)
EXTENDS RepWorker, Sequences

CONSTANT BatchSizes    \* the values of -B, which parse_args does not limit

ASSUME BatchAssumption == BatchSizes \subseteq Nat \ {0}

VARIABLES
    debug,            \* built with CONFIG_DEBUG: assert is evaluated
    batch_size,
    perf_task_link,   \* the slots whose next round waits, from the head
    batch,            \* rounds that became due again since the last batch
    submit_batch      \* rounds submitted of this batch

batchvars == <<debug, batch_size, perf_task_link, batch, submit_batch>>

BatchInit ==
    /\ Init /\ debug \in BOOLEAN /\ batch_size \in BatchSizes
    /\ perf_task_link = <<>> /\ batch = 0 /\ submit_batch = 0

\* submit_io_rep: build the group and append it.
AllocateDeferred ==
    /\ pc = "submit_io_rep" /\ slot <= QueueDepth
    /\ q' = LinkGroup(slot)
    /\ io_id' = [t \in Tasks |-> IF t[1] = slot THEN slot ELSE io_id[t]]
    /\ perf_task_link' = Append(perf_task_link, slot)
    /\ slot' = slot + 1
    /\ UNCHANGED <<pc, ns, tmp, all_draining, unfinished, warmup, call, cmd, rep_completed_num,
                   inflight, freed, buf_freed, nsvars, envvars, batch, submit_batch, batch_size, debug>>

\* Mutant: the round is appended, and submitted at once as without -R.
RenewDeferredAndSent ==
    /\ pc = "renew" /\ call.cur = NULL
    /\ perf_task_link' = Append(perf_task_link, call.main) /\ batch' = batch + 1
    /\ StartRound(call.main, q, call.ret)
    /\ UNCHANGED <<loopvars, taskvars, counters, is_draining, status, envvars, submit_batch, batch_size,
                   debug>>

\* The end of task_complete: the group is appended and the round counted.
RenewDeferred ==
    /\ pc = "renew" /\ call.cur = NULL
    /\ perf_task_link' = Append(perf_task_link, call.main) /\ batch' = batch + 1
    /\ pc' = call.ret /\ call' = NoCall
    /\ UNCHANGED <<loopvars, taskvars, nsvars, envvars, submit_batch, batch_size, debug>>

\* check_io returns; after the last namespace the batch comes before the test of
\* all_draining.
EndPollBatch ==
    /\ pc = "poll"
    /\ all_draining' = (all_draining /\ is_draining[ns])
    /\ IF ns < NumNs THEN ns' = ns + 1 /\ pc' = "queue" ELSE ns' = 1 /\ pc' = "batch"
    /\ unfinished' = 0
    /\ UNCHANGED <<slot, tmp, warmup, call, taskvars, nsvars, envvars, batchvars>>

\* assert(!main_ns_ctx->is_draining), on entry to submit_single_io_rep.
AssertPasses == debug => ~is_draining[1]

\* work_fn takes the next round of this batch.
BatchGoesOn == pc = "batch" /\ submit_batch < batch_size

\* One iteration of while (submit_batch < batch_size).  Nothing but the assert asks whether
\* the namespaces began to drain since the round was put into the list.
SubmitBatched ==
    /\ BatchGoesOn /\ perf_task_link # <<>> /\ AssertPasses
    /\ perf_task_link' = Tail(perf_task_link)
    /\ submit_batch' = submit_batch + 1
    /\ StartRound(Head(perf_task_link), q, "batch")
    /\ UNCHANGED <<loopvars, taskvars, counters, is_draining, status, envvars, batch, batch_size,
                   debug>>

\* The assert fails: the process aborts.
AssertFails ==
    /\ BatchGoesOn /\ perf_task_link # <<>> /\ ~AssertPasses
    /\ fault' = "assert" /\ pc' = "halted"
    /\ UNCHANGED <<loopvars, call, taskvars, nsvars, g_exit, rejects, errors, batchvars>>

\* The list is empty: the code goes on with temp_perf_task_link == NULL.
NoTaskLeft ==
    /\ BatchGoesOn /\ perf_task_link = <<>>
    /\ fault' = "no task" /\ pc' = "halted"
    /\ UNCHANGED <<loopvars, call, taskvars, nsvars, g_exit, rejects, errors, batchvars>>

\* Mutant: a batch is due as soon as one of its rounds is.
BatchDueEarly == batch > 0

BatchDue == batch >= batch_size

\* The batch is out.  When as many rounds are due again the counters start over, after
\* the busy wait for judge_if_send; then the loop goes on or ends.
EndBatch ==
    /\ pc = "batch" /\ submit_batch >= batch_size
    /\ IF BatchDue THEN batch' = 0 /\ submit_batch' = 0 ELSE UNCHANGED <<batch, submit_batch>>
    /\ pc' = IF all_draining THEN "drain" ELSE "clock"
    /\ UNCHANGED <<loopvars, call, taskvars, nsvars, envvars, perf_task_link, batch_size, debug>>

\* The actions of RepWorker that perf_rep_batch.c has unchanged.
SharedWork ==
    \/ AllAllocated \/ SubmitReplica \/ SubmitDone
    \/ (\E t \in Tasks : IoComplete(t)) \/ Renew \/ Release \/ ReleaseDone
    \/ LoopTest \/ TakeQueue \/ RetryTask \/ RetryDone \/ PollError \/ TimeLeft \/ TimeExpired
    \/ Drain \/ UndefinedBehaviour

Deferral ==
    \/ AllocateDeferred \/ RenewDeferred \/ EndPollBatch
    \/ SubmitBatched \/ AssertFails \/ NoTaskLeft \/ EndBatch

BatchWork == Deferral \/ (SharedWork /\ UNCHANGED batchvars)

BatchNext == BatchWork \/ ((SetExit \/ Returned) /\ UNCHANGED batchvars)

allvars == <<vars, batchvars>>

\* The fairness of RepWorker, for the changed loop.
BatchSpec ==
    /\ BatchInit /\ [][BatchNext]_allvars
    /\ WF_allvars(BatchWork)
    /\ \A n \in NsCtx :
         SF_allvars((\E t \in Tasks : t[2] = n /\ IoComplete(t)) /\ UNCHANGED batchvars)
    /\ SF_allvars(UndefinedBehaviour /\ pc \in {"poll", "drainpoll"} /\ UNCHANGED batchvars)
    /\ SF_allvars(TimeExpired /\ UNCHANGED batchvars)

-----------------------------------------------------------------------------
(* Properties *)

Waiting == {perf_task_link[k] : k \in DOMAIN perf_task_link}

\* A slot with a replica at the driver, counted by the barrier, or being worked on.
Busy(s) == inflight \cap Group(s) # {} \/ rep_completed_num[s] > 0 \/ call.main = s

\* An allocated group is in exactly one place: once in the list, in a round, or released.
\* The groups that wait in the list when the run ends are lost: work_fn returns with all
\* the others released, and no command left with the driver.
OnePlace ==
    /\ \A j, k \in DOMAIN perf_task_link : perf_task_link[j] = perf_task_link[k] => j = k
    /\ \A s \in Allocated :
          /\ s \in Waiting => ~Busy(s) /\ s \notin buf_freed
          /\ s \notin Waiting => Busy(s) \/ s \in buf_freed
    /\ pc = "done" => freed = (Slots \ Waiting) \X NsCtx /\ buf_freed = Slots \ Waiting
                      /\ inflight = {}

\* The rate limit: never more than batch_size rounds are under way, since a batch is
\* submitted only when the whole of the last one is due again.  And with batch_size no
\* larger than the queue depth a batch always finds its rounds in the list, even when groups
\* are released because a namespace drains: work_fn never goes on with a NULL perf_task_link.
AtMostOneBatch ==
    /\ Cardinality({s \in Slots : Busy(s)}) <= batch_size
    /\ batch_size <= QueueDepth => fault # "no task"

\* -d is kept as far as the program keeps it.  A debug build never exceeds it: the assert
\* of submit_single_io_rep ends the run first.  In a release build the rounds of a batch that
\* is under way when the main namespace begins to drain are still submitted, so the limit is
\* passed by fewer than batch_size commands.
BudgetToABatch ==
    NumberIos > 0 =>
        \A n \in NsCtx : io_submitted[n] < NumberIos + (IF debug THEN 1 ELSE batch_size)

\* assert(!main_ns_ctx->is_draining) of submit_single_io_rep holds whenever work_fn submits a
\* round of the list.
BatchMainNotDraining == BatchGoesOn /\ perf_task_link # <<>> => ~is_draining[1]

\* work_fn returns, whenever and however the run is ended, but for two kinds of run that the
\* process does not survive: a batch larger than the queue depth, which meets the NULL task of
\* the empty list, and, in a debug build, one whose main namespace drains while rounds of the
\* batch wait in the list, which fails the assert.
BatchTermination ==
    <>(\/ pc = "done"
       \/ fault = "no task" /\ batch_size > QueueDepth
       \/ fault = "assert" /\ debug /\ is_draining[1])
===============================================================================
