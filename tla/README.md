# nof-rep in TLA+

nof-rep is a fork of SPDK. It adds performance tools that send every NVMe-oF command to several
namespaces (replicas) and continue only when all of them have answered, and a log of the latency of each
stage of a command. This directory models the parts where replication and logging can go wrong, checks
them with TLC on small instances, and proves the central ones with TLAPS for every instance.
File and line numbers refer to the repository root, `src/`.

## The system

| Part | State | Operations | What is hard about it |
|---|---|---|---|
| Replicated worker (`app/spdk_nvme_perf_rep/perf_rep.c`, `work_fn`) | per slot a list of replica tasks, `rep_completed_num`; per namespace depth, counters, `is_draining`, `queued_tasks` | allocate a group, submit a round, complete, renew or release, retry, poll, drain, clean up | completions in any order on several queue pairs; refused submissions in mid-round; lists relinked or freed under an iterator; exit at any point |
| Association (`associate_workers_with_ns`) | the namespaces of each worker | round robin, or all pairs | list lengths that do not divide |
| Host latency log (`lib/util/latency_log.c`, `main`) | accumulators, mutex, message queue, log file | record, timer callback, receive, shut down | callbacks overlap workers, each other and the shutdown; a blocking send under a mutex |
| Perf main (`main`, the start of `work_fn`, `nvme_poll_ctrlrs`) | workers, controller thread, start barrier, exit code | set up, launch, wait, cancel, clean up | failure of any step; one worker fails before the barrier; a thread still uses what is freed |
| Batched replicated tool (`app/spdk_nvme_perf_rep_batch/perf_rep_batch.c`) | a list of deferred rounds, two counters | defer, send a batch | rounds deferred past the start of the drain |
| NVMe queue pair and RDMA transport (`lib/nvme/nvme_qpair.c`, `nvme_rdma.c`, `lib/rdma`) | slots, queued requests, posted work, time stamps | submit, poll, complete, resubmit, disconnect | two completions per request in either order; callbacks that submit; a link that fails |
| RDMA target (`lib/nvmf/rdma.c`, with `nvmf.c` and `ctrlr.c`) | request states, four queues, depths, buffers | receive, process, complete, abort, drain | requests forced to completion in any state; flushed completions |
| Target latency log (`lib/thread/thread.c`), bdev layer | accumulators, time stamps | record, callback, message | callback against shutdown |
| The rest of SPDK | | | upstream code that the tools use through the queue pair, or not at all |

A worker drives several namespaces through their queue pairs. `main` associates workers and namespaces,
launches the workers, and shuts the log down when they return. A command goes through the queue pair and the RDMA transport
of the host to the RDMA target. Workers and the NVMe driver record
latencies in shared accumulators, which a timer thread ships to the log thread once a second.

`PROJECT.json` lists the components, the hazards with their source lines, and the lines each definition models.

## Modules

**`RepWorker`** is one worker thread. The thread is sequential, so `pc` says where it is, and `call` is the
frame of the active `task_complete` or `submit_single_io_rep`. The device acts only where the code polls
(`IoComplete`, `PollError`), the clock where it is read (`TimeLeft`, `TimeExpired`); `SetExit` is the signal
handler or the controller thread and may come at any time. A walk over tasks is one task a step, because
its body may relink or free what the cursor stands on; the effect of a call is otherwise one action.
A task is a pair of slot and namespace. The first access the C language leaves undefined (use after
free, double free, a task submitted while in flight) ends the run with `fault` set; nothing is claimed after it.
Two walks always make one: `TAILQ_FOREACH` reads the link of the task its body has just freed, in every release
(`rep_task_release`, `perf_rep.c:1748-1754`) and after a refusal without `-Q` (`submit_single_io_rep`, `:1693` and `:1718`). The constant
`FreedLinkKept` says what this read does: if it is true the allocator has left the link as it was and the walk goes on; if not, the run
ends there with a fault. The runs set it to true, `RepFreedLink.cfg` to false. The unassigned offset of `submit_single_io` is any offset.

**`TailQueue`** is the intrusive list: next, previous and last pointers, so that inserting a task that is already in a list does
to both lists what the macros do. `TAILQ_FIRST`, `TAILQ_NEXT` and `TAILQ_SWAP` are in `include/spdk/queue_extras.h`, the others in
`sys/queue.h`, external to the repository.

**`ReplicatedIO`** is what the worker promises, without lists or counters: a round has one command, all
namespaces answer, only then does the slot begin again or retire. `RepWorker` instantiates it with the
mapping `phaseOf`, `pendingOf`, `commandOf` (a round counts as begun when its walk starts).

**`HostLatencyLog`** is the log: workers, timer callbacks, log thread and `main`, interleaved step by step. A latency is a
numbered sample; an accumulator, message or row is the set of the samples it sums. A `msgsnd` may fail, because the queue is gone
or for want of memory; nobody looks at its result, and `lost` collects what `cleanup_log` then clears. The increment of
`g_io_completed_num` is a load and a store. `pthread_cancel` does nothing to the log thread, which enables cancellation only where
there is no cancellation point.

**`Association`** walks the loops of `associate_workers_with_ns` one iteration a step.

**`PerfMain`** extends `Association` with `main`: each step may fail where the code tests a result, and then goes to `cleanup`
with what `have` says exists. It is the build with `PERF_IO_WORKER_EXCLUSIVE_CORE`, which `include/spdk/util.h:21` always defines:
`main` has a core of its own, runs `main_work_fn` there, and every worker is launched on another core. Workers initialise their
namespaces, meet at the barrier and run; the I/O itself is one step (`RepWorker` has the detail), and so is the end of the log
(`HostLatencyLog`); with the log a worker may also wait for `log_mutex` for ever, as `LogShutsDown` allows. A thread id that was
never initialised, or that a failed `pthread_create` left undefined, has every outcome it can have when `cleanup` uses it.

**`RepBatch`** extends `RepWorker` with the list of deferred rounds: it replaces the allocation, the renewal and the end of
a poll, and keeps every other action. It has one worker. `debug` says whether the build evaluates `assert` (`CONFIG_DEBUG`): the one of
`submit_single_io_rep` (`perf_rep_batch.c:1707`) then ends the process.

**`NvmeRdma`** is one connected I/O queue pair of the host in a poll group. `h` is the host's state, `a` the adapter, the link and
the target (external), `poll` the progress of a poll. Handlers are operators from state to state, since the thread runs each without
interruption; a callback may submit up to `Burst` new requests from inside one. A completion carries the request it was
posted for, so that one which meets another request in its slot is a fault.

**`RdmaTarget`** is one queue pair of the target on its poll group thread. `t` is the transport's state, `cq` the completion
queue; `Step` is one case of `nvmf_rdma_request_process`, `Loop` its loop. Another queue pair borrows the shared buffer at any
time. The subsystem is paused and resumed at any time: requests that come to execution meanwhile wait in `sgroup->queued`, and a
disconnection frees them there (`_nvmf_qpair_sgroup_req_clean`, without a sample in the log). The allocation of the
disconnection's context may fail (`nomem`), which leaves the queue pair deactivating for good (`nvmf.c:1410`). A failed `assert`
is recorded and ends the run.

The `MC` modules give the namespace sizes, commands and requests of the instances; the other runs check a component module directly.
Definitions commented as mutants are plausible mistakes in the definition that follows; each makes the property
named in `PROJECT.json` fail. Several properties conjoin invariants that are defined, and commented, one by one.

## Runs

| Run | Result | What it shows |
|---|---|---|
| `rep_rounds` | holds | three replicas, two slots, one error: barrier; equal commands, lockstep, unique ids and offsets in range (`OneCommandPerRound`); no undefined access; buffers outlive I/O; `ReplicatedIO` is implemented; no round stays half complete, drains are final, and `work_fn` returns with everything released (`Completes`) |
| `rep_refused_queue`, `rep_refused_free` | holds | what survives refused submissions, with and without `-Q`: exact depth, a retried replica's id and direction (with mixed commands, in the first round of its slot), the `-d` budget and the barrier (`RefusalContained`), a final drain, and that the thread does not spin for ever |
| `rep_shared_link` | violated | a refused task is queued through the link of its replica list (`perf_rep.c:1707`) |
| `rep_freed_buffer` | violated | a refused submission frees the buffer its siblings use (`:1714`) |
| `rep_batch` | holds | a waiting round is nowhere else; at most one batch is under way, and it finds its rounds if it fits the depth; `-d` is passed by less than a batch in a release build, never in a debug build; only groups waiting in the list are lost; `work_fn` returns, unless a batch larger than the depth dereferences the empty list or the assertion of a debug build fails |
| `rep_batch_assert` | violated | `work_fn` submits a deferred round although its main namespace drains (`perf_rep_batch.c:2204`, assertion at `:1707`) |
| `log_rows` | holds | no latency lost, but by a failed `msgsnd`, or counted twice while the queue exists, rows in order, no reader stuck, `g_io_completed_num` within bounds; with a queue of one message, a callback blocked in `msgsnd` under the mutex does not keep main from exiting, unless the log thread timed out early and left the queue full |
| `perf_main` | holds | no thread uses what is freed; workers start together; errors reach the exit code, with two exceptions; cleanup is undefined only after a jump over the set-up of the log or a thread that could not be created; namespaces are dealt out evenly; main returns unless a launch failed or a worker waits for `log_mutex` for ever |
| `rdma_target` | holds | no assertion fails, but for `state_cb != NULL` after a disconnection without memory; posted work fits, requests and buffers outlive their work and are freed once; a disconnected queue pair is destroyed, paused subsystem or not, unless that memory was missing; requests are served, unless an aborted one at the head of the send queue waits for a completion that does not come, or a paused subsystem holds them or the buffer they wait for |
| `rdma_partial_read` | violated | a request with part of its reads posted is freed while they are under way (`rdma.c:2222`, assertion at `:4743`) |
| `nvme_rdma` | holds | one callback per request, completions meet their request, counters exact, no slot idle while a request waits, order kept, complete time stamps with the verbs provider, every accepted request completed |

Each violated property states what a comment or an assertion of the repository says; the findings quote it. Where a property that holds has an
exception, the exception is what the code does, and the comment on the property names it.

### Further configurations

These narrow a property of a run above to the bare statement, take away a condition, or change the mode. Run them as
`tlc -config X.cfg M`; all but the first two end in a counterexample.

| Configuration, module | Property | What TLC finds |
|---|---|---|
| `Assoc.cfg`, `Association` | nobody idle, no duplicates, balanced | holds for up to five workers and namespaces |
| `RepTimed.cfg`, `MCRepWorker` | `UntilRefused` | holds with a time limit, warm-up, random mixed commands, main replica last, errors ignored (the theorem `RoundsHold` has every mode) |
| `RepFreedLink.cfg`, `MCRepWorker` | `NoFault` | the walk of `rep_task_release` reads the link of the task it has just freed (`perf_rep.c:1752`) |
| `RepIdWrap.cfg`, `MCRepWorker` | `UniqueIoIds` | with ids of two bits, the slot that wraps to 0 takes the id 1, which another slot has (`:1821`) |
| `RepRetryOffset.cfg`, `MCRepWorker` | `ReplicasAgree` | a retry uses an offset that was never assigned (`perf_rep.c:1635`); the exception in `UntilRefused` |
| `RepNumMismatch.cfg`, `MCRepWorker` | `Barrier` | `-n` below the number of namespaces opens the barrier early (`:1813`) |
| `LogRemovedQueue.cfg`, `HostLatencyLog` | `QueueEmptyAtRemoval` | a message sent after the last receive is discarded with the queue (`:3947`) |
| `LogIoCount.cfg`, `HostLatencyLog` | `CountExact` | concurrent increments of `g_io_completed_num` are lost (`:1791`); `CountBounds` says how many |
| `HostStamps.cfg`, `MCNvmeRdma` | `SampleMeasured` | the mlx5_dv provider stamps only the first work request of a list (`lib/rdma/rdma_mlx5_dv.c:297`) |
| `HostUnmapped.cfg`, `MCNvmeRdma` | `Served` | resubmission stops at a queued request that cannot be mapped; with nothing outstanding, those behind it wait for ever (`lib/nvme/nvme_qpair.c:719`) |

### Bounds

Three namespaces are the default of `g_rep_num` and give a first, a middle and a last replica; two slots are enough for one group
to disturb another (ids, shared queues). `NumberIos = 3` with two slots makes a slot start a second round and lets namespaces
reach their limit while another slot is in flight. `MaxErrors`, `MaxRejects` and `MaxSubmits` bound the environment: one error, up
to three refusals, two or three rounds. `IdModulus` stands for 2^32: 64 is never reached, so the runs say nothing of ids beyond
the wrap-around (`RepIdWrap.cfg` does). In the log, two workers with two samples and two callbacks overlap in every way; `QueueMax = 1`
makes the send block. `PerfMain` starts from every pair of up to three workers and four namespaces, so that lists do and do
not divide (`Assoc.cfg`: five and five). `RepBatch` has three slots and batches of one to four, one more than the depth. The
pauses of a subsystem are not bounded. Two slots and four requests on the host queue two requests at once; a burst of three fills
the queue from one callback. At the target, two requests share one buffer and one outstanding read, and three send entries hold a
two-part write with its response and nothing else. Only what TLC explored is claimed for these bounds.

### Fairness

`FairSpec`: the thread runs (weak fairness of `WorkFn`); a namespace that is polled again and again and has commands in flight
completes some of them, in any order, with an error if need be (strong fairness of `IoComplete` per namespace, and of the
undefined access such a completion may run into); the clock advances (`TimeExpired`). `FairLogSpec`: every thread runs, `work_fn`
returns, and the log thread's time runs out. `LogShutsDown` names the one way in which the code can stop for good: the log thread
times out before the workers return, and once nobody receives, a full queue (2048 messages by default) blocks the callback that
holds the mutex, and with it the workers. This is why `log_rows` does not check for deadlock. `BatchSpec` is the same for the
changed loop. `MainSpec`: every thread runs, the I/O of a worker ends or waits for `log_mutex` for ever, the clock ends
`main_work_fn`, and the log thread times out. `TargetSpec`: the poll group polls, the adapter finishes or flushes work, the block
layer answers, and another queue pair gives its buffer back. `Spec` of `NvmeRdma`: the worker polls, an armed timer passes, the
adapter and the target go on while the link is up, and a failed queue pair is flushed; no disconnect event has to arrive. In the
last two, weak fairness of an action is written out as "its guard is false, or the action happens, again and again", which TLC
evaluates faster. No fairness is assumed of `SetExit`, errors, link failures, aborts, refusals, failures of `msgsnd`, timer
expirations, or the resumption of a subsystem.

## Proofs

A proof module extends the module it is about. The constants are any values that satisfy its assumptions: `ConstantsAssumption`
and `ParseArgsAssumption` for the worker, non-empty ranges for the others. Nothing else is assumed but what a theorem names:

| Condition | Says | Why it is needed |
|---|---|---|
| `Healthy` | no submission is refused, `g_rep_num` is the number of namespaces, and the link of a freed task stays readable and as it was (`FreedLinkKept`) | `rep_freed_buffer`, `rep_shared_link`, `RepNumMismatch.cfg`, `RepFreedLink.cfg` |
| `Contained` | submissions are refused only without `-Q`, `g_rep_num` as above; weaker than `Healthy`, and nothing is assumed of freed links: a run that reads one ends there | with `-Q` a refused task damages the list of its group (`rep_shared_link`) |
| `Sized` | with random offsets, no namespace is smaller than the main one | an offset is drawn for the main namespace |
| `Numbered` | a limit `-d`, and ids that do not wrap around within it | after the wrap-around two slots may share an id |

| Module | Theorem | Statement |
|---|---|---|
| `RepWorker_proofs` | `TypeCorrect`, `DepthIsExact` | `TypeOK` and `DepthExact`, damaged lists included |
| `RepBarrier_proofs` | `BarrierHolds`, `NoFaultHolds`, `BuffersOutliveIo` | `Healthy`: the barrier, no undefined access but the two reads of a freed link, buffers outlive I/O |
| `RepRefused_proofs` | `RefusalsAreContained`, `DrainingIsFinal`, `MainNeverDrains` | `Contained`: barrier, `-d` and depths survive refusals; a drain is final; the assertion of `submit_single_io_rep` holds |
| `RepRounds_proofs` | `RefinesReplicatedIO`, `NamespacesInLockstep` | `Healthy`: `ReplicatedIO` is implemented; the namespaces are in step |
| `RepRuns_proofs` | `EverythingReleased`, `RoundsHold` | `Healthy`: `work_fn` returns with everything released; `UntilRefused` |
| | `RoundIsOneCommand` | also `Sized`, `Numbered`: `OneCommandPerRound` |
| `HostLatencyLog_proofs` | `LogTypeCorrect`, `NoLatencyLost`, `RowsInOrder`, `MsgrcvReturns`, `CountIsBounded` | types and the four safety properties of `log_rows` |
| `Association_proofs` | `NamespacesDealtOut` | `DealtOut` of the loops by themselves |
| `PerfMain_proofs` | `NoUseAfterCleanup`, `WorkersStartTogether`, `ErrorsAreReported`, `CleanupIsDefined`, `NamespacesDealtOutByMain` | the five safety properties of `perf_main` |

### The arguments

*Types and depth.* `CallOK` strengthens `TypeOK`: in a walk the frame names an allocated slot. The depth needs that an accepted
task was not in flight, and that the cleanup is never left again.

*Barrier, without refusals.* `Barrier` is not inductive: it says nothing of a group in mid-walk, nor that the walk visits every
replica. `HealthyInv` adds `ListsOK` (the replica lists are as built, the retry queues empty) and `SlotsOK`: each slot is idle,
waiting, released, or walked, and in a walk the replicas behind the cursor (`Before`, by `Rank` in the list) are exactly those
already submitted or freed. `NothingUndefined` shows that no undefined access is enabled, where the two reads of a freed link
return it.

*Barrier, with refusals.* Nothing is said any more of what is freed. A group that lost a replica can be told by its freed
buffer, and has fewer replicas in flight and counted than the barrier waits for, so it is never renewed; in the others the two
add up to the number of namespaces (`KeptSlot`). A run that meets undefined behaviour stops where it is, and `ContainedInv` keeps the barrier for it.

*Drain.* `DrainOK` relates `is_draining` to the cursors: the replicas a renewal has passed are on namespaces that do not drain,
and so are those a submission has ahead of it. `StartOK` covers the start, where `parse_args` refuses a `-d` below the depth. `FinishOK` adds that
a pass of the drain loop leaves behind only namespaces without a command in flight; when it ends the run, no group can be waiting.

*Rounds.* The replicas a submission has passed carry the command it generated, those a renewal has passed the id it computed
(`CommandsOK`, `IdsOK`). The refinement follows step by step: the step that starts a walk of `submit_single_io_rep` begins the
abstract round, a completion answers it, the release of the main task retires the slot, and every other step leaves the mapped
state alone. `NumbersOK` says which round of its slot an id belongs to: slot plus round times the depth, which no other slot can
reach before the wrap-around.

*Log.* That no latency is lost or written twice rests on `log_mutex` keeping everybody away while a callback is between its copy and
`cleanup_log` (`CallbacksOK`); the order of rows on every message being in order before it is received (`OrderOK`); the readers on
`main` receiving only after the log thread has gone (`ReadersOK`). `CountOK` follows the loads and stores that race.

*Association and main.* `AssocInv` says how far the loops are: the workers before the cursor have one namespace more than those after
it, and the round robin deals a namespace nobody has as long as there are any. `MainInv` ties what exists and which threads run to the place of
`main`; a thread that uses what exists keeps `main` from tearing it down.

### Only model-checked

- Liveness (`Completes`, `Stops`, `BatchTermination`, `LogShutsDown`, `MainReturns` and those of the RDMA modules): out of the prover's reach.
- The rest of `UntilRefused` once `-Q` has requeued a refused task: the lists are then damaged in ways no simple invariant describes.
- `RdmaTarget` and `NvmeRdma`: their handlers recurse over queues, and the prover has no induction over data.
- The batched tool (`OnePlace`, `AtMostOneBatch`, `BudgetToABatch`): not attempted yet; it needs the invariants of `RepRefused_proofs` with a slot that waits in the list.

## Not modelled

- Replicated worker and main: the AIO and io_uring back ends, the build without `PERF_IO_WORKER_EXCLUSIVE_CORE` (not the default), `parse_args`, failures of the environment before
  `cleanup` exists, statistics other than the counters, the text of log rows, a log file or timer that cannot be created.
- Batched tool: the list and its counters shared by several workers without a lock (undefined behaviour of the C program), and the time
  arithmetic of the rate limit.
- Several workers without `--use-every-core`: no worker then holds all the replicas that `submit_io_rep` assumes (`perf_rep.c:1957`).
- Host queue pair: the connect phase, reset, split requests, shared receive queues, a failing `ibv_post_send`
  (its result is ignored at `nvme_rdma.c:3171`), disconnection without a poll group, the stale stamps of aborted requests.
- RDMA target: fused commands, zero copy, shared receive queues, DIF, failing posts, device removal, interrupted poll groups, commands for a namespace that does not exist.
- Target latency log, bdev layer, unreplicated tools, time arithmetic. The first two add time stamps to upstream code;
  `timespec_*` are pure functions.
- The rest of SPDK is more than 95% of the repository, upstream code that the tools reach through the queue pair or not at all.

What would add most next: proofs for the batched tool; the target latency log; a composition of `Association` and `RepWorker`.
