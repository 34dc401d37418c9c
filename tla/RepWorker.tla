------------------------------ MODULE RepWorker ------------------------------
(***************************************************************************)
(* One worker thread of spdk_nvme_perf_rep (app/spdk_nvme_perf_rep/        *)
(* perf_rep.c, work_fn and all it calls).  QueueDepth slots each hold a    *)
(* group of replica tasks, one per namespace; every round of a slot writes *)
(* or reads the same offset on every namespace, and the next round may     *)
(* start only when all the replicas of the round are complete.             *)
(*                                                                         *)
(* The thread is sequential: pc says where it is, and the device, the      *)
(* clock and the signal handler act on it only where the code looks at     *)
(* them.  Each TAILQ_FOREACH over tasks is walked one task a step, because *)
(* its body may relink or free the task the cursor stands on.              *)
(***************************************************************************)
EXTENDS Integers, FiniteSets

CONSTANTS
    NumNs,               \* namespaces (ns_ctx) of this worker, in list order
    RepNum,              \* g_rep_num
    QueueDepth,          \* g_queue_depth
    NumberIos,           \* g_number_ios, 0 when the run is limited by time
    SizeInIos,           \* size_in_ios of each namespace
    Offsets,             \* the values a 64-bit offset can take, cut down to a few
    IsRandom,            \* g_is_random or zipf: the offset is drawn, not counted
    Ops,                 \* the values is_read can take under g_rw_percentage
    ContinueOnError,     \* g_continue_on_error
    SendMainRepFinally,  \* g_send_main_rep_finally
    Warmup,              \* g_warmup_time_in_sec > 0
    IdModulus,           \* io_id is an unsigned integer modulo this (2^32)
    FreedLinkKept,       \* the allocator leaves the link of a freed task as it was
    MaxRejects,          \* bound: calls of submit_io that return an error
    MaxErrors,           \* bound: completions with an error, and disconnections
    MaxSubmits           \* bound: rounds of a run limited by time

NsCtx == 1 .. NumNs

Slots == 1 .. QueueDepth

ASSUME ConstantsAssumption ==
    /\ NumNs \in Nat \ {0} /\ RepNum \in Nat \ {0} /\ QueueDepth \in Nat \ {0}
    /\ NumberIos \in Nat /\ MaxRejects \in Nat /\ MaxErrors \in Nat /\ MaxSubmits \in Nat
    /\ SizeInIos \in [NsCtx -> Nat \ {0}]
    /\ Offsets \subseteq Nat /\ \A n \in NsCtx : 0 .. (SizeInIos[n] - 1) \subseteq Offsets
    /\ Ops \subseteq BOOLEAN
    /\ {IsRandom, ContinueOnError, SendMainRepFinally, Warmup, FreedLinkKept} \subseteq BOOLEAN
    /\ IdModulus \in Nat /\ IdModulus > QueueDepth

\* What parse_args refuses: -d below the queue depth, and -d together with a warm-up (-a).
ASSUME ParseArgsAssumption ==
    NumberIos > 0 => NumberIos >= QueueDepth /\ ~Warmup

\* A task is a slot and a namespace.  The pair <<s, 0>> is the head of rep_tasks
\* of slot s, <<0, n>> the head of queued_tasks of namespace n, and <<0, 0>> the
\* head of the local list "swap" of work_fn.
Tasks == Slots \X NsCtx

Heads == (Slots \X {0}) \cup ({0} \X NsCtx) \cup {<<0, 0>>}

NULL == <<-1, -1>>

INSTANCE TailQueue

MainTask(s) == <<s, 1>>

RepTasks(s) == <<s, 0>>

QueuedTasks(n) == <<0, n>>

SwapList == <<0, 0>>

\* The size of the smallest namespace.
MinSizeInIos ==
    CHOOSE m \in {SizeInIos[n] : n \in NsCtx} : \A n \in NsCtx : m <= SizeInIos[n]

Commands == [offset_in_ios : Offsets, is_read : BOOLEAN]

NoCommand == [offset_in_ios |-> 0, is_read |-> FALSE]

VARIABLES
    pc,                 \* where work_fn is
    ns,                 \* cursor of TAILQ_FOREACH(ns_ctx, &worker->ns_ctx, link)
    slot,               \* io_id of submit_io_rep: the next slot to allocate
    tmp,                \* ttask of cleanup_ns_worker_ctx
    all_draining,       \* locals of work_fn
    unfinished,
    warmup,
    call,               \* the active call of task_complete or submit_single_io_rep
    q,                  \* the tail queues
    io_id, cmd,         \* per task: its io_id, and the command it last submitted
    rep_completed_num,  \* per slot, in its main task
    inflight,           \* tasks the driver accepted and has not completed
    freed,              \* tasks given back to the allocator
    buf_freed,          \* slots whose data buffer was given back
    current_queue_depth,  \* per namespace, in its ns_worker_ctx.  The depth is unsigned in
    io_submitted,         \* the code: a negative one stands for a value near 2^64, which
    io_completed,         \* cleanup_ns_worker_ctx can leave behind and nobody reads
    is_draining, status,
    offset_in_ios,      \* of the main ns_worker_ctx, the only one that is counted
    g_exit,
    rejects, errors,    \* submissions refused and errors so far
    fault               \* the undefined behaviour that ended the run, or "none"

loopvars == <<ns, slot, tmp, all_draining, unfinished, warmup>>
taskvars == <<q, io_id, cmd, rep_completed_num, inflight, freed, buf_freed>>
counters == <<current_queue_depth, io_submitted, io_completed>>
nsvars   == <<counters, is_draining, status, offset_in_ios>>
envvars  == <<g_exit, rejects, errors, fault>>
vars     == <<pc, loopvars, call, taskvars, nsvars, envvars>>

\* The frame of a call: where it returns, the slot of its main_task, the cursor of
\* its TAILQ_FOREACH, the command it generated and the io_id it computed.
NoCall == [ret |-> "none", main |-> 0, cur |-> NULL, gen |-> NoCommand, newid |-> 0]

Init ==
    /\ pc = "submit_io_rep"
    /\ ns = 1 /\ slot = 1 /\ tmp = NULL
    /\ all_draining = TRUE /\ unfinished = 0 /\ warmup = Warmup
    /\ call = NoCall
    /\ q = EmptyQueues
    /\ io_id = [t \in Tasks |-> 0]
    /\ cmd = [t \in Tasks |-> NoCommand]
    /\ rep_completed_num = [s \in Slots |-> 0]
    /\ inflight = {} /\ freed = {} /\ buf_freed = {}
    /\ current_queue_depth = [n \in NsCtx |-> 0]
    /\ io_submitted = [n \in NsCtx |-> 0]
    /\ io_completed = [n \in NsCtx |-> 0]
    /\ is_draining = [n \in NsCtx |-> FALSE]
    /\ status = [n \in NsCtx |-> 0]
    /\ offset_in_ios = 0
    /\ g_exit = FALSE /\ rejects = 0 /\ errors = 0 /\ fault = "none"

-----------------------------------------------------------------------------
(* submit_single_io_rep and submit_io_rep *)

\* The offset: drawn within the main namespace, or counted and wrapped at the
\* size of the smallest namespace.
NextOffset(off) ==
    IF IsRandom
    THEN /\ off \in 0 .. (SizeInIos[1] - 1)
         /\ UNCHANGED offset_in_ios
    ELSE /\ off = offset_in_ios
         /\ offset_in_ios' = IF offset_in_ios + 1 = MinSizeInIos THEN 0
                             ELSE offset_in_ios + 1

\* Entry of submit_single_io_rep for slot s, given the queues as its caller left
\* them: generate offset and direction once, and start the walk.
StartRound(s, queues, return) ==
    \E off \in Offsets, rd \in Ops :
        /\ NextOffset(off)
        /\ pc' = "submit"
        /\ call' = [ret |-> return, main |-> s, cur |-> First(queues, RepTasks(s)),
                    gen |-> [offset_in_ios |-> off, is_read |-> rd], newid |-> 0]

\* Mutant: the limit of -d is tested one command late.
AtLimitLate(submitted) == NumberIos > 0 /\ submitted > NumberIos

\* A namespace that was sent g_number_ios commands drains.
AtLimit(submitted) == NumberIos > 0 /\ submitted >= NumberIos

\* submit_io succeeded for task t.
Accepted(t) ==
    /\ inflight' = inflight \cup {t}
    /\ current_queue_depth' = [current_queue_depth EXCEPT ![t[2]] = @ + 1]
    /\ io_submitted' = [io_submitted EXCEPT ![t[2]] = @ + 1]
    /\ UNCHANGED <<rejects, status>>

\* submit_io failed for task t: its caller queues or frees it.
Failed ==
    /\ rejects < MaxRejects /\ rejects' = rejects + 1
    /\ UNCHANGED <<inflight, current_queue_depth, io_submitted>>

\* The test that ends every submission of task t.
DrainAtLimit(t) ==
    is_draining' = [is_draining EXCEPT ![t[2]] = @ \/ AtLimit(io_submitted'[t[2]])]

\* A refused task is queued for a retry, or freed with the buffer it shares with the
\* other replicas; the walk then goes on from the link of the freed task.
Refused(t) ==
    /\ Failed
    /\ \/ /\ ContinueOnError
          /\ q' = InsertTail(q, QueuedTasks(t[2]), t)
          /\ UNCHANGED <<freed, buf_freed, status>>
       \/ /\ ~ContinueOnError /\ t[1] \notin buf_freed /\ FreedLinkKept
          /\ buf_freed' = buf_freed \cup {t[1]}
          /\ freed' = freed \cup {t}
          /\ status' = [status EXCEPT ![t[2]] = 1]
          /\ UNCHANGED q

\* One iteration of the walk of submit_single_io_rep.
SubmitReplica ==
    LET t == call.cur
    IN  /\ pc = "submit" /\ t # NULL
        /\ t \notin freed \cup inflight
        /\ cmd' = [cmd EXCEPT ![t] = call.gen]
        /\ \/ Accepted(t) /\ UNCHANGED <<q, freed, buf_freed>>
           \/ Refused(t)
        /\ DrainAtLimit(t)
        /\ call' = [call EXCEPT !.cur = NextOf(q', t)]
        /\ UNCHANGED <<pc, loopvars, io_id, rep_completed_num, io_completed, offset_in_ios,
                       g_exit, errors, fault>>

\* The walk is through: submit_single_io_rep returns, and so does the call it ended.
SubmitDone ==
    /\ pc = "submit" /\ call.cur = NULL
    /\ pc' = call.ret /\ call' = NoCall
    /\ UNCHANGED <<loopvars, taskvars, nsvars, envvars>>

\* The order allocate_main_task and copy_task give a group: that of the namespaces, or
\* the main task last under g_send_main_rep_finally.  0 is the end of the list.
Successor(n) ==
    IF SendMainRepFinally
    THEN IF n = 1 THEN 0 ELSE IF n = NumNs THEN 1 ELSE n + 1
    ELSE IF n = NumNs THEN 0 ELSE n + 1

Predecessor(n) == IF n = 1 THEN NumNs ELSE n - 1

FirstReplica == IF SendMainRepFinally /\ NumNs > 1 THEN 2 ELSE 1

LastReplica == IF SendMainRepFinally THEN 1 ELSE NumNs

\* The queues with the list of slot s built.
LinkGroup(s) ==
    [next |-> [l \in Locations |->
                  IF l = RepTasks(s) THEN <<s, FirstReplica>>
                  ELSE IF l[1] = s THEN IF Successor(l[2]) = 0 THEN NULL
                                        ELSE <<s, Successor(l[2])>>
                  ELSE q.next[l]],
     prev |-> [t \in Tasks |->
                  IF t[1] # s THEN q.prev[t]
                  ELSE IF t[2] = FirstReplica THEN RepTasks(s)
                  ELSE <<s, Predecessor(t[2])>>],
     last |-> [q.last EXCEPT ![RepTasks(s)] = <<s, LastReplica>>]]

\* One iteration of submit_io_rep: build the group with the io_id of its slot and start
\* its first round.
AllocateGroup ==
    /\ pc = "submit_io_rep" /\ slot <= QueueDepth
    /\ q' = LinkGroup(slot)
    /\ io_id' = [t \in Tasks |-> IF t[1] = slot THEN slot ELSE io_id[t]]
    /\ StartRound(slot, q', "submit_io_rep")
    /\ slot' = slot + 1
    /\ UNCHANGED <<ns, tmp, all_draining, unfinished, warmup, cmd, rep_completed_num, inflight,
                   freed, buf_freed, counters, is_draining, status, envvars>>

AllAllocated ==
    /\ pc = "submit_io_rep" /\ slot > QueueDepth
    /\ pc' = "loop"
    /\ UNCHANGED <<loopvars, call, taskvars, nsvars, envvars>>

-----------------------------------------------------------------------------
(* io_complete, task_complete and rep_task_release *)

NextIoId(id) ==
    LET sum == (id + QueueDepth) % IdModulus
    IN  IF sum = 0 THEN 1 ELSE sum

\* Mutant: the barrier opens one replica early.
RoundCompleteEarly(s) == rep_completed_num[s] + 1 >= RepNum - 1

\* Mutant: the barrier opens one replica late.
RoundCompleteLate(s) == rep_completed_num[s] + 1 > RepNum

\* The replica of slot s that is being completed is the last one of the round.
RoundComplete(s) == rep_completed_num[s] + 1 >= RepNum

\* Mutant: the depth of the main namespace is decremented, not the task's own.
OneLessAtMain(n) == [current_queue_depth EXCEPT ![1] = @ - 1]

OneLess(n) == [current_queue_depth EXCEPT ![n] = @ - 1]

\* task_complete for task t: the counters of its namespace, and the barrier of its
\* group.  Only the last replica of the round goes on to the walk "renew"; the others
\* return.
TaskComplete(t, return) ==
    LET s == t[1]
    IN  /\ current_queue_depth' = OneLess(t[2])
        /\ io_completed' = [io_completed EXCEPT ![t[2]] = @ + 1]
        /\ IF RoundComplete(s)
           THEN /\ rep_completed_num' = [rep_completed_num EXCEPT ![s] = 0]
                /\ pc' = "renew"
                /\ call' = [ret |-> return, main |-> s, cur |-> First(q, RepTasks(s)),
                            gen |-> NoCommand, newid |-> NextIoId(io_id[MainTask(s)])]
           ELSE /\ rep_completed_num' = [rep_completed_num EXCEPT ![s] = @ + 1]
                /\ pc' = return
                /\ UNCHANGED call

\* The bound MaxSubmits ends the rounds of a run that only the clock limits.
MayGoOn(t) ==
    \/ NumberIos > 0 \/ pc # "poll" \/ ~RoundComplete(t[1])
    \/ io_submitted[1] < MaxSubmits
    \/ \E n \in NsCtx : is_draining[n]

\* The driver completes task t while check_io polls its namespace: io_complete.
\* Only without --continue-on-error does an error change anything.
IoComplete(t) ==
    /\ pc \in {"poll", "drainpoll"} /\ t[2] = ns
    /\ t \in inflight /\ MayGoOn(t)
    /\ {t, MainTask(t[1])} \cap freed = {}
    /\ inflight' = inflight \ {t}
    /\ TaskComplete(t, pc)
    /\ \/ UNCHANGED <<errors, is_draining, status>>
       \/ /\ errors < MaxErrors /\ errors' = errors + 1
          /\ \/ ContinueOnError /\ UNCHANGED <<is_draining, status>>
             \/ /\ ~ContinueOnError
                /\ status' = [status EXCEPT ![ns] = 1]
                /\ \E invalid_ns \in BOOLEAN :
                      is_draining' = [is_draining EXCEPT ![ns] = @ \/ invalid_ns]
    /\ UNCHANGED <<loopvars, q, io_id, cmd, freed, buf_freed, io_submitted, offset_in_ios,
                   g_exit, rejects, fault>>

\* Mutants: only the namespace of the main task is asked whether it drains; only the
\* others are.
MustReleaseMain(t) == is_draining[1]

MustReleaseReplica(t) == t[2] # 1 /\ is_draining[t[2]]

MustRelease(t) == is_draining[t[2]]

\* Mutant: the new io_id is given to the main task at every replica.
RenumberMain(t) == [io_id EXCEPT ![MainTask(call.main)] = call.newid]

Renumber(t) == [io_id EXCEPT ![t] = call.newid]

\* One iteration of the walk of task_complete: the group is released when this
\* replica's namespace is draining, else the replica gets the new io_id.
Renew ==
    LET t == call.cur
        s == call.main
    IN  /\ pc = "renew" /\ t # NULL /\ t \notin freed
        /\ \/ /\ MustRelease(t) /\ s \notin buf_freed
              /\ buf_freed' = buf_freed \cup {s}
              /\ pc' = "release"
              /\ call' = [call EXCEPT !.cur = First(q, RepTasks(s))]
              /\ UNCHANGED io_id
           \/ /\ ~MustRelease(t)
              /\ io_id' = Renumber(t)
              /\ call' = [call EXCEPT !.cur = NextOf(q, t)]
              /\ UNCHANGED <<pc, buf_freed>>
        /\ UNCHANGED <<loopvars, q, cmd, rep_completed_num, inflight, freed, nsvars, envvars>>

\* No replica's namespace is draining: the next round starts.
RenewDone ==
    /\ pc = "renew" /\ call.cur = NULL
    /\ StartRound(call.main, q, call.ret)
    /\ UNCHANGED <<loopvars, taskvars, counters, is_draining, status, envvars>>

\* Mutant: the walk frees the main task too.
FreedInWalkAll(t, m) == {t}

\* What an iteration at task t of the group of main task m frees.
FreedInWalk(t, m) == {t} \ {m}

\* One iteration of the walk of rep_task_release.  TAILQ_FOREACH reads the link of the
\* task after the free, which is defined only for the main task, freed later; the read
\* returns the link where FreedLinkKept.
Release ==
    LET t == call.cur
    IN  /\ pc = "release" /\ t # NULL /\ t \notin freed
        /\ FreedLinkKept \/ t = MainTask(call.main)
        /\ freed' = freed \cup FreedInWalk(t, MainTask(call.main))
        /\ call' = [call EXCEPT !.cur = NextOf(q, t)]
        /\ UNCHANGED <<pc, loopvars, q, io_id, cmd, rep_completed_num, inflight, buf_freed,
                       nsvars, envvars>>

\* The main task, which holds the head of the list, goes last.
ReleaseDone ==
    LET m == MainTask(call.main)
    IN  /\ pc = "release" /\ call.cur = NULL /\ m \notin freed
        /\ freed' = freed \cup {m}
        /\ pc' = call.ret /\ call' = NoCall
        /\ UNCHANGED <<loopvars, q, io_id, cmd, rep_completed_num, inflight, buf_freed, nsvars, envvars>>

-----------------------------------------------------------------------------
(* The main loop of work_fn *)

\* while (!g_exit): enter the round robin over the namespaces, or leave for the drain.
LoopTest ==
    /\ pc = "loop"
    /\ ns' = 1
    /\ IF g_exit THEN pc' = "drain" /\ unfinished' = 0 /\ UNCHANGED all_draining
       ELSE pc' = "queue" /\ all_draining' = TRUE /\ UNCHANGED unfinished
    /\ UNCHANGED <<slot, tmp, warmup, call, taskvars, nsvars, envvars>>

\* Take over the queue of the namespace, if it is to be retried at all.
TakeQueue ==
    /\ pc = "queue"
    /\ IF ContinueOnError /\ ~is_draining[ns]
       THEN pc' = "retry" /\ q' = MoveAll(q, SwapList, QueuedTasks(ns))
       ELSE pc' = "poll" /\ UNCHANGED q
    /\ UNCHANGED <<loopvars, call, io_id, cmd, rep_completed_num, inflight, freed, buf_freed,
                   nsvars, envvars>>

\* submit_single_io for a task taken off the local list, which left the queues as given.
\* The function never assigns its local offset_in_ios: the offset it submits is whatever
\* the stack holds.
SubmitSingleIo(t, queues) ==
    /\ t \notin inflight
    /\ \E garbage \in Offsets : cmd' = [cmd EXCEPT ![t].offset_in_ios = garbage]
    /\ \/ Accepted(t) /\ q' = queues
       \/ Failed /\ q' = InsertTail(queues, QueuedTasks(t[2]), t) /\ UNCHANGED status
    /\ DrainAtLimit(t)

\* One iteration over the local list: put the task back when the namespace began to
\* drain meanwhile, else submit it again.
RetryTask ==
    LET t == First(q, SwapList)
        popped == Remove(q, SwapList, t)
    IN  /\ pc = "retry" /\ t # NULL /\ t \notin freed
        /\ \/ /\ is_draining[ns]
              /\ q' = InsertTail(popped, QueuedTasks(ns), t)
              /\ UNCHANGED <<cmd, inflight, current_queue_depth, io_submitted, is_draining,
                             status, rejects>>
           \/ ~is_draining[ns] /\ SubmitSingleIo(t, popped)
        /\ UNCHANGED <<pc, loopvars, call, io_id, rep_completed_num, freed, buf_freed,
                       io_completed, offset_in_ios, g_exit, errors, fault>>

RetryDone ==
    /\ pc = "retry" /\ First(q, SwapList) = NULL
    /\ pc' = "poll"
    /\ UNCHANGED <<loopvars, call, taskvars, nsvars, envvars>>

\* Polling reports an error: a queue pair is gone (perf_disconnect_cb), or
\* spdk_nvme_poll_group_process_completions failed.
PollError ==
    /\ pc \in {"poll", "drainpoll"}
    /\ errors < MaxErrors /\ errors' = errors + 1
    /\ \E gone \in BOOLEAN :
          is_draining' = [is_draining EXCEPT ![ns] = @ \/ gone]
    /\ status' = [status EXCEPT ![ns] = 1]
    /\ UNCHANGED <<pc, loopvars, call, taskvars, counters, offset_in_ios, g_exit, rejects, fault>>

\* check_io returns; on to the next namespace, or to the end of the pass.
EndPoll ==
    /\ pc = "poll"
    /\ all_draining' = (all_draining /\ is_draining[ns])
    /\ IF ns < NumNs THEN ns' = ns + 1 /\ pc' = "queue"
       ELSE pc' = (IF all_draining' THEN "drain" ELSE "clock") /\ ns' = 1
    /\ unfinished' = 0
    /\ UNCHANGED <<slot, tmp, warmup, call, taskvars, nsvars, envvars>>

TimeLeft ==
    /\ pc = "clock"
    /\ pc' = "loop"
    /\ UNCHANGED <<loopvars, call, taskvars, nsvars, envvars>>

\* tsc_current > tsc_end: the warm-up ends with the statistics cleared, or the run does.
TimeExpired ==
    /\ pc = "clock"
    /\ IF warmup
       THEN /\ io_submitted' = [n \in NsCtx |-> 0]
            /\ io_completed' = [n \in NsCtx |-> 0]
            /\ warmup' = FALSE
            /\ pc' = "loop"
       ELSE pc' = "drain" /\ UNCHANGED <<io_submitted, io_completed, warmup>>
    /\ UNCHANGED <<ns, slot, tmp, all_draining, unfinished, call, taskvars, current_queue_depth,
                   is_draining, status, offset_in_ios, envvars>>

-----------------------------------------------------------------------------
(* The drain loop and cleanup_ns_worker_ctx *)

\* Advance the drain loop past namespace ns; u is the count of unfinished ones.
NextDrain(u) ==
    \/ /\ ns < NumNs
       /\ ns' = ns + 1 /\ unfinished' = u /\ pc' = "drain" /\ UNCHANGED tmp
    \/ /\ ns = NumNs /\ u > 0
       /\ ns' = 1 /\ unfinished' = 0 /\ pc' = "drain" /\ UNCHANGED tmp
    \/ /\ ns = NumNs /\ u = 0
       /\ ns' = 1 /\ unfinished' = 0 /\ pc' = "cleanup" /\ tmp' = First(q, QueuedTasks(1))

DrainNs ==
    /\ pc = "drain"
    /\ is_draining' = [is_draining EXCEPT ![ns] = TRUE]
    /\ \/ /\ current_queue_depth[ns] > 0
          /\ pc' = "drainpoll" /\ UNCHANGED <<ns, unfinished, tmp>>
       \/ current_queue_depth[ns] <= 0 /\ NextDrain(unfinished)
    /\ UNCHANGED <<slot, all_draining, warmup, call, taskvars, counters, status, offset_in_ios,
                   envvars>>

EndDrainPoll ==
    /\ pc = "drainpoll"
    /\ NextDrain(IF current_queue_depth[ns] > 0 THEN unfinished + 1 ELSE unfinished)
    /\ UNCHANGED <<slot, all_draining, warmup, call, taskvars, nsvars, envvars>>

\* One iteration of TAILQ_FOREACH_SAFE over queued_tasks: a task that was never
\* submitted again is completed as if it had been.
CleanupTask ==
    /\ pc = "cleanup" /\ tmp # NULL
    /\ {tmp, MainTask(tmp[1])} \cap freed = {}
    /\ tmp' = NextOf(q, tmp)
    /\ q' = Remove(q, QueuedTasks(ns), tmp)
    /\ TaskComplete(tmp, "cleanup")
    /\ UNCHANGED <<ns, slot, all_draining, unfinished, warmup, io_id, cmd, inflight, freed,
                   buf_freed, io_submitted, is_draining, status, offset_in_ios, envvars>>

NextCleanup ==
    /\ pc = "cleanup" /\ tmp = NULL
    /\ IF ns < NumNs THEN ns' = ns + 1 /\ tmp' = First(q, QueuedTasks(ns + 1)) /\ UNCHANGED pc
       ELSE pc' = "done" /\ UNCHANGED <<ns, tmp>>
    /\ UNCHANGED <<slot, all_draining, unfinished, warmup, call, taskvars, nsvars, envvars>>

-----------------------------------------------------------------------------
(* What the C program leaves undefined *)

\* The next step of the thread reads or writes a task that was freed, frees a task
\* or a buffer again, or hands the driver a task it still holds.
Undefined(why) ==
    \/ /\ why = "use after free"
       /\ \/ pc \in {"submit", "renew"} /\ call.cur \in freed
          \/ pc = "retry" /\ First(q, SwapList) \in freed
          \/ /\ pc \in {"poll", "drainpoll"}
             /\ \E t \in inflight : t[2] = ns /\ {t, MainTask(t[1])} \cap freed # {}
          \/ pc = "cleanup" /\ tmp # NULL /\ {tmp, MainTask(tmp[1])} \cap freed # {}
          \/ /\ pc = "release" /\ ~FreedLinkKept
             /\ call.cur \in Tasks \ (freed \cup {MainTask(call.main)})
          \/ /\ pc = "submit" /\ ~FreedLinkKept /\ ~ContinueOnError /\ rejects < MaxRejects
             /\ call.cur \in Tasks \ (freed \cup inflight) /\ call.cur[1] \notin buf_freed
    \/ /\ why = "double free"
       /\ \/ /\ pc = "submit" /\ ~ContinueOnError /\ rejects < MaxRejects
             /\ call.cur \in Tasks \ (freed \cup inflight) /\ call.cur[1] \in buf_freed
          \/ /\ pc = "renew" /\ call.cur \in Tasks \ freed
             /\ is_draining[call.cur[2]] /\ call.main \in buf_freed
          \/ /\ pc = "release"
             /\ call.cur \in freed \/ (call.cur = NULL /\ MainTask(call.main) \in freed)
    \/ /\ why = "submitted twice"
       /\ \/ pc = "submit" /\ call.cur \in inflight \ freed
          \/ pc = "retry" /\ First(q, SwapList) \in inflight \ freed /\ ~is_draining[ns]

Faults == {"use after free", "double free", "submitted twice"}

\* Nothing is claimed about what the process does from there on.
UndefinedBehaviour ==
    /\ \E why \in Faults : Undefined(why) /\ fault' = why
    /\ pc' = "halted"
    /\ UNCHANGED <<loopvars, call, taskvars, nsvars, g_exit, rejects, errors>>

-----------------------------------------------------------------------------
\* A signal, or a failed keep-alive on the controller thread.
SetExit ==
    /\ ~g_exit /\ g_exit' = TRUE
    /\ pc \notin {"done", "halted"}
    /\ UNCHANGED <<pc, loopvars, call, taskvars, nsvars, rejects, errors, fault>>

Returned == pc \in {"done", "halted"} /\ UNCHANGED vars

Submission == AllocateGroup \/ AllAllocated \/ SubmitReplica \/ SubmitDone

Completion == (\E t \in Tasks : IoComplete(t)) \/ Renew \/ RenewDone \/ Release \/ ReleaseDone

MainLoop == LoopTest \/ TakeQueue \/ RetryTask \/ RetryDone \/ PollError
            \/ EndPoll \/ TimeLeft \/ TimeExpired

Drain == DrainNs \/ EndDrainPoll \/ CleanupTask \/ NextCleanup

WorkFn == Submission \/ Completion \/ MainLoop \/ Drain \/ UndefinedBehaviour

Next == WorkFn \/ SetExit \/ Returned

Spec == Init /\ [][Next]_vars

\* The thread keeps running, the driver completes commands of every namespace that is
\* polled again and again, in any order (an error counts as a completion, and so does a
\* completion for a task that was freed), and the clock advances.
FairSpec ==
    /\ Spec
    /\ WF_vars(WorkFn)
    /\ \A n \in NsCtx : SF_vars(\E t \in Tasks : t[2] = n /\ IoComplete(t))
    /\ SF_vars(UndefinedBehaviour /\ pc \in {"poll", "drainpoll"})
    /\ SF_vars(TimeExpired)

-----------------------------------------------------------------------------
(* Properties *)

Group(s) == {s} \X NsCtx

Allocated == {s \in Slots : s < slot}

\* The slots that are neither released nor in the middle of a call.
Settled == {s \in Allocated : s \notin buf_freed /\ call.main # s}

Frames == [ret : {"none", "submit_io_rep", "poll", "drainpoll", "cleanup"},
           main : 0 .. QueueDepth, cur : Tasks \cup {NULL}, gen : Commands,
           newid : 0 .. (IdModulus - 1)]

\* Every variable keeps its type: in particular io_id stays an unsigned integer of its
\* width and rep_completed_num below g_rep_num.
TypeOK ==
    /\ pc \in {"submit_io_rep", "submit", "loop", "queue", "retry", "poll", "renew", "release",
               "clock", "drain", "drainpoll", "cleanup", "done", "halted"}
    /\ ns \in NsCtx /\ slot \in 1 .. (QueueDepth + 1) /\ tmp \in Tasks \cup {NULL}
    /\ all_draining \in BOOLEAN /\ unfinished \in Nat /\ warmup \in BOOLEAN
    /\ call \in Frames
    /\ q \in TailQueues
    /\ io_id \in [Tasks -> 0 .. (IdModulus - 1)] /\ cmd \in [Tasks -> Commands]
    /\ rep_completed_num \in [Slots -> 0 .. (RepNum - 1)]
    /\ inflight \subseteq Tasks /\ freed \subseteq Tasks /\ buf_freed \subseteq Slots
    /\ current_queue_depth \in [NsCtx -> Int]
    /\ io_submitted \in [NsCtx -> Nat] /\ io_completed \in [NsCtx -> Nat]
    /\ is_draining \in [NsCtx -> BOOLEAN] /\ status \in [NsCtx -> {0, 1}]
    /\ offset_in_ios \in Nat
    /\ g_exit \in BOOLEAN /\ rejects \in 0 .. MaxRejects /\ errors \in 0 .. MaxErrors
    /\ fault \in Faults \cup {"none"}

\* task_complete starts the next round of a group, or releases it, only when no replica
\* of the group is in flight; and a group nobody is working on has all its replicas
\* accounted for, each either in flight or counted in rep_completed_num.
Barrier ==
    /\ pc \in {"renew", "release"} => inflight \cap Group(call.main) = {}
    /\ \A s \in Settled :
          rep_completed_num[s] + Cardinality(inflight \cap Group(s)) = NumNs

\* The replicas of a round that are in flight together carry one offset, one direction
\* and one io_id (submit_single_io_rep generates the command once for all of them).
ReplicasAgree ==
    \A t, u \in inflight :
        t[1] = u[1] => cmd[t] = cmd[u] /\ io_id[t] = io_id[u]

\* Outside the walk that submits a round, every namespace has accepted the same number
\* of commands: no replica set is ever left partly submitted.
Lockstep ==
    pc # "submit" => \A m, n \in NsCtx : io_submitted[m] = io_submitted[n]

\* The commands of namespace n that the driver holds.
HeldFor(n) == {t \in inflight : t[2] = n}

\* work_fn before the cleanup, which completes tasks that were never submitted.
BeforeCleanup == pc \notin {"cleanup", "done", "halted"} /\ call.ret # "cleanup"

\* current_queue_depth, which ends the drain loop, is the number of commands of the
\* namespace that the driver still holds (until cleanup_ns_worker_ctx).
DepthExact ==
    BeforeCleanup => \A n \in NsCtx : current_queue_depth[n] = Cardinality(HeldFor(n))

\* Commands of different slots in flight at the same time have different io_ids
\* (task_complete: += g_queue_depth avoids a conflict with the other tasks).
UniqueIoIds ==
    \A t, u \in inflight : t[1] # u[1] => io_id[t] # io_id[u]

\* Where FreedLinkKept, the thread never runs into undefined behaviour: no task or buffer
\* is freed twice, no task is submitted while the driver holds it, and none is used after it
\* was freed, but for the one read of its link that TAILQ_FOREACH makes right after the free
\* (rep_task_release at every release; submit_single_io_rep, of a refused task).
NoFault == fault = "none"

\* No command in flight points to a data buffer that was given back (all the replicas
\* of a group share one buffer).
BufferOutlivesIo == \A t \in inflight : t[1] \notin buf_freed

\* When work_fn returns, every group was released: all tasks, all buffers, and no
\* command is left with the driver.
AllReleased ==
    pc = "done" => freed = Tasks /\ buf_freed = Slots /\ inflight = {}

\* A run limited by -d submits at most that many commands to a namespace.
IoBudget ==
    NumberIos > 0 => \A n \in NsCtx : io_submitted[n] <= NumberIos

\* assert(!main_ns_ctx->is_draining) of submit_single_io_rep holds whenever it is
\* reached: at each initial submission, and when the walk of task_complete is through.
MainNotDraining ==
    (\/ pc = "submit_io_rep" /\ slot <= QueueDepth
     \/ pc = "renew" /\ call.cur = NULL)
        => ~is_draining[1]

\* A sequential run addresses every replica inside its own namespace, whatever the sizes.
OffsetsInRange ==
    \A t \in inflight : cmd[t].offset_in_ios < SizeInIos[t[2]]

\* rep_tasks of a group that is not released lists its replicas, each of them once
\* (struct perf_task: rep_tasks records all the related replicas).
GroupListIntact ==
    \A s \in Allocated \ buf_freed :
        \E walk \in [NsCtx -> Group(s)] :
            /\ First(q, RepTasks(s)) = walk[1] /\ NextOf(q, walk[NumNs]) = NULL
            /\ \A k \in 1 .. (NumNs - 1) : NextOf(q, walk[k]) = walk[k + 1]
            /\ Group(s) = {walk[k] : k \in NsCtx}

\* A round is one command: its replicas agree, no other slot uses its io_id, every replica
\* is addressed inside its namespace, and none is left out.
OneCommandPerRound == ReplicasAgree /\ UniqueIoIds /\ OffsetsInRange /\ Lockstep

\* No group was renewed: the ids are those of submit_io_rep.
FirstRounds == \A t \in Tasks : io_id[t] <= QueueDepth

\* Until the first submission is refused, whatever the options, the barrier, the agreement
\* of the replicas, their lists and the release are as without refusals.  In the first
\* rounds a refused replica that is retried (submit_single_io) may get another offset than
\* its siblings, but keeps their io_id and direction (later the walk of a renewal may follow
\* a damaged list into another group, and renumber that); and refusals never make the main
\* namespace drain before a round is submitted (the assert of submit_single_io_rep).
UntilRefused ==
    /\ MainNotDraining
    /\ rejects = 0 => Barrier /\ ReplicasAgree /\ GroupListIntact /\ AllReleased
    /\ FirstRounds => \A t, u \in inflight :
          t[1] = u[1] => io_id[t] = io_id[u] /\ cmd[t].is_read = cmd[u].is_read

\* What a submission that is refused without -Q cannot do, although it frees a task and the
\* buffer of its group: exceed -d, open the barrier early or make a depth wrong.
RefusalContained == IoBudget /\ Barrier /\ DepthExact

\* A namespace that began to drain stays so, and is never sent another command.
DrainIsFinal ==
    [][\A n \in NsCtx :
          is_draining[n] =>
              /\ is_draining'[n]
              /\ \A t \in inflight' \ inflight : t[2] # n]_vars

\* work_fn returns, whenever and however the run is ended.
Termination == <>(pc = "done")

\* Refused submissions never make the thread spin for ever in one of its walks or loops:
\* work_fn returns, or it has run into undefined behaviour.
Stops == <>(pc \in {"done", "halted"})

\* A round of which one replica is complete is completed by all of them.
RoundsComplete ==
    \A s \in Slots : rep_completed_num[s] > 0 ~> rep_completed_num[s] = 0

\* No round stays half complete, a namespace that drains never takes up its work again, and
\* work_fn returns, with everything released.
Completes == Termination /\ RoundsComplete /\ DrainIsFinal /\ []AllReleased

-----------------------------------------------------------------------------
(* The promise of ReplicatedIO *)

phaseOf == [s \in Slots |-> IF s >= slot THEN "unused"
                            ELSE IF MainTask(s) \in freed THEN "retired" ELSE "active"]

pendingOf == [s \in Slots |-> IF pc = "submit" /\ call.main = s THEN NsCtx
                              ELSE {n \in NsCtx : <<s, n>> \in inflight}]

commandOf == [s \in Slots |-> IF pc = "submit" /\ call.main = s THEN call.gen
                              ELSE cmd[MainTask(s)]]

Abstract == INSTANCE ReplicatedIO WITH phase <- phaseOf, pending <- pendingOf,
                                       command <- commandOf

\* The worker implements replicated I/O: one command per round, all replicas of a round
\* before the next, every slot retired at most once (task_complete, rep_task_release).
ImplementsReplicatedIO == Abstract!AbsSpec
==============================================================================
