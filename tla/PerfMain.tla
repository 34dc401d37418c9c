------------------------------- MODULE PerfMain -------------------------------
(***************************************************************************)
(* The threads of spdk_nvme_perf_rep from main to its return: main, the    *)
(* workers, and the thread that polls the admin queues (perf_rep.c main,   *)
(* the beginning and the end of work_fn and nvme_poll_ctrlrs).  It is      *)
(* built as include/spdk/util.h has it, with PERF_IO_WORKER_EXCLUSIVE_CORE *)
(* defined: the workers are on the cores other than main's.  What a worker *)
(* does between is RepWorker, the latency log HostLatencyLog; here they    *)
(* are one step each.                                                      *)
(*                                                                         *)
(* Every step of the set-up may fail and then jumps to cleanup, which main *)
(* reaches at the end of a good run too.  Association is the step between. *)
(***************************************************************************)
EXTENDS Association, FiniteSets

VARIABLES
    mpc,          \* where main is
    rc,           \* main's rc, and work_fn's of each worker is its status below
    latency_log,  \* built with PERF_LATENCY_LOG
    have,         \* what exists: "workers", "controllers", "barrier", "log"
    wpc,          \* where each worker thread is
    inited,       \* per worker: namespaces whose ns_worker_ctx is initialised
    status,       \* workers one of whose ns_ctx->status is set
    arrived,      \* workers in pthread_barrier_wait
    poll,         \* where nvme_poll_ctrlrs is
    cancelled,    \* pthread_cancel was called for it
    g_exit,
    failed,       \* the error that happened first, or "none"
    fault         \* undefined behaviour of the cleanup, or "none"

mainvars == <<mpc, rc, latency_log, have, failed, fault>>
threadvars == <<wpc, inited, status, arrived>>
pollvars == <<poll, cancelled, g_exit>>
allvars == <<assocvars, mainvars, threadvars, pollvars>>

\* A worker for each core but main's: g_num_workers is their number.
OtherCores == 1 .. MaxWorkers

MainInit ==
    /\ AssocInit
    /\ mpc = "sig" /\ rc = 0 /\ latency_log \in BOOLEAN /\ have = {}
    /\ wpc = [w \in OtherCores |-> "none"] /\ inited = [w \in OtherCores |-> 0]
    /\ status = {} /\ arrived = {}
    /\ poll = "none" /\ cancelled = FALSE /\ g_exit = FALSE
    /\ failed = "none" /\ fault = "none"

-----------------------------------------------------------------------------
(* The set-up *)

\* Step "from" of main is through.
Done(from, to, new) ==
    /\ mpc = from /\ mpc' = to /\ have' = have \cup new
    /\ UNCHANGED <<rc, latency_log, failed, fault>>

\* Step "from" of main fails and jumps to cleanup with rc = code.
Fails(from, what, code, new) ==
    /\ mpc = from /\ mpc' = "cleanup" /\ rc' = code /\ failed' = what
    /\ have' = have \cup new
    /\ UNCHANGED <<latency_log, fault>>

\* Step "from" of main ends the process with an error.
ExitAt(from) ==
    /\ mpc = from /\ mpc' = "halted" /\ failed' = "exit"
    /\ UNCHANGED <<rc, latency_log, have, fault>>

SetupSignals == Done("sig", "workers", {}) \/ Fails("sig", "sig", -1, {})

\* register_workers skips main's core.  Out of memory it leaves the workers it had, and
\* none when main's core is the only one (core_num < 2); both are errors.
RegisterWorkers ==
    /\ \/ Done("workers", "controllers", {"workers"}) /\ UNCHANGED g_num_workers
       \/ /\ Fails("workers", "workers", -1, {"workers"})
          /\ g_num_workers' \in 0 .. (g_num_workers - 1)
    /\ UNCHANGED <<g_num_namespaces, g_use_every_core, worker, entry, i, ns_ctx, returned>>

\* register_controllers leaves behind what it had registered.
RegisterControllers ==
    \/ Done("controllers", "poll", {"controllers"})
    \/ Fails("controllers", "controllers", -1, {"controllers"})

\* g_num_namespaces == 0: a message, and cleanup with rc still 0.
NoNamespaces ==
    /\ Fails("controllers", "no namespaces", 0, {"controllers"})
    /\ g_num_namespaces' = 0
    /\ UNCHANGED <<g_num_workers, g_use_every_core, worker, entry, i, ns_ctx, returned>>

SetUp ==
    /\ \/ (SetupSignals \/ RegisterControllers) /\ UNCHANGED assocvars
       \/ RegisterWorkers \/ NoNamespaces
    /\ UNCHANGED <<threadvars, pollvars>>

\* pthread_create of nvme_poll_ctrlrs; when it fails, thread_id is undefined.
CreatePollThread ==
    /\ \/ Done("poll", "associate", {}) /\ poll' = "work"
       \/ Fails("poll", "poll", 1, {}) /\ UNCHANGED poll
    /\ UNCHANGED <<assocvars, threadvars, cancelled, g_exit>>

\* associate_workers_with_ns, or allocate_ns_worker out of memory
Associate ==
    /\ mpc = "associate" /\ ~returned
    /\ \/ (EveryCoreStep \/ RoundRobinStep \/ RoundRobinDone) /\ UNCHANGED mainvars
       \/ /\ g_use_every_core \/ i < Count
          /\ Fails("associate", "associate", -1, {}) /\ UNCHANGED assocvars
    /\ UNCHANGED <<threadvars, pollvars>>

InitBarrier ==
    /\ returned
    /\ \/ Done("associate", IF latency_log THEN "log" ELSE "launch", {"barrier"})
       \/ Fails("associate", "barrier", 1, {})
    /\ UNCHANGED <<assocvars, threadvars, pollvars>>

\* Mutant: the log counts as set up only once its thread is created.
SetUpLogLate ==
    /\ Done("log", "launch", {"log"}) \/ Fails("log", "log", 0, {}) \/ ExitAt("log")
    /\ UNCHANGED <<assocvars, threadvars, pollvars>>

\* The message queue, the timer and the log thread.  When pthread_create fails its
\* result is in rc_, rc is still 0 and log_thread_id is undefined.
\* Without a queue, exit(EXIT_FAILURE).
SetUpLog ==
    /\ Done("log", "launch", {"log"}) \/ Fails("log", "log", 0, {"log"}) \/ ExitAt("log")
    /\ UNCHANGED <<assocvars, threadvars, pollvars>>

-----------------------------------------------------------------------------
(* The workers *)

\* spdk_env_thread_launch_pinned for the next worker; its result is not looked at.
Launch(w) ==
    /\ mpc = "launch" /\ wpc[w] = "none"
    /\ \A v \in AllWorkers : v < w => wpc[v] # "none"
    /\ \E launched \in BOOLEAN :
          wpc' = [wpc EXCEPT ![w] = IF launched THEN "init" ELSE "refused"]
    /\ UNCHANGED <<assocvars, mainvars, inited, status, arrived, pollvars>>

LaunchDone ==
    /\ mpc = "launch" /\ \A w \in AllWorkers : wpc[w] # "none"
    /\ mpc' = "work"
    /\ UNCHANGED <<assocvars, rc, latency_log, have, failed, fault, threadvars, pollvars>>

\* main_work_fn prints until g_exit or until its own clock runs out, whatever the workers
\* do meanwhile.
MainWorkFn ==
    /\ mpc = "work" /\ mpc' = "wait"
    /\ UNCHANGED <<assocvars, rc, latency_log, have, failed, fault, threadvars, pollvars>>

\* Mutant: a worker that cannot be initialised returns without the barrier.
AfterInitFailureReturn == "returned"

AfterInitFailure == "barrier"

\* init_ns_worker_ctx of the worker's next namespace
InitNamespace(w) ==
    /\ wpc[w] = "init"
    /\ \/ /\ inited[w] < Len(ns_ctx[w])
          /\ inited' = [inited EXCEPT ![w] = @ + 1] /\ UNCHANGED wpc
       \/ /\ inited[w] < Len(ns_ctx[w])
          /\ wpc' = [wpc EXCEPT ![w] = AfterInitFailure] /\ UNCHANGED inited
       \/ /\ inited[w] = Len(ns_ctx[w])
          /\ wpc' = [wpc EXCEPT ![w] = "barrier"] /\ UNCHANGED inited
    /\ UNCHANGED <<assocvars, mainvars, status, arrived, pollvars>>

\* Mutant: main's core is taken off, as if register_workers had counted it.
BarrierCountOther == g_num_workers - 1

BarrierCount == g_num_workers

ArriveAtBarrier(w) ==
    /\ wpc[w] = "barrier" /\ w \notin arrived
    /\ arrived' = arrived \cup {w}
    /\ UNCHANGED <<assocvars, mainvars, wpc, inited, status, pollvars>>

\* Mutant: a worker that could not be initialised does not set its status.
StatusAfterForgotten(w, broken) == status

StatusAfter(w, broken) == IF broken THEN status \cup {w} ELSE status

\* pthread_barrier_wait returns: on to the I/O, or back with an error.
LeaveBarrier(w) ==
    /\ wpc[w] = "barrier" /\ w \in arrived /\ Cardinality(arrived) >= BarrierCount
    /\ LET broken == inited[w] < Len(ns_ctx[w])
       IN  /\ wpc' = [wpc EXCEPT ![w] = IF broken THEN "returned" ELSE "run"]
           /\ status' = StatusAfter(w, broken)
    /\ UNCHANGED <<assocvars, mainvars, inited, arrived, pollvars>>

\* The I/O of the worker (RepWorker): it may set a status, and ends; or, with the latency
\* log, the worker waits for log_mutex for ever (HostLatencyLog: StuckInMsgsnd).
Run(w) ==
    /\ wpc[w] = "run"
    /\ \E broken \in BOOLEAN : status' = IF broken THEN status \cup {w} ELSE status
    /\ \E stuck \in BOOLEAN :
          /\ stuck => latency_log
          /\ wpc' = [wpc EXCEPT ![w] = IF stuck THEN "stuck" ELSE "returned"]
    /\ UNCHANGED <<assocvars, mainvars, inited, arrived, pollvars>>

Worker(w) == InitNamespace(w) \/ ArriveAtBarrier(w) \/ LeaveBarrier(w) \/ Run(w)

AllReturned == \A w \in AllWorkers : wpc[w] \in {"returned", "refused"}

\* spdk_env_thread_wait_all, print_stats, pthread_barrier_destroy
WaitAll ==
    /\ mpc = "wait" /\ AllReturned
    /\ mpc' = "cleanup" /\ have' = have \ {"barrier"}
    /\ UNCHANGED <<assocvars, rc, latency_log, failed, fault, threadvars, pollvars>>

-----------------------------------------------------------------------------
(* nvme_poll_ctrlrs *)

\* One pass over the controllers with cancellation disabled; an error sets g_exit.
PollControllers ==
    /\ poll = "work"
    /\ \E error \in BOOLEAN : g_exit' = (g_exit \/ error)
    /\ poll' = "sleep"
    /\ UNCHANGED <<assocvars, mainvars, threadvars, cancelled>>

\* sleep(1), the only cancellation point
PollSleep ==
    /\ poll = "sleep"
    /\ poll' = IF cancelled THEN "exited" ELSE "work"
    /\ UNCHANGED <<assocvars, mainvars, threadvars, cancelled, g_exit>>

-----------------------------------------------------------------------------
(* cleanup *)

\* pthread_cancel of thread_id, unless it is 0.  After a failed pthread_create it may be
\* anything: the call is undefined, unless thread_id is 0 or no longer looks like a thread.
CancelPollThread ==
    /\ mpc = "cleanup"
    /\ \/ cancelled' = (poll # "none") /\ mpc' = "join" /\ UNCHANGED fault
       \/ failed = "poll" /\ mpc' = "halted" /\ fault' = "thread id" /\ UNCHANGED cancelled
    /\ UNCHANGED <<assocvars, rc, latency_log, have, failed, threadvars, poll, g_exit>>

\* Mutant: the thread is cancelled and not joined.
JoinedAtOnce == TRUE

Joined == poll \in {"none", "exited"}

\* pthread_join, then the errors of the workers are collected unless rc is set already.
JoinAndCollect ==
    /\ mpc = "join" /\ Joined
    /\ rc' = IF rc = 0 /\ status # {} THEN 1 ELSE rc
    /\ mpc' = "unregister"
    /\ UNCHANGED <<assocvars, latency_log, have, failed, fault, threadvars, pollvars>>

\* unregister_namespaces, unregister_controllers, unregister_workers
Unregister ==
    /\ mpc = "unregister"
    /\ have' = have \ {"controllers", "workers"}
    /\ mpc' = IF latency_log THEN "fini_log" ELSE "exit"
    /\ UNCHANGED <<assocvars, rc, latency_log, failed, fault, threadvars, pollvars>>

\* The end of the log: log_thread_id, g_msgid and g_ns_name are used whether main came
\* past their initialisation or jumped over it.  In the second case log_thread_id is any
\* value and g_msgid is 0: cancelling a thread that does not exist, a queue that does not
\* exist or freeing the names of the namespaces ends the process; it goes on if the value
\* is 0, the system has a queue 0 (then removed) and no namespace was registered.  When only
\* the thread could not be created, log_thread_id is as thread_id above.
FiniLog ==
    /\ mpc = "fini_log"
    /\ \/ "log" \in have /\ mpc' = "exit" /\ UNCHANGED fault
       \/ "log" \in have /\ failed = "log" /\ mpc' = "halted" /\ fault' = "thread id"
       \/ "log" \notin have /\ mpc' = "halted" /\ fault' = "log not set up"
       \/ /\ "log" \notin have /\ failed \in {"sig", "workers", "controllers", "no namespaces"}
          /\ mpc' = "exit" /\ fault' = "log not set up"
    /\ have' = have \ {"log"}
    /\ UNCHANGED <<assocvars, rc, latency_log, failed, threadvars, pollvars>>

Return ==
    /\ mpc = "exit" /\ mpc' = "returned"
    /\ UNCHANGED <<assocvars, rc, latency_log, have, failed, fault, threadvars, pollvars>>

Over == mpc \in {"returned", "halted"} /\ UNCHANGED allvars

\* sig_handler, once it is installed
Signal ==
    /\ mpc \notin {"sig", "returned", "halted"} /\ ~g_exit /\ g_exit' = TRUE
    /\ UNCHANGED <<assocvars, mainvars, threadvars, poll, cancelled>>

Main ==
    \/ SetUp \/ CreatePollThread \/ Associate \/ InitBarrier \/ SetUpLog
    \/ (\E w \in 1 .. MaxWorkers : w \in AllWorkers /\ Launch(w)) \/ LaunchDone \/ MainWorkFn
    \/ WaitAll \/ CancelPollThread \/ JoinAndCollect \/ Unregister \/ FiniLog \/ Return

PollThread == PollControllers \/ PollSleep

MainNext ==
    \/ mpc # "halted" /\ (Main \/ PollThread \/ Signal
                          \/ \E w \in 1 .. MaxWorkers : w \in AllWorkers /\ Worker(w))
    \/ Over

\* Every thread keeps running; the clock of main_work_fn runs out; the I/O of a worker ends
\* (RepWorker: Termination) or waits for log_mutex, and the log thread times out
\* (HostLatencyLog: LogShutsDown).
MainSpec ==
    /\ MainInit /\ [][MainNext]_allvars
    /\ WF_allvars(Main) /\ WF_allvars(PollThread)
    /\ \A w \in 1 .. MaxWorkers : WF_allvars(w \in AllWorkers /\ Worker(w))

-----------------------------------------------------------------------------
(* Properties *)

\* No thread uses the controllers, the namespaces or its ns_worker_ctx before they are
\* registered or after main freed them: not a worker, and not the thread that polls the
\* admin queues, however cleanup was reached.
UsesLive ==
    /\ poll = "work" => "controllers" \in have
    /\ \A w \in AllWorkers :
          wpc[w] \in {"init", "run", "stuck"} => {"controllers", "workers"} \subseteq have
    /\ (\E w \in AllWorkers : wpc[w] = "barrier") => "barrier" \in have

\* No worker sends its first command before every worker has its queue pairs, or has
\* failed to get them: the elapsed times of the workers can be compared.
StartTogether ==
    \A v, w \in AllWorkers :
        wpc[v] = "run" => wpc[w] \in {"barrier", "run", "stuck", "returned"} /\ w \in arrived

Incomplete(w) == inited[w] < Len(ns_ctx[w])

\* main returns an error if and only if a step of it failed, a worker could not initialise
\* all its namespaces or an I/O error was noted, with two exceptions that its code has: no
\* namespace was found, or the log thread could not be created.
ErrorsReported ==
    mpc = "returned" =>
        (rc # 0 <=> \/ failed \notin {"none", "no namespaces", "log"}
                    \/ status # {}
                    \/ \E w \in AllWorkers : wpc[w] = "returned" /\ Incomplete(w))

\* The cleanup goes wrong in two cases only.  Built with PERF_LATENCY_LOG, a step before the
\* set-up of the log fails (goto cleanup jumps over log_thread_id).  Or a pthread_create of main
\* fails, of nvme_poll_ctrlrs or of the log thread, and pthread_cancel is given what it left in
\* thread_id or log_thread_id.
CleanupDefined ==
    /\ fault = "log not set up" =>
          latency_log /\ failed \in {"sig", "workers", "controllers", "no namespaces", "poll",
                                    "associate", "barrier"}
    /\ fault = "thread id" => failed = "poll" \/ (failed = "log" /\ latency_log)

\* main returns: no worker waits at the barrier for one that will not come, also when
\* initialisations fail.  What keeps it from returning is a worker that could not be launched,
\* or, with the latency log, one that waits for log_mutex for ever.
MainReturns ==
    \/ <>(mpc \in {"returned", "halted"})
    \/ <>(\E w \in AllWorkers : wpc[w] = "refused")
    \/ <>(latency_log /\ \E w \in AllWorkers : wpc[w] = "stuck")
===============================================================================
