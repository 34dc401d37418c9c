--------------------------- MODULE HostLatencyLog ---------------------------
(***************************************************************************)
(* The latency log of the host (lib/util/latency_log.c and main of         *)
(* perf_rep.c, built with PERF_LATENCY_LOG).  The workers add the latency  *)
(* of every step of a command to the accumulators latency_msg, under       *)
(* log_mutex.  A timer calls latency_log_1s in a new thread every second,  *)
(* which sends a copy of the accumulators through a message queue and      *)
(* clears them.  A thread of its own receives the messages and writes the  *)
(* rows of the log file until it times out; main joins it when the workers *)
(* are done, receives what is left, removes the queue and destroys the     *)
(* mutex.  Nobody disarms the timer.                                       *)
(*                                                                         *)
(* A sample is the i-th latency a worker records.  An accumulator, a       *)
(* message and a row are the sets of the samples they sum up, so that      *)
(* losing or counting one twice is visible.                                *)
(***************************************************************************)
EXTENDS Integers, Sequences

CONSTANTS
    NumWorkers,    \* worker threads
    MaxSamples,    \* bound: latencies one worker records
    MaxTicks,      \* bound: expirations of the timer
    QueueMax       \* messages the kernel queue holds (2048 of 8 bytes by default)

ASSUME LogConstants ==
    /\ {NumWorkers, MaxSamples, MaxTicks} \subseteq Nat /\ QueueMax \in Nat \ {0}

Workers == 1 .. NumWorkers

Ticks == 1 .. MaxTicks

Samples == Workers \X (1 .. MaxSamples)

\* The threads that take log_mutex.
Threads == ({"worker"} \X Workers) \cup ({"callback"} \X Ticks)

Nobody == <<"nobody", 0>>

\* The threads that run process_msg_recv.
Readers == {"log", "main"}

VARIABLES
    wpc, recorded,        \* per worker: where it is, and how many samples it recorded
    load,                 \* per worker: the counter as it loaded it
    g_io_completed_num,
    completions,          \* calls of task_complete so far
    acc,                  \* the accumulators latency_msg
    mutex, destroyed,     \* log_mutex: who holds it, and whether it was destroyed
    cpc, temp,            \* per expiration: where its latency_log_1s is, and its copy
    msgq, removed,        \* the message queue
    lost,                 \* the samples of the messages that msgsnd did not send
    rpc, msg_cnt,         \* per reader: where it is, and the messages it still expects
    rows                  \* the rows of the log file

workervars == <<wpc, recorded, load, g_io_completed_num, completions>>
lockvars   == <<mutex, destroyed>>
tickvars   == <<cpc, temp>>
queuevars  == <<msgq, removed, lost>>
readvars   == <<rpc, msg_cnt, rows>>
logvars    == <<workervars, acc, lockvars, tickvars, queuevars, readvars>>

LogInit ==
    /\ wpc = [w \in Workers |-> "run"] /\ recorded = [w \in Workers |-> 0]
    /\ load = [w \in Workers |-> 0] /\ g_io_completed_num = 0 /\ completions = 0
    /\ acc = {}
    /\ mutex = Nobody /\ destroyed = FALSE
    /\ cpc = [c \in Ticks |-> "none"] /\ temp = [c \in Ticks |-> {}]
    /\ msgq = <<>> /\ removed = FALSE /\ lost = {}
    /\ rpc = [log |-> "test", main |-> "work"] /\ msg_cnt = [log |-> 0, main |-> 0]
    /\ rows = <<>>

Running == rpc.main # "exited"

-----------------------------------------------------------------------------
(* The workers *)

\* nvme_submit_io or nvme_complete_request is about to record a sample.
RecordRequest(w) ==
    /\ Running /\ wpc[w] = "run" /\ recorded[w] < MaxSamples
    /\ wpc' = [wpc EXCEPT ![w] = "lock"]
    /\ UNCHANGED <<recorded, load, g_io_completed_num, completions, acc, lockvars, tickvars,
                   queuevars, readvars>>

\* task_complete first counts the command, ++g_io_completed_num, outside the mutex: a
\* load and a store.
CountLoad(w) ==
    /\ Running /\ wpc[w] = "run" /\ recorded[w] < MaxSamples
    /\ load' = [load EXCEPT ![w] = g_io_completed_num]
    /\ completions' = completions + 1
    /\ wpc' = [wpc EXCEPT ![w] = "store"]
    /\ UNCHANGED <<recorded, g_io_completed_num, acc, lockvars, tickvars, queuevars, readvars>>

\* Mutant: what was loaded is stored.
CountStoreSame(w) ==
    /\ Running /\ wpc[w] = "store"
    /\ g_io_completed_num' = load[w]
    /\ wpc' = [wpc EXCEPT ![w] = "lock"]
    /\ UNCHANGED <<recorded, load, completions, acc, lockvars, tickvars, queuevars, readvars>>

CountStore(w) ==
    /\ Running /\ wpc[w] = "store"
    /\ g_io_completed_num' = load[w] + 1
    /\ wpc' = [wpc EXCEPT ![w] = "lock"]
    /\ UNCHANGED <<recorded, load, completions, acc, lockvars, tickvars, queuevars, readvars>>

\* Mutant: the worker does not take the mutex.
MayRecordUnlocked(w) == TRUE

MayRecord(w) == mutex = Nobody

\* pthread_mutex_lock, add the latency to the accumulators, pthread_mutex_unlock.
Record(w) ==
    /\ Running /\ wpc[w] = "lock" /\ MayRecord(w)
    /\ acc' = acc \cup {<<w, recorded[w] + 1>>}
    /\ recorded' = [recorded EXCEPT ![w] = @ + 1]
    /\ wpc' = [wpc EXCEPT ![w] = "run"]
    /\ UNCHANGED <<load, g_io_completed_num, completions, lockvars, tickvars, queuevars, readvars>>

\* work_fn returns.
WorkerReturns(w) ==
    /\ Running /\ wpc[w] = "run"
    /\ wpc' = [wpc EXCEPT ![w] = "done"]
    /\ UNCHANGED <<recorded, load, g_io_completed_num, completions, acc, lockvars, tickvars,
                   queuevars, readvars>>

-----------------------------------------------------------------------------
(* The timer and latency_log_1s *)

\* The timer expires: a new thread enters latency_log_1s.
Expire(c) ==
    /\ Running /\ cpc[c] = "none" /\ \A d \in Ticks : d < c => cpc[d] # "none"
    /\ cpc' = [cpc EXCEPT ![c] = "lock"]
    /\ UNCHANGED <<workervars, acc, lockvars, temp, queuevars, readvars>>

\* pthread_mutex_lock; of a destroyed mutex it returns an error, which nobody reads.
CallbackLock(c) ==
    /\ Running /\ cpc[c] = "lock"
    /\ \/ ~destroyed /\ mutex = Nobody /\ mutex' = <<"callback", c>>
       \/ destroyed /\ UNCHANGED mutex
    /\ cpc' = [cpc EXCEPT ![c] = "copy"]
    /\ UNCHANGED <<workervars, acc, destroyed, temp, queuevars, readvars>>

\* Mutant: nothing to send, and the function returns without unlocking.
AfterEmptyReturn == "done"

AfterEmpty == "unlock"

\* is_io_num_not_empty and copy_latency_ns_log.
CallbackCopy(c) ==
    /\ Running /\ cpc[c] = "copy"
    /\ \/ acc = {} /\ cpc' = [cpc EXCEPT ![c] = AfterEmpty] /\ UNCHANGED temp
       \/ acc # {} /\ cpc' = [cpc EXCEPT ![c] = "send"] /\ temp' = [temp EXCEPT ![c] = acc]
    /\ UNCHANGED <<workervars, acc, lockvars, queuevars, readvars>>

\* msgsnd: it waits while the queue is full, and fails, unnoticed, once it is removed.
CallbackSend(c) ==
    /\ Running /\ cpc[c] = "send"
    /\ \/ ~removed /\ Len(msgq) < QueueMax /\ msgq' = Append(msgq, temp[c]) /\ UNCHANGED lost
       \/ removed /\ lost' = lost \cup temp[c] /\ UNCHANGED msgq
    /\ cpc' = [cpc EXCEPT ![c] = "clean"]
    /\ UNCHANGED <<workervars, acc, lockvars, temp, removed, readvars>>

\* msgsnd fails although the queue exists (no memory for the message, or a signal while it
\* waits); nobody looks at its result, and cleanup_log follows as after a message sent.
CallbackSendFails(c) ==
    /\ Running /\ cpc[c] = "send" /\ ~removed
    /\ lost' = lost \cup temp[c]
    /\ cpc' = [cpc EXCEPT ![c] = "clean"]
    /\ UNCHANGED <<workervars, acc, lockvars, temp, msgq, removed, readvars>>

\* Mutant: the accumulators are not cleared.
ClearedNot == acc

Cleared == {}

\* cleanup_log.
CallbackClean(c) ==
    /\ Running /\ cpc[c] = "clean"
    /\ acc' = Cleared
    /\ cpc' = [cpc EXCEPT ![c] = "unlock"]
    /\ UNCHANGED <<workervars, lockvars, temp, queuevars, readvars>>

CallbackUnlock(c) ==
    /\ Running /\ cpc[c] = "unlock"
    /\ mutex' = IF mutex = <<"callback", c>> THEN Nobody ELSE mutex
    /\ cpc' = [cpc EXCEPT ![c] = "done"]
    /\ UNCHANGED <<workervars, acc, destroyed, temp, queuevars, readvars>>

-----------------------------------------------------------------------------
(* process_msg_recv, the log thread and the end of main *)

\* check_msg_qnum.
CheckQnum(r) ==
    /\ rpc[r] = "check"
    /\ msg_cnt' = [msg_cnt EXCEPT ![r] = Len(msgq)]
    /\ rpc' = [rpc EXCEPT ![r] = "recv"]
    /\ UNCHANGED <<workervars, acc, lockvars, tickvars, queuevars, rows>>

MoreExpected(r) == msg_cnt[r] > 0

\* msgrcv, which waits for a message, and write_latency_tasks_log.
Receive(r) ==
    /\ Running /\ rpc[r] = "recv" /\ MoreExpected(r) /\ msgq # <<>>
    /\ rows' = Append(rows, Head(msgq)) /\ msgq' = Tail(msgq)
    /\ msg_cnt' = [msg_cnt EXCEPT ![r] = @ - 1]
    /\ UNCHANGED <<workervars, acc, lockvars, tickvars, removed, lost, rpc>>

ReceivedAll(r) ==
    /\ rpc[r] = "recv" /\ ~MoreExpected(r)
    /\ rpc' = [rpc EXCEPT ![r] = IF r = "log" THEN "test" ELSE "rmid"]
    /\ UNCHANGED <<workervars, acc, lockvars, tickvars, queuevars, msg_cnt, rows>>

AllReturned == \A w \in Workers : wpc[w] = "done"

\* child_thread_fn tests the time once a pass.  It has no cancellation point, so that
\* pthread_cancel has no effect on it and only the time ends it.
LogThreadGoesOn ==
    /\ Running /\ rpc.log = "test"
    /\ rpc' = [rpc EXCEPT !.log = "check"]
    /\ UNCHANGED <<workervars, acc, lockvars, tickvars, queuevars, msg_cnt, rows>>

LogThreadTimesOut ==
    /\ Running /\ rpc.log = "test"
    /\ rpc' = [rpc EXCEPT !.log = "exited"]
    /\ UNCHANGED <<workervars, acc, lockvars, tickvars, queuevars, msg_cnt, rows>>

\* Mutant: main does not wait for the log thread.
JoinedNot == TRUE

Joined == rpc.log = "exited"

\* spdk_env_thread_wait_all, and pthread_join of the log thread.
Join ==
    /\ rpc.main = "work" /\ AllReturned /\ Joined
    /\ rpc' = [rpc EXCEPT !.main = "check"]
    /\ UNCHANGED <<workervars, acc, lockvars, tickvars, queuevars, msg_cnt, rows>>

\* msgctl(IPC_RMID): the messages still in the queue are gone.
RemoveQueue ==
    /\ rpc.main = "rmid"
    /\ removed' = TRUE /\ msgq' = <<>>
    /\ rpc' = [rpc EXCEPT !.main = "fini"]
    /\ UNCHANGED <<workervars, acc, lockvars, tickvars, lost, msg_cnt, rows>>

\* fini_log_fn: pthread_mutex_destroy refuses a mutex that is held.
FiniLog ==
    /\ rpc.main = "fini"
    /\ destroyed' = (mutex = Nobody)
    /\ rpc' = [rpc EXCEPT !.main = "exit"]
    /\ UNCHANGED <<workervars, acc, mutex, tickvars, queuevars, msg_cnt, rows>>

\* main returns, which ends every thread.
Exit ==
    /\ rpc.main = "exit"
    /\ rpc' = [rpc EXCEPT !.main = "exited"]
    /\ UNCHANGED <<workervars, acc, lockvars, tickvars, queuevars, msg_cnt, rows>>

Exited == ~Running /\ UNCHANGED logvars

Worker(w) == RecordRequest(w) \/ CountLoad(w) \/ CountStore(w) \/ Record(w) \/ WorkerReturns(w)

CallbackRuns(c) == CallbackLock(c) \/ CallbackCopy(c) \/ CallbackSend(c) \/ CallbackClean(c)
                   \/ CallbackUnlock(c)

Callback(c) == CallbackRuns(c) \/ CallbackSendFails(c)

ProcessMsgRecv(r) == CheckQnum(r) \/ Receive(r) \/ ReceivedAll(r)

LogThread == ProcessMsgRecv("log") \/ LogThreadGoesOn \/ LogThreadTimesOut

Main == Join \/ ProcessMsgRecv("main") \/ RemoveQueue \/ FiniLog \/ Exit

LogNext ==
    \/ \E w \in Workers : Worker(w)
    \/ \E c \in Ticks : Expire(c) \/ Callback(c)
    \/ LogThread \/ Main \/ Exited

LogSpec == LogInit /\ [][LogNext]_logvars

\* Every thread runs, work_fn returns, and the time of the log thread runs out; no failure of
\* msgsnd is counted on.
FairLogSpec ==
    /\ LogSpec
    /\ \A w \in Workers : WF_logvars(Worker(w))
    /\ \A c \in Ticks : WF_logvars(CallbackRuns(c))
    /\ WF_logvars(LogThread) /\ SF_logvars(LogThreadTimesOut)
    /\ WF_logvars(Main)

-----------------------------------------------------------------------------
(* Properties *)

Row == SUBSET Samples

\* Every variable keeps its type: in particular no reader counts below zero messages.
LogTypeOK ==
    /\ wpc \in [Workers -> {"run", "store", "lock", "done"}]
    /\ recorded \in [Workers -> 0 .. MaxSamples] /\ load \in [Workers -> Nat]
    /\ g_io_completed_num \in Nat /\ completions \in Nat
    /\ acc \in Row /\ mutex \in Threads \cup {Nobody} /\ destroyed \in BOOLEAN
    /\ cpc \in [Ticks -> {"none", "lock", "copy", "send", "clean", "unlock", "done"}]
    /\ temp \in [Ticks -> Row]
    /\ msgq \in Seq(Row) /\ removed \in BOOLEAN /\ lost \in Row
    /\ rpc \in [log : {"test", "check", "recv", "exited"},
                main : {"work", "check", "recv", "rmid", "fini", "exit", "exited"}]
    /\ msg_cnt \in [log : Nat, main : Nat] /\ rows \in Seq(Row)

Recorded == {s \in Samples : s[2] <= recorded[s[1]]}

Stored == rows \o msgq

InRows(seq) == UNION {seq[i] : i \in DOMAIN seq}

\* As long as the queue exists every sample is accounted for exactly once: in the
\* accumulators, in one message or in one row, or among those that a failed msgsnd lost, of
\* which none was sent as well (between msgsnd and cleanup_log the accumulators still hold
\* what was just sent or lost).
LogConserved ==
    ~removed =>
        /\ Recorded = acc \cup InRows(Stored) \cup lost
        /\ \A i, j \in DOMAIN Stored : i # j => Stored[i] \cap Stored[j] = {}
        /\ lost \cap InRows(Stored) = {}
        /\ (\A c \in Ticks : cpc[c] # "clean") => acc \cap (InRows(Stored) \cup lost) = {}

\* The log never shows a later latency of a worker without the earlier ones, unless msgsnd
\* lost them: what is written at any time, with what is lost, is a prefix of what each
\* worker recorded.
WrittenInOrder ==
    \A s \in InRows(rows) : \A i \in 1 .. s[2] : <<s[1], i>> \in InRows(rows) \cup lost

\* process_msg_recv never expects more messages than there are, so that the blocking
\* msgrcv of the log thread and of main returns.
ReadersNotStuck ==
    \A r \in Readers : rpc[r] = "recv" => msg_cnt[r] <= Len(msgq)

\* When main removes the message queue no message is left in it (the comment there says
\* so).
QueueEmptyAtRemoval == rpc.main = "rmid" => msgq = <<>>

\* g_io_completed_num is the number of commands completed, once the workers are done.
CountExact == AllReturned => g_io_completed_num = completions

\* What the race on g_io_completed_num (a load and a store outside log_mutex) can do: the
\* count main prints is never above the number of completions, and never zero when there
\* were some.
CountBounds ==
    AllReturned => /\ g_io_completed_num <= completions
                   /\ completions > 0 => g_io_completed_num > 0

\* The log thread timed out before the workers were done, and a callback waits in msgsnd
\* of a full queue that nobody reads any more.
StuckInMsgsnd ==
    /\ rpc.log = "exited" /\ ~AllReturned /\ ~removed /\ Len(msgq) = QueueMax
    /\ \E c \in Ticks : cpc[c] = "send" /\ mutex = <<"callback", c>>

\* Main exits: no worker waits for ever for log_mutex, although callbacks wait in msgsnd
\* holding it.  The one exception is a queue that fills up after the log thread, whose
\* time is 1.2 * g_time_in_sec + 6, has timed out before the workers.
LogShutsDown == <>(rpc.main = "exited") \/ <>[]StuckInMsgsnd
=============================================================================
