------------------------------ MODULE RdmaTarget ------------------------------
(***************************************************************************)
(* One I/O queue pair of the NVMe-oF target's RDMA transport               *)
(* (lib/nvmf/rdma.c), with its own receive queue (no SRQ), and the part of *)
(* lib/nvmf/nvmf.c and ctrlr.c that disconnects it and pauses its          *)
(* subsystem.  Every handler runs to completion on the thread of the poll  *)
(* group, so a handler is a function of the state t of that thread and an  *)
(* action applies it.  Beside it runs the adapter, which carries out       *)
(* posted work requests in order and reports them on the completion queue  *)
(* cq, or flushes them with an error.  The memory pool is shared with the  *)
(* queue pairs of other connections.                                       *)
(*                                                                         *)
(* A work request counts as posted when it is queued: the batching between *)
(* the two only delays it, and the adapter may be late anyway.             *)
(***************************************************************************)
EXTENDS Integers, Sequences, FiniteSets, SequencesExt

CONSTANTS
    MaxQueue,       \* max_queue_depth: requests and receive buffers of the queue pair
    MaxSend,        \* max_send_depth
    MaxRead,        \* max_read_depth
    Buffers,        \* data buffers in the pool
    Kinds,          \* commands the host sends: [xfer, sgl, wr]
    MaxCommands     \* bound: commands the host sends

ASSUME RdmaTargetConstants ==
    /\ {MaxQueue, MaxSend, MaxRead, Buffers} \subseteq Nat \ {0}
    /\ MaxCommands \in Nat
    /\ \A k \in Kinds :
          /\ k.xfer \in {"none", "h2c", "c2h", "bidir"}
          /\ k.sgl \in {"keyed", "capsule", "bad"}
          /\ k.wr \in 0 .. MaxSend - 1

Reqs == 1 .. MaxQueue

VARIABLES
    t,         \* state of the poll group thread and of the queues it posts to
    cq,        \* completions not yet polled: [type, r, ok] or [type, cmd, ok]
    waiting,   \* commands the host has sent and has no response for
    commands,  \* commands sent so far
    borrowed   \* a buffer of the pool is with another queue pair

targetvars == <<t, cq, waiting, commands, borrowed>>

NoCommand == [xfer |-> "none", sgl |-> "keyed", wr |-> 0]

FreeRequest == [state |-> "FREE", cmd |-> NoCommand, wr |-> 0, rest |-> 0, pool |-> FALSE,
                ok |-> TRUE, aborted |-> FALSE]

TargetInit ==
    /\ t = [req |-> [r \in Reqs |-> FreeRequest],
            free |-> [i \in 1 .. MaxQueue |-> i], incoming |-> <<>>,
            bufq |-> <<>>, readq |-> <<>>, writeq |-> <<>>, sendq |-> <<>>,
            send |-> 0, read |-> 0, recv |-> 0,
            bufs |-> Buffers,
            qp |-> "enabled", err |-> FALSE, close |-> FALSE, nomem |-> FALSE,
            queued |-> <<>>, paused |-> FALSE,
            sq |-> <<>>, rq |-> MaxQueue, broken |-> FALSE,
            taken |-> 0, io_num |-> 0, unlogged |-> 0, assert |-> {}]
    /\ cq = <<>> /\ waiting = 0 /\ commands = 0 /\ borrowed = FALSE

-----------------------------------------------------------------------------
(* nvmf_rdma_request_process *)

Dead(s) == s.err \/ s.qp # "enabled"

Fail(s, what) == [s EXCEPT !.assert = @ \cup {what}]

Goto(s, r, state) == [s EXCEPT !.req[r].state = state]

PendSend(s, r) == [Goto(s, r, "READY_TO_COMPLETE_PENDING") EXCEPT !.sendq = Append(@, r)]

\* The switch at the entry: a request of a dead queue pair leaves the queue it waits in.
Unqueue(s, r) ==
    CASE s.req[r].state = "NEED_BUFFER" -> [s EXCEPT !.bufq = RemoveFirst(@, r)]
      [] s.req[r].state = "TO_CONTROLLER_PENDING" -> [s EXCEPT !.readq = RemoveFirst(@, r)]
      [] s.req[r].state = "TO_HOST_PENDING" -> [s EXCEPT !.writeq = RemoveFirst(@, r)]
      [] s.req[r].state = "READY_TO_COMPLETE_PENDING" -> [s EXCEPT !.sendq = RemoveFirst(@, r)]
      [] OTHER -> s

StepNew(s, r) ==
    CASE s.req[r].cmd.xfer = "bidir" -> PendSend([s EXCEPT !.req[r].ok = FALSE], r)
      [] s.req[r].cmd.xfer = "none" -> Goto(s, r, "READY_TO_EXECUTE")
      [] OTHER -> [Goto(s, r, "NEED_BUFFER") EXCEPT !.bufq = Append(@, r)]

\* nvmf_rdma_request_parse_sgl is inlined: an invalid descriptor fails the request, data in
\* the capsule needs no buffer of the pool, and without a buffer the request stays in line.
StepNeedBuffer(s, r) ==
    LET cmd == s.req[r].cmd
        out == [s EXCEPT !.bufq = Tail(@)]
        got == [out EXCEPT !.bufs = @ - 1, !.req[r].pool = TRUE, !.req[r].wr = cmd.wr]
    IN  CASE Head(s.bufq) # r -> s
          [] Head(s.bufq) = r /\ cmd.sgl = "bad" -> PendSend([out EXCEPT !.req[r].ok = FALSE], r)
          [] Head(s.bufq) = r /\ cmd.sgl = "capsule" ->
                Goto([out EXCEPT !.req[r].wr = 0, !.req[r].pool = FALSE], r, "READY_TO_EXECUTE")
          [] Head(s.bufq) = r /\ cmd.sgl = "keyed" ->
                IF s.bufs = 0 THEN s
                ELSE IF cmd.xfer = "h2c"
                THEN [Goto(got, r, "TO_CONTROLLER_PENDING") EXCEPT !.readq = Append(@, r)]
                ELSE Goto(got, r, "READY_TO_EXECUTE")

WRs(r, type, n) == [i \in 1 .. n |-> [r |-> r, type |-> type]]

\* request_transfer_in.
TransferIn(s, r) ==
    LET n == s.req[r].wr
    IN  [Goto(s, r, "TRANSFERRING_HOST_TO_CONTROLLER") EXCEPT
            !.sq = @ \o WRs(r, "READ", n), !.read = @ + n, !.send = @ + n]

\* DATA_TRANSFER_TO_CONTROLLER_PENDING; a request that needs more reads than there is room
\* for posts a part of them (request_prepare_transfer_in_part) and stays in the queue.
StepRead(s, r) ==
    LET room == IF MaxRead - s.read < MaxSend - s.send THEN MaxRead - s.read ELSE MaxSend - s.send
        part == IF s.req[r].wr > room
                THEN [s EXCEPT !.req[r].rest = s.req[r].wr - room, !.req[r].wr = room]
                ELSE s
    IN  IF Head(s.readq) # r \/ (s.req[r].wr > room /\ room = 0) THEN s
        ELSE TransferIn(IF part.req[r].rest = 0 THEN [part EXCEPT !.readq = Tail(@)] ELSE part, r)

\* Mutant: only the data is counted, not the response chained to it.
StepWriteTight(s, r) ==
    IF Head(s.writeq) # r \/ s.send + s.req[r].wr > MaxSend THEN s
    ELSE Goto([s EXCEPT !.writeq = Tail(@)], r, "READY_TO_COMPLETE")

StepWrite(s, r) ==
    IF Head(s.writeq) # r \/ s.send + s.req[r].wr + 1 > MaxSend THEN s
    ELSE Goto([s EXCEPT !.writeq = Tail(@)], r, "READY_TO_COMPLETE")

StepSend(s, r) ==
    IF Head(s.sendq) # r \/ s.send = MaxSend THEN s
    ELSE Goto([s EXCEPT !.sendq = Tail(@)], r, "READY_TO_COMPLETE")

StepExecuted(s, r) ==
    IF s.req[r].ok /\ s.req[r].cmd.xfer = "c2h"
    THEN [Goto(s, r, "TO_HOST_PENDING") EXCEPT !.writeq = Append(@, r)]
    ELSE PendSend(s, r)

\* request_transfer_out: the receive buffer is posted again, then the data (if the command
\* read some) and the response.
TransferOut(s, r) ==
    LET data == s.req[r].ok /\ s.req[r].cmd.xfer = "c2h"
        n == IF data THEN s.req[r].wr ELSE 0
    IN  [Goto(s, r, IF data THEN "TRANSFERRING_CONTROLLER_TO_HOST" ELSE "COMPLETING") EXCEPT
            !.req[r].wr = IF s.req[r].ok THEN @ ELSE 0,
            !.rq = @ + 1, !.recv = @ - 1,
            !.sq = @ \o WRs(r, "WRITE", n) \o WRs(r, "SEND", 1), !.send = @ + n + 1]

\* spdk_nvmf_request_exec: while the subsystem is paused the request waits in
\* sgroup->queued, and is not yet outstanding.
StepExecute(s, r) ==
    [Goto(s, r, "EXECUTING") EXCEPT !.queued = IF s.paused THEN Append(@, r) ELSE @]

\* _nvmf_rdma_request_free; num_remaining_data_wr is not cleared.
Free(s, r) ==
    [s EXCEPT !.req[r] = [FreeRequest EXCEPT !.cmd = s.req[r].cmd, !.rest = s.req[r].rest],
              !.bufs = IF s.req[r].pool THEN @ + 1 ELSE @,
              !.free = <<r>> \o @]

\* COMPLETED, with the sample of the target's latency log.
StepCompleted(s, r) == [Free(s, r) EXCEPT !.io_num = @ + 1]

\* One pass of the switch in the loop.
Step(s, r) ==
    CASE s.req[r].state = "NEW" -> StepNew(s, r)
      [] s.req[r].state = "NEED_BUFFER" -> StepNeedBuffer(s, r)
      [] s.req[r].state = "TO_CONTROLLER_PENDING" -> StepRead(s, r)
      [] s.req[r].state = "READY_TO_EXECUTE" -> StepExecute(s, r)
      [] s.req[r].state = "EXECUTED" -> StepExecuted(s, r)
      [] s.req[r].state = "TO_HOST_PENDING" -> StepWrite(s, r)
      [] s.req[r].state = "READY_TO_COMPLETE_PENDING" -> StepSend(s, r)
      [] s.req[r].state = "READY_TO_COMPLETE" -> TransferOut(s, r)
      [] s.req[r].state = "COMPLETED" -> StepCompleted(s, r)
      [] OTHER -> s

\* The loop goes on while a pass changes the state of the request; n is the pass from s.
RECURSIVE Loop(_, _, _)
Loop(s, n, r) ==
    IF n.req[r].state = s.req[r].state THEN n ELSE Loop(n, Step(n, r), r)

\* Mutant: a request of a dead queue pair stays in the queue it waits in.
EnterKeepsQueue(s, r) == IF Dead(s) THEN Goto(s, r, "COMPLETED") ELSE s

Enter(s, r) == IF Dead(s) THEN Goto(Unqueue(s, r), r, "COMPLETED") ELSE s

Process(s, r) ==
    IF s.req[r].state = "FREE" THEN Fail(s, "state != FREE")
    ELSE Loop(Enter(s, r), Step(Enter(s, r), r), r)

\* The result of nvmf_rdma_request_process(s, r) = n: some pass of the loop changed the state.
Progress(s, n, r) == n.req[r].state # Enter(s, r).req[r].state

-----------------------------------------------------------------------------
(* The queues of requests that wait *)

\* The requests of q one after the other; drain: also past one that makes no progress.
RECURSIVE ProcessEach(_, _, _)
RECURSIVE ProcessRest(_, _, _, _)
ProcessEach(s, q, drain) ==
    IF q = <<>> \/ s.assert # {} THEN s ELSE ProcessRest(s, Process(s, Head(q)), q, drain)

ProcessRest(s, n, q, drain) ==
    IF ~Progress(s, n, Head(q)) /\ ~drain THEN n ELSE ProcessEach(n, Tail(q), drain)

ProcessQueue(s, queue, drain) == ProcessEach(s, s[queue], drain)

\* The loop over the free requests and the received commands.
RECURSIVE TakeIncoming(_)
TakeIncoming(s) ==
    IF s.free = <<>> \/ s.incoming = <<>> \/ s.assert # {} THEN s
    ELSE LET r == Head(s.free)
         IN  TakeIncoming(Process(
                 [s EXCEPT !.free = Tail(@), !.incoming = Tail(@), !.taken = @ + 1,
                           !.req[r].state = "NEW", !.req[r].cmd = Head(s.incoming)], r))

\* Mutant: responses that wait for the send queue are forgotten.
PendingButSends(s, drain) ==
    LET reads == ProcessQueue(s, "readq", drain)
        writes == ProcessQueue(reads, "writeq", drain)
    IN  TakeIncoming(ProcessQueue(writes, "bufq", drain))

\* nvmf_rdma_qpair_process_pending.
ProcessPending(s, drain) ==
    LET sends == ProcessQueue(s, "sendq", drain)
        reads == ProcessQueue(sends, "readq", drain)
        writes == ProcessQueue(reads, "writeq", drain)
    IN  TakeIncoming(ProcessQueue(writes, "bufq", drain))

\* nvmf_rdma_qpair_destroy: whatever request is left is processed, then all is freed.
QpairDestroy(s) ==
    LET left == SelectSeq([i \in 1 .. MaxQueue |-> i], LAMBDA r : s.req[r].state # "FREE")
    IN  [ProcessEach(s, left, TRUE) EXCEPT !.qp = "gone"]

\* The queue pair is drained: no work request is with the adapter.
Drained(s) == s.send = 0 /\ s.recv = MaxQueue

DestroyIfDrained(s) == IF s.close /\ Drained(s) /\ s.assert = {} THEN QpairDestroy(s) ELSE s

\* nvmf_rdma_destroy_drained_qpair.
DestroyDrained(s) == DestroyIfDrained(ProcessPending(s, TRUE))

-----------------------------------------------------------------------------
(* Disconnecting: nvmf.c and ctrlr.c *)

\* qpair->outstanding.
Outstanding(s) == {r \in Reqs : s.req[r].state = "EXECUTING"} \ ToSet(s.queued)

\* _nvmf_qpair_sgroup_req_clean: freed without a sample in the log.
SgroupReqClean(s) ==
    [FoldLeft(Free, s, s.queued) EXCEPT !.queued = <<>>, !.unlogged = @ + Len(s.queued)]

\* _nvmf_qpair_destroy, spdk_nvmf_poll_group_remove and nvmf_rdma_close_qpair.
Close(s) ==
    DestroyDrained([SgroupReqClean(s) EXCEPT !.qp = "error", !.close = TRUE, !.broken = TRUE])

\* spdk_nvmf_qpair_disconnect: once; requests in execution are waited for.  Without memory
\* for its context it returns, and the queue pair stays as it is, deactivating.
Disconnect(s) ==
    IF s.qp # "enabled" THEN s
    ELSE LET n == [s EXCEPT !.qp = "deactivating"]
         IN  IF Outstanding(s) = {} /\ ~s.nomem THEN Close(n) ELSE n

\* Mutant: the last completion does not resume the disconnection.
CleanupForgets(s) == s

\* nvmf_qpair_request_cleanup; state_cb is set when the disconnection waits.
RequestCleanup(s) ==
    CASE s.qp # "deactivating" -> s
      [] s.qp = "deactivating" /\ s.nomem -> Fail(s, "state_cb != NULL")
      [] s.qp = "deactivating" /\ ~s.nomem -> IF Outstanding(s) = {} THEN Close(s) ELSE s

\* _nvmf_request_complete and nvmf_rdma_request_complete.
Complete(s, r, ok) ==
    RequestCleanup(Process([Goto(s, r, IF s.err THEN "COMPLETED" ELSE "EXECUTED")
                            EXCEPT !.req[r].ok = ok], r))

-----------------------------------------------------------------------------
(* nvmf_rdma_poller_poll: one completion *)

DestroyInactive(s) == IF s.qp = "enabled" THEN s ELSE DestroyDrained(s)

\* What follows the switch: errors, requests that wait, a queue pair that is going down.
AfterSwitch(s, ok) ==
    LET e == [s EXCEPT !.err = TRUE]
    IN  CASE ~ok /\ s.qp = "enabled" -> Disconnect(e)
          [] ~ok /\ s.qp # "enabled" -> DestroyDrained(e)
          [] ok -> DestroyInactive(ProcessPending(s, FALSE))

SendDone(s, c) ==
    LET r == c.r
        n == [Goto(s, r, "COMPLETED") EXCEPT !.send = @ - (s.req[r].wr + 1), !.req[r].wr = 0]
    IN  IF c.ok /\ s.req[r].state \notin {"TRANSFERRING_CONTROLLER_TO_HOST", "COMPLETING"}
        THEN Fail(s, "nvmf_rdma_req_is_completing")
        ELSE IF s.send < s.req[r].wr + 1 THEN Fail(s, "current_send_depth")
        ELSE AfterSwitch(Process(n, r), c.ok)

RecvDone(s, c) ==
    IF c.ok /\ s.recv >= MaxQueue THEN AfterSwitch(Disconnect(s), c.ok)
    ELSE AfterSwitch([s EXCEPT !.recv = @ + 1, !.incoming = <<c.cmd>> \o @], c.ok)

\* Mutant: the failure of a write already frees its request.
DataDoneFrees(s, c) ==
    LET n == [s EXCEPT !.send = @ - 1, !.req[c.r].wr = @ - 1,
                       !.read = IF s.req[c.r].cmd.xfer = "h2c" THEN @ - 1 ELSE @]
    IN  AfterSwitch(Process(Goto(n, c.r, IF c.ok THEN "READY_TO_EXECUTE" ELSE "COMPLETED"), c.r), c.ok)

\* A failed RDMA write only counts, its request waits for the failure of its response.
DataDone(s, c) ==
    LET r == c.r
        isRead == s.req[r].cmd.xfer = "h2c"
        n == [s EXCEPT !.send = @ - 1, !.req[r].wr = @ - 1,
                       !.read = IF c.ok \/ isRead THEN @ - 1 ELSE @]
        more == [Goto(n, r, "TO_CONTROLLER_PENDING") EXCEPT !.req[r].wr = n.req[r].rest,
                                                            !.req[r].rest = 0]
        next == CASE n.req[r].wr > 0 -> n
                  [] n.req[r].wr = 0 /\ ~c.ok -> IF isRead THEN Goto(n, r, "COMPLETED") ELSE n
                  [] n.req[r].wr = 0 /\ c.ok /\ n.req[r].rest > 0 -> Process(more, r)
                  [] n.req[r].wr = 0 /\ c.ok /\ n.req[r].rest = 0 ->
                        Process(Goto(n, r, "READY_TO_EXECUTE"), r)
    IN  IF s.req[r].wr = 0 THEN Fail(s, "num_outstanding_data_wr > 0")
        ELSE AfterSwitch(next, c.ok)

\* A handler that disconnects the queue pair, which happens once, may find no memory for it.
MemoryOrNot == IF t.qp = "enabled" THEN {t, [t EXCEPT !.nomem = TRUE]} ELSE {t}

DisconnectsIfNoMemory == t'.nomem => t'.qp = "deactivating"

PollCompletion ==
    /\ t.assert = {} /\ cq # <<>>
    /\ \E s \in MemoryOrNot :
          LET c == Head(cq)
          IN  t' = CASE c.type = "SEND" -> SendDone(s, c)
                     [] c.type = "RECV" -> RecvDone(s, c)
                     [] c.type \in {"READ", "WRITE"} -> DataDone(s, c)
    /\ DisconnectsIfNoMemory
    /\ cq' = Tail(cq)
    /\ UNCHANGED <<waiting, commands, borrowed>>

\* The first request in line for a buffer can go on.
Servable == t.bufq # <<>> /\ (t.bufs > 0 \/ t.req[Head(t.bufq)].cmd.sgl # "keyed" \/ Dead(t))

\* A poll that finds no completion tries the requests without a buffer again.
PollIdle ==
    /\ t.assert = {} /\ cq = <<>> /\ Servable
    /\ t' = ProcessEach(t, t.bufq, FALSE)
    /\ UNCHANGED <<cq, waiting, commands, borrowed>>

PollNothing == t.assert = {} /\ cq = <<>> /\ ~Servable /\ UNCHANGED targetvars

-----------------------------------------------------------------------------
(* The other callers on this thread *)

\* The block layer has finished.
RequestComplete(r, ok) ==
    /\ t.assert = {} /\ r \in Outstanding(t)
    /\ t' = Complete(t, r, ok)
    /\ UNCHANGED <<cq, waiting, commands, borrowed>>

\* _nvmf_rdma_qpair_abort_request; a request in another state is left to finish.
AbortRequest(r) ==
    /\ t.assert = {} /\ t.qp \in {"enabled", "deactivating"}
    /\ t.req[r].state \in {"NEED_BUFFER", "TO_CONTROLLER_PENDING", "TO_HOST_PENDING",
                           "READY_TO_COMPLETE_PENDING"}
    /\ ~t.req[r].aborted
    /\ t' = PendSend([Unqueue(t, r) EXCEPT !.req[r].ok = FALSE, !.req[r].aborted = TRUE], r)
    /\ UNCHANGED <<cq, waiting, commands, borrowed>>

\* RDMA_CM_EVENT_DISCONNECTED: nvmf_rdma_disconnect.
HostDisconnects ==
    /\ t.assert = {} /\ t.qp = "enabled"
    /\ \E s \in MemoryOrNot : t' = Disconnect(s)
    /\ DisconnectsIfNoMemory
    /\ UNCHANGED <<cq, waiting, commands, borrowed>>

\* nvmf_poll_group_pause_subsystem.
PauseSubsystem ==
    /\ t.assert = {} /\ ~t.paused
    /\ t' = [t EXCEPT !.paused = TRUE]
    /\ UNCHANGED <<cq, waiting, commands, borrowed>>

\* spdk_nvmf_request_exec of a request that waited; nvmf_check_qpair_active completes it
\* with an error when the queue pair is no longer enabled.
ExecQueued(s, r) ==
    LET n == [s EXCEPT !.queued = Tail(@)]
    IN  IF n.qp = "enabled" THEN n ELSE Complete(n, r, FALSE)

\* nvmf_poll_group_resume_subsystem: the pause is over once no request is outstanding.
ResumeSubsystem ==
    /\ t.assert = {} /\ t.paused /\ Outstanding(t) = {}
    /\ t' = FoldLeft(ExecQueued, [t EXCEPT !.paused = FALSE], t.queued)
    /\ UNCHANGED <<cq, waiting, commands, borrowed>>

\* A failed assertion has stopped the target.
Stopped == t.assert # {} /\ UNCHANGED targetvars

-----------------------------------------------------------------------------
(* The adapter, the host and the other queue pairs *)

\* A command arrives in a receive buffer; the host keeps to the depth it was granted.
CommandArrives(k) ==
    /\ ~t.broken /\ t.rq > 0 /\ waiting < MaxQueue /\ commands < MaxCommands
    /\ t' = [t EXCEPT !.rq = @ - 1]
    /\ cq' = Append(cq, [type |-> "RECV", cmd |-> k, ok |-> TRUE])
    /\ waiting' = waiting + 1 /\ commands' = commands + 1
    /\ UNCHANGED borrowed

\* The adapter carries out the oldest work request; RDMA writes are not signalled.
WorkDone ==
    /\ ~t.broken /\ t.sq # <<>>
    /\ LET w == Head(t.sq)
       IN  /\ cq' = IF w.type = "WRITE" THEN cq
                    ELSE Append(cq, [type |-> w.type, r |-> w.r, ok |-> TRUE])
           /\ waiting' = IF w.type = "SEND" THEN waiting - 1 ELSE waiting
    /\ t' = [t EXCEPT !.sq = Tail(@)]
    /\ UNCHANGED <<commands, borrowed>>

\* The connection breaks under the target.
LinkFails ==
    /\ ~t.broken /\ t' = [t EXCEPT !.broken = TRUE]
    /\ UNCHANGED <<cq, waiting, commands, borrowed>>

\* A broken queue pair flushes what was posted, each queue in its order.
FlushSend ==
    /\ t.broken /\ t.sq # <<>>
    /\ cq' = Append(cq, [type |-> Head(t.sq).type, r |-> Head(t.sq).r, ok |-> FALSE])
    /\ t' = [t EXCEPT !.sq = Tail(@)]
    /\ UNCHANGED <<waiting, commands, borrowed>>

FlushRecv ==
    /\ t.broken /\ t.rq > 0
    /\ cq' = Append(cq, [type |-> "RECV", cmd |-> NoCommand, ok |-> FALSE])
    /\ t' = [t EXCEPT !.rq = @ - 1]
    /\ UNCHANGED <<waiting, commands, borrowed>>

\* Another queue pair of the poll group takes a buffer; pending_buf_queue is one line for
\* all of them, so it cannot overtake a request that waits.
Borrow ==
    /\ ~borrowed /\ t.bufs > 0 /\ t.bufq = <<>>
    /\ borrowed' = TRUE /\ t' = [t EXCEPT !.bufs = @ - 1]
    /\ UNCHANGED <<cq, waiting, commands>>

GiveBack ==
    /\ borrowed /\ borrowed' = FALSE /\ t' = [t EXCEPT !.bufs = @ + 1]
    /\ UNCHANGED <<cq, waiting, commands>>

Environment ==
    \/ \E k \in Kinds : CommandArrives(k)
    \/ WorkDone \/ LinkFails \/ FlushSend \/ FlushRecv
    \/ Borrow \/ GiveBack

TargetNext ==
    \/ PollCompletion \/ PollIdle \/ PollNothing
    \/ \E r \in Reqs : AbortRequest(r) \/ \E ok \in BOOLEAN : RequestComplete(r, ok)
    \/ HostDisconnects \/ PauseSubsystem \/ ResumeSubsystem
    \/ t.assert = {} /\ Environment
    \/ Stopped

\* The poll group polls, the adapter works, the block layer answers and the other queue pair
\* finishes: none of them stops.  Each disjunct is weak fairness of the action it names, with
\* the action's guard written out.
TargetSpec ==
    /\ TargetInit /\ [][TargetNext]_targetvars
    /\ []<>(t.assert # {} \/ (cq = <<>> /\ ~Servable)) \/ []<><<PollCompletion \/ PollIdle>>_targetvars
    /\ []<>(t.assert # {} \/ Outstanding(t) = {})
          \/ []<><<\E r \in Reqs, ok \in BOOLEAN : RequestComplete(r, ok)>>_targetvars
    /\ []<>(t.assert # {} \/ (t.sq = <<>> /\ (t.broken => t.rq = 0)))
          \/ []<><<WorkDone \/ FlushSend \/ FlushRecv>>_targetvars
    /\ WF_targetvars(t.assert = {} /\ GiveBack)

-----------------------------------------------------------------------------
(* Properties *)

\* spdk_nvmf_qpair_disconnect had no memory for its context: it left the queue pair
\* deactivating, with nothing to call when its last request completes.
ContextMissing == t.nomem /\ t.qp = "deactivating"

\* No assertion of the request state machine fails: nvmf_rdma_request_process never meets
\* a free request, a completion always finds its request in a state that expects it.  Only
\* nvmf_qpair_request_cleanup misses its state_cb, after a disconnection without memory.
NoAssertFails ==
    t.assert \subseteq (IF ContextMissing THEN {"state_cb != NULL"} ELSE {})

Reported(types) == Cardinality({i \in DOMAIN cq : cq[i].type \in types})

PostedWork(types) == Cardinality({i \in DOMAIN t.sq : t.sq[i].type \in types})

\* What is posted fits the queues of the adapter: the depths the transport counts cover every
\* work request posted or not yet polled, never exceed the limits, and every receive buffer
\* is posted, reported or counted.
PostedFits ==
    /\ Len(t.sq) + Reported({"READ", "WRITE", "SEND"}) <= t.send /\ t.send <= MaxSend
    /\ t.read = PostedWork({"READ"}) + Reported({"READ"}) /\ t.read <= MaxRead
    /\ t.recv + t.rq + Reported({"RECV"}) = MaxQueue

Works == {t.sq[i] : i \in DOMAIN t.sq} \cup {cq[i] : i \in {j \in DOMAIN cq : cq[j].type # "RECV"}}

\* A request is not freed, and its data buffer not given back, while one of its work requests
\* is with the adapter or on the completion queue, whatever is aborted or disconnected.
DataOutlivesWork ==
    \A w \in Works :
        /\ t.req[w.r].state # "FREE"
        /\ w.type \in {"READ", "WRITE"} => t.req[w.r].pool

Held == {r \in Reqs : t.req[r].pool}

\* Every command taken off the incoming queue is logged once, when its request is freed (or
\* freed unlogged, from the queue of a paused subsystem), and every data buffer is in the
\* pool, with a request in use, or with another queue pair.
FreedOnce ==
    /\ t.io_num + t.unlogged + Cardinality({r \in Reqs : t.req[r].state # "FREE"}) = t.taken
    /\ t.bufs + Cardinality(Held) + (IF borrowed THEN 1 ELSE 0) = Buffers

\* A destroyed queue pair leaves nothing behind: no request in use or queued in a paused
\* subsystem, and no completion that a later poll would look up in freed memory.
GoneQuiet ==
    t.qp = "gone" =>
        /\ cq = <<>> /\ t.sq = <<>> /\ t.rq = 0 /\ t.queued = <<>>
        /\ \A r \in Reqs : t.req[r].state = "FREE"

\* Memory is safe: a request and its buffer outlive the work posted for them, are freed once,
\* and nothing refers to a queue pair that was destroyed.
MemorySafe == DataOutlivesWork /\ FreedOnce /\ GoneQuiet

\* Once it disconnects, for whatever reason, the queue pair is eventually destroyed, also when
\* its subsystem is paused and never resumed; but for a disconnection without memory.
Drains == (t.qp # "enabled") ~> (t.qp = "gone" \/ ContextMissing)

\* Only a completion looks at pending_rdma_send_queue again: an aborted request at its head
\* waits, and every response behind it, while the adapter has nothing to report.
AbortStalls == t.sendq # <<>> /\ t.req[Head(t.sendq)].aborted /\ t.sq = <<>> /\ cq = <<>>

\* The request waits for a paused subsystem, or for the buffer of one that does.
PauseHolds(r) ==
    r \in ToSet(t.queued) \/ (t.queued # <<>> /\ t.req[r].state = "NEED_BUFFER")

\* Every request is freed again and again, whatever it waits for (a buffer, room for its
\* reads, its data or its response), unless an abort has stalled the queue pair, a paused
\* subsystem holds it, or a disconnection had no memory.
Served ==
    \A r \in Reqs :
        []<>(t.req[r].state = "FREE" \/ AbortStalls \/ PauseHolds(r) \/ ContextMissing)
===============================================================================
