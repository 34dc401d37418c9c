------------------------------ MODULE NvmeRdma ------------------------------
(***************************************************************************)
(* One I/O queue pair of the host driver, as the perf tools use it: a      *)
(* qpair of its own poll group (so with a completion queue of its own),    *)
(* async_mode and delay_cmd_submit set, no shared receive queue.           *)
(*                                                                         *)
(*   lib/nvme/nvme_rdma.c   the transport: request slots, send and receive *)
(*                          completions in either order, disconnection     *)
(*   lib/nvme/nvme_qpair.c  the generic half: requests that wait for a     *)
(*                          slot (queued_req) and their resubmission       *)
(*   lib/nvme/nvme_internal.h, lib/rdma/rdma_{verbs,mlx5_dv}.c             *)
(*                          the time stamps of the latency log             *)
(*                                                                         *)
(* h is the driver's state, a the adapter and the target behind it, poll   *)
(* the progress of spdk_nvme_poll_group_process_completions.  Requests are *)
(* numbered in the order in which the application makes them.              *)
(***************************************************************************)
EXTENDS Integers, Sequences, FiniteSets, SequencesExt

CONSTANTS
  Entries,      \* num_entries: request slots, sends and receives
  MaxRequests,  \* bound on the requests the application makes
  Burst,        \* bound on the requests one completion callback makes
  Provider,     \* "verbs" or "mlx5_dv": which lib/rdma file is linked
  Unmapped      \* requests whose payload nvme_rdma_req_init cannot translate

ASSUME NvmeRdmaConstants ==
  /\ Entries \in Nat \ {0}
  /\ MaxRequests \in Nat /\ Burst \in Nat
  /\ Provider \in {"verbs", "mlx5_dv"}
  /\ Unmapped \subseteq 1..MaxRequests

VARIABLES h, a, poll

vars == <<h, a, poll>>

Slots == 1..Entries
Requests == 1..MaxRequests
Stamps == {"submit", "send", "sent", "recv"}

\* A connected qpair: every receive is posted, every slot free.
HostInit ==
  [req |-> [s \in Slots |-> 0],        \* rdma_req->req (0: NULL)
   got |-> [s \in Slots |-> {}],       \* completion_flags
   free |-> [s \in Slots |-> s],       \* free_reqs
   out |-> <<>>,                       \* outstanding_reqs
   queued |-> <<>>,                    \* queued_req
   sends |-> 0,                        \* current_num_sends
   recvs |-> Entries,                  \* current_num_recvs
   sendq |-> <<>>, recvq |-> 0,        \* queued on the QP, not yet posted
   ncomp |-> 0,                        \* num_completions
   active |-> FALSE,                   \* on active_qpairs
   qpair |-> "ENABLED", state |-> "RUNNING", evt |-> FALSE,
   next |-> 1,
   rc |-> [r \in Requests |-> "new"],  \* what submission told the application
   calls |-> [r \in Requests |-> 0],   \* completion callbacks made
   stamp |-> [r \in Requests |-> {}],  \* time stamps taken for the request
   logged |-> [r \in Requests |-> {}], \* the stamps it had when it was logged
   fault |-> "none"]

AdapterInit ==
  [sq |-> <<>>, delivered |-> 0,       \* posted sends; how many the target has
   rq |-> Entries,                     \* posted receives
   cq |-> <<>>,
   target |-> {},                      \* commands the target works on
   broken |-> FALSE, event |-> FALSE]  \* link error; DISCONNECTED was reported

Idle == [on |-> FALSE, wc |-> <<>>, again |-> FALSE, more |-> FALSE]

Fault(s, what) == IF s.fault = "none" THEN [s EXCEPT !.fault = what] ELSE s

----------------------------------------------------------------------------
(* Submission. *)

\* nvme_rdma_qpair_submit_request with a free slot and a good payload.
Post(s, r) ==
  LET slot == Head(s.free)
      t == [s EXCEPT !.free = Tail(@), !.req[slot] = r, !.out = Append(@, slot),
                     !.active = TRUE, !.sends = @ + 1, !.sendq = Append(@, slot)]
  IN  IF s.sends < Entries THEN t ELSE Fault(t, "sends")

\* What _nvme_qpair_submit_request answers.
Answer(s, r) ==
  CASE s.qpair # "ENABLED" -> "ENXIO"
    [] s.qpair = "ENABLED" /\ s.free = <<>> -> "EAGAIN"
    [] s.qpair = "ENABLED" /\ s.free # <<>> /\ r \in Unmapped -> "EINVAL"
    [] OTHER -> "ok"

TrySubmit(s, r) ==
  LET t == IF s.qpair = "ENABLED"
           THEN [s EXCEPT !.stamp[r] = @ \cup {"submit"}] ELSE s
  IN  IF Answer(s, r) = "ok" THEN Post(t, r) ELSE t

Enqueue(s, r) == [s EXCEPT !.queued = Append(@, r), !.rc[r] = "accepted"]

\* Mutant: a new request does not wait behind the queued ones.
SubmitRequestAtOnce(s, r) ==
  LET t == TrySubmit(s, r)
  IN  CASE Answer(s, r) = "ok" -> [t EXCEPT !.rc[r] = "accepted"]
        [] Answer(s, r) = "EAGAIN" -> Enqueue(t, r)
        [] OTHER -> [t EXCEPT !.rc[r] = "refused"]

\* nvme_qpair_submit_request: behind the waiting requests, if there are any.
SubmitRequest(s, r) ==
  IF s.queued # <<>> THEN Enqueue(s, r)
  ELSE LET t == TrySubmit(s, r)
       IN  CASE Answer(s, r) = "ok" -> [t EXCEPT !.rc[r] = "accepted"]
             [] Answer(s, r) = "EAGAIN" -> Enqueue(t, r)
             [] OTHER -> [t EXCEPT !.rc[r] = "refused"]

\* The application makes n requests.
RECURSIVE Make(_, _)
Make(s, n) ==
  IF n = 0 \/ s.next > MaxRequests THEN s
  ELSE Make([SubmitRequest(s, s.next) EXCEPT !.next = s.next + 1], n - 1)

----------------------------------------------------------------------------
(* Completion.  n is how many requests each callback makes. *)

\* nvme_complete_request: the latency log, then the callback.
Callback(s, r, n) ==
  Make([s EXCEPT !.logged[r] = s.stamp[r], !.calls[r] = @ + 1], n)

\* nvme_rdma_req_put
Put(s, slot) ==
  [s EXCEPT !.req[slot] = 0, !.got[slot] = {}, !.free = <<slot>> \o @]

\* nvme_rdma_req_complete: the slot is put back after the callback.
Complete(s, slot, n) ==
  LET t == [s EXCEPT !.out = SelectSeq(@, LAMBDA x : x # slot)]
  IN  IF s.req[slot] = 0 \/ s.out = <<>> THEN Fault(s, "complete")
      ELSE Put(Callback(t, s.req[slot], n), slot)

\* nvme_rdma_request_ready: complete, then queue the receive again.
Ready(s, slot, n) ==
  LET t == [Complete([s EXCEPT !.ncomp = @ + 1], slot, n)
              EXCEPT !.recvs = @ + 1, !.recvq = @ + 1]
  IN  IF t.recvs <= Entries THEN t ELSE Fault(t, "recvs")

\* nvme_qpair_resubmit_requests(k), with nvme_qpair_resubmit_request inlined.
RECURSIVE Resubmit(_, _, _)
Resubmit(s, k, n) ==
  IF k = 0 \/ s.queued = <<>> THEN s
  ELSE LET r == Head(s.queued)
           d == [s EXCEPT !.queued = Tail(@)]
           t == TrySubmit(d, r)
       IN  CASE Answer(d, r) = "ok" -> Resubmit(t, k - 1, n)
             [] Answer(d, r) = "EAGAIN" -> [t EXCEPT !.queued = <<r>> \o @]
             [] OTHER -> Callback(t, r, n)

----------------------------------------------------------------------------
(* Disconnection. *)

\* nvme_rdma_qpair_abort_reqs
RECURSIVE AbortReqs(_, _)
AbortReqs(s, n) ==
  IF s.out = <<>> THEN s ELSE AbortReqs(Complete(s, Head(s.out), n), n)

\* nvme_qpair_abort_queued_reqs: the list is swapped out before it is walked.
RECURSIVE AbortEach(_, _, _)
AbortEach(s, list, n) ==
  IF list = <<>> THEN s ELSE AbortEach(Callback(s, Head(list), n), Tail(list), n)

\* Mutant: queued_req is walked in place.
AbortQueuedInPlace(s, n) == AbortEach(s, s.queued, n)

AbortQueued(s, n) == AbortEach([s EXCEPT !.queued = <<>>], s.queued, n)

\* The tail of nvme_rdma_qpair_disconnected and _wait_until_quiet: abort what
\* is outstanding, destroy the QP, abort what is queued.
Exit(s, n) ==
  LET aborted == AbortReqs([s EXCEPT !.state = "EXITED"], n)
      destroyed == [aborted EXCEPT !.sendq = <<>>, !.recvq = 0, !.sends = 0,
                                   !.recvs = 0, !.evt = FALSE]
  IN  [AbortQueued(destroyed, n) EXCEPT !.qpair = "DISCONNECTED"]

Quiet(s) == s.sends = 0 /\ s.recvs = 0

\* nvme_rdma_qpair_disconnected; ok: the DISCONNECTED event came.
Disconnected(s, ok, n) ==
  IF ok /\ ~Quiet(s) THEN [s EXCEPT !.state = "LINGERING"] ELSE Exit(s, n)

\* nvme_rdma_fail_qpair down to _nvme_rdma_ctrlr_disconnect_qpair.  started:
\* the disconnection could be requested.  A pending event is consumed.
FailQpair(s, started, n) ==
  LET t == [s EXCEPT !.qpair = "DISCONNECTING", !.state = "EXITING"]
  IN  IF s.qpair # "ENABLED" THEN s
      ELSE IF started THEN [t EXCEPT !.evt = FALSE]
      ELSE Disconnected(t, TRUE, n)

\* Mutant: a lingering qpair waits for its work requests without a limit.
DisconnectPollPatient(s, expired, n) ==
  CASE s.state = "EXITING" /\ s.evt -> Disconnected([s EXCEPT !.evt = FALSE], TRUE, n)
    [] s.state = "EXITING" /\ ~s.evt /\ expired -> Disconnected(s, FALSE, n)
    [] s.state = "LINGERING" /\ Quiet(s) -> Exit(s, n)
    [] OTHER -> s

\* nvme_rdma_ctrlr_disconnect_qpair_poll; expired: evt_timeout_ticks is past.
DisconnectPoll(s, expired, n) ==
  CASE s.state = "EXITING" /\ s.evt -> Disconnected([s EXCEPT !.evt = FALSE], TRUE, n)
    [] s.state = "EXITING" /\ ~s.evt /\ expired -> Disconnected(s, FALSE, n)
    [] s.state = "LINGERING" /\ (expired \/ Quiet(s)) -> Exit(s, n)
    [] OTHER -> s

----------------------------------------------------------------------------
(* Work completions. *)

\* Mutant: a response completes the request before its send is acknowledged.
RecvDoneAlone(s, c, started, n) ==
  LET t == [s EXCEPT !.recvs = @ - 1]
  IN  CASE s.recvs = 0 -> Fault(s, "recvs")
        [] s.recvs > 0 /\ ~c.ok -> FailQpair(t, started, n)
        [] s.recvs > 0 /\ c.ok /\ t.req[c.slot] # c.req -> Fault(t, "crossed")
        [] OTHER -> Ready(t, c.slot, n)

\* nvme_rdma_process_recv_completion
RecvDone(s, c, started, n) ==
  LET t == [s EXCEPT !.recvs = @ - 1]
      u == [t EXCEPT !.got[c.slot] = @ \cup {"recv"},
                     !.stamp[t.req[c.slot]] = @ \cup {"recv"}]
  IN  CASE s.recvs = 0 -> Fault(s, "recvs")
        [] s.recvs > 0 /\ ~c.ok -> FailQpair(t, started, n)
        [] s.recvs > 0 /\ c.ok /\ t.req[c.slot] # c.req -> Fault(t, "crossed")
        [] OTHER -> IF "send" \in u.got[c.slot] THEN Ready(u, c.slot, n) ELSE u

\* Mutant: a flushed send is not taken off the count.
SendDoneKeepsCount(s, c, started, n) ==
  LET t == [s EXCEPT !.sends = @ - 1]
      u == [t EXCEPT !.got[c.slot] = @ \cup {"send"},
                     !.stamp[t.req[c.slot]] = @ \cup {"sent"}]
  IN  CASE s.sends = 0 -> Fault(s, "sends")
        [] s.sends > 0 /\ ~c.ok -> FailQpair(s, started, n)
        [] s.sends > 0 /\ c.ok /\ s.req[c.slot] # c.req -> Fault(t, "crossed")
        [] OTHER -> IF "recv" \in u.got[c.slot] THEN Ready(u, c.slot, n) ELSE u

\* nvme_rdma_process_send_completion
SendDone(s, c, started, n) ==
  LET t == [s EXCEPT !.sends = @ - 1]
      u == [t EXCEPT !.got[c.slot] = @ \cup {"send"},
                     !.stamp[t.req[c.slot]] = @ \cup {"sent"}]
  IN  CASE s.sends = 0 -> Fault(s, "sends")
        [] s.sends > 0 /\ ~c.ok -> FailQpair(t, started, n)
        [] s.sends > 0 /\ c.ok /\ s.req[c.slot] # c.req -> Fault(t, "crossed")
        [] OTHER -> IF "recv" \in u.got[c.slot] THEN Ready(u, c.slot, n) ELSE u

\* nvme_rdma_cq_process_completions, one work completion
WorkCompletion(s, c, started, n) ==
  IF c.type = "recv" THEN RecvDone(s, c, started, n) ELSE SendDone(s, c, started, n)

----------------------------------------------------------------------------
(* spdk_nvme_poll_group_process_completions. *)

\* Mutant: only the first send of a list is stamped, with either provider.
StampedFirst(s) == {s.req[s.sendq[i]] : i \in DOMAIN s.sendq \cap {1}}

\* spdk_rdma_qp_flush_send_wrs stamps every send (verbs) or the first (mlx5_dv).
Stamped(s) ==
  IF Provider = "verbs" THEN {s.req[slot] : slot \in Range(s.sendq)}
  ELSE {s.req[s.sendq[i]] : i \in DOMAIN s.sendq \cap {1}}

\* nvme_rdma_qpair_process_submits, after the sends and receives are posted
ProcessSubmits(s, n) ==
  LET posted == [s EXCEPT !.sendq = <<>>, !.recvq = 0,
                          !.stamp = [r \in Requests |->
                             @[r] \cup (IF r \in Stamped(s) THEN {"send"} ELSE {})]]
      t == [Resubmit(posted, posted.ncomp, n) EXCEPT !.ncomp = 0]
  IN  [t EXCEPT !.active = ~(t.out = <<>> /\ t.queued = <<>>)]

\* What is left of the adapter's queues when the QP and its CQ are destroyed.
Left(b, s) ==
  IF s.state = "EXITED" THEN [b EXCEPT !.sq = <<>>, !.delivered = 0, !.rq = 0, !.cq = <<>>]
  ELSE b

Burden == 0..Burst

\* The disconnected and the connected qpairs are looked at first.
PollBegin(started, expired, n) ==
  /\ ~poll.on
  /\ LET s == CASE h.qpair # "ENABLED" -> DisconnectPoll(h, expired, n)
                [] h.qpair = "ENABLED" /\ h.evt ->
                     FailQpair([h EXCEPT !.evt = FALSE], started, n)
                [] OTHER -> h
     IN  /\ h' = s
         /\ a' = Left(a, s)
         /\ poll' = [on |-> TRUE, wc |-> <<>>, again |-> TRUE,
                     more |-> s.qpair = "ENABLED"]

\* ibv_poll_cq: everything, or one completion when no qpair is connected.
PollCq ==
  /\ poll.on /\ poll.wc = <<>> /\ poll.again /\ a.cq # <<>>
  /\ LET k == IF poll.more THEN Len(a.cq) ELSE 1
     IN  /\ poll' = [poll EXCEPT !.wc = SubSeq(a.cq, 1, k), !.again = FALSE]
         /\ a' = [a EXCEPT !.cq = SubSeq(@, k + 1, Len(@))]
  /\ UNCHANGED h

\* One completion of the batch.  The CQ is polled again when the batch
\* completed a request and no completion of it was an error.
PollCompletion(started, n) ==
  /\ poll.wc # <<>> /\ h.fault = "none"
  /\ LET c == Head(poll.wc)
         s == WorkCompletion(h, c, started, n)
     IN  /\ h' = s
         /\ a' = Left(a, s)
         /\ poll' = [poll EXCEPT !.wc = Tail(@),
                                 !.more = @ /\ c.ok,
                                 !.again = (@ \/ s.ncomp > h.ncomp) /\ poll.more /\ c.ok]

PollEnd(n) ==
  /\ poll.on /\ poll.wc = <<>> /\ (poll.again => a.cq = <<>>)
  /\ poll' = Idle
  /\ IF h.active /\ h.state = "RUNNING"
     THEN /\ h' = ProcessSubmits(h, n)
          /\ a' = [a EXCEPT !.sq = @ \o h.sendq, !.rq = @ + h.recvq]
     ELSE UNCHANGED <<h, a>>

\* The application makes a request outside of a callback.
AppSubmit ==
  /\ ~poll.on /\ h.next <= MaxRequests
  /\ h' = Make(h, 1)
  /\ UNCHANGED <<a, poll>>

----------------------------------------------------------------------------
(* The adapter and the target (external). *)

Broken == a.broken \/ h.state # "RUNNING"

Command(slot) == [slot |-> slot, req |-> h.req[slot]]

WorkDone(type, cmd, ok) == [type |-> type, slot |-> cmd.slot, req |-> cmd.req, ok |-> ok]

\* A command reaches the target; its acknowledgement may come later.
Deliver ==
  /\ ~Broken /\ a.delivered < Len(a.sq)
  /\ a' = [a EXCEPT !.delivered = @ + 1,
                    !.target = @ \cup {Command(a.sq[a.delivered + 1])}]
  /\ UNCHANGED <<h, poll>>

Ack ==
  /\ ~Broken /\ a.delivered > 0
  /\ a' = [a EXCEPT !.sq = Tail(@), !.delivered = @ - 1,
                    !.cq = Append(@, WorkDone("send", Command(Head(a.sq)), TRUE))]
  /\ UNCHANGED <<h, poll>>

\* The target answers a command; without a posted receive the answer waits.
Respond ==
  /\ ~Broken /\ a.rq > 0
  /\ \E cmd \in a.target :
       a' = [a EXCEPT !.target = @ \ {cmd}, !.rq = @ - 1,
                      !.cq = Append(@, WorkDone("recv", cmd, TRUE))]
  /\ UNCHANGED <<h, poll>>

LinkFails ==
  /\ ~a.broken /\ a' = [a EXCEPT !.broken = TRUE]
  /\ UNCHANGED <<h, poll>>

\* A QP in the error state flushes its work requests.
FlushSend ==
  /\ Broken /\ a.sq # <<>>
  /\ a' = [a EXCEPT !.sq = Tail(@), !.delivered = IF @ = 0 THEN 0 ELSE @ - 1,
                    !.cq = Append(@, WorkDone("send", Command(Head(a.sq)), FALSE))]
  /\ UNCHANGED <<h, poll>>

FlushRecv ==
  /\ Broken /\ a.rq > 0
  /\ a' = [a EXCEPT !.rq = @ - 1,
                    !.cq = Append(@, WorkDone("recv", [slot |-> 0, req |-> 0], FALSE))]
  /\ UNCHANGED <<h, poll>>

\* nvme_rdma_poll_events hands over RDMA_CM_EVENT_DISCONNECTED, once.
EventArrives ==
  /\ Broken /\ ~a.event /\ h.state # "EXITED"
  /\ a' = [a EXCEPT !.event = TRUE]
  /\ h' = [h EXCEPT !.evt = TRUE]
  /\ UNCHANGED poll

----------------------------------------------------------------------------

Init == h = HostInit /\ a = AdapterInit /\ poll = Idle

Poll ==
  \E n \in Burden :
    \/ \E started, expired \in BOOLEAN : PollBegin(started, expired, n)
    \/ \E started \in BOOLEAN : PollCompletion(started, n)
    \/ PollEnd(n)
    \/ PollCq

Next ==
  \/ Poll \/ AppSubmit
  \/ Deliver \/ Ack \/ Respond \/ LinkFails \/ FlushSend \/ FlushRecv \/ EventArrives

\* The worker polls as long as it has requests, a timer that was armed passes,
\* the adapter and the target go on as long as the link is up, and a QP in
\* the error state is flushed.  No event has to arrive.
Fairness ==
  /\ []<><<Poll>>_vars
  /\ \/ []<>(h.state \notin {"EXITING", "LINGERING"})
     \/ []<><<\E started \in BOOLEAN, n \in Burden : PollBegin(started, TRUE, n)>>_vars
  /\ WF_vars(Deliver) /\ WF_vars(Ack) /\ WF_vars(FlushSend) /\ WF_vars(FlushRecv)
  /\ \A s \in Slots :
       \/ []<>(Broken \/ a.rq = 0 \/ ~\E cmd \in a.target : cmd.slot = s)
       \/ []<><<Respond /\ ~\E cmd \in a'.target : cmd.slot = s>>_vars

Spec == Init /\ [][Next]_vars /\ Fairness

----------------------------------------------------------------------------
(* Properties. *)

Times(seq, x) == Cardinality({i \in DOMAIN seq : seq[i] = x})

InCq(type) == Cardinality({i \in DOMAIN a.cq : a.cq[i].type = type})
            + Cardinality({i \in DOMAIN poll.wc : poll.wc[i].type = type})

\* A request the driver accepted is, at every moment, in exactly one place: in
\* one slot, once in queued_req, or completed by exactly one callback.  One it
\* refused is in none and gets no callback.
CallbackOnce ==
  \A r \in Requests :
    Cardinality({i \in DOMAIN h.out : h.req[h.out[i]] = r}) + Times(h.queued, r) + h.calls[r]
      = IF h.rc[r] = "accepted" THEN 1 ELSE 0

\* No assertion of the completion path fails, a completion is applied to the
\* request its command carried and not to a later user of the slot, and no
\* completion is left to handle once the slots and responses are freed.
NoFault == h.fault = "none" /\ (h.state = "EXITED" => poll.wc = <<>>)

\* current_num_sends and current_num_recvs, on which a disconnection waits,
\* count the work requests between the driver and the adapter; a slot is free
\* only when the adapter has no send of it.
CountersExact ==
  h.state # "EXITED" =>
    /\ h.sends = Len(h.sendq) + Len(a.sq) + InCq("send")
    /\ h.recvs = h.recvq + a.rq + InCq("recv")
    /\ Range(h.free) \cap (Range(h.sendq) \cup Range(a.sq)) = {}

\* Between two polls there is a posted receive for the response to every
\* command the target may answer (so no response is refused as not ready).
ReceiveForEach == ~poll.on /\ ~Broken => a.rq >= Cardinality(a.target) + Len(a.sq) - a.delivered

\* A request waits in queued_req only while every slot is taken: submitting
\* as many waiting requests as were completed never leaves a slot idle.
NoIdleSlot == ~poll.on /\ h.qpair = "ENABLED" /\ h.queued # <<>> => h.free = <<>>

\* The work of the queue pair is accounted for: exact counters, a receive for every response
\* that may come, no slot idle while a request waits.
WorkAccounted == CountersExact /\ ReceiveForEach /\ NoIdleSlot

\* Requests are given to the adapter in the order in which they were made,
\* whether they waited for a slot or not.
SubmittedInOrder ==
  [][\A r \in Requests, s \in Slots :
       (h.req[s] # r /\ h'.req[s] = r) => \A q \in Range(h'.queued) : q > r]_vars

\* Every accepted request is completed in the end, by its response or, when the
\* link or the target fails, by the abort that ends the disconnection.
Served == \A r \in Requests : h.rc[r] = "accepted" ~> h.calls[r] = 1

\* While the queue pair is connected, every latency sample nvme_complete_request adds
\* up comes from time stamps that were all taken for that request.
SampleMeasured ==
  \A r \in Requests : h.calls[r] > 0 /\ h.state = "RUNNING" => h.logged[r] = Stamps

=============================================================================
