----------------------- MODULE HostLatencyLog_proofs -----------------------
(***************************************************************************)
(* Theorems about HostLatencyLog, for every number of workers, samples and *)
(* expirations of the timer and every capacity of the message queue.       *)
(*                                                                         *)
(* None of the properties is inductive as it stands.  That no latency is   *)
(* lost or written twice rests on log_mutex keeping everybody away while a *)
(* callback is between its copy and cleanup_log (CallbacksOK); that the    *)
(* rows are in order also on every message being in order before it is     *)
(* received (InOrder(Stored)); and that a reader never waits for a message *)
(* that is not there on main receiving only after the log thread has gone  *)
(* (ReadersOK).                                                            *)
(***************************************************************************)
EXTENDS HostLatencyLog, SequenceTheorems, TLAPS

\* The callback thread c holds log_mutex, or thinks it does.
InLatencyLog1s(c) == cpc[c] \in {"copy", "send", "clean", "unlock"}

\* main is past msgctl(IPC_RMID).
PastRemoval == rpc.main \in {"fini", "exit", "exited"}

\* The queue is removed and the mutex destroyed in this order, after the workers and the
\* log thread were joined.
ReadersOK ==
    /\ removed <=> PastRemoval
    /\ destroyed => rpc.main \in {"exit", "exited"}
    /\ rpc.main # "work" => rpc.log = "exited" /\ AllReturned

\* A worker that is about to record has a sample left.
WorkersOK == \A w \in Workers : wpc[w] \in {"store", "lock"} => recorded[w] < MaxSamples

\* As long as it exists, the mutex is held by every callback in latency_log_1s, so by one
\* at a time; its copy is the accumulators, until they are sent or lost.
CallbacksOK ==
    /\ ~destroyed => \A c \in Ticks : InLatencyLog1s(c) => mutex = <<"callback", c>>
    /\ ~removed =>
          \A c \in Ticks :
             /\ cpc[c] = "send" => temp[c] = acc
             /\ cpc[c] = "clean" => acc \subseteq InRows(Stored) \cup lost

\* No sample comes before an earlier one of its worker, unless that one is lost.
InOrder(seq) ==
    \A i \in DOMAIN seq : \A s \in seq[i] : \A m \in 1 .. s[2] :
        <<s[1], m>> \in lost \/ \E j \in 1 .. i : <<s[1], m>> \in seq[j]

OrderOK == InOrder(rows) /\ (~removed => InOrder(Stored))

CountOK ==
    /\ g_io_completed_num <= completions
    /\ \A w \in Workers : wpc[w] = "store" => load[w] < completions
    /\ completions > 0 => g_io_completed_num > 0 \/ \E w \in Workers : wpc[w] = "store"

LogInv ==
    /\ LogTypeOK /\ ReadersOK /\ WorkersOK /\ CallbacksOK
    /\ LogConserved /\ OrderOK /\ ReadersNotStuck /\ CountOK

-----------------------------------------------------------------------------
(* Sequences *)

\* A message that is received moves from the queue to the rows: what is stored stays.
LEMMA MoveHead ==
    ASSUME NEW S, NEW r \in Seq(S), NEW m \in Seq(S), m # <<>>
    PROVE  Append(r, Head(m)) \o Tail(m) = r \o m
<1>1. /\ Head(m) \in S /\ Head(m) = m[1] /\ Tail(m) \in Seq(S) /\ Len(Tail(m)) = Len(m) - 1
      /\ \A k \in 1 .. Len(Tail(m)) : Tail(m)[k] = m[k + 1]
  BY HeadTailProperties
<1>2. /\ Append(r, Head(m)) \in Seq(S) /\ Len(Append(r, Head(m))) = Len(r) + 1
      /\ \A k \in 1 .. Len(r) : Append(r, Head(m))[k] = r[k]
      /\ Append(r, Head(m))[Len(r) + 1] = m[1]
  BY <1>1
<1>3. Len(m) \in Nat /\ Len(m) > 0 /\ Len(r) \in Nat
  BY EmptySeq, LenProperties
<1> DEFINE a == Append(r, Head(m)) \o Tail(m)
           b == r \o m
<1>4. a \in Seq(S) /\ b \in Seq(S) /\ Len(a) = Len(r) + Len(m) /\ Len(b) = Len(r) + Len(m)
  BY <1>1, <1>2, <1>3, ConcatProperties
<1>5. ASSUME NEW k \in 1 .. Len(r) + Len(m) PROVE a[k] = b[k]
  <2>1. b[k] = IF k <= Len(r) THEN r[k] ELSE m[k - Len(r)]
    BY <1>5, ConcatProperties
  <2>2. a[k] = IF k <= Len(r) + 1 THEN Append(r, Head(m))[k] ELSE Tail(m)[k - (Len(r) + 1)]
    BY <1>1, <1>2, <1>3, <1>5, ConcatProperties
  <2>3. CASE k <= Len(r)
    BY <1>2, <1>3, <1>5, <2>1, <2>2, <2>3
  <2>4. CASE k = Len(r) + 1
    BY <1>2, <1>3, <1>5, <2>1, <2>2, <2>4
  <2>5. CASE k > Len(r) + 1
    <3>1. k - (Len(r) + 1) \in 1 .. Len(Tail(m)) /\ (k - (Len(r) + 1)) + 1 = k - Len(r)
      BY <1>1, <1>3, <1>5, <2>5
    <3>2. a[k] = Tail(m)[k - (Len(r) + 1)] /\ b[k] = m[k - Len(r)]
      BY <1>3, <1>5, <2>1, <2>2, <2>5
    <3>3. QED
      BY <1>1, <3>1, <3>2
  <2>6. QED
    BY <1>3, <1>5, <2>3, <2>4, <2>5
<1>6. QED
  BY <1>4, <1>5, SeqEqual

\* A message that is sent is the last one stored, and those before it stay.
LEMMA AppendStored ==
    ASSUME NEW S, NEW r \in Seq(S), NEW m \in Seq(S), NEW x \in S
    PROVE  /\ r \o m \in Seq(S) /\ r \o Append(m, x) \in Seq(S)
           /\ Len(r \o Append(m, x)) = Len(r \o m) + 1
           /\ \A k \in 1 .. Len(r \o m) : (r \o Append(m, x))[k] = (r \o m)[k]
           /\ (r \o Append(m, x))[Len(r \o m) + 1] = x
<1>1. /\ Append(m, x) \in Seq(S) /\ Len(Append(m, x)) = Len(m) + 1
      /\ \A k \in 1 .. Len(m) : Append(m, x)[k] = m[k]
      /\ Append(m, x)[Len(m) + 1] = x
  OBVIOUS
<1>2. Len(m) \in Nat /\ Len(r) \in Nat
  BY LenProperties
<1>3. r \o m \in Seq(S) /\ Len(r \o m) = Len(r) + Len(m)
  BY ConcatProperties
<1>4. /\ r \o Append(m, x) \in Seq(S) /\ Len(r \o Append(m, x)) = Len(r) + Len(m) + 1
      /\ \A k \in 1 .. Len(r) + Len(m) + 1 :
            (r \o Append(m, x))[k] = IF k <= Len(r) THEN r[k] ELSE Append(m, x)[k - Len(r)]
  BY <1>1, <1>2, ConcatProperties
<1>5. \A k \in 1 .. Len(r) + Len(m) : (r \o m)[k] = IF k <= Len(r) THEN r[k] ELSE m[k - Len(r)]
  BY ConcatProperties
<1>6. QED
  BY <1>1, <1>2, <1>3, <1>4, <1>5

\* The rows are the beginning of what is stored.
LEMMA RowsFirst ==
    ASSUME NEW S, NEW r \in Seq(S), NEW m \in Seq(S)
    PROVE  /\ r \o m \in Seq(S) /\ Len(r) \in 0 .. Len(r \o m)
           /\ \A k \in 1 .. Len(r) : (r \o m)[k] = r[k]
<1>1. r \o m \in Seq(S) /\ Len(r \o m) = Len(r) + Len(m) /\ Len(r) \in Nat /\ Len(m) \in Nat
  BY ConcatProperties, LenProperties
<1>2. \A k \in 1 .. Len(r) + Len(m) : (r \o m)[k] = IF k <= Len(r) THEN r[k] ELSE m[k - Len(r)]
  BY ConcatProperties
<1>3. QED
  BY <1>1, <1>2

\* A beginning of an ordered sequence is ordered.
LEMMA OrderedPrefix ==
    ASSUME NEW S, NEW p \in Seq(S), NEW s \in Seq(S), InOrder(s), Len(p) <= Len(s),
           \A k \in 1 .. Len(p) : p[k] = s[k]
    PROVE  InOrder(p)
<1>1. DOMAIN p = 1 .. Len(p) /\ DOMAIN s = 1 .. Len(s) /\ Len(p) \in Nat /\ Len(s) \in Nat
  BY LenProperties
<1>2. SUFFICES ASSUME NEW i \in 1 .. Len(p), NEW x \in p[i], NEW m \in 1 .. x[2]
               PROVE  <<x[1], m>> \in lost \/ \E j \in 1 .. i : <<x[1], m>> \in p[j]
  BY <1>1 DEF InOrder
<1>3. i \in DOMAIN s /\ x \in s[i]
  BY <1>1, <1>2
<1>4. CASE <<x[1], m>> \in lost
  BY <1>4
<1>5. CASE \E j \in 1 .. i : <<x[1], m>> \in s[j]
  <2>1. PICK j \in 1 .. i : <<x[1], m>> \in s[j]
    BY <1>5
  <2>2. j \in 1 .. Len(p)
    BY <1>1, <1>2
  <2>3. QED
    BY <2>1, <2>2
<1>6. QED
  BY <1>2, <1>3, <1>4, <1>5 DEF InOrder

-----------------------------------------------------------------------------
(* Type correctness *)

LEMMA NobodyIsNoThread == \A c \in Ticks : <<"callback", c>> \in Threads /\ <<"callback", c>> # Nobody
BY DEF Threads, Nobody

LEMMA LogTypeInit == LogInit => LogTypeOK /\ WorkersOK
<1>1. SUFFICES ASSUME LogInit PROVE LogTypeOK /\ WorkersOK
  OBVIOUS
<1>2. 0 \in 0 .. MaxSamples
  BY LogConstants
<1>3. <<>> \in Seq(Row)
  BY EmptySeq
<1>4. QED
  BY <1>1, <1>2, <1>3 DEF LogInit, LogTypeOK, WorkersOK, Row

LEMMA LogTypeWorker ==
    ASSUME LogTypeOK, WorkersOK, NEW w \in Workers, Worker(w)
    PROVE  LogTypeOK' /\ WorkersOK'
<1>1. /\ UNCHANGED <<mutex, destroyed, cpc, temp, msgq, removed, lost, rpc, msg_cnt, rows>>
      /\ \E p \in {"run", "store", "lock", "done"} : wpc' = [wpc EXCEPT ![w] = p]
  BY DEF Worker, RecordRequest, CountLoad, CountStore, Record, WorkerReturns, lockvars, tickvars,
         queuevars, readvars
<1>2. wpc' \in [Workers -> {"run", "store", "lock", "done"}]
  BY <1>1 DEF LogTypeOK
<1>3. CASE Record(w)
  <2>1. recorded[w] < MaxSamples /\ recorded \in [Workers -> 0 .. MaxSamples] /\ MaxSamples \in Nat
    BY <1>3, LogConstants DEF Record, WorkersOK, LogTypeOK
  <2>2. recorded' \in [Workers -> 0 .. MaxSamples]
    BY <1>3, <2>1 DEF Record
  <2>3. acc' \in Row
    BY <1>3, <2>1 DEF Record, LogTypeOK, Row, Samples
  <2>4. WorkersOK'
    BY <1>3, <2>1 DEF Record, WorkersOK, LogTypeOK
  <2>5. QED
    BY <1>1, <1>2, <1>3, <2>2, <2>3, <2>4 DEF Record, LogTypeOK
<1>4. CASE RecordRequest(w) \/ CountLoad(w) \/ CountStore(w) \/ WorkerReturns(w)
  <2>1. UNCHANGED <<recorded, acc>>
    BY <1>4 DEF RecordRequest, CountLoad, CountStore, WorkerReturns
  <2>2. /\ load' \in [Workers -> Nat] /\ g_io_completed_num' \in Nat /\ completions' \in Nat
    <3>1. /\ load \in [Workers -> Nat] /\ g_io_completed_num \in Nat /\ completions \in Nat
      BY DEF LogTypeOK
    <3>2. CASE RecordRequest(w) \/ WorkerReturns(w)
      BY <3>1, <3>2 DEF RecordRequest, WorkerReturns
    <3>3. CASE CountLoad(w)
      BY <3>1, <3>3 DEF CountLoad
    <3>4. CASE CountStore(w)
      BY <3>1, <3>4 DEF CountStore
    <3>5. QED
      BY <1>4, <3>2, <3>3, <3>4
  <2>3. WorkersOK'
    BY <1>4, <2>1 DEF RecordRequest, CountLoad, CountStore, WorkerReturns, WorkersOK, LogTypeOK
  <2>4. QED
    BY <1>1, <1>2, <2>1, <2>2, <2>3 DEF LogTypeOK
<1>5. QED
  BY <1>3, <1>4 DEF Worker

LEMMA LogTypeCallback ==
    ASSUME LogTypeOK, WorkersOK, NEW c \in Ticks, Expire(c) \/ Callback(c)
    PROVE  LogTypeOK' /\ WorkersOK'
<1>1. /\ UNCHANGED <<wpc, recorded, load, g_io_completed_num, completions, destroyed, removed,
                     rpc, msg_cnt, rows>>
      /\ \E p \in {"lock", "copy", "send", "clean", "unlock", "done"} : cpc' = [cpc EXCEPT ![c] = p]
  BY DEF Expire, Callback, CallbackRuns, CallbackSendFails, CallbackLock, CallbackCopy, CallbackSend, CallbackClean, CallbackUnlock,
         AfterEmpty, workervars, lockvars, tickvars, queuevars, readvars
<1>2. cpc' \in [Ticks -> {"none", "lock", "copy", "send", "clean", "unlock", "done"}]
  BY <1>1 DEF LogTypeOK
<1>3. mutex' \in Threads \cup {Nobody}
  BY NobodyIsNoThread DEF Expire, Callback, CallbackRuns, CallbackSendFails, CallbackLock, CallbackCopy, CallbackSend,
     CallbackClean, CallbackUnlock, lockvars, LogTypeOK
<1>4. acc' \in Row
  BY DEF Expire, Callback, CallbackRuns, CallbackSendFails, CallbackLock, CallbackCopy, CallbackSend, CallbackClean, CallbackUnlock,
     Cleared, LogTypeOK, Row
<1>5. temp' \in [Ticks -> Row]
  BY DEF Expire, Callback, CallbackRuns, CallbackSendFails, CallbackLock, CallbackCopy, CallbackSend, CallbackClean, CallbackUnlock,
     tickvars, LogTypeOK
<1>6. msgq' \in Seq(Row)
  <2>1. temp[c] \in Row /\ msgq \in Seq(Row)
    BY DEF LogTypeOK
  <2>2. msgq' = Append(msgq, temp[c]) \/ msgq' = msgq
    BY DEF Expire, Callback, CallbackRuns, CallbackSendFails, CallbackLock, CallbackCopy, CallbackSend, CallbackClean,
       CallbackUnlock, queuevars
  <2>3. QED
    BY <2>1, <2>2
<1>7. lost' \in Row
  BY DEF Expire, Callback, CallbackRuns, CallbackSendFails, CallbackLock, CallbackCopy, CallbackSend,
     CallbackClean, CallbackUnlock, queuevars, LogTypeOK, Row
<1>8. QED
  BY <1>1, <1>2, <1>3, <1>4, <1>5, <1>6, <1>7 DEF LogTypeOK, WorkersOK

LEMMA LogTypeReader ==
    ASSUME LogTypeOK, WorkersOK, LogThread \/ Main
    PROVE  LogTypeOK' /\ WorkersOK'
<1>1. UNCHANGED <<wpc, recorded, load, g_io_completed_num, completions, acc, mutex, cpc, temp, lost>>
  BY DEF LogThread, Main, ProcessMsgRecv, CheckQnum, Receive, ReceivedAll, LogThreadGoesOn,
     LogThreadTimesOut, Join, RemoveQueue, FiniLog, Exit, workervars, lockvars, tickvars, queuevars
<1>2. rpc' \in [log : {"test", "check", "recv", "exited"},
                main : {"work", "check", "recv", "rmid", "fini", "exit", "exited"}]
  BY DEF LogThread, Main, ProcessMsgRecv, CheckQnum, Receive, ReceivedAll, LogThreadGoesOn,
     LogThreadTimesOut, Join, RemoveQueue, FiniLog, Exit, LogTypeOK
<1>3. msg_cnt' \in [log : Nat, main : Nat]
  <2>1. Len(msgq) \in Nat /\ msg_cnt \in [log : Nat, main : Nat]
    BY LenProperties DEF LogTypeOK
  <2>2. ASSUME NEW r \in Readers, ProcessMsgRecv(r) PROVE msg_cnt' \in [log : Nat, main : Nat]
    <3>1. CASE CheckQnum(r)
      BY <2>1, <3>1 DEF CheckQnum, Readers
    <3>2. CASE Receive(r)
      <4>1. msg_cnt' = [msg_cnt EXCEPT ![r] = @ - 1] /\ msg_cnt[r] > 0 /\ msg_cnt[r] \in Nat
        BY <2>1, <3>2 DEF Receive, MoreExpected, Readers
      <4>2. msg_cnt[r] - 1 \in Nat
        BY <4>1
      <4>3. QED
        BY <2>1, <4>1, <4>2 DEF Readers
    <3>3. CASE ReceivedAll(r)
      BY <2>1, <3>3 DEF ReceivedAll
    <3>4. QED
      BY <2>2, <3>1, <3>2, <3>3 DEF ProcessMsgRecv
  <2>3. QED
    BY <2>1, <2>2 DEF LogThread, Main, LogThreadGoesOn, LogThreadTimesOut, Join, RemoveQueue,
       FiniLog, Exit, Readers
<1>4. rows' \in Seq(Row) /\ msgq' \in Seq(Row)
  <2>1. rows \in Seq(Row) /\ msgq \in Seq(Row) /\ <<>> \in Seq(Row)
    BY EmptySeq DEF LogTypeOK
  <2>2. ASSUME NEW r \in Readers, Receive(r) PROVE rows' \in Seq(Row) /\ msgq' \in Seq(Row)
    BY <2>1, <2>2, HeadTailProperties DEF Receive
  <2>3. QED
    BY <2>1, <2>2 DEF LogThread, Main, ProcessMsgRecv, CheckQnum, ReceivedAll, LogThreadGoesOn,
       LogThreadTimesOut, Join, RemoveQueue, FiniLog, Exit, queuevars, Readers
<1>5. destroyed' \in BOOLEAN /\ removed' \in BOOLEAN
  BY Zenon DEF LogThread, Main, ProcessMsgRecv, CheckQnum, Receive,
     ReceivedAll, LogThreadGoesOn, LogThreadTimesOut, Join, RemoveQueue, FiniLog, Exit, queuevars,
     lockvars, LogTypeOK
<1>6. QED
  BY <1>1, <1>2, <1>3, <1>4, <1>5 DEF LogTypeOK, WorkersOK

-----------------------------------------------------------------------------
(* The steps of a worker *)

LEMMA StoredTyped ==
    ASSUME LogTypeOK
    PROVE  /\ rows \in Seq(Row) /\ msgq \in Seq(Row) /\ Stored \in Seq(Row)
           /\ DOMAIN Stored = 1 .. Len(Stored) /\ Len(Stored) \in Nat
           /\ DOMAIN rows = 1 .. Len(rows) /\ Len(rows) \in Nat
<1>1. rows \in Seq(Row) /\ msgq \in Seq(Row)
  BY DEF LogTypeOK
<1>2. Stored \in Seq(Row)
  BY <1>1, ConcatProperties DEF Stored
<1>3. QED
  BY <1>1, <1>2, LenProperties

\* A worker that runs has not been joined: the queue and the mutex are there.
LEMMA WorkerAlive ==
    ASSUME LogInv, NEW w \in Workers, Worker(w)
    PROVE  /\ ~removed /\ ~destroyed /\ rpc.main = "work"
           /\ UNCHANGED <<mutex, destroyed, cpc, temp, msgq, removed, lost, rpc, msg_cnt, rows>>
<1>1. wpc[w] # "done"
  BY DEF Worker, RecordRequest, CountLoad, CountStore, Record, WorkerReturns
<1>2. rpc.main = "work"
  BY <1>1 DEF LogInv, ReadersOK, AllReturned
<1>3. ~removed /\ ~destroyed
  BY <1>2 DEF LogInv, ReadersOK, PastRemoval
<1>4. QED
  BY <1>2, <1>3 DEF Worker, RecordRequest, CountLoad, CountStore, Record, WorkerReturns, lockvars,
     tickvars, queuevars, readvars

\* A worker adds one sample that was not recorded before, when no callback is in
\* latency_log_1s.
LEMMA ConservedWorker ==
    ASSUME LogInv, NEW w \in Workers, Worker(w)
    PROVE  CallbacksOK' /\ LogConserved'
<1>1. /\ ~removed /\ ~destroyed
      /\ UNCHANGED <<mutex, destroyed, cpc, temp, msgq, removed, lost, rpc, msg_cnt, rows>>
  BY WorkerAlive
<1>2. /\ Stored' = Stored
      /\ \A c \in Ticks : InLatencyLog1s(c) => mutex = <<"callback", c>>
      /\ \A c \in Ticks : cpc[c] = "send" => temp[c] = acc
      /\ \A c \in Ticks : cpc[c] = "clean" => acc \subseteq InRows(Stored) \cup lost
      /\ Recorded = acc \cup InRows(Stored) \cup lost
      /\ \A i, j \in DOMAIN Stored : i # j => Stored[i] \cap Stored[j] = {}
      /\ lost \cap InRows(Stored) = {}
      /\ (\A c \in Ticks : cpc[c] # "clean") => acc \cap (InRows(Stored) \cup lost) = {}
  BY <1>1 DEF LogInv, CallbacksOK, LogConserved, Stored
<1>3. CASE UNCHANGED <<acc, recorded>>
  BY <1>1, <1>2, <1>3 DEF CallbacksOK, InLatencyLog1s, LogConserved, Recorded
<1>4. CASE Record(w)
  <2>1. \A c \in Ticks : ~InLatencyLog1s(c)
    BY <1>2, <1>4, NobodyIsNoThread DEF Record, MayRecord
  <2>2. CallbacksOK'
    BY <1>1, <2>1 DEF CallbacksOK, InLatencyLog1s
  <2> DEFINE x == <<w, recorded[w] + 1>>
  <2>3. /\ recorded \in [Workers -> 0 .. MaxSamples] /\ recorded[w] < MaxSamples
        /\ MaxSamples \in Nat /\ wpc[w] = "lock"
    BY <1>4, LogConstants DEF LogInv, LogTypeOK, WorkersOK, Record
  <2>4. acc' = acc \cup {x} /\ recorded' = [recorded EXCEPT ![w] = @ + 1]
    BY <1>4 DEF Record
  <2>5. x \in Samples /\ x \notin Recorded
    BY <2>3 DEF Samples, Recorded
  <2>6. Recorded' = Recorded \cup {x}
    <3>1. ASSUME NEW s \in Samples
          PROVE  s[2] <= recorded'[s[1]] <=> s[2] <= recorded[s[1]] \/ s = x
      <4>1. s[1] \in Workers /\ s[2] \in 1 .. MaxSamples /\ s = <<s[1], s[2]>>
        BY DEF Samples
      <4>2. CASE s[1] = w
        BY <2>3, <2>4, <4>1, <4>2
      <4>3. CASE s[1] # w
        BY <2>3, <2>4, <4>1, <4>3
      <4>4. QED
        BY <4>2, <4>3
    <3>2. QED
      BY <2>5, <3>1 DEF Recorded
  <2>7. \A c \in Ticks : cpc[c] # "clean"
    BY <2>1 DEF InLatencyLog1s
  <2>8. /\ acc' \cap (InRows(Stored) \cup lost) = {}
        /\ Recorded' = acc' \cup InRows(Stored) \cup lost
    BY <1>2, <2>4, <2>5, <2>6, <2>7
  <2>9. LogConserved'
    BY <1>1, <1>2, <2>8 DEF LogConserved
  <2>10. QED
    BY <2>2, <2>9
<1>5. QED
  BY <1>3, <1>4 DEF Worker, RecordRequest, CountLoad, CountStore, WorkerReturns

\* ++g_io_completed_num, as a load and a store that other workers interleave with.
LEMMA CountWorker ==
    ASSUME LogInv, NEW w \in Workers, Worker(w)
    PROVE  CountOK'
<1>1. /\ CountOK /\ wpc \in [Workers -> {"run", "store", "lock", "done"}]
      /\ load \in [Workers -> Nat] /\ g_io_completed_num \in Nat /\ completions \in Nat
  BY DEF LogInv, LogTypeOK
<1>2. CASE CountLoad(w)
  <2>1. /\ load' = [load EXCEPT ![w] = g_io_completed_num] /\ completions' = completions + 1
        /\ wpc' = [wpc EXCEPT ![w] = "store"] /\ UNCHANGED g_io_completed_num
    BY <1>2 DEF CountLoad
  <2>2. QED
    BY <1>1, <2>1 DEF CountOK
<1>3. CASE CountStore(w)
  <2>1. /\ g_io_completed_num' = load[w] + 1 /\ wpc[w] = "store"
        /\ wpc' = [wpc EXCEPT ![w] = "lock"] /\ UNCHANGED <<load, completions>>
    BY <1>3 DEF CountStore
  <2>2. load[w] \in Nat /\ load[w] < completions
    BY <1>1, <2>1 DEF CountOK
  <2>3. QED
    BY <1>1, <2>1, <2>2 DEF CountOK
<1>4. CASE RecordRequest(w) \/ Record(w) \/ WorkerReturns(w)
  <2>1. /\ UNCHANGED <<load, g_io_completed_num, completions>> /\ wpc[w] # "store"
        /\ \E p \in {"run", "lock", "done"} : wpc' = [wpc EXCEPT ![w] = p]
    BY <1>4 DEF RecordRequest, Record, WorkerReturns
  <2>2. \A v \in Workers : wpc'[v] = "store" <=> wpc[v] = "store"
    BY <1>1, <2>1
  <2>3. QED
    BY <1>1, <2>1, <2>2 DEF CountOK
<1>5. QED
  BY <1>2, <1>3, <1>4 DEF Worker

LEMMA InvWorker ==
    ASSUME LogInv, NEW w \in Workers, Worker(w)
    PROVE  LogInv'
<1>1. /\ rpc.main = "work" /\ ~removed /\ ~destroyed
      /\ UNCHANGED <<mutex, destroyed, cpc, temp, msgq, removed, lost, rpc, msg_cnt, rows>>
  BY WorkerAlive
<1>2. ReadersOK'
  BY <1>1 DEF ReadersOK, PastRemoval
<1>3. OrderOK' /\ ReadersNotStuck'
  BY <1>1 DEF LogInv, OrderOK, InOrder, Stored, ReadersNotStuck
<1>4. LogTypeOK' /\ WorkersOK'
  BY LogTypeWorker DEF LogInv
<1>5. QED
  BY <1>2, <1>3, <1>4, ConservedWorker, CountWorker DEF LogInv

-----------------------------------------------------------------------------
(* The steps of a callback *)

\* What a step of latency_log_1s leaves alone.
LEMMA CallbackFrame ==
    ASSUME NEW c \in Ticks, Expire(c) \/ Callback(c)
    PROVE  UNCHANGED <<wpc, recorded, load, g_io_completed_num, completions, destroyed, removed, rpc,
                       msg_cnt, rows>>
BY DEF Expire, Callback, CallbackRuns, CallbackSendFails, CallbackLock, CallbackCopy, CallbackSend, CallbackClean, CallbackUnlock,
   workervars, lockvars, tickvars, queuevars, readvars

\* log_mutex excludes: while it exists, at most one callback is in latency_log_1s.
LEMMA Exclusion ==
    ASSUME LogInv, ~destroyed, NEW c \in Ticks, NEW d \in Ticks, InLatencyLog1s(c), InLatencyLog1s(d)
    PROVE  c = d
<1>1. mutex = <<"callback", c>> /\ mutex = <<"callback", d>>
  BY DEF LogInv, CallbacksOK
<1>2. QED
  BY <1>1

LEMMA ExclusionCallback ==
    ASSUME LogInv, NEW c \in Ticks, Expire(c) \/ Callback(c), ~destroyed
    PROVE  \A d \in Ticks : InLatencyLog1s(d)' => mutex' = <<"callback", d>>
<1>1. /\ \A d \in Ticks : InLatencyLog1s(d) => mutex = <<"callback", d>>
      /\ cpc \in [Ticks -> {"none", "lock", "copy", "send", "clean", "unlock", "done"}]
  BY DEF LogInv, CallbacksOK, LogTypeOK
<1>2. CASE Expire(c)
  BY <1>1, <1>2 DEF Expire, InLatencyLog1s, lockvars
<1>3. CASE CallbackLock(c)
  <2>1. /\ mutex = Nobody /\ mutex' = <<"callback", c>> /\ cpc' = [cpc EXCEPT ![c] = "copy"]
    BY <1>3 DEF CallbackLock
  <2>2. \A d \in Ticks : ~InLatencyLog1s(d)
    BY <1>1, <2>1, NobodyIsNoThread
  <2>3. QED
    BY <1>1, <2>1, <2>2 DEF InLatencyLog1s
<1>4. CASE CallbackCopy(c) \/ CallbackSend(c) \/ CallbackSendFails(c) \/ CallbackClean(c)
  <2>1. /\ InLatencyLog1s(c) /\ UNCHANGED mutex
        /\ \E p \in {"send", "clean", "unlock"} : cpc' = [cpc EXCEPT ![c] = p]
    BY <1>4 DEF CallbackCopy, CallbackSend, CallbackSendFails, CallbackClean, AfterEmpty,
       InLatencyLog1s, lockvars
  <2>2. QED
    BY <1>1, <2>1 DEF InLatencyLog1s
<1>5. CASE CallbackUnlock(c)
  <2>1. cpc[c] = "unlock" /\ cpc' = [cpc EXCEPT ![c] = "done"]
    BY <1>5 DEF CallbackUnlock
  <2>2. ASSUME NEW d \in Ticks PROVE ~InLatencyLog1s(d)'
    <3>1. CASE d = c
      BY <1>1, <2>1, <3>1 DEF InLatencyLog1s
    <3>2. CASE d # c
      <4>1. InLatencyLog1s(c)
        BY <2>1 DEF InLatencyLog1s
      <4>2. ~InLatencyLog1s(d)
        BY <3>2, <4>1, Exclusion
      <4>3. QED
        BY <1>1, <2>1, <3>2, <4>2 DEF InLatencyLog1s
    <3>3. QED
      BY <3>1, <3>2
  <2>3. QED
    BY <2>2
<1>6. QED
  BY <1>2, <1>3, <1>4, <1>5 DEF Callback, CallbackRuns

\* msgsnd adds a message with all the samples of the accumulators, or loses all of them;
\* cleanup_log clears exactly those.
LEMMA ConservedCallback ==
    ASSUME LogInv, NEW c \in Ticks, Expire(c) \/ Callback(c), ~removed
    PROVE  /\ \A d \in Ticks :
                 /\ cpc'[d] = "send" => temp'[d] = acc'
                 /\ cpc'[d] = "clean" => acc' \subseteq InRows(Stored') \cup lost'
           /\ LogConserved' /\ InOrder(Stored)'
<1>1. ~destroyed /\ ~removed'
  BY CallbackFrame DEF LogInv, ReadersOK, PastRemoval
<1>2. /\ cpc \in [Ticks -> {"none", "lock", "copy", "send", "clean", "unlock", "done"}]
      /\ temp \in [Ticks -> Row] /\ acc \in Row
  BY DEF LogInv, LogTypeOK
<1>3. /\ \A d \in Ticks : cpc[d] = "send" => temp[d] = acc
      /\ \A d \in Ticks : cpc[d] = "clean" => acc \subseteq InRows(Stored) \cup lost
      /\ Recorded = acc \cup InRows(Stored) \cup lost
      /\ \A i, j \in DOMAIN Stored : i # j => Stored[i] \cap Stored[j] = {}
      /\ lost \cap InRows(Stored) = {}
      /\ (\A d \in Ticks : cpc[d] # "clean") => acc \cap (InRows(Stored) \cup lost) = {}
      /\ InOrder(Stored)
  BY <1>1 DEF LogInv, CallbacksOK, LogConserved, OrderOK
<1>4. Recorded' = Recorded
  BY CallbackFrame DEF Recorded
<1>5. LogTypeOK
  BY DEF LogInv
<1>6. CASE Expire(c) \/ CallbackLock(c) \/ CallbackUnlock(c)
  <2>1. /\ UNCHANGED <<acc, temp, msgq, lost, rows>>
        /\ \E p \in {"lock", "copy", "done"} : cpc' = [cpc EXCEPT ![c] = p]
        /\ cpc[c] # "clean"
    BY <1>6 DEF Expire, CallbackLock, CallbackUnlock, queuevars, readvars
  <2>2. /\ Stored' = Stored
        /\ \A d \in Ticks : cpc'[d] \in {"send", "clean"} => cpc'[d] = cpc[d]
        /\ \A d \in Ticks : cpc[d] = "clean" => cpc'[d] = "clean"
    BY <1>2, <2>1 DEF Stored
  <2>3. QED
    BY <1>1, <1>3, <1>4, <2>1, <2>2 DEF LogConserved, InOrder
<1>7. CASE CallbackCopy(c)
  <2>1. /\ UNCHANGED <<acc, msgq, lost, rows>> /\ cpc[c] = "copy"
        /\ \/ cpc' = [cpc EXCEPT ![c] = "unlock"] /\ UNCHANGED temp
           \/ cpc' = [cpc EXCEPT ![c] = "send"] /\ temp' = [temp EXCEPT ![c] = acc]
    BY <1>7 DEF CallbackCopy, AfterEmpty, queuevars, readvars
  <2>2. /\ Stored' = Stored
        /\ \A d \in Ticks : cpc'[d] = "send" => temp'[d] = acc
        /\ \A d \in Ticks : cpc'[d] = "clean" <=> cpc[d] = "clean"
    BY <1>2, <1>3, <2>1 DEF Stored
  <2>3. QED
    BY <1>1, <1>3, <1>4, <2>1, <2>2 DEF LogConserved, InOrder
<1>8. CASE CallbackSend(c)
  <2>1. /\ UNCHANGED <<acc, temp, lost, rows>> /\ cpc[c] = "send" /\ msgq' = Append(msgq, temp[c])
        /\ cpc' = [cpc EXCEPT ![c] = "clean"]
    BY <1>1, <1>8 DEF CallbackSend, readvars
  <2>2. \A d \in Ticks : d # c => cpc[d] \notin {"send", "clean"}
    BY <1>1, <2>1, Exclusion DEF InLatencyLog1s
  <2>3. acc \cap (InRows(Stored) \cup lost) = {} /\ temp[c] = acc
    BY <1>3, <2>1, <2>2
  <2> DEFINE n == Len(Stored)
  <2>4. /\ n \in Nat /\ DOMAIN Stored = 1 .. n
        /\ Stored' \in Seq(Row) /\ Len(Stored') = n + 1 /\ DOMAIN Stored' = 1 .. (n + 1)
        /\ \A k \in 1 .. n : Stored'[k] = Stored[k]
        /\ Stored'[n + 1] = acc
    <3>1. /\ Stored' = rows \o Append(msgq, acc) /\ Stored = rows \o msgq
      BY <2>1, <2>3 DEF Stored
    <3>2. /\ Stored' \in Seq(Row) /\ Len(Stored') = n + 1
          /\ \A k \in 1 .. n : Stored'[k] = Stored[k]
          /\ Stored'[n + 1] = acc
      BY <1>2, <1>5, <3>1, StoredTyped, AppendStored
    <3>3. QED
      BY <1>5, <3>2, StoredTyped, LenProperties
  <2> HIDE DEF n
  <2>5. InRows(Stored') = InRows(Stored) \cup acc
    <3>1. \A x : x \in InRows(Stored') <=> \E k \in 1 .. (n + 1) : x \in Stored'[k]
      BY <2>4 DEF InRows
    <3>2. \A x : x \in InRows(Stored) <=> \E k \in 1 .. n : x \in Stored[k]
      BY <2>4 DEF InRows
    <3>3. \A x : x \in InRows(Stored') <=> x \in InRows(Stored) \/ x \in acc
      BY <2>4, <3>1, <3>2
    <3>4. QED
      BY <3>3
  <2>6. \A d \in Ticks : cpc'[d] = "send" => temp'[d] = acc'
    BY <1>2, <2>1, <2>2
  <2>7. acc' \subseteq InRows(Stored') \cup lost'
    BY <2>1, <2>5
  <2>8. \A i, j \in DOMAIN Stored' : i # j => Stored'[i] \cap Stored'[j] = {}
    <3>1. \A k \in 1 .. n : Stored[k] \cap acc = {}
      BY <2>3, <2>4 DEF InRows
    <3>2. QED
      BY <1>3, <2>4, <3>1
  <2>9. LogConserved'
    <3>1. cpc'[c] = "clean"
      BY <1>2, <2>1
    <3>2. Recorded' = acc' \cup InRows(Stored') \cup lost' /\ lost' \cap InRows(Stored') = {}
      BY <1>3, <1>4, <2>1, <2>3, <2>5
    <3>3. InRows(Stored)' = InRows(Stored')
      BY DEF InRows
    <3>4. QED
      BY <2>8, <3>1, <3>2, <3>3 DEF LogConserved
  <2>10. InOrder(Stored)'
    <3>1. SUFFICES ASSUME NEW i \in 1 .. (n + 1), NEW s \in Stored'[i], NEW m \in 1 .. s[2]
                   PROVE  <<s[1], m>> \in lost \/ \E j \in 1 .. i : <<s[1], m>> \in Stored'[j]
      BY <2>1, <2>4 DEF InOrder
    <3>2. CASE i \in 1 .. n
      <4>1. <<s[1], m>> \in lost \/ \E j \in 1 .. i : <<s[1], m>> \in Stored[j]
        BY <1>3, <2>4, <3>1, <3>2 DEF InOrder
      <4>2. QED
        BY <2>4, <3>2, <4>1
    <3>3. CASE i = n + 1
      <4>1. s \in acc /\ s \in Recorded
        BY <1>3, <2>4, <3>1, <3>3
      <4>2. /\ s[1] \in Workers /\ s[2] \in 1 .. MaxSamples /\ s[2] <= recorded[s[1]]
            /\ recorded[s[1]] \in Nat
        BY <1>5, <4>1 DEF Recorded, Samples, LogTypeOK
      <4>3. <<s[1], m>> \in Recorded
        BY <3>1, <4>2, LogConstants DEF Recorded, Samples
      <4>4. \/ <<s[1], m>> \in acc \/ <<s[1], m>> \in lost
            \/ \E j \in 1 .. n : <<s[1], m>> \in Stored[j]
        <5>1. <<s[1], m>> \in acc \/ <<s[1], m>> \in InRows(Stored) \/ <<s[1], m>> \in lost
          BY <1>3, <4>3
        <5>2. \A x : x \in InRows(Stored) => \E j \in 1 .. n : x \in Stored[j]
          BY <2>4 DEF InRows
        <5>3. QED
          BY <5>1, <5>2
      <4>5. QED
        BY <2>4, <3>3, <4>4
    <3>4. QED
      BY <2>4, <3>1, <3>2, <3>3
  <2>11. QED
    BY <1>2, <2>1, <2>2, <2>6, <2>7, <2>9, <2>10
<1>9. CASE CallbackClean(c)
  <2>1. /\ UNCHANGED <<temp, rows, msgq, lost>> /\ cpc[c] = "clean" /\ acc' = {}
        /\ cpc' = [cpc EXCEPT ![c] = "unlock"] /\ Stored' = Stored
    BY <1>9 DEF CallbackClean, Cleared, queuevars, readvars, Stored
  <2>2. \A d \in Ticks : d # c => cpc[d] \notin {"send", "clean"}
    BY <1>1, <2>1, Exclusion DEF InLatencyLog1s
  <2>3. \A d \in Ticks : cpc'[d] \notin {"send", "clean"}
    BY <1>2, <2>1, <2>2
  <2>4. acc \subseteq InRows(Stored) \cup lost
    BY <1>3, <2>1
  <2>5. QED
    BY <1>1, <1>3, <1>4, <2>1, <2>3, <2>4 DEF LogConserved, InOrder
<1>10. CASE CallbackSendFails(c)
  <2>1. /\ UNCHANGED <<acc, temp, msgq, rows>> /\ cpc[c] = "send" /\ lost' = lost \cup temp[c]
        /\ cpc' = [cpc EXCEPT ![c] = "clean"] /\ Stored' = Stored
    BY <1>10 DEF CallbackSendFails, readvars, Stored
  <2>2. \A d \in Ticks : d # c => cpc[d] \notin {"send", "clean"}
    BY <1>1, <2>1, Exclusion DEF InLatencyLog1s
  <2>3. acc \cap (InRows(Stored) \cup lost) = {} /\ temp[c] = acc
    BY <1>3, <2>1, <2>2
  <2>4. \A d \in Ticks : cpc'[d] # "send" /\ (cpc'[d] = "clean" => d = c) /\ cpc'[c] = "clean"
    BY <1>2, <2>1, <2>2
  <2>5. /\ acc' \subseteq InRows(Stored') \cup lost' /\ lost' \cap InRows(Stored') = {}
        /\ Recorded' = acc' \cup InRows(Stored') \cup lost'
    BY <1>3, <1>4, <2>1, <2>3
  <2>6. LogConserved'
    BY <1>3, <2>1, <2>4, <2>5 DEF LogConserved
  <2>7. InOrder(Stored)'
    BY <1>3, <2>1 DEF InOrder
  <2>8. QED
    BY <2>4, <2>5, <2>6, <2>7
<1>11. QED
  BY <1>6, <1>7, <1>8, <1>9, <1>10 DEF Callback, CallbackRuns

LEMMA InvCallback ==
    ASSUME LogInv, NEW c \in Ticks, Expire(c) \/ Callback(c)
    PROVE  LogInv'
<1>1. UNCHANGED <<wpc, recorded, load, g_io_completed_num, completions, destroyed, removed, rpc,
                  msg_cnt, rows>>
  BY CallbackFrame
<1>2. LogTypeOK' /\ WorkersOK'
  BY LogTypeCallback DEF LogInv
<1>3. ReadersOK' /\ CountOK'
  BY <1>1 DEF LogInv, ReadersOK, PastRemoval, AllReturned, CountOK
<1>4. ReadersNotStuck'
  <2>1. temp[c] \in Row /\ msgq \in Seq(Row)
    BY DEF LogInv, LogTypeOK
  <2>2. msgq' = Append(msgq, temp[c]) \/ msgq' = msgq
    BY DEF Expire, Callback, CallbackRuns, CallbackSendFails, CallbackLock, CallbackCopy, CallbackSend, CallbackClean,
       CallbackUnlock, queuevars
  <2>3. Len(msgq') >= Len(msgq) /\ Len(msgq') \in Nat /\ Len(msgq) \in Nat
    BY <2>1, <2>2, LenProperties
  <2>4. msg_cnt \in [log : Nat, main : Nat]
    BY DEF LogInv, LogTypeOK
  <2>5. QED
    BY <1>1, <2>3, <2>4 DEF LogInv, ReadersNotStuck, Readers
<1>5. CallbacksOK' /\ LogConserved' /\ OrderOK'
  <2>1. CASE removed
    <3>1. CallbacksOK'
      BY <1>1, <2>1, ExclusionCallback DEF CallbacksOK
    <3>2. LogConserved'
      BY <1>1, <2>1 DEF LogConserved
    <3>3. OrderOK'
      <4>1. lost \subseteq lost'
        BY DEF Expire, Callback, CallbackRuns, CallbackSendFails, CallbackLock, CallbackCopy,
           CallbackSend, CallbackClean, CallbackUnlock, queuevars
      <4>2. QED
        BY <1>1, <2>1, <4>1 DEF LogInv, OrderOK, InOrder
    <3>4. QED
      BY <3>1, <3>2, <3>3
  <2>2. CASE ~removed
    <3>1. InOrder(rows)'
      <4>1. lost \subseteq lost'
        BY DEF Expire, Callback, CallbackRuns, CallbackSendFails, CallbackLock, CallbackCopy,
           CallbackSend, CallbackClean, CallbackUnlock, queuevars
      <4>2. QED
        BY <1>1, <4>1 DEF LogInv, OrderOK, InOrder
    <3>2. QED
      BY <1>1, <2>2, <3>1, ExclusionCallback, ConservedCallback DEF LogInv, CallbacksOK, OrderOK
  <2>3. QED
    BY <2>1, <2>2
<1>6. QED
  BY <1>2, <1>3, <1>4, <1>5 DEF LogInv

-----------------------------------------------------------------------------
(* The steps of the log thread and of main *)

\* What a step of a reader leaves alone.
LEMMA ReaderFrame ==
    ASSUME LogThread \/ Main
    PROVE  UNCHANGED <<wpc, recorded, load, g_io_completed_num, completions, acc, mutex, cpc, temp, lost>>
BY DEF LogThread, Main, ProcessMsgRecv, CheckQnum, Receive, ReceivedAll, LogThreadGoesOn,
   LogThreadTimesOut, Join, RemoveQueue, FiniLog, Exit, workervars, lockvars, tickvars, queuevars

\* The order of what main does at the end.
LEMMA ReadersReader ==
    ASSUME LogInv, LogThread \/ Main
    PROVE  ReadersOK'
<1>1. /\ rpc \in [log : {"test", "check", "recv", "exited"},
                  main : {"work", "check", "recv", "rmid", "fini", "exit", "exited"}]
      /\ removed \in BOOLEAN /\ destroyed \in BOOLEAN /\ ReadersOK
  BY DEF LogInv, LogTypeOK
<1>2. AllReturned' <=> AllReturned
  BY ReaderFrame DEF AllReturned
<1>3. CASE LogThread
  <2>1. rpc'.main = rpc.main /\ rpc.log # "exited" /\ UNCHANGED <<removed, destroyed>>
    BY <1>1, <1>3 DEF LogThread, ProcessMsgRecv, CheckQnum, Receive, ReceivedAll, LogThreadGoesOn,
       LogThreadTimesOut, lockvars, queuevars
  <2>2. rpc.main = "work"
    BY <1>1, <2>1 DEF ReadersOK
  <2>3. QED
    BY <1>1, <2>1, <2>2 DEF ReadersOK, PastRemoval
<1>4. CASE Join
  <2>1. /\ rpc.main = "work" /\ rpc'.main = "check" /\ rpc'.log = "exited" /\ AllReturned
        /\ UNCHANGED <<removed, destroyed>>
    BY <1>1, <1>4 DEF Join, Joined, lockvars, queuevars
  <2>2. QED
    BY <1>1, <1>2, <2>1 DEF ReadersOK, PastRemoval
<1>5. CASE ProcessMsgRecv("main")
  <2>1. /\ rpc.main \in {"check", "recv"} /\ rpc'.main \in {"recv", "rmid"} /\ rpc'.log = rpc.log
        /\ UNCHANGED <<removed, destroyed>>
    BY <1>1, <1>5 DEF ProcessMsgRecv, CheckQnum, Receive, ReceivedAll, lockvars, queuevars
  <2>2. QED
    BY <1>1, <1>2, <2>1 DEF ReadersOK, PastRemoval
<1>6. CASE RemoveQueue
  <2>1. /\ rpc.main = "rmid" /\ rpc'.main = "fini" /\ rpc'.log = rpc.log
        /\ UNCHANGED destroyed /\ removed'
    BY <1>1, <1>6, Zenon DEF RemoveQueue, lockvars
  <2>2. QED
    BY <1>1, <1>2, <2>1 DEF ReadersOK, PastRemoval
<1>7. CASE FiniLog \/ Exit
  <2>1. /\ rpc.main \in {"fini", "exit"} /\ rpc'.main \in {"exit", "exited"} /\ rpc'.log = rpc.log
        /\ UNCHANGED removed
    BY <1>1, <1>7 DEF FiniLog, Exit, queuevars
  <2>2. QED
    BY <1>1, <1>2, <2>1 DEF ReadersOK, PastRemoval
<1>8. QED
  BY <1>3, <1>4, <1>5, <1>6, <1>7 DEF Main

\* A reader receives only while the queue exists.
LEMMA ReceiveAlive ==
    ASSUME LogInv, NEW r \in Readers, Receive(r)
    PROVE  ~removed /\ ~removed' /\ UNCHANGED destroyed
<1>1. rpc[r] = "recv" /\ UNCHANGED <<removed, destroyed>>
  BY DEF Receive, lockvars
<1>2. ReadersOK /\ rpc \in [log : {"test", "check", "recv", "exited"},
                main : {"work", "check", "recv", "rmid", "fini", "exit", "exited"}]
  BY DEF LogInv, LogTypeOK
<1>3. rpc.main \in {"work", "recv"}
  BY <1>1, <1>2 DEF Readers, ReadersOK
<1>4. ~removed
  BY <1>2, <1>3 DEF ReadersOK, PastRemoval
<1>5. QED
  BY <1>1, <1>4

\* A message that is received moves to the rows, and is still in order there.
LEMMA ConservedReceive ==
    ASSUME LogInv, NEW r \in Readers, Receive(r)
    PROVE  Stored' = Stored /\ OrderOK'
<1>1. rows' = Append(rows, Head(msgq)) /\ msgq' = Tail(msgq) /\ msgq # <<>>
  BY DEF Receive
<1>2. rows \in Seq(Row) /\ msgq \in Seq(Row)
  BY DEF LogInv, LogTypeOK
<1>3. Stored' = Stored
  BY <1>1, <1>2, MoveHead DEF Stored
<1>4. ~removed /\ InOrder(Stored)
  BY ReceiveAlive DEF LogInv, OrderOK
<1>5. rows' \in Seq(Row) /\ msgq' \in Seq(Row)
  BY <1>1, <1>2, HeadTailProperties
<1>6. /\ Stored' \in Seq(Row) /\ Len(rows') <= Len(Stored')
      /\ \A k \in 1 .. Len(rows') : rows'[k] = Stored'[k]
  <2>1. Stored' = rows' \o msgq'
    BY DEF Stored
  <2>2. /\ Stored' \in Seq(Row) /\ Len(rows') \in 0 .. Len(Stored')
        /\ \A k \in 1 .. Len(rows') : rows'[k] = Stored'[k]
    BY <1>5, <2>1, RowsFirst
  <2>3. QED
    BY <2>2
<1>7. InOrder(rows')
  BY <1>3, <1>4, <1>5, <1>6, OrderedPrefix
<1>8. UNCHANGED lost
  BY DEF Receive
<1>9. QED
  BY <1>3, <1>4, <1>7, <1>8 DEF OrderOK, InOrder

\* A reader that counted the messages is the only one that takes some away.
LEMMA NotStuckReader ==
    ASSUME LogInv, LogThread \/ Main
    PROVE  ReadersNotStuck'
<1>1. /\ rpc \in [log : {"test", "check", "recv", "exited"},
                  main : {"work", "check", "recv", "rmid", "fini", "exit", "exited"}]
      /\ msg_cnt \in [log : Nat, main : Nat] /\ msgq \in Seq(Row) /\ Len(msgq) \in Nat
      /\ ReadersNotStuck /\ ReadersOK
  BY LenProperties DEF LogInv, LogTypeOK
<1>2. ASSUME NEW r \in Readers, NEW o \in Readers, r # o, rpc[r] \in {"check", "recv"}
      PROVE  rpc[o] # "recv"
  BY <1>1, <1>2 DEF Readers, ReadersOK
<1>3. ASSUME NEW r \in Readers, CheckQnum(r) PROVE ReadersNotStuck'
  <2>1. /\ rpc[r] = "check" /\ msg_cnt' = [msg_cnt EXCEPT ![r] = Len(msgq)]
        /\ rpc' = [rpc EXCEPT ![r] = "recv"] /\ UNCHANGED msgq
    BY <1>3 DEF CheckQnum, queuevars
  <2>2. msg_cnt'[r] = Len(msgq)
    BY <1>1, <1>3, <2>1 DEF Readers
  <2>3. \A o \in Readers : o # r => rpc'[o] # "recv"
    BY <1>1, <1>2, <1>3, <2>1 DEF Readers
  <2>4. QED
    BY <1>1, <2>1, <2>2, <2>3 DEF ReadersNotStuck
<1>4. ASSUME NEW r \in Readers, Receive(r) PROVE ReadersNotStuck'
  <2>1. /\ rpc[r] = "recv" /\ msg_cnt' = [msg_cnt EXCEPT ![r] = @ - 1] /\ UNCHANGED rpc
        /\ msgq' = Tail(msgq) /\ msgq # <<>>
    BY <1>4 DEF Receive
  <2>2. Len(msgq') = Len(msgq) - 1
    BY <1>1, <2>1, HeadTailProperties
  <2>3. msg_cnt'[r] = msg_cnt[r] - 1 /\ msg_cnt[r] <= Len(msgq) /\ msg_cnt[r] \in Nat
    BY <1>1, <1>4, <2>1 DEF Readers, ReadersNotStuck
  <2>4. \A o \in Readers : o # r => rpc'[o] # "recv"
    BY <1>2, <1>4, <2>1
  <2>5. msg_cnt'[r] <= Len(msgq')
    BY <1>1, <2>2, <2>3
  <2>6. QED
    BY <2>4, <2>5 DEF ReadersNotStuck
<1>5. CASE RemoveQueue
  <2>1. rpc.main = "rmid" /\ rpc.log = "exited" /\ rpc' = [rpc EXCEPT !.main = "fini"]
    BY <1>1, <1>5 DEF RemoveQueue, ReadersOK
  <2>2. QED
    BY <1>1, <2>1 DEF ReadersNotStuck, Readers
<1>6. ASSUME UNCHANGED <<msg_cnt, msgq>>, \A r \in Readers : rpc'[r] = "recv" => rpc[r] = "recv"
      PROVE  ReadersNotStuck'
  BY <1>1, <1>6 DEF ReadersNotStuck
<1>7. CASE ReceivedAll("log") \/ ReceivedAll("main") \/ LogThreadGoesOn \/ LogThreadTimesOut \/ Join
  BY <1>1, <1>6, <1>7 DEF ReceivedAll, LogThreadGoesOn, LogThreadTimesOut, Join, Readers, queuevars
<1>8. CASE FiniLog \/ Exit
  BY <1>1, <1>6, <1>8 DEF FiniLog, Exit, Readers, queuevars
<1>9. QED
  BY <1>3, <1>4, <1>5, <1>7, <1>8 DEF LogThread, Main, ProcessMsgRecv, Readers

LEMMA InvReader ==
    ASSUME LogInv, LogThread \/ Main
    PROVE  LogInv'
<1>1. UNCHANGED <<wpc, recorded, load, g_io_completed_num, completions, acc, mutex, cpc, temp, lost>>
  BY ReaderFrame
<1>2. LogTypeOK' /\ WorkersOK' /\ ReadersOK' /\ ReadersNotStuck'
  BY LogTypeReader, ReadersReader, NotStuckReader DEF LogInv
<1>3. CountOK'
  BY <1>1 DEF LogInv, CountOK
<1>4. \/ (\E r \in Readers : Receive(r)) \/ RemoveQueue
      \/ UNCHANGED <<rows, msgq, removed>>
  BY DEF LogThread, Main, ProcessMsgRecv, CheckQnum, ReceivedAll, LogThreadGoesOn,
     LogThreadTimesOut, Join, FiniLog, Exit, queuevars, Readers
<1>5. \/ FiniLog \/ UNCHANGED destroyed
  BY DEF LogThread, Main, ProcessMsgRecv, CheckQnum, Receive, ReceivedAll, LogThreadGoesOn,
     LogThreadTimesOut, Join, RemoveQueue, Exit, lockvars
<1>6. ~destroyed' => \A c \in Ticks : InLatencyLog1s(c)' => mutex' = <<"callback", c>>
  <2>1. CASE FiniLog
    <3>1. ~destroyed
      BY <2>1 DEF FiniLog, LogInv, ReadersOK
    <3>2. QED
      BY <1>1, <3>1 DEF LogInv, CallbacksOK, InLatencyLog1s
  <2>2. CASE UNCHANGED destroyed
    BY <1>1, <2>2 DEF LogInv, CallbacksOK, InLatencyLog1s
  <2>3. QED
    BY <1>5, <2>1, <2>2
<1>7. ASSUME Stored' = Stored, UNCHANGED removed
      PROVE  CallbacksOK' /\ LogConserved'
  BY <1>1, <1>6, <1>7 DEF LogInv, CallbacksOK, LogConserved, Recorded
<1>8. CASE \E r \in Readers : Receive(r)
  <2>1. PICK r \in Readers : Receive(r)
    BY <1>8
  <2>2. UNCHANGED removed
    BY <2>1 DEF Receive
  <2>3. QED
    BY <1>2, <1>3, <1>7, <2>1, <2>2, ConservedReceive DEF LogInv
<1>9. CASE RemoveQueue
  <2>1. removed' /\ UNCHANGED rows
    BY <1>9, Zenon DEF RemoveQueue
  <2>2. CallbacksOK' /\ LogConserved' /\ OrderOK'
    BY <1>1, <1>6, <2>1 DEF LogInv, CallbacksOK, LogConserved, OrderOK, InOrder
  <2>3. QED
    BY <1>2, <1>3, <2>2 DEF LogInv
<1>10. CASE UNCHANGED <<rows, msgq, removed>>
  <2>1. Stored' = Stored
    BY <1>10 DEF Stored
  <2>2. OrderOK'
    BY <1>1, <1>10, <2>1 DEF LogInv, OrderOK, InOrder
  <2>3. QED
    BY <1>2, <1>3, <1>7, <1>10, <2>1, <2>2 DEF LogInv
<1>11. QED
  BY <1>4, <1>8, <1>9, <1>10

-----------------------------------------------------------------------------
(* The theorems *)

LEMMA LogInvInit == LogInit => LogInv
<1>1. SUFFICES ASSUME LogInit PROVE LogInv
  OBVIOUS
<1>2. LogTypeOK /\ WorkersOK
  BY <1>1, LogTypeInit
<1>3. /\ rpc.main = "work" /\ ~removed /\ ~destroyed /\ acc = {} /\ rows = <<>> /\ msgq = <<>>
      /\ lost = {}
      /\ recorded = [w \in Workers |-> 0] /\ cpc = [c \in Ticks |-> "none"]
      /\ wpc = [w \in Workers |-> "run"] /\ g_io_completed_num = 0 /\ completions = 0
      /\ rpc = [log |-> "test", main |-> "work"]
  BY <1>1, Zenon DEF LogInit
<1>4. Stored = <<>>
  BY <1>3, ConcatEmptySeq, EmptySeq DEF Stored
<1>5. Recorded = {} /\ InRows(Stored) = {} /\ DOMAIN Stored = {} /\ DOMAIN rows = {}
  BY <1>3, <1>4 DEF Recorded, Samples, InRows
<1>6. ReadersOK /\ CallbacksOK
  BY <1>3 DEF ReadersOK, PastRemoval, CallbacksOK, InLatencyLog1s
<1>7. LogConserved /\ OrderOK
  BY <1>3, <1>5 DEF LogConserved, OrderOK, InOrder
<1>8. ReadersNotStuck /\ CountOK
  BY <1>3 DEF ReadersNotStuck, Readers, CountOK
<1>9. QED
  BY <1>2, <1>6, <1>7, <1>8 DEF LogInv

LEMMA LogInvNext == LogInv /\ [LogNext]_logvars => LogInv'
<1>1. SUFFICES ASSUME LogInv, [LogNext]_logvars PROVE LogInv'
  OBVIOUS
<1>2. CASE UNCHANGED logvars
  <2>1. /\ UNCHANGED <<wpc, recorded, load, g_io_completed_num, completions, acc, mutex, destroyed>>
        /\ UNCHANGED <<cpc, temp, msgq, removed, lost, rpc, msg_cnt, rows>>
    BY <1>2 DEF logvars, workervars, lockvars, tickvars, queuevars, readvars
  <2>2. LogTypeOK' /\ ReadersOK' /\ WorkersOK' /\ CallbacksOK'
    BY <1>1, <2>1 DEF LogInv, LogTypeOK, ReadersOK, PastRemoval, AllReturned, WorkersOK,
       CallbacksOK, InLatencyLog1s, Stored
  <2>3. LogConserved' /\ OrderOK' /\ ReadersNotStuck' /\ CountOK'
    BY <1>1, <2>1 DEF LogInv, LogConserved, Recorded, Stored, OrderOK, InOrder, ReadersNotStuck,
       CountOK
  <2>4. QED
    BY <2>2, <2>3 DEF LogInv
<1>3. QED
  BY <1>1, <1>2, InvWorker, InvCallback, InvReader DEF LogNext, Exited

LEMMA LogInvAlways == LogSpec => []LogInv
BY LogInvInit, LogInvNext, PTL DEF LogSpec

\* Type correctness of the log: for every number of threads, no reader of
\* process_msg_recv counts below zero and every row is a set of samples.
THEOREM LogTypeCorrect == LogSpec => []LogTypeOK
<1>1. LogInv => LogTypeOK
  BY DEF LogInv
<1>2. QED
  BY <1>1, LogInvAlways, PTL

\* As long as the queue exists no latency is lost but by a failed msgsnd, and none is in two
\* rows, for every number of workers and of overlapping latency_log_1s threads.
THEOREM NoLatencyLost == LogSpec => []LogConserved
<1>1. LogInv => LogConserved
  BY DEF LogInv
<1>2. QED
  BY <1>1, LogInvAlways, PTL

\* What write_latency_tasks_log has written is, at any time and but for what msgsnd lost, a
\* prefix of what each worker recorded, also after the queue was removed.
THEOREM RowsInOrder == LogSpec => []WrittenInOrder
<1>1. LogInv => WrittenInOrder
  <2>1. SUFFICES ASSUME LogInv, NEW s \in InRows(rows), NEW m \in 1 .. s[2],
                        <<s[1], m>> \notin lost
                 PROVE  <<s[1], m>> \in InRows(rows)
    BY DEF WrittenInOrder
  <2>2. DOMAIN rows = 1 .. Len(rows) /\ Len(rows) \in Nat /\ InOrder(rows)
    BY <2>1, StoredTyped DEF LogInv, OrderOK
  <2>3. PICK i \in DOMAIN rows : s \in rows[i]
    BY <2>1 DEF InRows
  <2>4. PICK j \in 1 .. i : <<s[1], m>> \in rows[j]
    BY <2>1, <2>2, <2>3 DEF InOrder
  <2>5. j \in DOMAIN rows
    BY <2>2, <2>3, <2>4
  <2>6. QED
    BY <2>4, <2>5 DEF InRows
<1>2. QED
  BY <1>1, LogInvAlways, PTL

\* The blocking msgrcv of process_msg_recv always finds the message that check_msg_qnum
\* counted, in the log thread as in main.
THEOREM MsgrcvReturns == LogSpec => []ReadersNotStuck
<1>1. LogInv => ReadersNotStuck
  BY DEF LogInv
<1>2. QED
  BY <1>1, LogInvAlways, PTL

\* Whatever the race on g_io_completed_num loses, the count main prints is between one and
\* the number of completions.
THEOREM CountIsBounded == LogSpec => []CountBounds
<1>1. LogInv => CountBounds
  BY DEF LogInv, CountOK, CountBounds, AllReturned
<1>2. QED
  BY <1>1, LogInvAlways, PTL
=============================================================================
