--------------------------- MODULE RepRuns_proofs ----------------------------
(***************************************************************************)
(* Whole runs of RepWorker, for every queue depth and number of replicas,  *)
(* under the conditions of RepBarrier_proofs: work_fn returns only with    *)
(* every group released, and in a run limited by -d every round has an     *)
(* io_id of its own.                                                       *)
(*                                                                         *)
(* Both rest on DrainOK of RepRefused_proofs.  Once the drain loop has     *)
(* marked a namespace, no walk of task_complete can start a round, so the  *)
(* commands in flight only become fewer and a pass that met no unfinished  *)
(* namespace has none left behind it (FinishOK).  And a slot starts no     *)
(* more rounds than -d allows, so its io_ids do not wrap around            *)
(* (NumbersOK).                                                            *)
(***************************************************************************)
EXTENDS RepRefused_proofs, RepRounds_proofs

DrainInv == HealthyInv /\ DrainOK /\ StartOK

LEMMA DrainAlways == Healthy /\ Spec => []DrainInv
<1>1. Healthy => Contained
  BY DEF Healthy, Contained
<1>2. HealthyInv /\ ContainedInv => DrainInv
  BY DEF ContainedInv, DrainInv
<1>3. QED
  BY <1>1, <1>2, HealthyAlways, ContainedAlways, PTL

-----------------------------------------------------------------------------
(* The end of a run *)

Starting == pc = "submit_io_rep" \/ (pc = "submit" /\ call.ret = "submit_io_rep")

\* The thread is in the drain loop of work_fn, or in a call made by its poll.
InDrainPoll == pc = "drainpoll" \/ call.ret = "drainpoll"

\* Every slot is allocated before the main loop.  A call from the drain loop starts no
\* round.  A pass of the drain loop that has met no unfinished namespace leaves behind
\* namespaces without a command in flight, so that none is left when it ends the run.
FinishOK ==
    /\ Starting \/ slot = QueueDepth + 1
    /\ call.ret = "drainpoll" => pc \in {"renew", "release"}
    /\ call.ret # "cleanup"
    /\ pc = "clock" => ns = 1
    /\ InDrainPoll => is_draining[ns]
    /\ (pc = "drain" \/ InDrainPoll) /\ unfinished = 0 => \A t \in inflight : ns <= t[2]
    /\ pc \in {"cleanup", "done"} => inflight = {}

LEMMA FinishInit == Init => FinishOK
BY DEF Init, NoCall, Starting, InDrainPoll, FinishOK

LEMMA FinishSubmission ==
    ASSUME Healthy, DrainInv, FinishOK, AllocateGroup \/ SubmitReplica \/ SubmitDone
    PROVE  FinishOK'
<1>1. HealthyInv
  BY DEF DrainInv
<1>2. CASE AllocateGroup
  <2>1. pc' = "submit" /\ call'.ret = "submit_io_rep"
    BY <1>1, <1>2, AllocateGroupStep
  <2>2. QED
    BY <2>1 DEF FinishOK, Starting, InDrainPoll
<1>3. CASE SubmitReplica
  <2>1. pc = "submit" /\ pc' = "submit" /\ call'.ret = call.ret /\ UNCHANGED slot
    BY <1>1, <1>3, SubmitReplicaStep DEF loopvars
  <2>2. QED
    BY <2>1 DEF FinishOK, Starting, InDrainPoll
<1>4. CASE SubmitDone
  <2>1. /\ pc = "submit" /\ pc' = call.ret /\ call'.ret = "none" /\ UNCHANGED slot
        /\ pc' \in {"submit_io_rep", "poll", "drainpoll", "cleanup"}
    BY <1>1, <1>4, SubmitDoneStep DEF loopvars, NoCall
  <2>2. QED
    BY <2>1 DEF FinishOK, Starting, InDrainPoll
<1>5. QED
  BY <1>2, <1>3, <1>4

LEMMA FinishCompletion ==
    ASSUME Healthy, DrainInv, FinishOK, Completion
    PROVE  FinishOK'
<1>1. HealthyInv /\ DrainOK /\ StartOK /\ CallOK /\ ns \in NsCtx
  BY DEF DrainInv, HealthyInv, TypeOK
<1>2. ASSUME NEW t \in Tasks, IoComplete(t) PROVE FinishOK'
  <2>1. /\ pc \in {"poll", "drainpoll"} /\ inflight' \subseteq inflight
        /\ \/ pc' = "renew" /\ call'.ret = pc
           \/ pc' = pc /\ UNCHANGED call
        /\ \A n \in NsCtx : is_draining[n] => is_draining'[n]
        /\ UNCHANGED <<ns, slot, unfinished>>
    BY <1>1, <1>2, IoCompleteStep DEF loopvars
  <2>2. call.ret = "none"
    BY <1>1, <2>1 DEF CallOK, NoCall
  <2>3. slot' = QueueDepth + 1
    BY <2>1 DEF FinishOK, Starting
  <2>4. InDrainPoll' => InDrainPoll
    BY <2>1, <2>2 DEF InDrainPoll
  <2>5. QED
    BY <1>1, <2>1, <2>2, <2>3, <2>4 DEF FinishOK
<1>3. CASE Renew
  <2>1. /\ pc = "renew" /\ pc' \in {"renew", "release"} /\ call'.ret = call.ret
        /\ UNCHANGED <<ns, slot, unfinished, inflight, is_draining>>
    BY <1>1, <1>3, RenewStep DEF loopvars
  <2>2. QED
    BY <2>1 DEF FinishOK, Starting, InDrainPoll
<1>4. CASE RenewDone
  <2>1. PICK r \in Slots :
           /\ r = call.main /\ pc = "renew" /\ pc' = "submit" /\ Before(r, call.cur) = Group(r)
           /\ call'.ret = call.ret /\ UNCHANGED loopvars
    BY <1>1, <1>4, RenewDoneStep
  <2>2. call.ret # "drainpoll"
    <3>1. <<r, ns>> \in Group(r) /\ <<r, ns>>[2] = ns
      BY <1>1, GroupFacts
    <3>2. ~is_draining[ns]
      BY <1>1, <2>1, <3>1 DEF DrainOK
    <3>3. QED
      BY <3>2 DEF FinishOK, InDrainPoll
  <2>3. slot' = QueueDepth + 1
    BY <2>1 DEF FinishOK, Starting, loopvars
  <2>4. QED
    BY <2>1, <2>2, <2>3 DEF FinishOK, InDrainPoll
<1>5. CASE Release \/ ReleaseDone
  <2>1. /\ pc = "release" /\ UNCHANGED <<ns, slot, unfinished, inflight, is_draining>>
        /\ \/ pc' = "release" /\ call'.ret = call.ret
           \/ pc' = call.ret /\ call'.ret = "none"
    BY <1>1, <1>5, ReleaseStep DEF loopvars, NoCall
  <2>2. call.ret \in {"poll", "drainpoll"}
    BY <1>1, <2>1 DEF StartOK
  <2>3. QED
    BY <2>1, <2>2 DEF FinishOK, Starting, InDrainPoll
<1>6. QED
  BY <1>2, <1>3, <1>4, <1>5 DEF Completion

\* A namespace whose depth is zero has no command in flight.
LEMMA EmptyAtDepthZero ==
    ASSUME TypeOK, DepthExact, BeforeCleanup, NEW n \in NsCtx, current_queue_depth[n] <= 0
    PROVE  \A t \in inflight : t[2] # n
<1>1. IsFiniteSet(HeldFor(n))
  BY TasksFinite, FS_Subset DEF HeldFor, TypeOK
<1>2. Cardinality(HeldFor(n)) \in Nat /\ current_queue_depth[n] = Cardinality(HeldFor(n))
  BY <1>1, FS_CardinalityType DEF DepthExact
<1>3. HeldFor(n) = {}
  BY <1>1, <1>2, FS_EmptySet
<1>4. QED
  BY <1>3 DEF HeldFor

\* The drain loop moves on, having met no command of the namespace it leaves unless it
\* counts it as unfinished.
LEMMA FinishDrainStep ==
    ASSUME TypeOK, call.ret = "none", slot = QueueDepth + 1, UNCHANGED <<slot, call, inflight>>,
           NEW u \in Nat, NextDrain(u),
           u = 0 => \A t \in inflight : ns <= t[2] /\ t[2] # ns
    PROVE  FinishOK'
<1>1. ns \in Int /\ \A t \in inflight : t[2] \in Int /\ 1 <= t[2] /\ t[2] <= NumNs
  BY ConstantTypes DEF TypeOK, Tasks, NsCtx
<1>2. CASE ns < NumNs /\ ns' = ns + 1 /\ unfinished' = u /\ pc' = "drain"
  <2>1. u = 0 => \A t \in inflight : ns + 1 <= t[2]
    BY <1>1
  <2>2. QED
    BY <1>2, <2>1 DEF FinishOK, InDrainPoll
<1>3. CASE ns = NumNs /\ u > 0 /\ ns' = 1 /\ pc' = "drain"
  BY <1>1, <1>3 DEF FinishOK, InDrainPoll
<1>4. CASE ns = NumNs /\ u = 0 /\ pc' = "cleanup"
  <2>1. inflight = {}
    BY <1>1, <1>4, ConstantTypes
  <2>2. QED
    BY <1>4, <2>1 DEF FinishOK, InDrainPoll
<1>5. QED
  BY <1>2, <1>3, <1>4 DEF NextDrain

LEMMA FinishElsewhere ==
    ASSUME Healthy, DrainInv, FinishOK, DepthExact, Elsewhere
    PROVE  FinishOK'
<1>1. HealthyInv /\ TypeOK /\ CallOK /\ ListsOK
  BY DEF DrainInv, HealthyInv
<1>2. /\ ns \in NsCtx /\ unfinished \in Nat /\ slot \in 1 .. (QueueDepth + 1)
      /\ is_draining \in [NsCtx -> BOOLEAN] /\ inflight \subseteq Tasks
      /\ current_queue_depth \in [NsCtx -> Int]
  BY <1>1, Zenon DEF TypeOK
<1>3. /\ \A n \in NsCtx : is_draining[n] => is_draining'[n]
      /\ UNCHANGED <<slot, call, inflight, current_queue_depth>>
  BY <1>1, ElsewhereStep
<1>4. ~RetryTask /\ ~CleanupTask
  BY <1>1 DEF RetryTask, CleanupTask, ListsOK, First
<1>5. pc \notin Walks \cup {"halted"} => call.ret = "none"
  BY <1>1 DEF CallOK, NoCall, Walks
<1>6. \A t \in inflight : 1 <= t[2]
  BY <1>2 DEF Tasks, NsCtx
<1>7. CASE SetExit \/ UNCHANGED vars
  <2>1. UNCHANGED <<pc, ns, slot, unfinished, call, inflight, is_draining>>
    BY <1>7 DEF SetExit, vars, loopvars, taskvars, nsvars
  <2>2. QED
    BY <2>1 DEF FinishOK, Starting, InDrainPoll
<1>8. CASE AllAllocated
  <2>1. pc = "submit_io_rep" /\ pc' = "loop" /\ slot > QueueDepth
    BY <1>8 DEF AllAllocated
  <2>2. slot' = QueueDepth + 1 /\ call'.ret = "none"
    BY <1>2, <1>3, <1>5, <2>1, ConstantTypes DEF Walks
  <2>3. QED
    BY <2>1, <2>2 DEF FinishOK, InDrainPoll
<1>9. CASE LoopTest \/ TakeQueue \/ RetryDone \/ EndPoll \/ TimeLeft \/ TimeExpired
  <2>1. /\ pc \in {"loop", "queue", "retry", "poll", "clock"}
        /\ \/ pc' \in {"loop", "queue", "retry", "poll"}
           \/ pc' \in {"clock", "drain"} /\ ns' = 1
    BY <1>9 DEF LoopTest, TakeQueue, RetryDone, EndPoll, TimeLeft, TimeExpired, FinishOK
  <2>2. slot' = QueueDepth + 1 /\ call'.ret = "none"
    BY <1>3, <1>5, <2>1 DEF FinishOK, Starting, Walks
  <2>3. QED
    BY <1>3, <1>6, <2>1, <2>2 DEF FinishOK, InDrainPoll
<1>10. CASE PollError
  <2>1. pc \in {"poll", "drainpoll"} /\ UNCHANGED <<pc, ns, unfinished>>
    BY <1>10 DEF PollError, loopvars
  <2>2. slot' = QueueDepth + 1 /\ call'.ret = "none"
    BY <1>3, <1>5, <2>1 DEF FinishOK, Starting, Walks
  <2>3. QED
    BY <1>2, <1>3, <2>1, <2>2 DEF FinishOK, InDrainPoll
<1>11. CASE DrainNs
  <2>1. pc = "drain" /\ is_draining' = [is_draining EXCEPT ![ns] = TRUE]
    BY <1>11 DEF DrainNs
  <2>2. slot = QueueDepth + 1 /\ call.ret = "none" /\ BeforeCleanup
    BY <1>5, <2>1 DEF FinishOK, Starting, Walks, BeforeCleanup
  <2>3. unfinished = 0 => \A t \in inflight : ns <= t[2]
    BY <2>1 DEF FinishOK
  <2>4. CASE pc' = "drainpoll" /\ UNCHANGED <<ns, unfinished>>
    <3>1. is_draining'[ns']
      BY <1>2, <2>1, <2>4
    <3>2. QED
      BY <1>3, <2>2, <2>3, <2>4, <3>1 DEF FinishOK
  <2>5. CASE current_queue_depth[ns] <= 0 /\ NextDrain(unfinished)
    <3>1. \A t \in inflight : t[2] # ns
      BY <1>1, <1>2, <2>2, <2>5, EmptyAtDepthZero
    <3>2. QED
      BY <1>1, <1>2, <1>3, <2>2, <2>3, <2>5, <3>1, FinishDrainStep
  <2>6. QED
    BY <1>11, <2>4, <2>5 DEF DrainNs
<1>12. CASE EndDrainPoll
  <2>1. pc = "drainpoll" /\ NextDrain(IF current_queue_depth[ns] > 0 THEN unfinished + 1 ELSE unfinished)
    BY <1>12 DEF EndDrainPoll
  <2>2. slot = QueueDepth + 1 /\ call.ret = "none" /\ BeforeCleanup
    BY <1>5, <2>1 DEF FinishOK, Starting, Walks, BeforeCleanup
  <2>3. unfinished = 0 => \A t \in inflight : ns <= t[2]
    BY <2>1 DEF FinishOK, InDrainPoll
  <2>4. PICK u \in Nat : u = IF current_queue_depth[ns] > 0 THEN unfinished + 1 ELSE unfinished
    BY <1>2
  <2>5. u = 0 => unfinished = 0 /\ current_queue_depth[ns] <= 0
    BY <1>2, <2>4
  <2>6. u = 0 => \A t \in inflight : t[2] # ns
    BY <1>1, <1>2, <2>2, <2>5, EmptyAtDepthZero
  <2>7. NextDrain(u)
    BY <2>1, <2>4
  <2>8. QED
    BY <1>1, <1>3, <2>2, <2>3, <2>5, <2>6, <2>7, FinishDrainStep
<1>13. CASE NextCleanup
  <2>1. pc = "cleanup" /\ pc' \in {"cleanup", "done"}
    BY <1>13 DEF NextCleanup
  <2>2. slot' = QueueDepth + 1 /\ call'.ret = "none"
    BY <1>3, <1>5, <2>1 DEF FinishOK, Starting, Walks
  <2>3. QED
    BY <1>3, <2>1, <2>2 DEF FinishOK, InDrainPoll
<1>14. QED
  BY <1>4, <1>7, <1>8, <1>9, <1>10, <1>11, <1>12, <1>13 DEF Elsewhere, MainLoop, Drain

FinishInv == DrainInv /\ FinishOK

LEMMA FinishAlways == Healthy /\ Spec => []FinishInv
<1>1. ASSUME Healthy, DrainInv, DepthExact, FinishOK, [Next]_vars PROVE FinishOK'
  BY <1>1, StepCases, FinishSubmission, FinishCompletion, FinishElsewhere DEF DrainInv, Completion
<1>2. QED
  BY HealthyStays, <1>1, FinishInit, DrainAlways, DepthIsExact, PTL DEF Spec, FinishInv

\* When nothing is in flight, no group can be waiting: rep_completed_num would have
\* reached g_rep_num.
LEMMA NothingWaits ==
    ASSUME Healthy, TypeOK, NEW s \in Slots, inflight \cap Group(s) = {}
    PROVE  ~Waiting(s)
<1>1. rep_completed_num[s] \in 0 .. (RepNum - 1) /\ RepNum = NumNs
  BY DEF TypeOK, Healthy
<1>2. Cardinality(inflight \cap Group(s)) = 0
  BY FS_EmptySet
<1>3. QED
  BY <1>1, <1>2, ConstantTypes DEF Waiting

LEMMA ReleasedAtEnd ==
    ASSUME Healthy, FinishInv
    PROVE  AllReleased
<1>1. SUFFICES ASSUME pc = "done" PROVE freed = Tasks /\ buf_freed = Slots /\ inflight = {}
  BY DEF AllReleased
<1>2. TypeOK /\ SlotsOK /\ FinishOK
  BY DEF FinishInv, DrainInv, HealthyInv
<1>3. inflight = {} /\ slot = QueueDepth + 1
  BY <1>1, <1>2 DEF FinishOK, Starting
<1>4. freed \subseteq Tasks /\ buf_freed \subseteq Slots
  BY <1>2 DEF TypeOK
<1>5. ASSUME NEW s \in Slots PROVE s \in buf_freed /\ Group(s) \subseteq freed
  <2>1. s < slot /\ ~Walking(s) /\ SlotOK(s)
    BY <1>1, <1>2, <1>3, <1>5, ConstantTypes DEF Slots, Walking, SlotsOK
  <2>2. ~Waiting(s)
    BY <1>2, <1>3, <1>5, NothingWaits
  <2>3. Released(s)
    BY <2>1, <2>2, Zenon DEF SlotOK
  <2>4. QED
    BY <2>3 DEF Released
<1>6. Tasks \subseteq freed
  <2>1. SUFFICES ASSUME NEW t \in Tasks PROVE t \in freed
    OBVIOUS
  <2>2. PICK r \in Slots : r = t[1]
    BY DEF Tasks
  <2>3. t \in Group(r)
    BY <2>2, GroupFacts
  <2>4. QED
    BY <1>5, <2>3
<1>7. QED
  BY <1>3, <1>4, <1>5, <1>6

\* work_fn returns with every task and every buffer released and no command with the
\* driver: the drain loop ends only when every namespace is empty, and then no group can
\* still be waiting for its barrier.
THEOREM EverythingReleased == Healthy /\ Spec => []AllReleased
BY HealthyStays, FinishAlways, ReleasedAtEnd, PTL

\* What holds of the rounds until a submission is refused, for every queue depth, every
\* number of replicas and every option, when none is: the barrier of task_complete, one
\* command and one io_id for the replicas in flight, rep_tasks a list of all of them, the
\* release of everything when work_fn returns, and the assertion of submit_single_io_rep.
THEOREM RoundsHold == Healthy /\ Spec => []UntilRefused
<1>1. ASSUME Healthy, FinishInv, RoundsInv, Barrier PROVE UntilRefused
  <2>1. MainNotDraining /\ AllReleased
    BY <1>1, AssertHolds, ReleasedAtEnd DEF FinishInv, DrainInv, HealthyInv
  <2>2. HealthyInv /\ CommandsOK /\ IdsOK /\ ListsOK
    BY <1>1 DEF RoundsInv, HealthyInv
  <2>3. ReplicasAgree /\ GroupListIntact
    BY <2>2, AgreeInFlight, ListIntact
  <2>4. \A t, u \in inflight : t[1] = u[1] => io_id[t] = io_id[u] /\ cmd[t].is_read = cmd[u].is_read
    BY <2>3 DEF ReplicasAgree
  <2>5. QED
    BY <1>1, <2>1, <2>3, <2>4 DEF UntilRefused
<1>2. QED
  BY HealthyStays, <1>1, FinishAlways, RoundsAlways, BarrierHolds, PTL

-----------------------------------------------------------------------------
(* An io_id for every round *)

\* A run limited by -d whose io_ids stay below the width of the field.
Numbered == NumberIos > 0 /\ (NumberIos + 1) * QueueDepth < IdModulus

\* The io_id of round k of slot s, counted from 0.
Number(s, k) == s + k * QueueDepth

LEMMA NumberFacts ==
    ASSUME NEW s \in Slots, NEW k \in Nat
    PROVE  /\ Number(s, k) \in Nat \ {0} /\ Number(s, 0) = s
           /\ Number(s, k) + QueueDepth = Number(s, k + 1)
           /\ k <= NumberIos => Number(s, k) <= (NumberIos + 1) * QueueDepth
<1>1. s \in Nat /\ 1 <= s /\ s <= QueueDepth /\ QueueDepth \in Nat /\ NumberIos \in Nat
  BY ConstantsAssumption DEF Slots
<1>2. k * QueueDepth \in Nat /\ (k + 1) * QueueDepth = k * QueueDepth + QueueDepth
  BY <1>1
<1>3. (NumberIos + 1) * QueueDepth = NumberIos * QueueDepth + QueueDepth
  BY <1>1
<1>4. k <= NumberIos => k * QueueDepth <= NumberIos * QueueDepth
  <2>1. ASSUME k <= NumberIos PROVE k * QueueDepth <= NumberIos * QueueDepth
    <3>1. PICK d \in Nat : NumberIos = k + d
      BY <1>1, <2>1, NumberIos - k \in Nat
    <3>2. NumberIos * QueueDepth = k * QueueDepth + d * QueueDepth /\ d * QueueDepth \in Nat
      BY <1>1, <3>1
    <3>3. QED
      BY <1>2, <3>2
  <2>2. QED
    BY <2>1
<1>5. NumberIos * QueueDepth \in Nat
  BY <1>1
<1>6. QED
  BY <1>1, <1>2, <1>3, <1>4, <1>5 DEF Number

\* The numbers of different slots never meet.
LEMMA NumbersDiffer ==
    ASSUME NEW s \in Slots, NEW u \in Slots, NEW j \in Nat, NEW k \in Nat,
           Number(s, j) = Number(u, k)
    PROVE  s = u
<1>1. /\ s \in Nat /\ 1 <= s /\ s <= QueueDepth /\ u \in Nat /\ 1 <= u /\ u <= QueueDepth
      /\ QueueDepth \in Nat
  BY ConstantsAssumption DEF Slots
<1>2. ASSUME NEW a \in Nat, NEW b \in Nat, a < b PROVE a * QueueDepth + QueueDepth <= b * QueueDepth
  <2>1. PICK d \in Nat : b = a + 1 + d
    BY <1>2, b - a - 1 \in Nat
  <2>2. b * QueueDepth = a * QueueDepth + QueueDepth + d * QueueDepth /\ d * QueueDepth \in Nat
    BY <1>1, <2>1
  <2>3. a * QueueDepth \in Nat
    BY <1>1
  <2>4. QED
    BY <1>1, <2>2, <2>3
<1>3. j * QueueDepth \in Nat /\ k * QueueDepth \in Nat /\ s + j * QueueDepth = u + k * QueueDepth
  BY <1>1 DEF Number
<1>4. CASE j < k
  <2>1. j * QueueDepth + QueueDepth <= k * QueueDepth
    BY <1>2, <1>4
  <2>2. QED
    BY <1>1, <1>3, <2>1
<1>5. CASE k < j
  <2>1. k * QueueDepth + QueueDepth <= j * QueueDepth
    BY <1>2, <1>5
  <2>2. QED
    BY <1>1, <1>3, <2>1
<1>6. CASE j = k
  BY <1>1, <1>3, <1>6
<1>7. QED
  BY <1>4, <1>5, <1>6

\* task_complete counts on by the queue depth, as long as the sum fits the field.
LEMMA NextNumber ==
    ASSUME Numbered, NEW s \in Slots, NEW k \in Nat, k < NumberIos
    PROVE  NextIoId(Number(s, k)) = Number(s, k + 1)
<1>1. Number(s, k) + QueueDepth = Number(s, k + 1)
  BY NumberFacts
<1>2. k + 1 \in Nat /\ k + 1 <= NumberIos
  BY ConstantsAssumption
<1>3. Number(s, k + 1) \in Nat \ {0} /\ Number(s, k + 1) <= (NumberIos + 1) * QueueDepth
  BY <1>2, NumberFacts
<1>4. (NumberIos + 1) * QueueDepth \in Nat /\ IdModulus \in Nat
  BY ConstantsAssumption
<1>5. Number(s, k + 1) < IdModulus
  BY <1>3, <1>4 DEF Numbered
<1>6. Number(s, k + 1) % IdModulus = Number(s, k + 1)
  BY <1>3, <1>4, <1>5
<1>7. QED
  BY <1>1, <1>3, <1>6 DEF NextIoId

\* The main task of slot s has an io_id that it was not yet sent with.
Unsent(s) ==
    \/ Submits(s) /\ MainTask(s) \notin Before(s, call.cur)
    \/ Renews(s) /\ MainTask(s) \in Before(s, call.cur)

\* The round of slot s has a number of the slot, and its namespace was sent more commands
\* than the slot has had rounds.
NumberOK(s) ==
    \E k \in Nat : /\ io_id[MainTask(s)] = Number(s, k)
                   /\ k + (IF Unsent(s) THEN 0 ELSE 1) <= io_submitted[1]

NumbersOK ==
    /\ \A s \in Slots \ buf_freed : s < slot => NumberOK(s)
    /\ pc = "renew" => \E k \in Nat : k <= io_submitted[1] /\ call.newid = Number(call.main, k)

\* A slot whose round does not move.
LEMMA NumberFrame ==
    ASSUME NEW s \in Slots, NumberOK(s), io_id'[MainTask(s)] = io_id[MainTask(s)],
           io_submitted[1] \in Nat, io_submitted'[1] \in Nat, io_submitted[1] <= io_submitted'[1],
           Unsent(s) => Unsent(s)'
    PROVE  NumberOK(s)'
<1>1. PICK k \in Nat : /\ io_id[MainTask(s)] = Number(s, k)
                       /\ k + (IF Unsent(s) THEN 0 ELSE 1) <= io_submitted[1]
  BY DEF NumberOK
<1>2. k + (IF Unsent(s)' THEN 0 ELSE 1) <= io_submitted'[1]
  BY <1>1
<1>3. io_id'[MainTask(s)] = Number(s, k)
  BY <1>1
<1>4. QED
  BY <1>2, <1>3 DEF NumberOK, Number, MainTask

\* A slot that is walked neither before nor after a step that changes no io_id.
LEMMA NumbersFrame ==
    ASSUME NumbersOK, io_submitted[1] \in Nat, io_submitted'[1] \in Nat,
           io_submitted[1] <= io_submitted'[1], UNCHANGED <<io_id, slot>>, buf_freed \subseteq buf_freed',
           \/ pc \notin {"submit", "renew"} /\ pc' \notin {"submit", "renew"}
           \/ UNCHANGED <<pc, call>>
    PROVE  NumbersOK'
<1>1. ASSUME NEW s \in Slots \ buf_freed', s < slot' PROVE NumberOK(s)'
  <2>1. NumberOK(s)
    BY <1>1 DEF NumbersOK
  <2>2. Unsent(s) => Unsent(s)'
    BY DEF Unsent, Submits, Renews, MainTask, Before, Group
  <2>3. QED
    BY <1>1, <2>1, <2>2, NumberFrame
<1>2. ASSUME pc' = "renew" PROVE \E k \in Nat : k <= io_submitted'[1] /\ call'.newid = Number(call'.main, k)
  <2>1. UNCHANGED <<pc, call>>
    BY <1>2
  <2>2. PICK k \in Nat : k <= io_submitted[1] /\ call.newid = Number(call.main, k)
    BY <1>2, <2>1 DEF NumbersOK
  <2>3. k <= io_submitted'[1] /\ call'.newid = Number(call'.main, k)
    BY <2>1, <2>2
  <2>4. QED
    BY <2>3
<1>3. QED
  BY <1>1, <1>2 DEF NumbersOK, Number

LEMMA NumbersSubmission ==
    ASSUME Healthy, HealthyInv, NumbersOK, AllocateGroup \/ SubmitReplica \/ SubmitDone
    PROVE  NumbersOK'
<1>1. /\ io_submitted \in [NsCtx -> Nat] /\ slot \in Int /\ 1 \in NsCtx
      /\ io_submitted[1] \in Nat
  BY ConstantTypes DEF HealthyInv, TypeOK
<1>2. CASE AllocateGroup
  <2>1. PICK r \in Slots :
           /\ r = slot /\ slot' = slot + 1 /\ pc = "submit_io_rep" /\ pc' = "submit"
           /\ call'.main = r /\ Before(r, call'.cur) = {} /\ UNCHANGED <<buf_freed, counters>>
    BY <1>2, AllocateGroupStep
  <2>2. \A t \in Tasks : io_id'[t] = IF t[1] = slot THEN slot ELSE io_id[t]
    BY <1>2 DEF AllocateGroup
  <2>3. UNCHANGED io_submitted
    BY <2>1 DEF counters
  <2>4. ASSUME NEW s \in Slots \ buf_freed', s < slot' PROVE NumberOK(s)'
    <3>1. MainTask(s) \in Tasks /\ MainTask(s)[1] = s
      BY <2>4, HeadsTyped DEF MainTask
    <3>2. CASE s = r
      <4>1. io_id'[MainTask(s)] = Number(s, 0)
        BY <2>1, <2>2, <3>1, <3>2, NumberFacts
      <4>2. Unsent(s)'
        BY <2>1, <3>2 DEF Unsent, Submits, Before, Group, MainTask
      <4>3. 0 + (IF Unsent(s)' THEN 0 ELSE 1) <= io_submitted'[1]
        BY <1>1, <2>3, <4>2
      <4>4. QED
        BY <4>1, <4>3 DEF NumberOK, Number, MainTask
    <3>3. CASE s # r
      <4>1. s \in Slots \ buf_freed /\ s < slot
        BY <1>1, <2>1, <2>4, <3>3 DEF Slots
      <4>2. NumberOK(s) /\ io_id'[MainTask(s)] = io_id[MainTask(s)]
        BY <2>1, <2>2, <3>1, <3>3, <4>1 DEF NumbersOK
      <4>3. ~Unsent(s)
        BY <2>1 DEF Unsent, Submits, Renews
      <4>4. QED
        BY <1>1, <2>3, <2>4, <4>2, <4>3, NumberFrame
    <3>4. QED
      BY <3>2, <3>3
  <2>5. QED
    BY <2>1, <2>4 DEF NumbersOK
<1>3. CASE SubmitReplica
  <2>1. PICK r \in Slots : \E c \in Group(r) :
           /\ r = call.main /\ c = call.cur /\ pc = "submit" /\ pc' = "submit"
           /\ call'.main = r /\ Accepted(c) /\ Before(r, call'.cur) = Before(r, c) \cup {c}
           /\ UNCHANGED <<loopvars, io_id, buf_freed>>
    BY <1>3, SubmitReplicaStep
  <2>2. PICK c \in Group(r) :
           /\ r = call.main /\ c = call.cur /\ pc = "submit" /\ pc' = "submit"
           /\ call'.main = r /\ Accepted(c) /\ Before(r, call'.cur) = Before(r, c) \cup {c}
           /\ UNCHANGED <<loopvars, io_id, buf_freed>>
    BY <2>1
  <2>3. PICK m \in NsCtx : c = <<r, m>> /\ m = c[2]
    BY GroupFacts
  <2>4. io_submitted' = [io_submitted EXCEPT ![m] = @ + 1] /\ UNCHANGED slot
    BY <2>2, <2>3 DEF Accepted, loopvars
  <2>5. /\ io_submitted'[1] \in Nat /\ io_submitted[1] <= io_submitted'[1]
        /\ m = 1 => io_submitted'[1] = io_submitted[1] + 1
    BY <1>1, <2>4
  <2>6. ASSUME NEW s \in Slots \ buf_freed', s < slot' PROVE NumberOK(s)'
    <3>1. NumberOK(s) /\ UNCHANGED io_id
      BY <2>2, <2>4, <2>6 DEF NumbersOK
    <3>2. CASE s # r \/ m # 1
      <4>1. MainTask(s) # c
        BY <2>3, <3>2 DEF MainTask
      <4>2. Unsent(s) => Unsent(s)'
        BY <2>2, <4>1 DEF Unsent, Submits, Renews, MainTask, Before, Group
      <4>3. QED
        BY <1>1, <2>5, <2>6, <3>1, <4>2, NumberFrame
    <3>3. CASE s = r /\ m = 1
      <4>1. PICK k \in Nat : /\ io_id[MainTask(s)] = Number(s, k)
                             /\ k + (IF Unsent(s) THEN 0 ELSE 1) <= io_submitted[1]
        BY <3>1 DEF NumberOK
      <4>2. k + (IF Unsent(s)' THEN 0 ELSE 1) <= io_submitted'[1]
        BY <1>1, <2>5, <3>3, <4>1
      <4>3. io_id'[MainTask(s)] = Number(s, k)
        BY <3>1, <4>1
      <4>4. QED
        BY <4>2, <4>3 DEF NumberOK, Number, MainTask
    <3>4. QED
      BY <3>2, <3>3
  <2>7. QED
    BY <2>2, <2>6 DEF NumbersOK
<1>4. CASE SubmitDone
  <2>1. /\ call.main \in Slots /\ pc = "submit" /\ pc' \notin {"submit", "renew"}
        /\ Before(call.main, call.cur) = Group(call.main)
        /\ UNCHANGED <<slot, io_id, buf_freed, io_submitted>>
    BY <1>4, SubmitDoneStep DEF loopvars, taskvars, counters
  <2>2. ASSUME NEW s \in Slots \ buf_freed', s < slot' PROVE NumberOK(s)'
    <3>1. ~Unsent(s)
      BY <2>1, <2>2, GroupFacts DEF Unsent, Submits, Renews
    <3>2. NumberOK(s)
      BY <2>1, <2>2 DEF NumbersOK
    <3>3. io_id'[MainTask(s)] = io_id[MainTask(s)] /\ io_submitted'[1] = io_submitted[1]
      BY <2>1
    <3>4. QED
      BY <1>1, <3>1, <3>2, <3>3, NumberFrame
  <2>3. QED
    BY <2>1, <2>2 DEF NumbersOK
<1>5. QED
  BY <1>2, <1>3, <1>4

LEMMA NumbersCompletion ==
    ASSUME Healthy, Numbered, DrainInv, NumbersOK, Completion
    PROVE  NumbersOK'
<1>1. /\ HealthyInv /\ DrainOK /\ slot \in Int /\ 1 \in NsCtx
      /\ io_id \in [Tasks -> 0 .. (IdModulus - 1)] /\ io_submitted[1] \in Nat
  <2>1. /\ io_submitted \in [NsCtx -> Nat] /\ slot \in 1 .. (QueueDepth + 1)
        /\ io_id \in [Tasks -> 0 .. (IdModulus - 1)]
    BY Zenon DEF DrainInv, HealthyInv, TypeOK
  <2>2. QED
    BY <2>1, ConstantTypes DEF DrainInv
<1>2. ASSUME NEW t \in Tasks, IoComplete(t) PROVE NumbersOK'
  <2>1. PICK r \in Slots :
           /\ pc \in {"poll", "drainpoll"} /\ r < slot /\ Waiting(r)
           /\ \/ /\ pc' = "renew" /\ call'.main = r /\ call'.newid = NextIoId(io_id[MainTask(r)])
                 /\ Before(r, call'.cur) = {}
              \/ pc' = pc
           /\ UNCHANGED <<loopvars, io_id, buf_freed, io_submitted>>
    BY <1>1, <1>2, IoCompleteStep
  <2>2. UNCHANGED slot
    BY <2>1 DEF loopvars
  <2>3. CASE pc' = pc
    BY <1>1, <2>1, <2>2, <2>3, NumbersFrame
  <2>4. CASE /\ pc' = "renew" /\ call'.main = r /\ call'.newid = NextIoId(io_id[MainTask(r)])
             /\ Before(r, call'.cur) = {}
    <3>1. \A s \in Slots : ~Unsent(s)
      BY <2>1 DEF Unsent, Submits, Renews
    <3>2. ASSUME NEW s \in Slots \ buf_freed', s < slot' PROVE NumberOK(s)'
      <4>1. NumberOK(s)
        BY <2>1, <2>2, <3>2 DEF NumbersOK
      <4>2. QED
        BY <1>1, <2>1, <3>1, <3>2, <4>1, NumberFrame
    <3>3. \E k \in Nat : k <= io_submitted[1] /\ call'.newid = Number(r, k)
      <4>1. NumberOK(r)
        BY <2>1 DEF NumbersOK, Waiting, Alive
      <4>2. PICK k \in Nat : io_id[MainTask(r)] = Number(r, k) /\ k + 1 <= io_submitted[1]
        BY <3>1, <4>1 DEF NumberOK
      <4>3. io_submitted[1] <= NumberIos
        BY <1>1 DEF DrainOK, IoBudget, Numbered
      <4>4. k < NumberIos /\ k + 1 \in Nat
        BY <1>1, <4>2, <4>3, ConstantsAssumption
      <4>5. call'.newid = Number(r, k + 1)
        BY <2>4, <4>2, <4>4, NextNumber
      <4>6. QED
        BY <4>2, <4>4, <4>5
    <3>4. QED
      BY <2>1, <2>4, <3>2, <3>3 DEF NumbersOK, Number
  <2>5. QED
    BY <2>1, <2>3, <2>4
<1>3. CASE Renew
  <2>1. PICK r \in Slots : \E c \in Group(r) :
           /\ r = call.main /\ c = call.cur /\ pc = "renew" /\ Idle(r)
           /\ call'.main = r /\ call'.newid = call.newid
           /\ \/ pc' = "release" /\ buf_freed' = buf_freed \cup {r} /\ UNCHANGED io_id
              \/ /\ pc' = "renew" /\ UNCHANGED buf_freed
                 /\ io_id' = [io_id EXCEPT ![c] = call.newid]
                 /\ Before(r, call'.cur) = Before(r, c) \cup {c}
           /\ UNCHANGED <<loopvars, counters>>
    BY <1>1, <1>3, RenewStep
  <2>2. PICK c \in Group(r) :
           /\ r = call.main /\ c = call.cur /\ pc = "renew" /\ Idle(r)
           /\ call'.main = r /\ call'.newid = call.newid
           /\ \/ pc' = "release" /\ buf_freed' = buf_freed \cup {r} /\ UNCHANGED io_id
              \/ /\ pc' = "renew" /\ UNCHANGED buf_freed
                 /\ io_id' = [io_id EXCEPT ![c] = call.newid]
                 /\ Before(r, call'.cur) = Before(r, c) \cup {c}
           /\ UNCHANGED <<loopvars, counters>>
    BY <2>1
  <2>3. UNCHANGED <<slot, io_submitted>> /\ r \notin buf_freed /\ buf_freed \subseteq buf_freed'
    BY <2>2 DEF loopvars, counters, Idle, Alive
  <2>4. PICK k \in Nat : k <= io_submitted[1] /\ call.newid = Number(r, k)
    BY <2>2 DEF NumbersOK
  <2>5. ASSUME NEW s \in Slots \ buf_freed', s < slot' PROVE NumberOK(s)'
    <3>1. NumberOK(s) /\ MainTask(s) \in Tasks /\ c \in Tasks
      BY <2>3, <2>5, HeadsTyped, GroupFacts DEF NumbersOK
    <3>2. CASE MainTask(s) # c
      <4>1. io_id'[MainTask(s)] = io_id[MainTask(s)]
        BY <1>1, <2>2, <3>1, <3>2
      <4>2. Unsent(s) => Unsent(s)'
        BY <2>2, <2>5 DEF Unsent, Submits, Renews, MainTask, Before, Group
      <4>3. QED
        BY <1>1, <2>3, <2>5, <3>1, <4>1, <4>2, NumberFrame
    <3>3. CASE MainTask(s) = c
      <4>1. s = r
        <5>1. MainTask(s)[1] = s /\ c[1] = r
          BY GroupFacts DEF MainTask
        <5>2. QED
          BY <3>3, <5>1
      <4>2. /\ pc' = "renew" /\ io_id' = [io_id EXCEPT ![c] = call.newid]
            /\ Before(r, call'.cur) = Before(r, c) \cup {c}
        BY <2>2, <2>5, <4>1
      <4>3. Unsent(s)'
        BY <2>2, <3>3, <4>1, <4>2 DEF Unsent, Renews, MainTask, Before, Group
      <4>4. io_id'[MainTask(s)] = Number(s, k) /\ k + 0 <= io_submitted'[1]
        BY <1>1, <2>3, <2>4, <3>1, <3>3, <4>1, <4>2
      <4>5. QED
        BY <4>3, <4>4 DEF NumberOK, Number, MainTask
    <3>4. QED
      BY <3>2, <3>3
  <2>6. pc' = "renew" => \E j \in Nat : j <= io_submitted'[1] /\ call'.newid = Number(call'.main, j)
    BY <2>2, <2>3, <2>4
  <2>7. QED
    BY <2>5, <2>6 DEF NumbersOK, Number
<1>4. CASE RenewDone
  <2>1. PICK r \in Slots :
           /\ r = call.main /\ pc = "renew" /\ pc' = "submit" /\ Before(r, call.cur) = Group(r)
           /\ call'.main = r /\ Before(r, call'.cur) = {}
           /\ UNCHANGED <<slot, io_id, buf_freed, io_submitted>>
    BY <1>1, <1>4, RenewDoneStep DEF loopvars, taskvars, counters
  <2>2. ASSUME NEW s \in Slots \ buf_freed', s < slot' PROVE NumberOK(s)'
    <3>1. NumberOK(s)
      BY <2>1, <2>2 DEF NumbersOK
    <3>2. Unsent(s) => Unsent(s)'
      BY <2>1, <2>2 DEF Unsent, Submits, Renews, MainTask, Before, Group
    <3>3. io_id'[MainTask(s)] = io_id[MainTask(s)] /\ io_submitted'[1] = io_submitted[1]
      BY <2>1
    <3>4. QED
      BY <1>1, <3>1, <3>2, <3>3, NumberFrame
  <2>3. QED
    BY <2>1, <2>2 DEF NumbersOK
<1>5. CASE Release \/ ReleaseDone
  <2>1. /\ pc = "release" /\ pc' \notin {"submit", "renew"}
        /\ UNCHANGED <<slot, io_id, buf_freed, io_submitted>>
    BY <1>1, <1>5, ReleaseStep DEF loopvars, counters
  <2>2. QED
    BY <1>1, <2>1, NumbersFrame
<1>6. QED
  BY <1>2, <1>3, <1>4, <1>5 DEF Completion

LEMMA NumbersNext ==
    ASSUME Healthy, Numbered, DrainInv, NumbersOK, [Next]_vars
    PROVE  NumbersOK'
<1>1. HealthyInv /\ ~warmup /\ io_submitted[1] \in Nat
  BY ConstantTypes DEF DrainInv, DrainOK, Numbered, HealthyInv, TypeOK
<1>2. CASE Elsewhere
  <2>1. /\ UNCHANGED <<slot, call, io_id, buf_freed, io_submitted>>
        /\ pc' = pc \/ (pc \notin Walks /\ pc' \notin Walks)
    BY <1>1, <1>2, ElsewhereStep DEF HealthyInv
  <2>2. QED
    BY <1>1, <2>1, NumbersFrame DEF Walks
<1>3. QED
  BY <1>1, <1>2, StepCases, NumbersSubmission, NumbersCompletion DEF Completion

\* No two slots in flight share an io_id: each counts on from its own number by the depth.
LEMMA IdsDiffer ==
    ASSUME HealthyInv, IdsOK, NumbersOK
    PROVE  UniqueIoIds
<1>1. SUFFICES ASSUME NEW t \in inflight, NEW u \in inflight, io_id[t] = io_id[u] PROVE t[1] = u[1]
  BY DEF UniqueIoIds
<1>2. ASSUME NEW v \in inflight PROVE \E s \in Slots, k \in Nat : s = v[1] /\ io_id[v] = Number(s, k)
  <2>1. PICK s \in Slots : s = v[1] /\ v \in Group(s) /\ s < slot /\ s \notin buf_freed /\ ~Renews(s)
    BY <1>2, InFlightIsAlive
  <2>2. io_id[v] = io_id[MainTask(s)]
    BY <2>1 DEF IdsOK
  <2>3. \E k \in Nat : io_id[MainTask(s)] = Number(s, k)
    BY <2>1 DEF NumbersOK, NumberOK
  <2>4. QED
    BY <2>1, <2>2, <2>3
<1>3. PICK s \in Slots, j \in Nat : s = t[1] /\ io_id[t] = Number(s, j)
  BY <1>2
<1>4. PICK r \in Slots, k \in Nat : r = u[1] /\ io_id[u] = Number(r, k)
  BY <1>2
<1>5. s = r
  <2>1. Number(s, j) = Number(r, k)
    BY <1>1, <1>3, <1>4
  <2>2. QED
    BY <2>1, NumbersDiffer
<1>6. QED
  BY <1>3, <1>4, <1>5

\* Every round is one command, for every queue depth and number of replicas: its replicas
\* carry one offset, direction and io_id, the io_id is no other slot's, every replica is
\* addressed inside its namespace, and none is left out.  The io_ids are those of a run
\* limited by -d that stays below their width; offsets that are drawn need a main
\* namespace no larger than the others.
THEOREM RoundIsOneCommand == Healthy /\ Sized /\ Numbered /\ Spec => []OneCommandPerRound
<1>1. Numbered => []Numbered
  <2>1. Numbered => Numbered'
    BY DEF Numbered
  <2>2. QED
    BY <2>1, PTL
<1>2. Healthy /\ Numbered /\ DrainInv /\ NumbersOK /\ [Next]_vars => NumbersOK'
  BY NumbersNext
<1>3. Init => NumbersOK
  BY DEF Init, NumbersOK, Slots
<1>4. RoundsInv /\ RangeOK /\ NumbersOK /\ Lockstep => OneCommandPerRound
  <2>1. SUFFICES ASSUME RoundsInv, RangeOK, NumbersOK, Lockstep PROVE OneCommandPerRound
    OBVIOUS
  <2>2. HealthyInv /\ CommandsOK /\ IdsOK
    BY <2>1 DEF RoundsInv
  <2>3. ReplicasAgree /\ UniqueIoIds
    BY <2>1, <2>2, AgreeInFlight, IdsDiffer
  <2>4. OffsetsInRange
    <3>1. \A t \in inflight : t \in Tasks /\ t[2] \in NsCtx
      BY <2>2 DEF HealthyInv, TypeOK, Tasks
    <3>2. QED
      BY <2>1, <3>1 DEF OffsetsInRange, RangeOK, InRange
  <2>5. QED
    BY <2>1, <2>3, <2>4 DEF OneCommandPerRound
<1>5. QED
  BY <1>1, <1>2, <1>3, <1>4, HealthyStays, DrainAlways, RoundsAlways, RangeAlways,
     NamespacesInLockstep, PTL DEF Spec
=============================================================================
