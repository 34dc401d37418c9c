-------------------------- MODULE RepWorker_proofs --------------------------
(***************************************************************************)
(* Theorems about RepWorker, for every queue depth, number of replicas and *)
(* mode of operation.                                                      *)
(***************************************************************************)
EXTENDS RepWorker, FiniteSetTheorems, TLAPS

-----------------------------------------------------------------------------
(* Tasks and tail queues *)

\* The null pointer is neither a task nor the head of a list.
LEMMA NullIsNoLocation == NULL \notin Locations
BY DEF NULL, Locations, Tasks, Heads, Slots, NsCtx

\* The heads of the lists are locations of their own.
LEMMA HeadsTyped ==
    /\ \A s \in Slots : RepTasks(s) \in Heads /\ MainTask(s) \in Tasks
    /\ \A n \in NsCtx : QueuedTasks(n) \in Heads
    /\ SwapList \in Heads
BY ConstantsAssumption DEF RepTasks, MainTask, QueuedTasks, SwapList, Heads, Tasks, Slots, NsCtx

\* What the macros of sys/queue.h return is a set of tail queues again.
LEMMA QueuesTyped ==
    ASSUME NEW qq \in TailQueues, NEW h \in Heads, NEW t \in Tasks
    PROVE  /\ InsertTail(qq, h, t) \in TailQueues
           /\ Remove(qq, h, t) \in TailQueues
           /\ First(qq, h) \in Tasks \cup {NULL}
           /\ NextOf(qq, t) \in Tasks \cup {NULL}
<1>1. Tasks \subseteq Locations /\ Heads \subseteq Locations
  BY DEF Locations
<1>2. InsertTail(qq, h, t) \in TailQueues
  BY <1>1 DEF InsertTail, TailQueues
<1>3. Remove(qq, h, t) \in TailQueues
  BY <1>1 DEF Remove, TailQueues
<1>4. First(qq, h) \in Tasks \cup {NULL} /\ NextOf(qq, t) \in Tasks \cup {NULL}
  BY <1>1 DEF First, NextOf, TailQueues
<1>5. QED
  BY <1>2, <1>3, <1>4

\* TAILQ_FIRST returns a task or the null pointer.
LEMMA FirstTyped ==
    ASSUME NEW qq \in TailQueues, NEW h \in Heads
    PROVE  First(qq, h) \in Tasks \cup {NULL}
BY DEF First, TailQueues, Locations

LEMMA MoveAllTyped ==
    ASSUME NEW qq \in TailQueues, NEW h \in Heads, NEW g \in Heads
    PROVE  MoveAll(qq, h, g) \in TailQueues
BY DEF MoveAll, TailQueues, Locations

LEMMA LinkGroupTyped ==
    ASSUME q \in TailQueues, NEW s \in Slots
    PROVE  LinkGroup(s) \in TailQueues
<1>1. FirstReplica \in NsCtx /\ LastReplica \in NsCtx
  BY ConstantsAssumption DEF FirstReplica, LastReplica, NsCtx
<1>2. \A n \in NsCtx : Successor(n) \in NsCtx \cup {0}
  BY ConstantsAssumption DEF Successor, NsCtx
<1>3. \A n \in NsCtx : n # FirstReplica => Predecessor(n) \in NsCtx
  BY ConstantsAssumption DEF Predecessor, FirstReplica, NsCtx
<1>4. QED
  BY <1>1, <1>2, <1>3 DEF LinkGroup, TailQueues, Locations, RepTasks, Tasks, Heads

-----------------------------------------------------------------------------
(* Type correctness *)

\* The frame of a call is filled in exactly while the thread is in the call.
CallOK ==
    /\ pc \in {"submit", "renew", "release"} => call.ret # "none" /\ call.main \in Slots
    /\ pc \notin {"submit", "renew", "release", "halted"} => call = NoCall

\* The constants, as far as the types need them.
LEMMA ConstantTypes ==
    /\ NumNs \in Nat /\ NumNs >= 1 /\ QueueDepth \in Nat /\ QueueDepth >= 1
    /\ RepNum \in Nat /\ RepNum >= 1 /\ IdModulus \in Nat /\ IdModulus > QueueDepth
    /\ 1 \in NsCtx /\ 0 \in Offsets
    /\ NoCommand \in Commands /\ NoCall \in Frames
<1>1. /\ NumNs \in Nat /\ NumNs >= 1 /\ QueueDepth \in Nat /\ QueueDepth >= 1
      /\ RepNum \in Nat /\ RepNum >= 1 /\ IdModulus \in Nat /\ IdModulus > QueueDepth
      /\ 1 \in NsCtx
  BY ConstantsAssumption DEF NsCtx
<1>2. 0 \in Offsets
  <2>1. SizeInIos[1] \in Nat \ {0} /\ 0 .. (SizeInIos[1] - 1) \subseteq Offsets
    BY <1>1, ConstantsAssumption
  <2>2. 0 \in 0 .. (SizeInIos[1] - 1)
    BY <2>1
  <2>3. QED
    BY <2>1, <2>2
<1>3. NoCommand \in Commands
  BY <1>2 DEF NoCommand, Commands
<1>4. NoCall \in Frames
  BY <1>1, <1>3 DEF NoCall, Frames
<1>5. QED
  BY <1>1, <1>2, <1>3, <1>4

\* Entering submit_single_io_rep.
LEMMA StartRoundTyped ==
    ASSUME TypeOK, NEW s \in Slots, NEW qq \in TailQueues,
           NEW return \in {"submit_io_rep", "poll", "drainpoll", "cleanup"},
           StartRound(s, qq, return)
    PROVE  /\ pc' = "submit" /\ call' \in Frames /\ offset_in_ios' \in Nat
           /\ call'.ret = return /\ call'.main = s
<1>1. PICK off \in Offsets, rd \in Ops :
        /\ NextOffset(off)
        /\ pc' = "submit"
        /\ call' = [ret |-> return, main |-> s, cur |-> First(qq, RepTasks(s)),
                    gen |-> [offset_in_ios |-> off, is_read |-> rd], newid |-> 0]
  BY DEF StartRound
<1>2. First(qq, RepTasks(s)) \in Tasks \cup {NULL}
  BY HeadsTyped, QueuesTyped, Tasks # {} DEF First, TailQueues, Locations
<1>3. [offset_in_ios |-> off, is_read |-> rd] \in Commands
  BY ConstantsAssumption DEF Commands
<1>4. s \in 0 .. QueueDepth
  BY ConstantTypes DEF Slots
<1>5. 0 \in 0 .. (IdModulus - 1)
  BY ConstantTypes
<1>6. call' \in Frames /\ call'.ret = return /\ call'.main = s
  BY <1>1, <1>2, <1>3, <1>4, <1>5 DEF Frames
<1>7. offset_in_ios' \in Nat
  BY <1>1 DEF NextOffset, TypeOK
<1>8. QED
  BY <1>1, <1>6, <1>7

LEMMA NextIoIdTyped == \A id \in 0 .. (IdModulus - 1) : NextIoId(id) \in 0 .. (IdModulus - 1)
BY ConstantTypes DEF NextIoId

\* task_complete, up to the walk over the replicas.
LEMMA TaskCompleteTyped ==
    ASSUME TypeOK, NEW t \in Tasks,
           NEW return \in {"poll", "drainpoll", "cleanup"},
           TaskComplete(t, return)
    PROVE  /\ current_queue_depth' \in [NsCtx -> Int]
           /\ io_completed' \in [NsCtx -> Nat]
           /\ rep_completed_num' \in [Slots -> 0 .. (RepNum - 1)]
           /\ \/ pc' = return /\ call' = call
              \/ /\ pc' = "renew" /\ call' \in Frames
                 /\ call'.ret = return /\ call'.main \in Slots
<1>1. t[1] \in Slots /\ t[2] \in NsCtx
  BY DEF Tasks
<1>2. current_queue_depth' \in [NsCtx -> Int] /\ io_completed' \in [NsCtx -> Nat]
  BY <1>1 DEF TaskComplete, OneLess, TypeOK
<1>3. CASE RoundComplete(t[1])
  <2>1. First(q, RepTasks(t[1])) \in Tasks \cup {NULL}
    BY <1>1, HeadsTyped, QueuesTyped DEF TypeOK
  <2>2. NextIoId(io_id[MainTask(t[1])]) \in 0 .. (IdModulus - 1)
    BY <1>1, HeadsTyped, NextIoIdTyped DEF TypeOK
  <2>3. t[1] \in 0 .. QueueDepth
    BY <1>1, ConstantTypes DEF Slots
  <2>4. call' \in Frames /\ call'.ret = return /\ call'.main \in Slots
    BY <1>1, <1>3, <2>1, <2>2, <2>3, ConstantTypes DEF TaskComplete, Frames
  <2>5. rep_completed_num' \in [Slots -> 0 .. (RepNum - 1)]
    BY <1>1, <1>3, ConstantTypes DEF TaskComplete, TypeOK
  <2>6. QED
    BY <1>2, <1>3, <2>4, <2>5 DEF TaskComplete
<1>4. CASE ~RoundComplete(t[1])
  <2>1. rep_completed_num[t[1]] + 1 \in 0 .. (RepNum - 1)
    BY <1>1, <1>4, ConstantTypes DEF RoundComplete, TypeOK
  <2>2. rep_completed_num' \in [Slots -> 0 .. (RepNum - 1)]
    BY <1>1, <1>4, <2>1 DEF TaskComplete, TypeOK
  <2>3. QED
    BY <1>2, <1>4, <2>2 DEF TaskComplete
<1>5. QED
  BY <1>3, <1>4

\* The initial state.
LEMMA TypeInit == Init => TypeOK /\ CallOK
<1>1. SUFFICES ASSUME Init PROVE TypeOK /\ CallOK
  OBVIOUS
<1>2. EmptyQueues \in TailQueues
  BY DEF EmptyQueues, TailQueues, Locations
<1>3. CallOK
  BY <1>1 DEF Init, CallOK
<1>4. Warmup \in BOOLEAN /\ 0 \in 0 .. MaxRejects /\ 0 \in 0 .. MaxErrors
  BY ConstantsAssumption
<1>5. /\ 0 \in 0 .. (IdModulus - 1) /\ 0 \in 0 .. (RepNum - 1) /\ 1 \in 1 .. (QueueDepth + 1)
  BY ConstantTypes
<1>6. /\ pc = "submit_io_rep" /\ ns \in NsCtx /\ slot \in 1 .. (QueueDepth + 1)
      /\ tmp \in Tasks \cup {NULL} /\ all_draining \in BOOLEAN /\ unfinished \in Nat
      /\ warmup \in BOOLEAN /\ call \in Frames /\ q \in TailQueues
  BY <1>1, <1>2, <1>4, <1>5, ConstantTypes DEF Init
<1>7. /\ io_id \in [Tasks -> 0 .. (IdModulus - 1)] /\ cmd \in [Tasks -> Commands]
      /\ rep_completed_num \in [Slots -> 0 .. (RepNum - 1)]
      /\ inflight \subseteq Tasks /\ freed \subseteq Tasks /\ buf_freed \subseteq Slots
  BY <1>1, <1>5, ConstantTypes DEF Init
<1>8. /\ current_queue_depth \in [NsCtx -> Int]
      /\ io_submitted \in [NsCtx -> Nat] /\ io_completed \in [NsCtx -> Nat]
      /\ status \in [NsCtx -> {0, 1}] /\ offset_in_ios \in Nat
      /\ rejects \in 0 .. MaxRejects /\ errors \in 0 .. MaxErrors
  BY <1>1, <1>4 DEF Init
<1>9. /\ is_draining \in [NsCtx -> BOOLEAN] /\ g_exit \in BOOLEAN
      /\ fault \in Faults \cup {"none"}
  BY <1>1, Zenon DEF Init
<1>10. QED
  BY <1>3, <1>6, <1>7, <1>8, <1>9 DEF TypeOK

\* submit_io_rep and submit_single_io_rep.
LEMMA TypeSubmission == TypeOK /\ CallOK /\ Submission => TypeOK' /\ CallOK'
<1>1. SUFFICES ASSUME TypeOK, CallOK, Submission PROVE TypeOK' /\ CallOK'
  OBVIOUS
<1>2. CASE AllocateGroup
  <2>1. slot \in Slots /\ slot' \in 1 .. (QueueDepth + 1)
    BY <1>1, <1>2, ConstantTypes DEF AllocateGroup, TypeOK, Slots
  <2>2. q' \in TailQueues
    BY <1>1, <1>2, <2>1, LinkGroupTyped DEF AllocateGroup, TypeOK
  <2>3. StartRound(slot, q', "submit_io_rep")
    BY <1>2 DEF AllocateGroup
  <2>4. /\ pc' = "submit" /\ call' \in Frames /\ offset_in_ios' \in Nat
        /\ call'.ret = "submit_io_rep" /\ call'.main = slot
    BY <1>1, <2>1, <2>2, <2>3, StartRoundTyped
  <2>5. io_id' \in [Tasks -> 0 .. (IdModulus - 1)]
    <3>1. slot \in 0 .. (IdModulus - 1)
      BY <2>1, ConstantTypes DEF Slots
    <3>2. QED
      BY <1>1, <1>2, <3>1 DEF AllocateGroup, TypeOK
  <2>6. QED
    BY <1>1, <1>2, <2>1, <2>2, <2>4, <2>5
    DEF AllocateGroup, TypeOK, CallOK, envvars, counters
<1>3. CASE AllAllocated
  BY <1>1, <1>3 DEF AllAllocated, TypeOK, CallOK, loopvars, taskvars, nsvars, counters, envvars
<1>4. CASE SubmitReplica
  <2> DEFINE t == call.cur
  <2>1. t \in Tasks /\ t[1] \in Slots /\ t[2] \in NsCtx
    BY <1>1, <1>4 DEF SubmitReplica, TypeOK, Frames, Tasks
  <2>2. /\ call.gen \in Commands /\ cmd' = [cmd EXCEPT ![t] = call.gen]
        /\ \/ Accepted(t) /\ UNCHANGED <<q, freed, buf_freed>>
           \/ Refused(t)
        /\ DrainAtLimit(t)
        /\ call' = [call EXCEPT !.cur = NextOf(q', t)]
    BY <1>1, <1>4 DEF SubmitReplica, TypeOK, Frames
  <2>3. cmd' \in [Tasks -> Commands]
    BY <1>1, <2>1, <2>2 DEF TypeOK
  <2>4. /\ q' \in TailQueues /\ inflight' \subseteq Tasks
        /\ freed' \subseteq Tasks /\ buf_freed' \subseteq Slots
        /\ current_queue_depth' \in [NsCtx -> Int] /\ io_submitted' \in [NsCtx -> Nat]
        /\ status' \in [NsCtx -> {0, 1}] /\ rejects' \in 0 .. MaxRejects
    <3>a. /\ q \in TailQueues /\ inflight \subseteq Tasks
          /\ freed \subseteq Tasks /\ buf_freed \subseteq Slots
          /\ current_queue_depth \in [NsCtx -> Int] /\ io_submitted \in [NsCtx -> Nat]
          /\ status \in [NsCtx -> {0, 1}] /\ rejects \in 0 .. MaxRejects
      BY <1>1, Zenon DEF TypeOK
    <3>1. CASE Accepted(t) /\ UNCHANGED <<q, freed, buf_freed>>
      BY <2>1, <3>a, <3>1 DEF Accepted
    <3>2. CASE Refused(t)
      <4>1. InsertTail(q, QueuedTasks(t[2]), t) \in TailQueues
        BY <1>1, <2>1, HeadsTyped, QueuesTyped DEF TypeOK
      <4>2. QED
        BY <2>1, <3>a, <3>2, <4>1, ConstantsAssumption DEF Refused, Failed
    <3>3. QED
      BY <2>2, <3>1, <3>2
  <2>5. is_draining' \in [NsCtx -> BOOLEAN]
    BY <1>1, <2>2 DEF DrainAtLimit, TypeOK
  <2>6. NextOf(q', t) \in Tasks \cup {NULL}
    BY <2>1, <2>4, HeadsTyped, QueuesTyped
  <2>7. call' \in Frames /\ call'.ret = call.ret /\ call'.main = call.main
    BY <1>1, <2>2, <2>6 DEF TypeOK, Frames
  <2>8. QED
    BY <1>1, <1>4, <2>3, <2>4, <2>5, <2>7 DEF SubmitReplica, TypeOK, CallOK, loopvars
<1>5. CASE SubmitDone
  <2>1. NoCall \in Frames
    BY ConstantTypes
  <2>2. QED
    BY <1>1, <1>5, <2>1
    DEF SubmitDone, TypeOK, CallOK, Frames, loopvars, taskvars, nsvars, counters, envvars
<1>6. QED
  BY <1>1, <1>2, <1>3, <1>4, <1>5 DEF Submission

\* io_complete, task_complete and rep_task_release.
LEMMA TypeCompletion == TypeOK /\ CallOK /\ Completion => TypeOK' /\ CallOK'
<1>1. SUFFICES ASSUME TypeOK, CallOK, Completion PROVE TypeOK' /\ CallOK'
  OBVIOUS
<1>2. ASSUME NEW t \in Tasks, IoComplete(t) PROVE TypeOK' /\ CallOK'
  <2>1. pc \in {"poll", "drainpoll"} /\ call = NoCall /\ TaskComplete(t, pc)
    BY <1>1, <1>2 DEF IoComplete, CallOK
  <2>2. /\ current_queue_depth' \in [NsCtx -> Int]
        /\ io_completed' \in [NsCtx -> Nat]
        /\ rep_completed_num' \in [Slots -> 0 .. (RepNum - 1)]
        /\ \/ pc' = pc /\ call' = call
           \/ /\ pc' = "renew" /\ call' \in Frames
              /\ call'.ret = pc /\ call'.main \in Slots
    BY <1>1, <2>1, TaskCompleteTyped
  <2>3. /\ errors' \in 0 .. MaxErrors /\ is_draining' \in [NsCtx -> BOOLEAN]
        /\ status' \in [NsCtx -> {0, 1}]
    <3>1. errors \in 0 .. MaxErrors /\ MaxErrors \in Nat
      BY <1>1, ConstantsAssumption, Zenon DEF TypeOK
    <3>2. \/ UNCHANGED errors
          \/ errors < MaxErrors /\ errors' = errors + 1
      BY <1>2, Zenon DEF IoComplete
    <3>3. errors' \in 0 .. MaxErrors
      BY <3>1, <3>2
    <3>4. is_draining' \in [NsCtx -> BOOLEAN] /\ status' \in [NsCtx -> {0, 1}]
      BY <1>1, <1>2 DEF IoComplete, TypeOK
    <3>5. QED
      BY <3>3, <3>4
  <2>4. QED
    BY <1>1, <1>2, <2>1, <2>2, <2>3 DEF IoComplete, TypeOK, CallOK, loopvars
<1>3. CASE Renew
  <2>1. call.cur \in Tasks /\ call.main \in Slots /\ call.newid \in 0 .. (IdModulus - 1)
    BY <1>1, <1>3 DEF Renew, TypeOK, CallOK, Frames
  <2>2. /\ First(q, RepTasks(call.main)) \in Tasks \cup {NULL}
        /\ NextOf(q, call.cur) \in Tasks \cup {NULL}
    BY <1>1, <2>1, HeadsTyped, QueuesTyped DEF TypeOK
  <2>3. /\ pc' \in {"renew", "release"} /\ buf_freed' \subseteq Slots
        /\ io_id' \in [Tasks -> 0 .. (IdModulus - 1)]
    BY <1>1, <1>3, <2>1 DEF Renew, Renumber, TypeOK
  <2>4. call' \in Frames /\ call'.ret = call.ret /\ call'.main = call.main
    BY <1>1, <1>3, <2>2 DEF Renew, TypeOK, Frames
  <2>5. QED
    BY <1>1, <1>3, <2>3, <2>4
    DEF Renew, TypeOK, CallOK, loopvars, nsvars, counters, envvars
<1>4. CASE RenewDone
  <2>1. /\ call.main \in Slots /\ q \in TailQueues /\ StartRound(call.main, q, call.ret)
        /\ call.ret \in {"submit_io_rep", "poll", "drainpoll", "cleanup"}
    BY <1>1, <1>4 DEF RenewDone, TypeOK, CallOK, Frames
  <2>2. /\ pc' = "submit" /\ call' \in Frames /\ offset_in_ios' \in Nat
        /\ call'.ret = call.ret /\ call'.main = call.main
    BY <1>1, <2>1, StartRoundTyped
  <2>3. QED
    BY <1>1, <1>4, <2>1, <2>2
    DEF RenewDone, TypeOK, CallOK, loopvars, taskvars, counters, envvars
<1>5. CASE Release
  <2>1. call.cur \in Tasks
    BY <1>1, <1>5 DEF Release, TypeOK, Frames
  <2>2. NextOf(q, call.cur) \in Tasks \cup {NULL}
    BY <1>1, <2>1, HeadsTyped, QueuesTyped DEF TypeOK
  <2>3. call' \in Frames /\ call'.ret = call.ret /\ call'.main = call.main
    BY <1>1, <1>5, <2>2 DEF Release, TypeOK, Frames
  <2>4. freed' \subseteq Tasks
    BY <1>1, <1>5, <2>1 DEF Release, FreedInWalk, TypeOK
  <2>5. QED
    BY <1>1, <1>5, <2>3, <2>4 DEF Release, TypeOK, CallOK, loopvars, nsvars, counters, envvars
<1>6. CASE ReleaseDone
  <2>1. call.main \in Slots /\ MainTask(call.main) \in Tasks
    BY <1>1, <1>6, HeadsTyped DEF ReleaseDone, CallOK
  <2>2. freed' \subseteq Tasks /\ call' \in Frames /\ call' = NoCall
    BY <1>1, <1>6, <2>1, ConstantTypes DEF ReleaseDone, TypeOK
  <2>3. pc' \in {"submit_io_rep", "poll", "drainpoll", "cleanup"}
    BY <1>1, <1>6 DEF ReleaseDone, TypeOK, CallOK, Frames
  <2>4. QED
    BY <1>1, <1>6, <2>2, <2>3 DEF ReleaseDone, TypeOK, CallOK, loopvars, nsvars, counters, envvars
<1>7. QED
  BY <1>1, <1>2, <1>3, <1>4, <1>5, <1>6 DEF Completion

\* The main loop of work_fn.
LEMMA TypeMainLoop == TypeOK /\ CallOK /\ MainLoop => TypeOK' /\ CallOK'
<1>1. SUFFICES ASSUME TypeOK, CallOK, MainLoop PROVE TypeOK' /\ CallOK'
  OBVIOUS
<1>2. CASE LoopTest
  <2>1. /\ ns' \in NsCtx /\ pc' \in {"drain", "queue"}
        /\ unfinished' \in Nat /\ all_draining' \in BOOLEAN
    BY <1>1, <1>2, ConstantTypes, 0 \in Nat, Zenon DEF LoopTest, TypeOK
  <2>2. QED
    BY <1>1, <1>2, <2>1 DEF LoopTest, TypeOK, CallOK, taskvars, nsvars, counters, envvars
<1>3. CASE TakeQueue
  <2>1. MoveAll(q, SwapList, QueuedTasks(ns)) \in TailQueues
    BY <1>1, HeadsTyped, MoveAllTyped DEF TypeOK
  <2>2. q' \in TailQueues /\ pc' \in {"retry", "poll"}
    BY <1>1, <1>3, <2>1 DEF TakeQueue, TypeOK
  <2>3. QED
    BY <1>1, <1>3, <2>2 DEF TakeQueue, TypeOK, CallOK, loopvars, nsvars, counters, envvars
<1>4. CASE RetryTask
  <2> DEFINE t == First(q, SwapList)
             popped == Remove(q, SwapList, t)
  <2>1. t \in Tasks /\ t[1] \in Slots /\ t[2] \in NsCtx
    <3>1. q \in TailQueues /\ t # NULL
      BY <1>1, <1>4, Zenon DEF RetryTask, TypeOK
    <3>2. t \in Tasks \cup {NULL}
      BY <3>1, HeadsTyped, FirstTyped, Zenon
    <3>3. QED
      BY <3>1, <3>2 DEF Tasks
  <2>2. /\ popped \in TailQueues
        /\ InsertTail(popped, QueuedTasks(ns), t) \in TailQueues
        /\ InsertTail(popped, QueuedTasks(t[2]), t) \in TailQueues
    BY <1>1, <2>1, HeadsTyped, QueuesTyped DEF TypeOK
  <2>3. CASE is_draining[ns]
    BY <1>1, <1>4, <2>2, <2>3
    DEF RetryTask, TypeOK, CallOK, loopvars
  <2>4. CASE ~is_draining[ns]
    <3>1. cmd' \in [Tasks -> Commands]
      BY <1>1, <1>4, <2>1, <2>4 DEF RetryTask, SubmitSingleIo, TypeOK, Commands
    <3>2. /\ q' \in TailQueues /\ inflight' \subseteq Tasks
          /\ current_queue_depth' \in [NsCtx -> Int] /\ io_submitted' \in [NsCtx -> Nat]
          /\ status' \in [NsCtx -> {0, 1}] /\ rejects' \in 0 .. MaxRejects
      BY <1>1, <1>4, <2>1, <2>2, <2>4, ConstantsAssumption DEF RetryTask, SubmitSingleIo, Accepted, Failed, TypeOK
    <3>3. is_draining' \in [NsCtx -> BOOLEAN]
      BY <1>1, <1>4, <2>4 DEF RetryTask, SubmitSingleIo, DrainAtLimit, TypeOK
    <3>4. QED
      BY <1>1, <1>4, <3>1, <3>2, <3>3 DEF RetryTask, TypeOK, CallOK, loopvars
  <2>5. QED
    BY <2>3, <2>4
<1>5. CASE RetryDone
  BY <1>1, <1>5 DEF RetryDone, TypeOK, CallOK, loopvars, taskvars, nsvars, counters, envvars
<1>6. CASE PollError
  <2>1. errors' \in 0 .. MaxErrors
    <3>1. errors \in 0 .. MaxErrors /\ MaxErrors \in Nat
      BY <1>1, ConstantsAssumption, Zenon DEF TypeOK
    <3>2. errors < MaxErrors /\ errors' = errors + 1
      BY <1>6, Zenon DEF PollError
    <3>3. QED
      BY <3>1, <3>2
  <2>2. is_draining' \in [NsCtx -> BOOLEAN] /\ status' \in [NsCtx -> {0, 1}]
    BY <1>1, <1>6 DEF PollError, TypeOK
  <2>3. QED
    BY <1>1, <1>6, <2>1, <2>2 DEF PollError, TypeOK, CallOK, loopvars, taskvars, counters
<1>7. CASE EndPoll
  <2>1. /\ ns' \in NsCtx /\ pc' \in {"queue", "drain", "clock"} /\ all_draining' \in BOOLEAN
        /\ unfinished' \in Nat
    <3>1. ns < NumNs => ns + 1 \in NsCtx
      BY <1>1, ConstantTypes DEF TypeOK, NsCtx
    <3>2. all_draining' \in BOOLEAN
      BY <1>1, <1>7, Zenon DEF EndPoll, TypeOK
    <3>3. QED
      BY <1>7, <3>1, <3>2, ConstantTypes DEF EndPoll
  <2>2. QED
    BY <1>1, <1>7, <2>1 DEF EndPoll, TypeOK, CallOK, taskvars, nsvars, counters, envvars
<1>8. CASE TimeLeft
  BY <1>1, <1>8 DEF TimeLeft, TypeOK, CallOK, loopvars, taskvars, nsvars, counters, envvars
<1>9. CASE TimeExpired
  <2>1. /\ pc' \in {"loop", "drain"} /\ warmup' \in BOOLEAN
        /\ io_submitted' \in [NsCtx -> Nat] /\ io_completed' \in [NsCtx -> Nat]
    BY <1>1, <1>9, 0 \in Nat, Zenon DEF TimeExpired, TypeOK
  <2>2. QED
    BY <1>1, <1>9, <2>1 DEF TimeExpired, TypeOK, CallOK, taskvars, envvars
<1>10. QED
  BY <1>1, <1>2, <1>3, <1>4, <1>5, <1>6, <1>7, <1>8, <1>9 DEF MainLoop

\* The drain loop and cleanup_ns_worker_ctx.
LEMMA TypeDrain == TypeOK /\ CallOK /\ Drain => TypeOK' /\ CallOK'
<1>1. SUFFICES ASSUME TypeOK, CallOK, Drain PROVE TypeOK' /\ CallOK'
  OBVIOUS
<1>2. ASSUME NEW u \in Nat, NextDrain(u)
      PROVE  /\ ns' \in NsCtx /\ unfinished' \in Nat /\ pc' \in {"drain", "cleanup"}
             /\ tmp' \in Tasks \cup {NULL}
  <2>1. First(q, QueuedTasks(1)) \in Tasks \cup {NULL}
    BY <1>1, ConstantTypes, HeadsTyped, QueuesTyped DEF TypeOK, First, TailQueues, Locations
  <2>2. ns < NumNs => ns + 1 \in NsCtx
    BY <1>1, ConstantTypes DEF TypeOK, NsCtx
  <2>3. ns \in NsCtx /\ 1 \in NsCtx /\ tmp \in Tasks \cup {NULL} /\ 0 \in Nat
    BY <1>1, ConstantTypes DEF TypeOK
  <2>4. QED
    BY <1>2, <2>1, <2>2, <2>3, Zenon DEF NextDrain
<1>3. CASE DrainNs
  <2>1. /\ ns' \in NsCtx /\ unfinished' \in Nat /\ pc' \in {"drain", "drainpoll", "cleanup"}
        /\ tmp' \in Tasks \cup {NULL}
    BY <1>1, <1>2, <1>3 DEF DrainNs, TypeOK
  <2>2. QED
    BY <1>1, <1>3, <2>1 DEF DrainNs, TypeOK, CallOK, taskvars, counters, envvars
<1>4. CASE EndDrainPoll
  <2>1. /\ ns' \in NsCtx /\ unfinished' \in Nat /\ pc' \in {"drain", "cleanup"}
        /\ tmp' \in Tasks \cup {NULL}
    BY <1>1, <1>2, <1>4, SMTT(40) DEF EndDrainPoll, TypeOK
  <2>2. QED
    BY <1>1, <1>4, <2>1 DEF EndDrainPoll, TypeOK, CallOK, taskvars, nsvars, counters, envvars
<1>5. CASE CleanupTask
  <2>1. tmp \in Tasks /\ call = NoCall /\ TaskComplete(tmp, "cleanup")
    BY <1>1, <1>5 DEF CleanupTask, TypeOK, CallOK
  <2>2. tmp' \in Tasks \cup {NULL} /\ q' \in TailQueues
    BY <1>1, <1>5, <2>1, HeadsTyped, QueuesTyped DEF CleanupTask, TypeOK
  <2>3. /\ current_queue_depth' \in [NsCtx -> Int]
        /\ io_completed' \in [NsCtx -> Nat]
        /\ rep_completed_num' \in [Slots -> 0 .. (RepNum - 1)]
        /\ \/ pc' = "cleanup" /\ call' = call
           \/ /\ pc' = "renew" /\ call' \in Frames
              /\ call'.ret = "cleanup" /\ call'.main \in Slots
    BY <1>1, <2>1, TaskCompleteTyped
  <2>4. QED
    BY <1>1, <1>5, <2>1, <2>2, <2>3 DEF CleanupTask, TypeOK, CallOK, envvars
<1>6. CASE NextCleanup
  <2>1. /\ ns' \in NsCtx /\ pc' \in {"cleanup", "done"} /\ tmp' \in Tasks \cup {NULL}
    <3>1. ns < NumNs => ns + 1 \in NsCtx
      BY <1>1, ConstantTypes DEF TypeOK, NsCtx
    <3>2. \A n \in NsCtx : First(q, QueuedTasks(n)) \in Tasks \cup {NULL}
      BY <1>1, HeadsTyped DEF TypeOK, First, TailQueues, Locations
    <3>3. QED
      BY <1>1, <1>6, <3>1, <3>2 DEF NextCleanup, TypeOK
  <2>2. QED
    BY <1>1, <1>6, <2>1 DEF NextCleanup, TypeOK, CallOK, taskvars, nsvars, counters, envvars
<1>7. QED
  BY <1>1, <1>3, <1>4, <1>5, <1>6 DEF Drain

\* The remaining steps of Next.
LEMMA TypeNext == TypeOK /\ CallOK /\ [Next]_vars => TypeOK' /\ CallOK'
<1>1. SUFFICES ASSUME TypeOK, CallOK, [Next]_vars PROVE TypeOK' /\ CallOK'
  OBVIOUS
<1>2. CASE UndefinedBehaviour
  BY <1>1, <1>2 DEF UndefinedBehaviour, TypeOK, CallOK, loopvars, taskvars, nsvars, counters
<1>3. CASE SetExit
  <2>1. g_exit' \in BOOLEAN
    BY <1>3, Zenon DEF SetExit
  <2>2. QED
    BY <1>1, <1>3, <2>1 DEF SetExit, TypeOK, CallOK, loopvars, taskvars, nsvars, counters
<1>4. CASE UNCHANGED vars
  <2>1. /\ UNCHANGED <<pc, ns, slot, tmp, all_draining, unfinished, warmup, call>>
        /\ UNCHANGED <<q, io_id, cmd, rep_completed_num, inflight, freed, buf_freed>>
        /\ UNCHANGED <<current_queue_depth, io_submitted, io_completed, is_draining, status>>
        /\ UNCHANGED <<offset_in_ios, g_exit, rejects, errors, fault>>
    BY <1>4 DEF vars, loopvars, taskvars, nsvars, counters, envvars
  <2>2. CallOK'
    BY <1>1, <2>1, Zenon DEF CallOK
  <2>3. TypeOK'
    BY <1>1, <2>1, Zenon DEF TypeOK
  <2>4. QED
    BY <2>2, <2>3
<1>5. QED
  BY <1>1, <1>2, <1>3, <1>4, TypeSubmission, TypeCompletion, TypeMainLoop, TypeDrain
  DEF Next, WorkFn, Returned

\* Type correctness of the worker, for every queue depth, number of replicas, mode and
\* pattern of refused submissions: no walk of task_complete, submit_single_io_rep or
\* rep_task_release ever leaves the tasks, whatever the lists look like.
THEOREM TypeCorrect == Spec => []TypeOK
<1>1. Spec => [](TypeOK /\ CallOK)
  BY TypeInit, TypeNext, PTL DEF Spec
<1>2. QED
  BY <1>1, PTL

-----------------------------------------------------------------------------
(* The depth of a namespace is what the driver holds for it *)

LEMMA TasksFinite == IsFiniteSet(Tasks)
<1>1. IsFiniteSet(Slots) /\ IsFiniteSet(NsCtx)
  BY ConstantTypes, FS_Interval DEF Slots, NsCtx
<1>2. QED
  BY <1>1, FS_Product DEF Tasks

\* One command more, and one command less.
LEMMA HeldForChanges ==
    ASSUME NEW I \in SUBSET Tasks, NEW t \in Tasks, NEW n \in NsCtx
    PROVE  LET held == {u \in I : u[2] = n}
               more == {u \in I \cup {t} : u[2] = n}
               less == {u \in I \ {t} : u[2] = n}
           IN  /\ Cardinality(held) \in Nat
               /\ t[2] # n => more = held /\ less = held
               /\ t[2] = n /\ t \notin I => Cardinality(more) = Cardinality(held) + 1
               /\ t[2] = n /\ t \in I => Cardinality(less) = Cardinality(held) - 1
<1> DEFINE held == {u \in I : u[2] = n}
           more == {u \in I \cup {t} : u[2] = n}
           less == {u \in I \ {t} : u[2] = n}
<1>1. IsFiniteSet(held) /\ Cardinality(held) \in Nat
  BY TasksFinite, FS_Subset, FS_CardinalityType
<1>2. t[2] # n => more = held /\ less = held
  OBVIOUS
<1>3. ASSUME t[2] = n, t \notin I PROVE Cardinality(more) = Cardinality(held) + 1
  <2>1. more = held \cup {t} /\ t \notin held
    BY <1>3
  <2>2. QED
    BY <1>1, <2>1, FS_AddElement
<1>4. ASSUME t[2] = n, t \in I PROVE Cardinality(less) = Cardinality(held) - 1
  <2>1. less = held \ {t} /\ t \in held
    BY <1>4
  <2>2. Cardinality(held \ {t}) = Cardinality(held) - 1
    <3> HIDE DEF held
    <3> QED
      BY <1>1, <2>1, FS_RemoveElement
  <2>3. QED
    BY <2>1, <2>2
<1>5. QED
  BY <1>1, <1>2, <1>3, <1>4

\* Once the cleanup has begun, it is not left again.
LEMMA CleanupIsFinal ==
    ASSUME TypeOK, CallOK, [Next]_vars, BeforeCleanup'
    PROVE  BeforeCleanup
<1>1. CASE Submission
  BY <1>1 DEF Submission, AllocateGroup, StartRound, AllAllocated, SubmitReplica, SubmitDone,
              BeforeCleanup, CallOK, NoCall, TypeOK, Frames
<1>2. CASE Completion
  <2>1. ASSUME NEW t \in Tasks, IoComplete(t) PROVE BeforeCleanup
    <3>1. pc \in {"poll", "drainpoll"}
      BY <2>1 DEF IoComplete
    <3>2. QED
      BY <3>1 DEF BeforeCleanup, CallOK, NoCall
  <2>2. CASE Renew \/ RenewDone \/ Release \/ ReleaseDone
    BY <2>2 DEF Renew, RenewDone, StartRound, Release, ReleaseDone, BeforeCleanup, CallOK, TypeOK,
                Frames
  <2>3. QED
    BY <1>2, <2>1, <2>2 DEF Completion
<1>3. CASE MainLoop
  <2>1. pc \in {"loop", "queue", "retry", "poll", "drainpoll", "clock"}
    BY <1>3 DEF MainLoop, LoopTest, TakeQueue, RetryTask, RetryDone, PollError, EndPoll, TimeLeft,
                TimeExpired
  <2>2. QED
    BY <2>1 DEF BeforeCleanup, CallOK, NoCall
<1>4. CASE DrainNs \/ EndDrainPoll
  BY <1>4 DEF DrainNs, EndDrainPoll, BeforeCleanup, CallOK, NoCall
<1>5. CASE CleanupTask
  <2>1. tmp \in Tasks /\ TaskComplete(tmp, "cleanup")
    BY <1>5 DEF CleanupTask, TypeOK
  <2>2. pc' = "cleanup" \/ (pc' = "renew" /\ call'.ret = "cleanup")
    BY <2>1, TaskCompleteTyped
  <2>3. QED
    BY <2>2 DEF BeforeCleanup
<1>6. CASE NextCleanup
  <2>1. pc' \in {"cleanup", "done"}
    BY <1>6 DEF NextCleanup
  <2>2. QED
    BY <2>1 DEF BeforeCleanup
<1>7. CASE UndefinedBehaviour \/ SetExit \/ UNCHANGED vars
  BY <1>7 DEF UndefinedBehaviour, SetExit, vars, BeforeCleanup
<1>8. QED
  BY <1>1, <1>2, <1>3, <1>4, <1>5, <1>6, <1>7 DEF Next, WorkFn, Drain, Returned

\* What a step does to the commands of a namespace.
LEMMA DepthStep ==
    ASSUME TypeOK, CallOK, [Next]_vars, BeforeCleanup
    PROVE  \/ UNCHANGED <<inflight, current_queue_depth>>
           \/ \E t \in Tasks \ inflight :
                 /\ inflight' = inflight \cup {t}
                 /\ current_queue_depth' = [current_queue_depth EXCEPT ![t[2]] = @ + 1]
           \/ \E t \in inflight :
                 /\ inflight' = inflight \ {t}
                 /\ current_queue_depth' = [current_queue_depth EXCEPT ![t[2]] = @ - 1]
<1>1. CASE SubmitReplica
  <2>1. call.cur \in Tasks \ inflight
    BY <1>1 DEF SubmitReplica, TypeOK, Frames
  <2>2. QED
    BY <1>1, <2>1 DEF SubmitReplica, Accepted, Refused, Failed
<1>2. CASE RetryTask
  <2>1. First(q, SwapList) \in Tasks
    BY <1>2, HeadsTyped DEF RetryTask, TypeOK, First, TailQueues, Locations
  <2>2. QED
    BY <1>2, <2>1 DEF RetryTask, SubmitSingleIo, Accepted, Failed
<1>3. ASSUME NEW t \in Tasks, IoComplete(t) PROVE
         /\ t \in inflight /\ inflight' = inflight \ {t}
         /\ current_queue_depth' = [current_queue_depth EXCEPT ![t[2]] = @ - 1]
  BY <1>3 DEF IoComplete, TaskComplete, OneLess
<1>4. CASE CleanupTask
  BY <1>4 DEF CleanupTask, BeforeCleanup
<1>5. CASE \/ AllocateGroup \/ AllAllocated \/ SubmitDone \/ Renew \/ RenewDone \/ Release
           \/ ReleaseDone \/ LoopTest \/ TakeQueue \/ RetryDone \/ PollError \/ EndPoll
  BY <1>5 DEF AllocateGroup, AllAllocated, SubmitDone, Renew, RenewDone, Release, ReleaseDone,
              LoopTest, TakeQueue, RetryDone, PollError, EndPoll, taskvars, nsvars, counters
<1>6. CASE \/ TimeLeft \/ TimeExpired \/ DrainNs \/ EndDrainPoll \/ NextCleanup
           \/ UndefinedBehaviour \/ SetExit \/ UNCHANGED vars
  BY <1>6 DEF TimeLeft, TimeExpired, DrainNs, EndDrainPoll, NextCleanup, UndefinedBehaviour,
              SetExit, vars, taskvars, nsvars, counters
<1>7. QED
  BY <1>1, <1>2, <1>3, <1>4, <1>5, <1>6
  DEF Next, WorkFn, Submission, Completion, MainLoop, Drain, Returned

\* The drain loop waits for exactly the commands the driver holds: current_queue_depth is
\* their number, for every instance and every pattern of refusals and errors.
THEOREM DepthIsExact == Spec => []DepthExact
<1>1. Init => DepthExact
  <2>1. ASSUME Init PROVE \A n \in NsCtx : HeldFor(n) = {} /\ current_queue_depth[n] = 0
    BY <2>1 DEF Init, HeldFor
  <2>2. QED
    BY <2>1, FS_EmptySet DEF DepthExact
<1>2. ASSUME TypeOK, CallOK, DepthExact, [Next]_vars PROVE DepthExact'
  <2>1. SUFFICES ASSUME BeforeCleanup', NEW n \in NsCtx
                 PROVE  current_queue_depth'[n] = Cardinality(HeldFor(n)')
    BY DEF DepthExact
  <2>2. BeforeCleanup /\ current_queue_depth[n] = Cardinality(HeldFor(n))
    BY <1>2, <2>1, CleanupIsFinal DEF DepthExact
  <2>3. inflight \in SUBSET Tasks /\ current_queue_depth \in [NsCtx -> Int]
    BY <1>2 DEF TypeOK
  <2>4. CASE UNCHANGED <<inflight, current_queue_depth>>
    BY <2>2, <2>4 DEF HeldFor
  <2>5. ASSUME NEW t \in Tasks \ inflight, inflight' = inflight \cup {t},
               current_queue_depth' = [current_queue_depth EXCEPT ![t[2]] = @ + 1]
        PROVE  current_queue_depth'[n] = Cardinality(HeldFor(n)')
    <3>1. t \in Tasks /\ t[2] \in NsCtx
      BY <2>3, <2>5 DEF Tasks
    <3>2. HeldFor(n)' = {u \in inflight \cup {t} : u[2] = n}
      BY <2>5 DEF HeldFor
    <3>3. CASE t[2] = n
      <4>1. Cardinality(HeldFor(n)') = Cardinality(HeldFor(n)) + 1
        <5>1. t \notin inflight
          BY <2>5
        <5>2. Cardinality({u \in inflight \cup {t} : u[2] = n})
                = Cardinality({u \in inflight : u[2] = n}) + 1
          BY <2>3, <3>1, <3>3, <5>1, HeldForChanges
        <5>3. QED
          BY <3>2, <5>2, Zenon DEF HeldFor
      <4>2. current_queue_depth'[n] = current_queue_depth[n] + 1
        BY <2>3, <2>5, <3>3
      <4>3. QED
        BY <2>2, <4>1, <4>2
    <3>4. CASE t[2] # n
      <4>1. HeldFor(n)' = HeldFor(n)
        BY <3>2, <3>4 DEF HeldFor
      <4>2. current_queue_depth'[n] = current_queue_depth[n]
        BY <2>3, <2>5, <3>1, <3>4
      <4>3. QED
        BY <2>2, <4>1, <4>2
    <3>5. QED
      BY <3>3, <3>4
  <2>6. ASSUME NEW t \in inflight, inflight' = inflight \ {t},
               current_queue_depth' = [current_queue_depth EXCEPT ![t[2]] = @ - 1]
        PROVE  current_queue_depth'[n] = Cardinality(HeldFor(n)')
    <3>1. t \in Tasks /\ t[2] \in NsCtx
      BY <2>3, <2>6 DEF Tasks
    <3>2. HeldFor(n)' = {u \in inflight \ {t} : u[2] = n}
      BY <2>6 DEF HeldFor
    <3>3. CASE t[2] = n
      <4>1. Cardinality(HeldFor(n)') = Cardinality(HeldFor(n)) - 1
        <5>1. t \in inflight
          BY <2>6
        <5>2. Cardinality({u \in inflight \ {t} : u[2] = n})
                = Cardinality({u \in inflight : u[2] = n}) - 1
          BY <2>3, <3>1, <3>3, <5>1, HeldForChanges
        <5>3. QED
          BY <3>2, <5>2, Zenon DEF HeldFor
      <4>2. current_queue_depth'[n] = current_queue_depth[n] - 1
        BY <2>3, <2>6, <3>3
      <4>3. QED
        BY <2>2, <4>1, <4>2
    <3>4. CASE t[2] # n
      <4>1. HeldFor(n)' = HeldFor(n)
        BY <3>2, <3>4 DEF HeldFor
      <4>2. current_queue_depth'[n] = current_queue_depth[n]
        BY <2>3, <2>6, <3>1, <3>4
      <4>3. QED
        BY <2>2, <4>1, <4>2
    <3>5. QED
      BY <3>3, <3>4
  <2>7. QED
    BY <1>2, <2>2, <2>4, <2>5, <2>6, DepthStep
<1>3. Spec => [](TypeOK /\ CallOK /\ DepthExact)
  BY <1>1, <1>2, TypeInit, TypeNext, PTL DEF Spec
<1>4. QED
  BY <1>3, PTL
=============================================================================
