-------------------------- MODULE RepRefused_proofs --------------------------
(***************************************************************************)
(* What a refused submission cannot do, for every queue depth and number   *)
(* of replicas: without -Q a refusal frees the task and the buffer its     *)
(* group shares, and still no barrier opens early, no namespace is sent    *)
(* more than -d commands, and a namespace that drains is sent nothing.     *)
(*                                                                         *)
(* The invariant is weaker than HealthyInv where a refusal does damage:    *)
(* nothing is said of what is freed.  A group that lost a replica can be   *)
(* told by its buffer, and has fewer replicas in flight and counted than   *)
(* the barrier waits for, so it is never renewed (KeptSlot).  The rest     *)
(* relates is_draining to the cursors of the walks (DrainOK): the replicas *)
(* a renewal has passed are on namespaces that do not drain, and so are    *)
(* those a submission has still ahead of it.                               *)
(***************************************************************************)
EXTENDS RepBarrier_proofs

\* No refused task is queued for a retry, and g_rep_num is the number of namespaces.
Contained == RepNum = NumNs /\ (ContinueOnError => MaxRejects = 0)

\* The replicas of a round that are in flight or counted by the barrier.
Accounted(s) == rep_completed_num[s] + Cardinality(inflight \cap Group(s))

Unstarted(s) == rep_completed_num[s] = 0 /\ inflight \cap Group(s) = {} /\ s \notin buf_freed

\* The replicas behind the cursor were accepted, all of them unless the buffer is gone.
Handed(s) ==
    /\ inflight \cap Group(s) \subseteq Before(s, call.cur)
    /\ s \in buf_freed <=> inflight \cap Group(s) # Before(s, call.cur)

KeptSlot(s) ==
    /\ s >= slot => Unstarted(s)
    /\ s < slot /\ ~Walking(s) =>
          IF s \in buf_freed THEN Accounted(s) < NumNs ELSE Accounted(s) = NumNs
    /\ Walking(s) =>
          /\ s < slot /\ call.cur \in Group(s) \cup {NULL} /\ rep_completed_num[s] = 0
          /\ pc = "submit" => Handed(s)
          /\ pc = "renew" => inflight \cap Group(s) = {} /\ s \notin buf_freed
          /\ pc = "release" => inflight \cap Group(s) = {} /\ s \in buf_freed

Kept == TypeOK /\ CallOK /\ ListsOK /\ \A s \in Slots : KeptSlot(s)

-----------------------------------------------------------------------------
(* What the steps of a walk do *)

\* Where a walk stands.
LEMMA AtCursor ==
    ASSUME Kept, pc \in Walks
    PROVE  \E r \in Slots :
              /\ r = call.main /\ r \in Allocated /\ KeptSlot(r) /\ Walking(r) /\ r < slot
              /\ call.cur \in Group(r) \cup {NULL} /\ rep_completed_num[r] = 0
              /\ call.ret \in {"submit_io_rep", "poll", "drainpoll", "cleanup"}
<1>1. TypeOK /\ CallOK /\ \A s \in Slots : KeptSlot(s)
  BY DEF Kept
<1>2. call.ret \in {"submit_io_rep", "poll", "drainpoll", "cleanup"} /\ call.main \in Slots
  BY <1>1 DEF CallOK, TypeOK, Frames, Walks
<1>3. PICK r \in Slots : r = call.main
  BY <1>2
<1>4. KeptSlot(r) /\ Walking(r)
  BY <1>1, <1>3 DEF Walking, Walks
<1>5. r < slot /\ call.cur \in Group(r) \cup {NULL} /\ rep_completed_num[r] = 0
  BY <1>4, Zenon DEF KeptSlot
<1>6. QED
  BY <1>2, <1>3, <1>4, <1>5 DEF Allocated

\* submit_io_rep starts the walk over a new group.
LEMMA AllocateWalk ==
    ASSUME Contained, Kept, AllocateGroup
    PROVE  /\ slot \in Slots /\ slot' = slot + 1 /\ pc = "submit_io_rep" /\ pc' = "submit"
           /\ call'.main = slot /\ call'.ret = "submit_io_rep" /\ call'.cur \in Group(slot)
           /\ Before(slot, call'.cur) = {}
           /\ UNCHANGED <<warmup, rep_completed_num, inflight, buf_freed, counters, is_draining>>
<1>1. TypeOK /\ ListsOK
  BY DEF Kept
<1>2. slot \in Slots
  BY <1>1 DEF AllocateGroup, TypeOK, Slots
<1>3. slot' = slot + 1 /\ pc = "submit_io_rep" /\ StartRound(slot, q', "submit_io_rep")
      /\ UNCHANGED <<warmup, rep_completed_num, inflight, buf_freed, counters, is_draining>>
  BY DEF AllocateGroup
<1>4. /\ pc' = "submit" /\ call'.main = slot /\ call'.ret = "submit_io_rep"
      /\ call'.cur = q'.next[RepTasks(slot)]
  BY <1>3 DEF StartRound, First
<1>5. ListsOK' /\ slot \in Allocated'
  BY <1>1, <1>2, <1>3, ListsNext DEF Contained, Next, WorkFn, Submission, Allocated, Slots
<1>6. call'.cur = <<slot, FirstReplica>>
  BY <1>4, <1>5 DEF ListsOK
<1>7. call'.cur \in Group(slot) /\ Before(slot, call'.cur) = {}
  <2>1. <<slot, FirstReplica>> \in Group(slot) /\ <<slot, FirstReplica>> # NULL
    BY <1>2, RankFacts, GroupFacts
  <2>2. \A n \in NsCtx : ~(Rank(n) < 1)
    BY RankFacts, ConstantTypes DEF NsCtx
  <2>3. \A t \in Group(slot) : ~(Rank(t[2]) < 1)
    BY <1>2, <2>2, GroupFacts
  <2>4. QED
    BY <1>6, <2>1, <2>3, RankFacts DEF Before
<1>8. QED
  BY <1>2, <1>3, <1>4, <1>7

\* The driver accepts the replica at the cursor, or its refusal frees the buffer.
LEMMA SubmitWalk ==
    ASSUME Contained, Kept, SubmitReplica
    PROVE  \E r \in Slots : \E c \in Group(r) :
               /\ r = call.main /\ c = call.cur /\ pc = "submit" /\ pc' = "submit"
               /\ call'.main = r /\ call'.ret = call.ret /\ call'.cur \in Group(r) \cup {NULL}
               /\ Before(r, call'.cur) = Before(r, c) \cup {c} /\ c \notin Before(r, c)
               /\ \/ Accepted(c) /\ UNCHANGED buf_freed
                  \/ buf_freed' = buf_freed \cup {r} /\ UNCHANGED <<inflight, io_submitted>>
               /\ DrainAtLimit(c) /\ UNCHANGED <<loopvars, rep_completed_num>>
<1>1. TypeOK /\ ListsOK /\ pc = "submit" /\ call.cur # NULL
  BY DEF Kept, SubmitReplica
<1>2. PICK r \in Slots : r = call.main /\ r \in Allocated /\ call.cur \in Group(r)
  BY <1>1, AtCursor DEF Walks
<1>3. PICK c \in Group(r) : c = call.cur
  BY <1>2
<1>4. c[1] = r
  BY GroupFacts
<1>5. ~(Failed /\ ContinueOnError)
  <2>1. rejects \in 0 .. MaxRejects
    BY <1>1, Zenon DEF TypeOK
  <2>2. QED
    BY <2>1 DEF Failed, Contained
<1>6. /\ pc' = "submit" /\ call' = [call EXCEPT !.cur = NextOf(q, c)]
      /\ \/ Accepted(c) /\ UNCHANGED buf_freed
         \/ buf_freed' = buf_freed \cup {r} /\ UNCHANGED <<inflight, io_submitted>>
      /\ DrainAtLimit(c) /\ UNCHANGED <<loopvars, rep_completed_num>>
  BY <1>1, <1>3, <1>4, <1>5, Zenon DEF SubmitReplica, Refused, Failed
<1>7. call'.main = r /\ call'.ret = call.ret /\ call'.cur = NextOf(q, c)
  BY <1>1, <1>2, <1>6 DEF TypeOK, Frames
<1>8. /\ NextOf(q, c) \in Group(r) \cup {NULL} /\ c \notin Before(r, c)
      /\ Before(r, NextOf(q, c)) = Before(r, c) \cup {c}
  BY <1>1, <1>2, WalkStep
<1>9. QED
  BY <1>1, <1>2, <1>3, <1>6, <1>7, <1>8

LEMMA SubmitDoneWalk ==
    ASSUME Kept, SubmitDone
    PROVE  \E r \in Slots :
               /\ r = call.main /\ KeptSlot(r) /\ Walking(r) /\ r < slot /\ rep_completed_num[r] = 0
               /\ call.cur = NULL /\ Before(r, call.cur) = Group(r)
               /\ pc = "submit" /\ pc' = call.ret /\ call' = NoCall
               /\ pc' \in {"submit_io_rep", "poll", "drainpoll", "cleanup"}
               /\ UNCHANGED <<loopvars, taskvars, counters, is_draining>>
<1>1. /\ pc = "submit" /\ call.cur = NULL /\ pc' = call.ret /\ call' = NoCall
      /\ UNCHANGED <<loopvars, taskvars, counters, is_draining>>
  BY DEF SubmitDone, nsvars
<1>2. PICK r \in Slots :
         /\ r = call.main /\ KeptSlot(r) /\ Walking(r) /\ r < slot /\ rep_completed_num[r] = 0
         /\ call.ret \in {"submit_io_rep", "poll", "drainpoll", "cleanup"}
  BY <1>1, AtCursor DEF Walks
<1>3. Before(r, call.cur) = Group(r)
  BY <1>1 DEF Before
<1>4. QED
  BY <1>1, <1>2, <1>3

\* Counting one replica.
LEMMA Count1 ==
    ASSUME NEW r \in Slots, NEW t \in Group(r), t \in inflight, inflight' = inflight \ {t}
    PROVE  /\ Cardinality(inflight \cap Group(r)) \in Nat \ {0}
           /\ Cardinality(inflight' \cap Group(r)) = Cardinality(inflight \cap Group(r)) - 1
           /\ IsFiniteSet(inflight' \cap Group(r))
<1>1. IsFiniteSet(inflight \cap Group(r)) /\ t \in inflight \cap Group(r)
  BY GroupFacts, FS_Subset, inflight \cap Group(r) \subseteq Group(r)
<1>2. inflight' \cap Group(r) = (inflight \cap Group(r)) \ {t}
  OBVIOUS
<1>3. \A S : IsFiniteSet(S) /\ t \in S =>
         /\ Cardinality(S) \in Nat /\ Cardinality(S) # 0 /\ IsFiniteSet(S \ {t})
         /\ Cardinality(S \ {t}) = Cardinality(S) - 1
  BY FS_RemoveElement, FS_CardinalityType, FS_EmptySet
<1>4. QED
  BY <1>1, <1>2, <1>3

\* The last replica of a round finds the others counted and the buffer in place: a group
\* that lost a replica never gets as far.
LEMMA CompleteWalk ==
    ASSUME Contained, Kept, NEW t \in Tasks, IoComplete(t)
    PROVE  \E r \in Slots :
               /\ r = t[1] /\ t \in Group(r) /\ t \in inflight /\ inflight' = inflight \ {t}
               /\ pc \in {"poll", "drainpoll"} /\ r < slot /\ KeptSlot(r)
               /\ \/ /\ pc' = "renew" /\ call'.main = r /\ call'.ret = pc
                     /\ call'.cur \in Group(r) /\ Before(r, call'.cur) = {}
                     /\ rep_completed_num' = [rep_completed_num EXCEPT ![r] = 0]
                     /\ inflight' \cap Group(r) = {} /\ r \notin buf_freed
                  \/ /\ pc' = pc /\ UNCHANGED call
                     /\ rep_completed_num' = [rep_completed_num EXCEPT ![r] = @ + 1]
               /\ \A n \in NsCtx : is_draining[n] => is_draining'[n]
               /\ UNCHANGED <<loopvars, buf_freed, io_submitted>>
<1>1. TypeOK /\ ListsOK /\ \A s \in Slots : KeptSlot(s)
  BY DEF Kept
<1>2. PICK r \in Slots : r = t[1]
  BY DEF Tasks
<1>3. /\ pc \in {"poll", "drainpoll"} /\ t \in inflight /\ inflight' = inflight \ {t}
      /\ UNCHANGED <<loopvars, buf_freed, io_submitted>>
  BY DEF IoComplete
<1>4. t \in Group(r) /\ slot \in Int /\ r \in Int /\ ~Walking(r) /\ KeptSlot(r)
  <2>1. t \in Group(r)
    BY <1>2, GroupFacts
  <2>2. slot \in 1 .. (QueueDepth + 1)
    BY <1>1, Zenon DEF TypeOK
  <2>3. QED
    BY <1>1, <1>3, <2>1, <2>2 DEF Walking, Slots
<1>5. r < slot /\ r \in Allocated
  BY <1>3, <1>4 DEF KeptSlot, Unstarted, Allocated
<1>6. \A n \in NsCtx : is_draining[n] => is_draining'[n]
  <2>1. is_draining \in [NsCtx -> BOOLEAN]
    BY <1>1, Zenon DEF TypeOK
  <2>2. \/ UNCHANGED is_draining
        \/ \E b \in BOOLEAN : is_draining' = [is_draining EXCEPT ![ns] = @ \/ b]
    BY Zenon DEF IoComplete
  <2>3. QED
    BY <2>1, <2>2
<1>7. /\ RoundComplete(r) =>
           /\ rep_completed_num' = [rep_completed_num EXCEPT ![r] = 0] /\ pc' = "renew"
           /\ call' = [ret |-> pc, main |-> r, cur |-> First(q, RepTasks(r)),
                       gen |-> NoCommand, newid |-> NextIoId(io_id[MainTask(r)])]
      /\ ~RoundComplete(r) =>
           /\ rep_completed_num' = [rep_completed_num EXCEPT ![r] = @ + 1]
           /\ pc' = pc /\ UNCHANGED call
  BY <1>2, Zenon DEF IoComplete, TaskComplete
<1>8. CASE RoundComplete(r)
  <2>1. pc' = "renew" /\ call'.main = r /\ call'.ret = pc /\ call'.cur = First(q, RepTasks(r))
    BY <1>7, <1>8
  <2>2. call'.cur \in Group(r) /\ Before(r, call'.cur) = {}
    BY <1>1, <1>5, <2>1, WalkStart
  <2>3. /\ Cardinality(inflight \cap Group(r)) \in Nat \ {0}
        /\ Cardinality(inflight' \cap Group(r)) = Cardinality(inflight \cap Group(r)) - 1
        /\ IsFiniteSet(inflight' \cap Group(r))
    BY <1>3, <1>4, Count1
  <2>4. rep_completed_num[r] = NumNs - 1
    BY <1>1, <1>8, ConstantTypes DEF RoundComplete, Contained, TypeOK
  <2>5. IF r \in buf_freed THEN Accounted(r) < NumNs ELSE Accounted(r) = NumNs
    BY <1>4, <1>5, Zenon DEF KeptSlot
  <2>6. r \notin buf_freed /\ Cardinality(inflight' \cap Group(r)) = 0
    BY <2>3, <2>4, <2>5, ConstantTypes DEF Accounted
  <2>7. inflight' \cap Group(r) = {}
    BY <2>3, <2>6, FS_EmptySet
  <2>8. QED
    BY <1>2, <1>3, <1>4, <1>5, <1>6, <1>7, <1>8, <2>1, <2>2, <2>6, <2>7
<1>9. QED
  BY <1>2, <1>3, <1>4, <1>5, <1>6, <1>7, <1>8

\* The walk of task_complete passes a replica whose namespace does not drain, or ends in a
\* release.
LEMMA RenewWalk ==
    ASSUME Kept, Renew
    PROVE  \E r \in Slots : \E c \in Group(r) :
               /\ r = call.main /\ c = call.cur /\ pc = "renew" /\ KeptSlot(r) /\ Walking(r)
               /\ call'.main = r /\ call'.ret = call.ret /\ call'.cur \in Group(r) \cup {NULL}
               /\ \/ pc' = "release" /\ buf_freed' = buf_freed \cup {r}
                  \/ /\ ~is_draining[c[2]] /\ pc' = "renew" /\ UNCHANGED buf_freed
                     /\ Before(r, call'.cur) = Before(r, c) \cup {c}
               /\ UNCHANGED <<loopvars, rep_completed_num, inflight, counters, is_draining>>
<1>1. TypeOK /\ ListsOK /\ pc = "renew" /\ call.cur # NULL
  BY DEF Kept, Renew
<1>2. PICK r \in Slots : /\ r = call.main /\ r \in Allocated /\ KeptSlot(r) /\ Walking(r)
                         /\ call.cur \in Group(r)
  BY <1>1, AtCursor DEF Walks
<1>3. PICK c \in Group(r) : c = call.cur
  BY <1>2
<1>4. UNCHANGED <<loopvars, rep_completed_num, inflight, counters, is_draining>>
  BY DEF Renew, nsvars
<1>5. \/ /\ pc' = "release" /\ buf_freed' = buf_freed \cup {r}
         /\ call' = [call EXCEPT !.cur = First(q, RepTasks(r))]
      \/ /\ ~is_draining[c[2]] /\ pc' = "renew" /\ UNCHANGED buf_freed
         /\ call' = [call EXCEPT !.cur = NextOf(q, c)]
  BY <1>1, <1>2, <1>3, Zenon DEF Renew, MustRelease
<1>6. /\ call'.main = r /\ call'.ret = call.ret
      /\ call'.cur \in {First(q, RepTasks(r)), NextOf(q, c)}
      /\ pc' = "renew" => call'.cur = NextOf(q, c)
  BY <1>1, <1>2, <1>5 DEF TypeOK, Frames
<1>7. /\ First(q, RepTasks(r)) \in Group(r) /\ NextOf(q, c) \in Group(r) \cup {NULL}
      /\ Before(r, NextOf(q, c)) = Before(r, c) \cup {c}
  BY <1>1, <1>2, WalkStart, WalkStep
<1>8. QED
  BY <1>1, <1>2, <1>3, <1>4, <1>5, <1>6, <1>7

LEMMA RenewDoneWalk ==
    ASSUME Kept, RenewDone
    PROVE  \E r \in Slots :
               /\ r = call.main /\ pc = "renew" /\ pc' = "submit" /\ KeptSlot(r) /\ Walking(r)
               /\ Before(r, call.cur) = Group(r)
               /\ call'.main = r /\ call'.ret = call.ret
               /\ call'.cur \in Group(r) /\ Before(r, call'.cur) = {}
               /\ UNCHANGED <<loopvars, taskvars, counters, is_draining>>
<1>1. /\ ListsOK /\ pc = "renew" /\ call.cur = NULL
      /\ UNCHANGED <<loopvars, taskvars, counters, is_draining>>
  BY DEF Kept, RenewDone
<1>2. PICK r \in Slots : r = call.main /\ r \in Allocated /\ KeptSlot(r) /\ Walking(r)
  BY <1>1, AtCursor DEF Walks
<1>3. pc' = "submit" /\ call'.main = r /\ call'.ret = call.ret /\ call'.cur = First(q, RepTasks(r))
  <2>1. PICK off \in Offsets, rd \in Ops :
             /\ pc' = "submit"
             /\ call' = [ret |-> call.ret, main |-> call.main,
                         cur |-> First(q, RepTasks(call.main)),
                         gen |-> [offset_in_ios |-> off, is_read |-> rd], newid |-> 0]
    BY Zenon DEF RenewDone, StartRound
  <2>2. QED
    BY <1>2, <2>1
<1>4. call'.cur \in Group(r) /\ Before(r, call'.cur) = {}
  BY <1>1, <1>2, <1>3, WalkStart
<1>5. Before(r, call.cur) = Group(r)
  BY <1>1 DEF Before
<1>6. QED
  BY <1>1, <1>2, <1>3, <1>4, <1>5

LEMMA ReleaseWalk ==
    ASSUME Kept, Release \/ ReleaseDone
    PROVE  \E r \in Slots :
               /\ r = call.main /\ pc = "release" /\ KeptSlot(r) /\ Walking(r) /\ r < slot
               /\ rep_completed_num[r] = 0
               /\ \/ /\ pc' = "release" /\ call'.main = r /\ call'.ret = call.ret
                     /\ call'.cur \in Group(r) \cup {NULL}
                  \/ /\ pc' = call.ret /\ pc' \in {"submit_io_rep", "poll", "drainpoll", "cleanup"}
                     /\ call' = NoCall
               /\ UNCHANGED <<loopvars, rep_completed_num, inflight, buf_freed, counters, is_draining>>
<1>1. /\ TypeOK /\ ListsOK /\ pc = "release"
      /\ UNCHANGED <<loopvars, rep_completed_num, inflight, buf_freed, counters, is_draining>>
  BY DEF Kept, Release, ReleaseDone, nsvars
<1>2. PICK r \in Slots :
         /\ r = call.main /\ r \in Allocated /\ KeptSlot(r) /\ Walking(r) /\ r < slot
         /\ call.cur \in Group(r) \cup {NULL} /\ rep_completed_num[r] = 0
         /\ call.ret \in {"submit_io_rep", "poll", "drainpoll", "cleanup"}
  BY <1>1, AtCursor DEF Walks
<1>3. CASE Release
  <2>1. pc' = "release" /\ call' = [call EXCEPT !.cur = NextOf(q, call.cur)] /\ call.cur # NULL
    BY <1>1, <1>3 DEF Release
  <2>2. call'.main = r /\ call'.ret = call.ret /\ call'.cur = NextOf(q, call.cur)
    BY <1>1, <1>2, <2>1 DEF TypeOK, Frames
  <2>3. NextOf(q, call.cur) \in Group(r) \cup {NULL}
    BY <1>1, <1>2, <2>1, WalkStep
  <2>4. QED
    BY <1>1, <1>2, <2>1, <2>2, <2>3
<1>4. CASE ReleaseDone
  BY <1>1, <1>2, <1>4 DEF ReleaseDone
<1>5. QED
  BY <1>3, <1>4

-----------------------------------------------------------------------------
(* The slots *)

\* A slot that is not walked, before or after a step that does not touch it.
LEMMA KeptFrame ==
    ASSUME NEW s \in Slots, KeptSlot(s), ~Walking(s), ~Walking(s)',
           s >= slot <=> s >= slot', s < slot <=> s < slot',
           inflight' \cap Group(s) = inflight \cap Group(s),
           s \in buf_freed' <=> s \in buf_freed,
           rep_completed_num'[s] = rep_completed_num[s]
    PROVE  KeptSlot(s)'
<1>1. s >= slot' => Unstarted(s)'
  BY DEF KeptSlot, Unstarted, Group
<1>2. Accounted(s)' = Accounted(s)
  BY DEF Accounted, Group
<1>3. s < slot' => (IF s \in buf_freed' THEN Accounted(s)' < NumNs ELSE Accounted(s)' = NumNs)
  BY <1>2 DEF KeptSlot
<1>4. QED
  BY <1>1, <1>3 DEF KeptSlot

LEMMA KeptAllocate ==
    ASSUME Contained, Kept, AllocateGroup
    PROVE  \A s \in Slots : KeptSlot(s)'
<1>1. PICK r \in Slots : r = slot
  BY AllocateWalk
<1>2. /\ slot' = r + 1 /\ pc = "submit_io_rep" /\ pc' = "submit"
      /\ call'.main = r /\ call'.cur \in Group(r) /\ Before(r, call'.cur) = {}
      /\ UNCHANGED <<rep_completed_num, inflight, buf_freed>>
  BY <1>1, AllocateWalk
<1>3. ASSUME NEW s \in Slots, s # r PROVE KeptSlot(s)'
  <2>1. (s >= slot <=> s >= slot') /\ (s < slot <=> s < slot')
    BY <1>1, <1>2, <1>3 DEF Slots
  <2>2. ~Walking(s) /\ ~Walking(s)' /\ KeptSlot(s)
    BY <1>2, <1>3 DEF Walking, Kept
  <2>3. QED
    BY <1>2, <1>3, <2>1, <2>2, KeptFrame
<1>4. KeptSlot(r)'
  <2>1. ~(r >= slot') /\ r < slot' /\ Walking(r)'
    BY <1>2 DEF Slots, Walking
  <2>2. KeptSlot(r) /\ r >= slot
    BY <1>1 DEF Kept, Slots
  <2>3. rep_completed_num'[r] = 0 /\ inflight' \cap Group(r) = {} /\ r \notin buf_freed'
    BY <1>2, <2>2 DEF KeptSlot, Unstarted
  <2>4. Handed(r)'
    BY <1>2, <2>3 DEF Handed, Before, Group
  <2>5. QED
    BY <1>2, <2>1, <2>3, <2>4 DEF KeptSlot, Group
<1>5. QED
  BY <1>3, <1>4

\* A refusal is the only way to leave a replica behind the cursor that is not in flight.
LEMMA KeptSubmit ==
    ASSUME Contained, Kept, SubmitReplica
    PROVE  \A s \in Slots : KeptSlot(s)'
<1>1. PICK r \in Slots : \E c \in Group(r) :
               /\ r = call.main /\ c = call.cur /\ pc = "submit" /\ pc' = "submit"
               /\ call'.main = r /\ call'.ret = call.ret /\ call'.cur \in Group(r) \cup {NULL}
               /\ Before(r, call'.cur) = Before(r, c) \cup {c} /\ c \notin Before(r, c)
               /\ \/ Accepted(c) /\ UNCHANGED buf_freed
                  \/ buf_freed' = buf_freed \cup {r} /\ UNCHANGED <<inflight, io_submitted>>
               /\ DrainAtLimit(c) /\ UNCHANGED <<loopvars, rep_completed_num>>
  BY SubmitWalk
<1>2. PICK c \in Group(r) :
               /\ r = call.main /\ c = call.cur /\ pc = "submit" /\ pc' = "submit"
               /\ call'.main = r /\ call'.cur \in Group(r) \cup {NULL}
               /\ Before(r, call'.cur) = Before(r, c) \cup {c} /\ c \notin Before(r, c)
               /\ \/ inflight' = inflight \cup {c} /\ UNCHANGED buf_freed
                  \/ buf_freed' = buf_freed \cup {r} /\ UNCHANGED inflight
               /\ UNCHANGED <<slot, rep_completed_num>>
  BY <1>1 DEF Accepted, loopvars
<1>3. /\ KeptSlot(r) /\ Walking(r) /\ r < slot /\ rep_completed_num[r] = 0
  BY <1>2, AtCursor DEF Walks
<1>4. ASSUME NEW s \in Slots, s # r PROVE KeptSlot(s)'
  <2>1. ~Walking(s) /\ ~Walking(s)' /\ KeptSlot(s)
    BY <1>2, <1>4 DEF Walking, Kept
  <2>2. c \in Tasks /\ c[1] # s
    BY <1>4, GroupFacts
  <2>3. inflight' \cap Group(s) = inflight \cap Group(s)
    BY <1>2, <2>2, OtherSlot
  <2>4. QED
    BY <1>2, <1>4, <2>1, <2>3, KeptFrame
<1>5. KeptSlot(r)'
  <2>1. /\ inflight \cap Group(r) \subseteq Before(r, c)
        /\ r \in buf_freed <=> inflight \cap Group(r) # Before(r, c)
    BY <1>2, <1>3 DEF KeptSlot, Handed
  <2>2. /\ inflight' \cap Group(r) \subseteq Before(r, c) \cup {c}
        /\ r \in buf_freed' <=> inflight' \cap Group(r) # Before(r, c) \cup {c}
    <3>1. CASE inflight' = inflight \cup {c} /\ UNCHANGED buf_freed
      BY <1>2, <2>1, <3>1
    <3>2. CASE buf_freed' = buf_freed \cup {r} /\ UNCHANGED inflight
      BY <1>2, <2>1, <3>2
    <3>3. QED
      BY <1>2, <3>1, <3>2
  <2>3. Handed(r)'
    BY <1>2, <2>2 DEF Handed, Before, Group
  <2>4. r < slot' /\ ~(r >= slot') /\ Walking(r)'
    <3>1. slot \in 1 .. (QueueDepth + 1)
      BY Zenon DEF Kept, TypeOK
    <3>2. QED
      BY <1>2, <1>3, <3>1 DEF Walking, Slots
  <2>5. QED
    BY <1>2, <1>3, <2>3, <2>4 DEF KeptSlot, Group
<1>6. QED
  BY <1>4, <1>5

\* A walk that leaves a replica out leaves a group that cannot complete.
LEMMA KeptSubmitDone ==
    ASSUME Kept, SubmitDone
    PROVE  \A s \in Slots : KeptSlot(s)'
<1>1. PICK r \in Slots :
         /\ r = call.main /\ KeptSlot(r) /\ Walking(r) /\ r < slot /\ rep_completed_num[r] = 0
         /\ Before(r, call.cur) = Group(r) /\ pc = "submit"
         /\ pc' \in {"submit_io_rep", "poll", "drainpoll", "cleanup"}
         /\ UNCHANGED <<slot, rep_completed_num, inflight, buf_freed>>
  BY SubmitDoneWalk DEF loopvars, taskvars
<1>2. ASSUME NEW s \in Slots, s # r PROVE KeptSlot(s)'
  <2>1. ~Walking(s) /\ ~Walking(s)' /\ KeptSlot(s)
    BY <1>1, <1>2 DEF Walking, Kept
  <2>2. QED
    BY <1>1, <2>1, KeptFrame
<1>3. KeptSlot(r)'
  <2>1. r \in buf_freed <=> inflight \cap Group(r) # Group(r)
    BY <1>1 DEF KeptSlot, Handed
  <2>2. /\ IsFiniteSet(Group(r)) /\ Cardinality(Group(r)) = NumNs
        /\ inflight \cap Group(r) \subseteq Group(r)
    BY GroupFacts
  <2>3. Cardinality(inflight \cap Group(r)) \in Nat
        /\ (inflight \cap Group(r) # Group(r) => Cardinality(inflight \cap Group(r)) < NumNs)
    BY <2>2, FS_Subset, FS_CardinalityType
  <2>4. IF r \in buf_freed THEN Accounted(r) < NumNs ELSE Accounted(r) = NumNs
    <3>1. Accounted(r) = Cardinality(inflight \cap Group(r))
      BY <1>1, <2>3 DEF Accounted
    <3>2. CASE inflight \cap Group(r) = Group(r)
      BY <2>1, <2>2, <3>1, <3>2
    <3>3. CASE inflight \cap Group(r) # Group(r)
      BY <2>1, <2>3, <3>1, <3>3
    <3>4. QED
      BY <3>2, <3>3
  <2>5. Accounted(r)' = Accounted(r)
    BY <1>1 DEF Accounted, Group
  <2>6. ~Walking(r)' /\ ~(r >= slot')
    <3>1. slot \in 1 .. (QueueDepth + 1)
      BY Zenon DEF Kept, TypeOK
    <3>2. QED
      BY <1>1, <3>1 DEF Walking, Slots
  <2>7. QED
    BY <1>1, <2>4, <2>5, <2>6 DEF KeptSlot
<1>4. QED
  BY <1>2, <1>3

LEMMA KeptComplete ==
    ASSUME Contained, Kept, NEW t \in Tasks, IoComplete(t)
    PROVE  \A s \in Slots : KeptSlot(s)'
<1>1. PICK r \in Slots :
         /\ r = t[1] /\ t \in Group(r) /\ t \in inflight /\ inflight' = inflight \ {t}
         /\ pc \in {"poll", "drainpoll"} /\ r < slot /\ KeptSlot(r)
         /\ \/ /\ pc' = "renew" /\ call'.main = r /\ call'.cur \in Group(r)
               /\ rep_completed_num' = [rep_completed_num EXCEPT ![r] = 0]
               /\ inflight' \cap Group(r) = {} /\ r \notin buf_freed
            \/ /\ pc' = pc /\ UNCHANGED call
               /\ rep_completed_num' = [rep_completed_num EXCEPT ![r] = @ + 1]
         /\ UNCHANGED <<slot, buf_freed>>
  BY CompleteWalk DEF loopvars
<1>2. rep_completed_num \in [Slots -> 0 .. (RepNum - 1)] /\ slot \in 1 .. (QueueDepth + 1)
  BY Zenon DEF Kept, TypeOK
<1>3. ~(r >= slot')
  BY <1>1, <1>2 DEF Slots
<1>4. ASSUME NEW s \in Slots, s # r PROVE KeptSlot(s)'
  <2>1. ~Walking(s) /\ ~Walking(s)' /\ KeptSlot(s)
    BY <1>1, <1>4 DEF Walking, Kept
  <2>2. inflight' \cap Group(s) = inflight \cap Group(s)
    BY <1>1, <1>4, OtherSlot
  <2>3. rep_completed_num'[s] = rep_completed_num[s]
    BY <1>1, <1>2, <1>4
  <2>4. QED
    BY <1>1, <2>1, <2>2, <2>3, KeptFrame
<1>5. CASE pc' = "renew"
  <2>1. /\ call'.main = r /\ call'.cur \in Group(r) /\ rep_completed_num'[r] = 0
        /\ inflight' \cap Group(r) = {} /\ r \notin buf_freed'
    BY <1>1, <1>2, <1>5
  <2>2. KeptSlot(r)'
    BY <1>1, <1>3, <1>5, <2>1 DEF KeptSlot, Walking, Group
  <2>3. QED
    BY <1>4, <2>2
<1>6. CASE pc' # "renew"
  <2>1. rep_completed_num'[r] = rep_completed_num[r] + 1 /\ ~Walking(r)' /\ ~Walking(r)
    BY <1>1, <1>2, <1>6 DEF Walking
  <2>2. /\ Cardinality(inflight \cap Group(r)) \in Nat
        /\ Cardinality(inflight' \cap Group(r)) = Cardinality(inflight \cap Group(r)) - 1
    BY <1>1, Count1
  <2>3. rep_completed_num[r] \in Int
    BY <1>2, ConstantTypes
  <2>4. \A c, k \in Int : (c + 1) + (k - 1) = c + k
    OBVIOUS
  <2>5. Accounted(r)' = Accounted(r)
    <3>1. Cardinality(inflight \cap Group(r)) \in Int
      BY <2>2
    <3>2. Accounted(r)' = rep_completed_num'[r] + Cardinality(inflight' \cap Group(r))
      BY DEF Accounted, Group
    <3>3. Accounted(r) = rep_completed_num[r] + Cardinality(inflight \cap Group(r))
      BY DEF Accounted
    <3>4. QED
      BY <2>1, <2>2, <2>3, <2>4, <3>1, <3>2, <3>3, Zenon
  <2>6. IF r \in buf_freed THEN Accounted(r) < NumNs ELSE Accounted(r) = NumNs
    BY <1>1, <2>1, Zenon DEF KeptSlot
  <2>7. KeptSlot(r)'
    BY <1>1, <1>3, <2>1, <2>5, <2>6 DEF KeptSlot
  <2>8. QED
    BY <1>4, <2>7
<1>7. QED
  BY <1>5, <1>6

LEMMA KeptWalk ==
    ASSUME Kept, Renew \/ RenewDone \/ Release \/ ReleaseDone
    PROVE  \A s \in Slots : KeptSlot(s)'
<1>1. PICK r \in Slots : /\ r = call.main /\ KeptSlot(r) /\ Walking(r) /\ r < slot
                         /\ rep_completed_num[r] = 0
  BY AtCursor DEF Renew, RenewDone, Release, ReleaseDone, Walks
<1>2. slot \in 1 .. (QueueDepth + 1)
  BY Zenon DEF Kept, TypeOK
<1>3. ASSUME NEW s \in Slots, s # r, ~Walking(s)',
             UNCHANGED <<slot, rep_completed_num, inflight>>, s \in buf_freed' <=> s \in buf_freed
      PROVE  KeptSlot(s)'
  <2>1. ~Walking(s) /\ KeptSlot(s)
    BY <1>1, <1>3 DEF Walking, Kept
  <2>2. QED
    BY <1>3, <2>1, KeptFrame
<1>4. CASE Renew
  <2>1. /\ pc = "renew" /\ call'.main = r /\ call'.cur \in Group(r) \cup {NULL}
        /\ \/ pc' = "release" /\ buf_freed' = buf_freed \cup {r}
           \/ pc' = "renew" /\ UNCHANGED buf_freed
        /\ UNCHANGED <<slot, rep_completed_num, inflight>>
    BY <1>1, <1>4, RenewWalk DEF loopvars
  <2>2. inflight \cap Group(r) = {} /\ r \notin buf_freed
    BY <1>1, <2>1 DEF KeptSlot
  <2>3. KeptSlot(r)'
    BY <1>1, <1>2, <2>1, <2>2 DEF KeptSlot, Walking, Group, Slots
  <2>4. ASSUME NEW s \in Slots, s # r PROVE KeptSlot(s)'
    BY <1>3, <2>1, <2>4 DEF Walking
  <2>5. QED
    BY <2>3, <2>4
<1>5. CASE RenewDone
  <2>1. /\ pc = "renew" /\ pc' = "submit" /\ call'.main = r /\ call'.cur \in Group(r)
        /\ Before(r, call'.cur) = {}
        /\ UNCHANGED <<slot, rep_completed_num, inflight, buf_freed>>
    BY <1>1, <1>5, RenewDoneWalk DEF loopvars, taskvars
  <2>2. inflight \cap Group(r) = {} /\ r \notin buf_freed
    BY <1>1, <2>1 DEF KeptSlot
  <2>3. Handed(r)'
    BY <2>1, <2>2 DEF Handed, Before, Group
  <2>4. KeptSlot(r)'
    <3>1. /\ ~(r >= slot') /\ r < slot' /\ Walking(r)' /\ pc' = "submit"
          /\ call'.cur \in Group(r) \cup {NULL} /\ rep_completed_num'[r] = 0
      BY <1>1, <1>2, <2>1 DEF Walking, Slots
    <3>2. QED
      BY <2>3, <3>1 DEF KeptSlot, Group
  <2>5. ASSUME NEW s \in Slots, s # r PROVE KeptSlot(s)'
    BY <1>3, <2>1, <2>5 DEF Walking
  <2>6. QED
    BY <2>4, <2>5
<1>6. CASE Release \/ ReleaseDone
  <2>1. /\ pc = "release"
        /\ \/ pc' = "release" /\ call'.main = r /\ call'.cur \in Group(r) \cup {NULL}
           \/ pc' \in {"submit_io_rep", "poll", "drainpoll", "cleanup"}
        /\ UNCHANGED <<slot, rep_completed_num, inflight, buf_freed>>
    BY <1>1, <1>6, ReleaseWalk DEF loopvars
  <2>2. inflight \cap Group(r) = {} /\ r \in buf_freed
    BY <1>1, <2>1 DEF KeptSlot
  <2>3. KeptSlot(r)'
    <3>1. CASE pc' = "release"
      BY <1>1, <1>2, <2>1, <2>2, <3>1 DEF KeptSlot, Walking, Group, Slots
    <3>2. CASE pc' # "release"
      <4>1. ~Walking(r)' /\ ~(r >= slot')
        BY <1>1, <1>2, <2>1, <3>2 DEF Walking, Slots
      <4>2. Accounted(r)' = 0
        <5>1. inflight' \cap Group(r) = {} /\ rep_completed_num'[r] = 0
          BY <1>1, <2>1, <2>2
        <5>2. Accounted(r)' = rep_completed_num'[r] + Cardinality(inflight' \cap Group(r))
          BY DEF Accounted, Group
        <5>3. QED
          BY <5>1, <5>2, FS_EmptySet
      <4>3. QED
        BY <2>1, <2>2, <4>1, <4>2, ConstantTypes DEF KeptSlot
    <3>3. QED
      BY <3>1, <3>2
  <2>4. ASSUME NEW s \in Slots, s # r PROVE KeptSlot(s)'
    BY <1>3, <2>1, <2>4 DEF Walking
  <2>5. QED
    BY <2>3, <2>4
<1>7. QED
  BY <1>4, <1>5, <1>6

LEMMA KeptElsewhere ==
    ASSUME Kept, Elsewhere
    PROVE  \A s \in Slots : KeptSlot(s)'
<1>1. /\ \/ pc' = pc
         \/ pc \notin Walks /\ pc' \notin Walks
      /\ UNCHANGED <<slot, call, rep_completed_num, inflight, buf_freed>>
  BY ElsewhereStep DEF Kept
<1>2. ASSUME NEW s \in Slots PROVE KeptSlot(s)'
  <2>1. KeptSlot(s)
    BY DEF Kept
  <2>2. CASE pc' = pc
    BY <1>1, <2>1, <2>2 DEF KeptSlot, Unstarted, Accounted, Handed, Walking, Before, Group
  <2>3. CASE pc \notin Walks /\ pc' \notin Walks
    <3>1. ~Walking(s) /\ ~Walking(s)'
      BY <2>3 DEF Walking, Walks
    <3>2. QED
      BY <1>1, <2>1, <3>1, KeptFrame
  <2>4. QED
    BY <1>1, <2>2, <2>3
<1>3. QED
  BY <1>2
-----------------------------------------------------------------------------
(* A namespace that drains is sent nothing *)

\* A namespace at the limit of -d drains.  The namespaces a walk of submit_single_io_rep
\* has still to serve do not, and neither do those a walk of task_complete has passed.
DrainOK ==
    /\ \A n \in NsCtx : AtLimit(io_submitted[n]) => is_draining[n]
    /\ IoBudget /\ (NumberIos > 0 => ~warmup)
    /\ pc = "submit" =>
          \A t \in Group(call.main) \ Before(call.main, call.cur) : ~is_draining[t[2]]
    /\ pc = "renew" => \A t \in Before(call.main, call.cur) : ~is_draining[t[2]]

\* While submit_io_rep starts the slots, every namespace has been sent at most one command
\* for each of them, and drains only if that was the last one -d allows.
StartOK ==
    /\ pc = "submit_io_rep" =>
          \A n \in NsCtx : io_submitted[n] <= slot - 1 /\ (is_draining[n] => AtLimit(io_submitted[n]))
    /\ pc = "submit" /\ call.ret = "submit_io_rep" =>
          \A t \in Group(call.main) :
              /\ io_submitted[t[2]] <= IF t \in Before(call.main, call.cur) THEN slot - 1 ELSE slot - 2
              /\ is_draining[t[2]] => AtLimit(io_submitted[t[2]])
    /\ pc \in {"renew", "release"} => call.ret \in {"poll", "drainpoll"}

LEMMA DrainInit == Init => DrainOK /\ StartOK
<1>1. SUFFICES ASSUME Init PROVE DrainOK /\ StartOK
  OBVIOUS
<1>2. /\ pc = "submit_io_rep" /\ slot = 1
      /\ \A n \in NsCtx : io_submitted[n] = 0 /\ is_draining[n] = FALSE
  BY <1>1 DEF Init
<1>3. \A n \in NsCtx : ~AtLimit(io_submitted[n])
  BY <1>2, ConstantsAssumption DEF AtLimit
<1>4. IoBudget
  BY <1>2, ConstantsAssumption DEF IoBudget
<1>5. NumberIos > 0 => ~warmup
  BY <1>1, ParseArgsAssumption DEF Init
<1>6. QED
  BY <1>2, <1>3, <1>4, <1>5 DEF DrainOK, StartOK

\* submit_io_rep starts no slot of a draining namespace: parse_args refuses a limit below the
\* queue depth.
LEMMA DrainAllocate ==
    ASSUME Contained, Kept, DrainOK, StartOK, AllocateGroup
    PROVE  DrainOK' /\ StartOK'
<1>1. /\ slot \in Slots /\ slot' = slot + 1 /\ pc = "submit_io_rep" /\ pc' = "submit"
      /\ call'.main = slot /\ call'.ret = "submit_io_rep" /\ Before(slot, call'.cur) = {}
      /\ UNCHANGED <<warmup, counters, is_draining>>
  BY AllocateWalk
<1>2. UNCHANGED io_submitted
  BY <1>1 DEF counters
<1>3. \A n \in NsCtx : io_submitted[n] <= slot - 1 /\ ~AtLimit(io_submitted[n]) /\ ~is_draining[n]
  <2>1. \A n \in NsCtx : io_submitted[n] <= slot - 1 /\ (is_draining[n] => AtLimit(io_submitted[n]))
    BY <1>1 DEF StartOK
  <2>2. io_submitted \in [NsCtx -> Nat]
    BY Zenon DEF Kept, TypeOK
  <2>3. ASSUME NEW n \in NsCtx PROVE ~AtLimit(io_submitted[n])
    <3>1. /\ io_submitted[n] \in Nat /\ io_submitted[n] <= slot - 1 /\ slot \in 1 .. QueueDepth
          /\ QueueDepth \in Nat /\ NumberIos \in Nat
      BY <1>1, <2>1, <2>2, ConstantsAssumption DEF Slots
    <3>2. QED
      BY <3>1, ParseArgsAssumption DEF AtLimit
  <2>4. QED
    BY <2>1, <2>3
<1>4. Before(call.main, call.cur)' = {} /\ Group(call.main)' = Group(slot)
  BY <1>1 DEF Before, Group
<1>5. \A t \in Group(slot) : t[2] \in NsCtx
  BY <1>1, GroupFacts
<1>6. slot - 1 = slot' - 2
  BY <1>1 DEF Slots
<1>7. DrainOK'
  BY <1>1, <1>2, <1>3, <1>4, <1>5 DEF DrainOK, IoBudget
<1>8. StartOK'
  BY <1>1, <1>2, <1>3, <1>4, <1>5, <1>6 DEF StartOK
<1>9. QED
  BY <1>7, <1>8

\* A command that is refused is not counted, and the namespace does not drain for it.
LEMMA DrainSubmit ==
    ASSUME Contained, Kept, DrainOK, StartOK, SubmitReplica
    PROVE  DrainOK' /\ StartOK'
<1>1. PICK r \in Slots : \E c \in Group(r) :
               /\ r = call.main /\ c = call.cur /\ pc = "submit" /\ pc' = "submit"
               /\ call'.main = r /\ call'.ret = call.ret
               /\ Before(r, call'.cur) = Before(r, c) \cup {c} /\ c \notin Before(r, c)
               /\ \/ Accepted(c) /\ UNCHANGED buf_freed
                  \/ buf_freed' = buf_freed \cup {r} /\ UNCHANGED <<inflight, io_submitted>>
               /\ DrainAtLimit(c) /\ UNCHANGED loopvars
  BY SubmitWalk
<1>2. PICK c \in Group(r) :
               /\ r = call.main /\ c = call.cur /\ pc = "submit" /\ pc' = "submit"
               /\ call'.main = r /\ call'.ret = call.ret
               /\ Before(r, call'.cur) = Before(r, c) \cup {c} /\ c \notin Before(r, c)
               /\ Accepted(c) \/ UNCHANGED io_submitted
               /\ DrainAtLimit(c) /\ UNCHANGED loopvars
  BY <1>1
<1>3. /\ io_submitted \in [NsCtx -> Nat] /\ is_draining \in [NsCtx -> BOOLEAN]
      /\ slot \in Int
  BY DEF Kept, TypeOK
<1>4. PICK m \in NsCtx : m = c[2]
  BY GroupFacts
<1>5. /\ io_submitted' = [io_submitted EXCEPT ![m] = @ + 1] \/ UNCHANGED io_submitted
      /\ is_draining' = [is_draining EXCEPT ![m] = @ \/ AtLimit(io_submitted'[m])]
  BY <1>2, <1>4 DEF Accepted, DrainAtLimit
<1>6. /\ io_submitted'[m] \in {io_submitted[m], io_submitted[m] + 1} /\ io_submitted[m] \in Nat
      /\ \A n \in NsCtx : n # m => io_submitted'[n] = io_submitted[n]
  BY <1>3, <1>5
<1>7. /\ is_draining'[m] = (is_draining[m] \/ AtLimit(io_submitted'[m]))
      /\ \A n \in NsCtx : n # m => is_draining'[n] = is_draining[n]
  BY <1>3, <1>5
<1>8. ~is_draining[m] /\ ~AtLimit(io_submitted[m])
  BY <1>2, <1>4 DEF DrainOK
<1>9. \A t \in Group(r) : t[2] \in NsCtx /\ (t[2] = m <=> t = c)
  BY <1>2, <1>4 DEF Group
<1>10. /\ Before(call.main, call.cur)' = Before(r, c) \cup {c}
       /\ Before(call.main, call.cur) = Before(r, c)
       /\ Group(call.main)' = Group(r) /\ Group(call.main) = Group(r)
  BY <1>2 DEF Before, Group
<1>11. DrainOK'
  <2>1. \A n \in NsCtx : AtLimit(io_submitted'[n]) => is_draining'[n]
    BY <1>6, <1>7 DEF DrainOK
  <2>2. IoBudget'
    <3>1. ASSUME NEW n \in NsCtx, NumberIos > 0 PROVE io_submitted'[n] <= NumberIos
      <4>1. io_submitted[n] <= NumberIos
        BY <3>1 DEF DrainOK, IoBudget
      <4>2. CASE n = m
        <5>1. NumberIos \in Nat /\ io_submitted[m] < NumberIos
          BY <1>6, <1>8, <3>1, ConstantsAssumption DEF AtLimit
        <5>2. io_submitted[m] \in Nat /\ io_submitted'[m] \in {io_submitted[m], io_submitted[m] + 1}
          BY <1>6
        <5>3. io_submitted'[m] <= NumberIos
          BY <5>1, <5>2
        <5>4. QED
          BY <4>2, <5>3
      <4>3. QED
        BY <1>6, <4>1, <4>2
    <3>2. QED
      BY <3>1 DEF IoBudget
  <2>3. \A t \in Group(r) \ (Before(r, c) \cup {c}) : ~is_draining'[t[2]]
    BY <1>2, <1>7, <1>9, <1>10 DEF DrainOK
  <2>4. (NumberIos > 0 => ~warmup)' /\ pc' = "submit"
    BY <1>2 DEF DrainOK, loopvars
  <2>5. QED
    BY <1>10, <2>1, <2>2, <2>3, <2>4 DEF DrainOK
<1>12. StartOK'
  <2>1. ASSUME call.ret = "submit_io_rep", NEW t \in Group(r)
        PROVE  /\ io_submitted'[t[2]] <= IF t \in Before(r, c) \cup {c} THEN slot - 1 ELSE slot - 2
               /\ is_draining'[t[2]] => AtLimit(io_submitted'[t[2]])
    <3>1. /\ io_submitted[t[2]] <= IF t \in Before(r, c) THEN slot - 1 ELSE slot - 2
          /\ is_draining[t[2]] => AtLimit(io_submitted[t[2]])
      BY <1>2, <1>10, <2>1 DEF StartOK
    <3>2. CASE t = c
      <4>1. io_submitted[m] <= slot - 2 /\ t[2] = m /\ t \in Before(r, c) \cup {c}
        BY <1>2, <1>4, <3>1, <3>2
      <4>2. io_submitted'[m] <= slot - 1
        BY <1>3, <1>6, <4>1
      <4>3. is_draining'[m] => AtLimit(io_submitted'[m])
        BY <1>7, <1>8
      <4>4. QED
        BY <4>1, <4>2, <4>3
    <3>3. CASE t # c
      BY <1>6, <1>7, <1>9, <3>1, <3>3
    <3>4. QED
      BY <3>2, <3>3
  <2>2. slot' = slot
    BY <1>2 DEF loopvars
  <2>3. QED
    BY <1>2, <1>10, <2>1, <2>2 DEF StartOK
<1>13. QED
  BY <1>11, <1>12

LEMMA DrainSubmitDone ==
    ASSUME Contained, Kept, DrainOK, StartOK, SubmitDone
    PROVE  DrainOK' /\ StartOK'
<1>1. /\ call.main \in Slots /\ pc = "submit" /\ pc' = call.ret
      /\ pc' \in {"submit_io_rep", "poll", "drainpoll", "cleanup"}
      /\ Before(call.main, call.cur) = Group(call.main)
      /\ UNCHANGED <<loopvars, counters, is_draining>>
  BY SubmitDoneWalk
<1>2. UNCHANGED <<io_submitted, slot, warmup>>
  BY <1>1 DEF counters, loopvars
<1>3. DrainOK'
  BY <1>1, <1>2 DEF DrainOK, IoBudget
<1>4. ASSUME pc' = "submit_io_rep", NEW n \in NsCtx
      PROVE  io_submitted[n] <= slot - 1 /\ (is_draining[n] => AtLimit(io_submitted[n]))
  <2>1. <<call.main, n>> \in Group(call.main) /\ <<call.main, n>>[2] = n
    BY <1>1, GroupFacts
  <2>2. QED
    BY <1>1, <1>4, <2>1 DEF StartOK
<1>5. StartOK'
  BY <1>1, <1>2, <1>4 DEF StartOK
<1>6. QED
  BY <1>3, <1>5

\* The walk of task_complete passes only replicas whose namespace does not drain, so the
\* round it starts finds none that does.
LEMMA DrainCompletion ==
    ASSUME Contained, Kept, DrainOK, StartOK, Completion
    PROVE  DrainOK' /\ StartOK'
<1>1. ASSUME NEW t \in Tasks, IoComplete(t) PROVE DrainOK' /\ StartOK'
  <2>1. PICK r \in Slots :
           /\ pc \in {"poll", "drainpoll"}
           /\ \/ pc' = "renew" /\ call'.main = r /\ call'.ret = pc /\ Before(r, call'.cur) = {}
              \/ pc' = pc /\ UNCHANGED call
           /\ \A n \in NsCtx : is_draining[n] => is_draining'[n]
           /\ UNCHANGED <<loopvars, io_submitted>>
    BY <1>1, CompleteWalk
  <2>2. UNCHANGED warmup
    BY <2>1 DEF loopvars
  <2>3. pc' = "renew" => Before(call.main, call.cur)' = {}
    BY <2>1 DEF Before, Group
  <2>4. DrainOK'
    BY <2>1, <2>2, <2>3 DEF DrainOK, IoBudget
  <2>5. StartOK'
    BY <2>1 DEF StartOK
  <2>6. QED
    BY <2>4, <2>5
<1>2. CASE Renew
  <2>1. PICK r \in Slots : \E c \in Group(r) :
           /\ r = call.main /\ c = call.cur /\ pc = "renew"
           /\ call'.main = r /\ call'.ret = call.ret
           /\ \/ pc' = "release"
              \/ /\ ~is_draining[c[2]] /\ pc' = "renew"
                 /\ Before(r, call'.cur) = Before(r, c) \cup {c}
           /\ UNCHANGED <<loopvars, counters, is_draining>>
    BY <1>2, RenewWalk
  <2>2. PICK c \in Group(r) :
           /\ r = call.main /\ c = call.cur /\ pc = "renew"
           /\ call'.main = r /\ call'.ret = call.ret
           /\ \/ pc' = "release"
              \/ /\ ~is_draining[c[2]] /\ pc' = "renew"
                 /\ Before(r, call'.cur) = Before(r, c) \cup {c}
           /\ UNCHANGED <<loopvars, counters, is_draining>>
    BY <2>1
  <2>3. UNCHANGED <<io_submitted, warmup>>
    BY <2>2 DEF loopvars, counters
  <2>4. pc' = "renew" => Before(call.main, call.cur)' = Before(r, c) \cup {c}
    BY <2>2 DEF Before, Group
  <2>5. \A t \in Before(r, c) : ~is_draining[t[2]]
    BY <2>2 DEF DrainOK
  <2>6. DrainOK'
    BY <2>2, <2>3, <2>4, <2>5 DEF DrainOK, IoBudget
  <2>7. StartOK'
    BY <2>2 DEF StartOK
  <2>8. QED
    BY <2>6, <2>7
<1>3. CASE RenewDone
  <2>1. PICK r \in Slots :
           /\ r = call.main /\ pc = "renew" /\ pc' = "submit" /\ Before(r, call.cur) = Group(r)
           /\ call'.main = r /\ call'.ret = call.ret /\ Before(r, call'.cur) = {}
           /\ UNCHANGED <<loopvars, counters, is_draining>>
    BY <1>3, RenewDoneWalk
  <2>2. UNCHANGED <<io_submitted, warmup>>
    BY <2>1 DEF loopvars, counters
  <2>3. Group(call.main)' = Group(r) /\ \A t \in Group(r) : ~is_draining[t[2]]
    BY <2>1 DEF DrainOK, Group
  <2>4. DrainOK'
    BY <2>1, <2>2, <2>3 DEF DrainOK, IoBudget
  <2>5. StartOK'
    BY <2>1 DEF StartOK
  <2>6. QED
    BY <2>4, <2>5
<1>4. CASE Release \/ ReleaseDone
  <2>1. /\ pc = "release" /\ UNCHANGED <<loopvars, counters, is_draining>>
        /\ \/ pc' = "release" /\ call'.ret = call.ret
           \/ pc' = call.ret
    BY <1>4, ReleaseWalk
  <2>2. UNCHANGED <<io_submitted, warmup>> /\ call.ret \in {"poll", "drainpoll"}
    BY <2>1 DEF loopvars, counters, StartOK
  <2>3. DrainOK'
    BY <2>1, <2>2 DEF DrainOK, IoBudget
  <2>4. StartOK'
    BY <2>1, <2>2 DEF StartOK
  <2>5. QED
    BY <2>3, <2>4
<1>5. QED
  BY <1>1, <1>2, <1>3, <1>4 DEF Completion

\* The statistics are cleared at the end of a warm-up only, which -d excludes.
LEMMA DrainElsewhere ==
    ASSUME Contained, Kept, DrainOK, StartOK, Elsewhere
    PROVE  DrainOK' /\ StartOK'
<1>1. /\ \/ pc' = pc
         \/ pc \notin Walks /\ pc' \notin Walks \cup {"submit_io_rep"}
      /\ \A n \in NsCtx : is_draining[n] => is_draining'[n]
      /\ \/ UNCHANGED <<io_submitted, warmup, is_draining>>
         \/ pc \notin Walks \cup {"submit_io_rep"} /\ UNCHANGED <<io_submitted, warmup>>
         \/ /\ pc = "clock" /\ warmup /\ io_submitted' = [n \in NsCtx |-> 0]
            /\ ~warmup' /\ UNCHANGED is_draining
      /\ UNCHANGED <<slot, call>>
  BY ElsewhereStep DEF Kept
<1>2. CASE UNCHANGED <<io_submitted, warmup, is_draining>>
  <2>1. Before(call.main, call.cur)' = Before(call.main, call.cur)
        /\ Group(call.main)' = Group(call.main)
    BY <1>1 DEF Before, Group
  <2>2. DrainOK'
    BY <1>1, <1>2, <2>1 DEF DrainOK, IoBudget, Walks
  <2>3. StartOK'
    BY <1>1, <1>2, <2>1 DEF StartOK, Walks
  <2>4. QED
    BY <2>2, <2>3
<1>3. CASE pc \notin Walks \cup {"submit_io_rep"} /\ UNCHANGED <<io_submitted, warmup>>
  <2>1. pc' \notin Walks \cup {"submit_io_rep"}
    BY <1>1, <1>3
  <2>2. DrainOK'
    BY <1>1, <1>3, <2>1 DEF DrainOK, IoBudget, Walks
  <2>3. StartOK'
    BY <2>1 DEF StartOK, Walks
  <2>4. QED
    BY <2>2, <2>3
<1>4. CASE /\ pc = "clock" /\ warmup /\ io_submitted' = [n \in NsCtx |-> 0]
           /\ ~warmup' /\ UNCHANGED is_draining
  <2>1. pc' \notin Walks \cup {"submit_io_rep"}
    BY <1>1, <1>4 DEF Walks
  <2>2. ~(NumberIos > 0)
    BY <1>4 DEF DrainOK
  <2>3. DrainOK'
    BY <1>4, <2>1, <2>2 DEF DrainOK, IoBudget, AtLimit, Walks
  <2>4. StartOK'
    BY <2>1 DEF StartOK, Walks
  <2>5. QED
    BY <2>3, <2>4
<1>5. QED
  BY <1>1, <1>2, <1>3, <1>4
-----------------------------------------------------------------------------
(* The invariant *)

\* A run that met undefined behaviour stopped where it was.
ContainedInv ==
    TypeOK /\ CallOK /\ Barrier /\ DrainOK /\ StartOK /\ (pc # "halted" => Kept)

LEMMA KeptInit == Init => Kept
<1>1. SUFFICES ASSUME Init PROVE Kept
  OBVIOUS
<1>2. ASSUME NEW s \in Slots PROVE KeptSlot(s)
  <2>1. Unstarted(s) /\ ~Walking(s) /\ ~(s < slot)
    BY <1>1 DEF Init, Unstarted, Walking, Slots
  <2>2. QED
    BY <2>1 DEF KeptSlot
<1>3. QED
  BY <1>1, <1>2, TypeInit, ListsInit DEF Kept

LEMMA KeptBarrier == Kept => Barrier
<1>1. SUFFICES ASSUME Kept PROVE Barrier
  OBVIOUS
<1>2. ASSUME pc \in {"renew", "release"} PROVE inflight \cap Group(call.main) = {}
  BY <1>1, <1>2, AtCursor DEF KeptSlot, Walks
<1>3. ASSUME NEW s \in Settled
      PROVE  rep_completed_num[s] + Cardinality(inflight \cap Group(s)) = NumNs
  <2>1. s \in Slots /\ s < slot /\ s \notin buf_freed /\ ~Walking(s)
    BY <1>3 DEF Settled, Allocated, Walking
  <2>2. KeptSlot(s)
    BY <1>1, <2>1 DEF Kept
  <2>3. Accounted(s) = NumNs
    BY <2>1, <2>2, Zenon DEF KeptSlot
  <2>4. QED
    BY <2>3, Zenon DEF Accounted
<1>4. QED
  BY <1>2, <1>3 DEF Barrier

\* A step is one of a walk, one outside, or the last one.
LEMMA ContainedSteps ==
    ASSUME [Next]_vars
    PROVE  \/ AllocateGroup \/ SubmitReplica \/ SubmitDone \/ (\E t \in Tasks : IoComplete(t))
           \/ Renew \/ RenewDone \/ Release \/ ReleaseDone \/ Elsewhere \/ UndefinedBehaviour
BY DEF Next, WorkFn, Submission, Completion, Elsewhere, Returned

LEMMA ContainedNext == Contained /\ ContainedInv /\ [Next]_vars => ContainedInv'
<1>1. SUFFICES ASSUME Contained, ContainedInv, [Next]_vars PROVE ContainedInv'
  OBVIOUS
<1>2. TypeOK /\ CallOK /\ Barrier /\ DrainOK /\ StartOK
  BY <1>1 DEF ContainedInv
<1>3. TypeOK' /\ CallOK'
  BY <1>1, <1>2, TypeNext
<1>4. CASE UndefinedBehaviour \/ pc = "halted"
  <2>1. /\ pc' = "halted" /\ UNCHANGED <<slot, warmup, call, rep_completed_num, inflight, buf_freed,
                                         io_submitted, is_draining>>
    <3>1. CASE UndefinedBehaviour
      BY <3>1 DEF UndefinedBehaviour, loopvars, taskvars, nsvars, counters
    <3>2. CASE pc = "halted" /\ ~UndefinedBehaviour
      <4>1. UNCHANGED vars
        BY <1>1, <3>2
        DEF Next, WorkFn, Submission, Completion, MainLoop, Drain, Returned, AllocateGroup,
            AllAllocated, SubmitReplica, SubmitDone, IoComplete, Renew, RenewDone, Release,
            ReleaseDone, LoopTest, TakeQueue, RetryTask, RetryDone, PollError, EndPoll, TimeLeft,
            TimeExpired, DrainNs, EndDrainPoll, CleanupTask, NextCleanup, SetExit
      <4>2. QED
        BY <3>2, <4>1 DEF vars, loopvars, taskvars, nsvars, counters
    <3>3. QED
      BY <1>4, <3>1, <3>2
  <2>2. Barrier'
    BY <1>2, <2>1 DEF Barrier, Settled, Allocated, Group
  <2>3. DrainOK' /\ StartOK'
    BY <1>2, <2>1 DEF DrainOK, StartOK, IoBudget
  <2>4. QED
    BY <1>3, <2>1, <2>2, <2>3 DEF ContainedInv
<1>5. ASSUME ~UndefinedBehaviour, pc # "halted" PROVE ContainedInv'
  <2>1. Kept
    BY <1>1, <1>5 DEF ContainedInv
  <2>2. ListsOK'
    BY <1>1, <1>2, <2>1, ListsNext DEF Contained, Kept
  <2>3. \A s \in Slots : KeptSlot(s)'
    BY <1>1, <1>5, <2>1, ContainedSteps, KeptAllocate, KeptSubmit, KeptSubmitDone, KeptComplete,
       KeptWalk, KeptElsewhere
  <2>4. Kept'
    BY <1>3, <2>2, <2>3 DEF Kept
  <2>5. Barrier'
    BY <2>4, KeptBarrier, PTL
  <2>6. DrainOK' /\ StartOK'
    BY <1>1, <1>2, <1>5, <2>1, ContainedSteps, DrainAllocate, DrainSubmit, DrainSubmitDone,
       DrainCompletion, DrainElsewhere DEF Completion
  <2>7. QED
    BY <1>3, <2>4, <2>5, <2>6 DEF ContainedInv
<1>6. QED
  BY <1>4, <1>5

LEMMA ContainedStays == Contained => []Contained
<1>1. Contained => Contained'
  BY DEF Contained
<1>2. QED
  BY <1>1, PTL

LEMMA ContainedAlways == Contained /\ Spec => []ContainedInv
<1>1. Init => ContainedInv
  BY TypeInit, KeptInit, KeptBarrier, DrainInit DEF ContainedInv
<1>2. QED
  BY <1>1, ContainedNext, ContainedStays, PTL DEF Spec

\* A submission that is refused without -Q, although it frees a task and the buffer its
\* group shares, cannot exceed -d, open a barrier early or make a depth wrong, for every
\* queue depth, number of replicas and pattern of refusals and errors.
THEOREM RefusalsAreContained == Contained /\ Spec => []RefusalContained
<1>1. ContainedInv => IoBudget /\ Barrier
  BY DEF ContainedInv, DrainOK
<1>2. IoBudget /\ Barrier /\ DepthExact => RefusalContained
  BY DEF RefusalContained
<1>3. QED
  BY <1>1, <1>2, ContainedAlways, DepthIsExact, PTL

\* A namespace that drains is never sent another command and never stops draining, for
\* every queue depth and number of replicas, refusals without -Q included: whatever made it
\* drain (-d, an error, a lost queue pair, the end of the run), task_complete releases the
\* groups that use it.
THEOREM DrainingIsFinal == Contained /\ Spec => DrainIsFinal
<1> DEFINE Final == \A n \in NsCtx :
                        is_draining[n] => /\ is_draining'[n]
                                          /\ \A t \in inflight' \ inflight : t[2] # n
<1>1. Contained /\ ContainedInv /\ [Next]_vars => [Final]_vars
  <2>1. SUFFICES ASSUME Contained, ContainedInv, Next PROVE [Final]_vars
    BY Zenon
  <2>2. TypeOK /\ DrainOK
    BY <2>1 DEF ContainedInv
  <2>3. is_draining \in [NsCtx -> BOOLEAN]
    BY <2>2, Zenon DEF TypeOK
  <2>4. ASSUME UNCHANGED <<inflight, is_draining>> PROVE Final
    BY <2>4
  <2>5. CASE UndefinedBehaviour \/ UNCHANGED vars
    <3>1. UNCHANGED <<inflight, is_draining>>
      BY <2>5 DEF UndefinedBehaviour, vars, taskvars, nsvars
    <3>2. QED
      BY <2>4, <3>1
  <2>6. ASSUME Kept, ~UndefinedBehaviour PROVE Final
    <3>1. CASE AllocateGroup
      BY <2>1, <2>4, <2>6, <3>1, AllocateWalk
    <3>2. CASE SubmitReplica
      <4>1. PICK r \in Slots : \E c \in Group(r) :
               /\ r = call.main /\ c = call.cur /\ pc = "submit" /\ c \notin Before(r, c)
               /\ \/ Accepted(c) /\ UNCHANGED buf_freed
                  \/ buf_freed' = buf_freed \cup {r} /\ UNCHANGED <<inflight, io_submitted>>
               /\ DrainAtLimit(c)
        BY <2>1, <2>6, <3>2, SubmitWalk
      <4>2. PICK c \in Group(r) :
               /\ r = call.main /\ c = call.cur /\ pc = "submit" /\ c \notin Before(r, c)
               /\ inflight' \subseteq inflight \cup {c} /\ DrainAtLimit(c)
        BY <4>1 DEF Accepted
      <4>3. ~is_draining[c[2]]
        BY <2>2, <4>2 DEF DrainOK
      <4>4. \A n \in NsCtx : is_draining[n] => is_draining'[n]
        BY <2>3, <4>2 DEF DrainAtLimit
      <4>5. QED
        BY <4>2, <4>3, <4>4
    <3>3. CASE SubmitDone \/ Renew \/ RenewDone \/ Release \/ ReleaseDone
      <4>1. UNCHANGED <<inflight, is_draining>>
        BY <3>3 DEF SubmitDone, Renew, RenewDone, Release, ReleaseDone, taskvars, nsvars
      <4>2. QED
        BY <2>4, <4>1
    <3>4. CASE \E t \in Tasks : IoComplete(t)
      <4>1. /\ inflight' \subseteq inflight
            /\ \A n \in NsCtx : is_draining[n] => is_draining'[n]
        BY <2>1, <2>6, <3>4, CompleteWalk
      <4>2. QED
        BY <4>1
    <3>5. CASE Elsewhere
      <4>1. UNCHANGED inflight /\ \A n \in NsCtx : is_draining[n] => is_draining'[n]
        BY <2>6, <3>5, ElsewhereStep DEF Kept
      <4>2. QED
        BY <4>1
    <3>6. QED
      BY <2>1, <2>6, <3>1, <3>2, <3>3, <3>4, <3>5, ContainedSteps
  <2>7. pc = "halted" => UndefinedBehaviour \/ UNCHANGED vars
    BY <2>1
    DEF Next, WorkFn, Submission, Completion, MainLoop, Drain, Returned, AllocateGroup,
        AllAllocated, SubmitReplica, SubmitDone, IoComplete, Renew, RenewDone, Release,
        ReleaseDone, LoopTest, TakeQueue, RetryTask, RetryDone, PollError, EndPoll, TimeLeft,
        TimeExpired, DrainNs, EndDrainPoll, CleanupTask, NextCleanup, SetExit
  <2>8. QED
    BY <2>1, <2>5, <2>6, <2>7 DEF ContainedInv
<1>2. Contained /\ Spec => [][Final]_vars
  BY <1>1, ContainedStays, ContainedAlways, PTL DEF Spec
<1>3. QED
  BY <1>2 DEF DrainIsFinal

LEMMA AssertHolds ==
    ASSUME TypeOK, CallOK, DrainOK, StartOK
    PROVE  MainNotDraining
<1>1. ASSUME pc = "submit_io_rep", slot <= QueueDepth PROVE ~is_draining[1]
  <2>1. io_submitted[1] <= slot - 1 /\ (is_draining[1] => AtLimit(io_submitted[1]))
    BY <1>1, ConstantTypes DEF StartOK
  <2>2. slot \in Nat /\ io_submitted[1] \in Nat
    <3>1. slot \in 1 .. (QueueDepth + 1) /\ io_submitted \in [NsCtx -> Nat]
      BY Zenon DEF TypeOK
    <3>2. QED
      BY <3>1, ConstantTypes
  <2>3. ~AtLimit(io_submitted[1])
    BY <1>1, <2>1, <2>2, ParseArgsAssumption, ConstantsAssumption DEF AtLimit
  <2>4. QED
    BY <2>1, <2>3
<1>2. ASSUME pc = "renew", call.cur = NULL PROVE ~is_draining[1]
  <2>1. call.main \in Slots
    BY <1>2 DEF CallOK
  <2>2. MainTask(call.main) \in Before(call.main, call.cur) /\ MainTask(call.main)[2] = 1
    BY <1>2, <2>1, GroupFacts DEF Before, MainTask
  <2>3. QED
    BY <1>2, <2>2 DEF DrainOK
<1>3. QED
  BY <1>1, <1>2 DEF MainNotDraining

\* The assertion of submit_single_io_rep never fails, refusals without -Q included: it is
\* reached with a main namespace that does not drain, at the start of the run and when
\* task_complete renews a group.
THEOREM MainNeverDrains == Contained /\ Spec => []MainNotDraining
<1>1. ContainedInv => MainNotDraining
  BY AssertHolds DEF ContainedInv
<1>2. QED
  BY <1>1, ContainedAlways, PTL
=============================================================================
