-------------------------- MODULE RepBarrier_proofs --------------------------
(***************************************************************************)
(* The barrier of RepWorker and the safety of its memory, for every queue  *)
(* depth and number of replicas, when the driver refuses no submission,    *)
(* g_rep_num is the number of namespaces and the allocator leaves the link *)
(* of a freed task as it was.  (Each condition is needed: RepSharedLink,   *)
(* RepFreedBuffer, RepNumMismatch and RepFreedLink show what happens       *)
(* without them.)                                                          *)
(*                                                                         *)
(* The invariant says what each slot is doing.  An allocated slot nobody   *)
(* walks is waiting, its replicas either in flight or counted, or it is    *)
(* released; a slot that is being walked has its replicas submitted, or    *)
(* freed, exactly up to the cursor.  That needs the lists: rep_tasks of an *)
(* allocated slot stays the list submit_io_rep built.                      *)
(***************************************************************************)
EXTENDS RepWorker_proofs

Healthy == MaxRejects = 0 /\ RepNum = NumNs /\ FreedLinkKept

\* The place of namespace n in the replica list, from 1 on.
Rank(n) == IF SendMainRepFinally THEN IF n = 1 THEN NumNs ELSE n - 1 ELSE n

\* The replicas of slot s that a walk with cursor c has left behind.
Before(s, c) == IF c = NULL THEN Group(s) ELSE {t \in Group(s) : Rank(t[2]) < Rank(c[2])}

ListsOK ==
    /\ \A n \in NsCtx : q.next[QueuedTasks(n)] = NULL
    /\ q.next[SwapList] = NULL /\ tmp = NULL
    /\ \A s \in Allocated :
          /\ q.next[RepTasks(s)] = <<s, FirstReplica>>
          /\ \A n \in NsCtx : q.next[<<s, n>>] = IF Successor(n) = 0 THEN NULL
                                                 ELSE <<s, Successor(n)>>

Walking(s) == pc \in {"submit", "renew", "release"} /\ call.main = s

Alive(s) == freed \cap Group(s) = {} /\ s \notin buf_freed

Idle(s) == Alive(s) /\ rep_completed_num[s] = 0 /\ inflight \cap Group(s) = {}

Submitting(s) ==
    /\ Alive(s) /\ rep_completed_num[s] = 0
    /\ inflight \cap Group(s) = Before(s, call.cur)

Releasing(s) ==
    /\ s \in buf_freed /\ inflight \cap Group(s) = {}
    /\ freed \cap Group(s) = Before(s, call.cur) \ {MainTask(s)}

Waiting(s) ==
    /\ Alive(s)
    /\ rep_completed_num[s] + Cardinality(inflight \cap Group(s)) = NumNs

Released(s) == s \in buf_freed /\ inflight \cap Group(s) = {} /\ Group(s) \subseteq freed

SlotOK(s) ==
    /\ s >= slot => Idle(s)
    /\ s < slot /\ ~Walking(s) => Waiting(s) \/ Released(s)
    /\ Walking(s) =>
          /\ s < slot /\ call.cur \in Group(s) \cup {NULL}
          /\ pc = "submit" => Submitting(s)
          /\ pc = "renew" => Idle(s)
          /\ pc = "release" => Releasing(s)

SlotsOK == \A s \in Slots : SlotOK(s)

RunsOn == fault = "none" /\ pc # "halted"

HealthyInv == TypeOK /\ CallOK /\ ListsOK /\ SlotsOK /\ RunsOn

-----------------------------------------------------------------------------
(* The replica list *)

LEMMA RankFacts ==
    /\ FirstReplica \in NsCtx /\ Rank(FirstReplica) = 1
    /\ \A n \in NsCtx :
          /\ Rank(n) \in NsCtx
          /\ Successor(n) = 0 => Rank(n) = NumNs
          /\ Successor(n) # 0 => Successor(n) \in NsCtx /\ Rank(Successor(n)) = Rank(n) + 1
    /\ \A m, n \in NsCtx : Rank(m) = Rank(n) => m = n
BY ConstantTypes DEF Rank, Successor, FirstReplica, NsCtx

LEMMA GroupFacts ==
    ASSUME NEW s \in Slots
    PROVE  /\ Group(s) \subseteq Tasks /\ NULL \notin Group(s)
           /\ MainTask(s) \in Group(s)
           /\ \A n \in NsCtx : <<s, n>> \in Group(s)
           /\ \A t \in Group(s) : t[1] = s /\ t[2] \in NsCtx /\ t = <<s, t[2]>>
           /\ \A t \in Tasks : t \in Group(s) <=> t[1] = s
           /\ IsFiniteSet(Group(s)) /\ Cardinality(Group(s)) = NumNs
<1>1. /\ Group(s) \subseteq Tasks
      /\ \A n \in NsCtx : <<s, n>> \in Group(s)
      /\ \A t \in Group(s) : t[1] = s /\ t[2] \in NsCtx /\ t = <<s, t[2]>>
      /\ \A t \in Tasks : t \in Group(s) <=> t[1] = s
  BY DEF Group, Tasks
<1>2. NULL \notin Group(s)
  BY <1>1, NullIsNoLocation DEF Locations
<1>3. MainTask(s) \in Group(s)
  BY <1>1, ConstantTypes DEF MainTask
<1>4. IsFiniteSet({s}) /\ Cardinality({s}) = 1
  BY FS_Singleton
<1>5. IsFiniteSet(NsCtx) /\ Cardinality(NsCtx) = NumNs
  BY ConstantTypes, FS_Interval DEF NsCtx
<1>6. IsFiniteSet(Group(s)) /\ Cardinality(Group(s)) = Cardinality({s}) * Cardinality(NsCtx)
  BY <1>4, <1>5, FS_Product DEF Group
<1>7. Cardinality(Group(s)) = NumNs
  BY <1>4, <1>5, <1>6, ConstantTypes
<1>8. QED
  BY <1>1, <1>2, <1>3, <1>6, <1>7

LEMMA MainTaskInGroup == \A s \in Slots : MainTask(s) \in Group(s)
BY ConstantTypes DEF MainTask, Group

\* A walk begins at the first replica, with nothing behind it.
LEMMA WalkStart ==
    ASSUME ListsOK, NEW s \in Slots, s \in Allocated
    PROVE  /\ First(q, RepTasks(s)) \in Group(s)
           /\ Before(s, First(q, RepTasks(s))) = {}
<1>1. First(q, RepTasks(s)) = <<s, FirstReplica>>
  BY DEF ListsOK, First
<1>2. <<s, FirstReplica>> \in Group(s) /\ <<s, FirstReplica>> # NULL
  BY RankFacts, GroupFacts
<1>3. \A t \in Group(s) : ~(Rank(t[2]) < 1)
  BY RankFacts, GroupFacts, ConstantTypes DEF NsCtx
<1>4. QED
  BY <1>1, <1>2, <1>3, RankFacts DEF Before

\* A walk goes on to the next replica, with one more behind it, and ends after the last.
LEMMA WalkStep ==
    ASSUME ListsOK, NEW s \in Slots, s \in Allocated, NEW c \in Group(s)
    PROVE  /\ NextOf(q, c) \in Group(s) \cup {NULL}
           /\ Before(s, NextOf(q, c)) = Before(s, c) \cup {c}
           /\ c \notin Before(s, c)
<1>1. c[2] \in NsCtx /\ c = <<s, c[2]>> /\ c # NULL
  BY GroupFacts
<1>2. NextOf(q, c) = IF Successor(c[2]) = 0 THEN NULL ELSE <<s, Successor(c[2])>>
  BY <1>1 DEF ListsOK, NextOf
<1>3. c \notin Before(s, c)
  BY <1>1, RankFacts, ConstantTypes DEF Before, NsCtx
<1>4. CASE Successor(c[2]) = 0
  <2>1. NextOf(q, c) = NULL /\ Rank(c[2]) = NumNs
    BY <1>1, <1>2, <1>4, RankFacts
  <2>2. \A t \in Group(s) : t # c => Rank(t[2]) < NumNs
    <3>1. TAKE t \in Group(s)
    <3>2. HAVE t # c
    <3>3. t[2] \in NsCtx /\ t[2] # c[2]
      BY <1>1, <3>1, <3>2, GroupFacts
    <3>4. Rank(t[2]) \in NsCtx /\ Rank(t[2]) # NumNs
      BY <1>1, <2>1, <3>3, RankFacts
    <3>5. QED
      BY <3>4, ConstantTypes DEF NsCtx
  <2>3. QED
    BY <1>1, <1>3, <2>1, <2>2 DEF Before
<1>5. CASE Successor(c[2]) # 0
  <2> DEFINE d == <<s, Successor(c[2])>>
  <2>1. NextOf(q, c) = d /\ d \in Group(s) /\ d # NULL /\ Rank(d[2]) = Rank(c[2]) + 1
    BY <1>1, <1>2, <1>5, RankFacts, GroupFacts
  <2>2. \A t \in Group(s) : Rank(t[2]) < Rank(c[2]) + 1 <=> Rank(t[2]) < Rank(c[2]) \/ t = c
    <3>1. TAKE t \in Group(s)
    <3>2. t[2] \in NsCtx /\ t = <<s, t[2]>> /\ Rank(t[2]) \in Int /\ Rank(c[2]) \in Int
      BY <1>1, <3>1, GroupFacts, RankFacts, ConstantTypes DEF NsCtx
    <3>3. t = c <=> Rank(t[2]) = Rank(c[2])
      BY <1>1, <3>2, RankFacts
    <3>4. QED
      BY <3>2, <3>3
  <2>3. QED
    BY <1>1, <1>3, <2>1, <2>2 DEF Before
<1>6. QED
  BY <1>4, <1>5

-----------------------------------------------------------------------------
(* The lists *)

LEMMA ListsInit == Init => ListsOK
<1>1. SUFFICES ASSUME Init PROVE ListsOK
  OBVIOUS
<1>2. Allocated = {}
  BY <1>1, ConstantTypes DEF Init, Allocated, Slots
<1>3. \A h \in Heads : q.next[h] = NULL
  BY <1>1 DEF Init, EmptyQueues, Locations
<1>4. QED
  BY <1>1, <1>2, <1>3, HeadsTyped DEF ListsOK, Init

\* Only submit_io_rep builds a list; taking over an empty queue leaves it empty.  The lists
\* survive as long as no refused task is queued for a retry.
LEMMA ListsNext ==
    ASSUME ContinueOnError => MaxRejects = 0, TypeOK, ListsOK, [Next]_vars
    PROVE  ListsOK'
<1>1. /\ TypeOK /\ ListsOK /\ ~(Failed /\ ContinueOnError)
      /\ \A h \in Heads, t \in Tasks : h # t
  <2>1. rejects \in 0 .. MaxRejects
    BY Zenon DEF TypeOK
  <2>2. ~(Failed /\ ContinueOnError)
    BY <2>1 DEF Failed
  <2>3. \A h \in Heads, t \in Tasks : h # t
    BY DEF Heads, Tasks, Slots, NsCtx
  <2>4. QED
    BY <2>2, <2>3
<1>2. CASE AllocateGroup
  <2>1. slot \in Slots /\ slot' = slot + 1 /\ q' = LinkGroup(slot) /\ UNCHANGED tmp
    BY <1>1, <1>2 DEF AllocateGroup, TypeOK, Slots
  <2>2. \A l \in Locations : q'.next[l] =
            IF l = RepTasks(slot) THEN <<slot, FirstReplica>>
            ELSE IF l[1] = slot THEN IF Successor(l[2]) = 0 THEN NULL
                                     ELSE <<slot, Successor(l[2])>>
            ELSE q.next[l]
    BY <2>1 DEF LinkGroup
  <2>3. \A n \in NsCtx : QueuedTasks(n) \in Locations /\ QueuedTasks(n)[1] = 0
    BY HeadsTyped DEF QueuedTasks, Locations
  <2>4. SwapList \in Locations /\ SwapList[1] = 0
    BY HeadsTyped DEF SwapList, Locations
  <2>5. slot # 0 /\ RepTasks(slot)[1] = slot
    BY <2>1 DEF RepTasks, Slots
  <2>6. Allocated' = Allocated \cup {slot}
    BY <1>1, <2>1 DEF Allocated, Slots, TypeOK
  <2>7. /\ \A n \in NsCtx : q'.next[QueuedTasks(n)] = NULL
        /\ q'.next[SwapList] = NULL /\ tmp' = NULL
    BY <1>1, <2>1, <2>2, <2>3, <2>4, <2>5 DEF ListsOK
  <2>8. ASSUME NEW r \in Allocated'
        PROVE  /\ q'.next[RepTasks(r)] = <<r, FirstReplica>>
               /\ \A n \in NsCtx : q'.next[<<r, n>>] = IF Successor(n) = 0 THEN NULL
                                                       ELSE <<r, Successor(n)>>
    <3>1. r \in Slots /\ RepTasks(r) \in Locations /\ RepTasks(r) = <<r, 0>>
      BY <2>8, HeadsTyped DEF Allocated, RepTasks, Locations
    <3>2. \A n \in NsCtx : <<r, n>> \in Locations /\ n # 0
      BY <3>1 DEF Locations, Tasks, NsCtx
    <3>3. CASE r = slot
      BY <2>2, <3>1, <3>2, <3>3 DEF RepTasks
    <3>4. CASE r # slot
      <4>1. r \in Allocated
        BY <2>6, <2>8, <3>4
      <4>2. /\ q'.next[RepTasks(r)] = q.next[RepTasks(r)]
            /\ \A n \in NsCtx : q'.next[<<r, n>>] = q.next[<<r, n>>]
        BY <2>2, <3>1, <3>2, <3>4 DEF RepTasks
      <4>3. QED
        BY <1>1, <4>1, <4>2 DEF ListsOK
    <3>5. QED
      BY <3>3, <3>4
  <2>9. QED
    BY <2>7, <2>8 DEF ListsOK
<1>3. CASE TakeQueue
  <2>1. q'.next = q.next /\ UNCHANGED <<tmp, slot>>
    <3>1. q.next[QueuedTasks(ns)] = NULL /\ q.next[SwapList] = NULL
      BY <1>1 DEF ListsOK, TypeOK
    <3>2. q.next \in [Locations -> Tasks \cup {NULL}]
      BY <1>1 DEF TypeOK, TailQueues
    <3>3. MoveAll(q, SwapList, QueuedTasks(ns)).next = q.next
      BY <3>1, <3>2 DEF MoveAll
    <3>4. QED
      BY <1>3, <3>3 DEF TakeQueue, loopvars
  <2>2. QED
    BY <1>1, <2>1 DEF ListsOK, Allocated
<1>4. CASE SubmitReplica
  BY <1>1, <1>4 DEF SubmitReplica, Refused, loopvars, ListsOK, Allocated
<1>5. CASE RetryTask \/ CleanupTask
  BY <1>1, <1>5 DEF RetryTask, CleanupTask, ListsOK, First
<1>6. CASE DrainNs \/ EndDrainPoll \/ NextCleanup
  <2>1. UNCHANGED <<q, slot>>
    BY <1>6 DEF DrainNs, EndDrainPoll, NextCleanup, taskvars
  <2>2. \A n \in NsCtx : First(q, QueuedTasks(n)) = NULL
    BY <1>1 DEF ListsOK, First
  <2>3. tmp' = NULL
    <3>1. CASE DrainNs \/ EndDrainPoll
      BY <1>1, <2>2, <3>1, ConstantTypes DEF DrainNs, EndDrainPoll, NextDrain, ListsOK
    <3>2. CASE NextCleanup
      <4>1. ns < NumNs => ns + 1 \in NsCtx
        BY <1>1, ConstantTypes DEF TypeOK, NsCtx
      <4>2. QED
        BY <1>1, <2>2, <3>2, <4>1 DEF NextCleanup, ListsOK
    <3>3. QED
      BY <1>6, <3>1, <3>2
  <2>4. QED
    BY <1>1, <2>1, <2>3 DEF ListsOK, Allocated
<1>7. ASSUME UNCHANGED <<q, tmp, slot>> PROVE ListsOK'
  BY <1>1, <1>7 DEF ListsOK, Allocated
<1>8. CASE \/ AllAllocated \/ SubmitDone \/ (\E t \in Tasks : IoComplete(t)) \/ Renew \/ RenewDone
           \/ Release \/ ReleaseDone
  BY <1>7, <1>8 DEF AllAllocated, SubmitDone, IoComplete, Renew, RenewDone, Release, ReleaseDone,
                    loopvars, taskvars
<1>9. CASE \/ LoopTest \/ RetryDone \/ PollError \/ EndPoll \/ TimeLeft \/ TimeExpired
           \/ UndefinedBehaviour \/ SetExit \/ UNCHANGED vars
  BY <1>7, <1>9 DEF LoopTest, RetryDone, PollError, EndPoll, TimeLeft, TimeExpired,
                    UndefinedBehaviour, SetExit, vars, loopvars, taskvars
<1>10. QED
  BY <1>2, <1>3, <1>4, <1>5, <1>6, <1>8, <1>9
  DEF Next, WorkFn, Submission, Completion, MainLoop, Drain, Returned

-----------------------------------------------------------------------------
(* The slots *)

LEMMA SlotsInit == Init => SlotsOK /\ RunsOn
<1>1. SUFFICES ASSUME Init PROVE SlotsOK /\ RunsOn
  OBVIOUS
<1>2. \A s \in Slots : Idle(s) /\ s >= slot /\ ~Walking(s)
  BY <1>1 DEF Init, Idle, Alive, Walking, Slots
<1>3. slot = 1
  BY <1>1 DEF Init
<1>4. QED
  BY <1>1, <1>2, <1>3 DEF SlotsOK, SlotOK, RunsOn, Init, Slots

\* A slot that is not walked, before or after a step that does not touch it.
LEMMA SlotFrame ==
    ASSUME NEW s \in Slots, SlotOK(s), ~Walking(s), ~Walking(s)',
           s >= slot <=> s >= slot', s < slot <=> s < slot',
           inflight' \cap Group(s) = inflight \cap Group(s),
           freed' \cap Group(s) = freed \cap Group(s),
           s \in buf_freed' <=> s \in buf_freed,
           rep_completed_num'[s] = rep_completed_num[s]
    PROVE  SlotOK(s)'
<1>1. s >= slot' => Idle(s)'
  BY DEF SlotOK, Idle, Alive, Group
<1>2. s < slot' => Waiting(s)' \/ Released(s)'
  BY DEF SlotOK, Waiting, Released, Alive, Group
<1>3. QED
  BY <1>1, <1>2 DEF SlotOK

\* Adding or removing a task of another slot leaves the tasks of this one alone.
LEMMA OtherSlot ==
    ASSUME NEW s \in Slots, NEW t \in Tasks, t[1] # s, NEW I
    PROVE  (I \cup {t}) \cap Group(s) = I \cap Group(s) /\ (I \ {t}) \cap Group(s) = I \cap Group(s)
BY GroupFacts

\* A submission moves the cursor past the task it hands to the driver.
LEMMA SlotsSubmission ==
    ASSUME Healthy, HealthyInv, Submission
    PROVE  SlotsOK'
<1>1. TypeOK /\ CallOK /\ ListsOK /\ SlotsOK /\ RunsOn
  BY DEF HealthyInv
<1>2. CASE AllocateGroup
  <2>1. PICK r \in Slots : r = slot
    BY <1>1, <1>2 DEF AllocateGroup, TypeOK, Slots
  <2>2. /\ slot' = r + 1 /\ pc = "submit_io_rep" /\ StartRound(slot, q', "submit_io_rep")
        /\ UNCHANGED <<inflight, freed, buf_freed, rep_completed_num>>
    BY <1>2, <2>1 DEF AllocateGroup
  <2>3. pc' = "submit" /\ call'.main = r /\ call'.cur = q'.next[RepTasks(r)]
    BY <2>1, <2>2 DEF StartRound, First
  <2>4. ListsOK' /\ r \in Allocated'
    BY <1>1, <1>2, <2>1, <2>2, ListsNext DEF Healthy, Next, WorkFn, Submission, Allocated, Slots
  <2>5. call'.cur = <<r, FirstReplica>>
    BY <2>3, <2>4 DEF ListsOK
  <2>6. call'.cur \in Group(r) /\ Before(r, call'.cur) = {}
    <3>1. <<r, FirstReplica>> \in Group(r) /\ <<r, FirstReplica>> # NULL
      BY RankFacts, GroupFacts
    <3>2. \A t \in Group(r) : ~(Rank(t[2]) < 1)
      <4>1. \A n \in NsCtx : ~(Rank(n) < 1)
        BY RankFacts, ConstantTypes DEF NsCtx
      <4>2. QED
        BY <4>1, GroupFacts
    <3>3. QED
      BY <2>5, <3>1, <3>2, RankFacts DEF Before
  <2>7. Idle(r)
    BY <1>1, <2>1 DEF SlotsOK, SlotOK, Slots
  <2>8. ASSUME NEW s \in Slots, s # r PROVE SlotOK(s)'
    <3>1. (s >= slot <=> s >= slot') /\ (s < slot <=> s < slot')
      BY <2>1, <2>2, <2>8 DEF Slots
    <3>2. ~Walking(s) /\ ~Walking(s)' /\ SlotOK(s)
      BY <1>1, <2>2, <2>3, <2>8 DEF Walking, SlotsOK
    <3>3. QED
      BY <2>2, <2>8, <3>1, <3>2, SlotFrame
  <2>9. SlotOK(r)'
    <3>1. ~(r >= slot') /\ r < slot' /\ Walking(r)'
      BY <2>1, <2>2, <2>3 DEF Slots, Walking
    <3>2. Submitting(r)'
      BY <2>2, <2>6, <2>7 DEF Submitting, Idle, Alive, Before, Group
    <3>3. QED
      BY <2>3, <2>6, <3>1, <3>2 DEF SlotOK, Group
  <2>10. QED
    BY <2>8, <2>9 DEF SlotsOK
<1>3. CASE AllAllocated
  <2>1. /\ pc = "submit_io_rep" /\ pc' = "loop"
        /\ UNCHANGED <<slot, inflight, freed, buf_freed, rep_completed_num>>
    BY <1>3 DEF AllAllocated, loopvars, taskvars
  <2>2. QED
    BY <1>1, <2>1, SlotFrame DEF SlotsOK, Walking
<1>4. CASE SubmitReplica
  <2>1. PICK r \in Slots, c \in Tasks : r = call.main /\ c = call.cur
    BY <1>1, <1>4 DEF SubmitReplica, TypeOK, CallOK, Frames
  <2>2. /\ pc = "submit" /\ pc' = "submit" /\ call'.main = r /\ call'.cur = NextOf(q, c)
        /\ inflight' = inflight \cup {c}
        /\ UNCHANGED <<slot, freed, buf_freed, rep_completed_num>>
    <3>1. ~Refused(c)
      <4>1. rejects \in 0 .. MaxRejects /\ MaxRejects = 0
        BY Zenon DEF HealthyInv, TypeOK, Healthy
      <4>2. QED
        BY <4>1 DEF Refused, Failed
    <3>2. QED
      BY <1>1, <1>4, <2>1, <3>1 DEF SubmitReplica, Accepted, TypeOK, Frames, loopvars
  <2>3. /\ Walking(r) /\ SlotOK(r) /\ c \in Group(r) /\ r \in Allocated /\ Submitting(r)
    BY <1>1, <2>1, <2>2, NullIsNoLocation DEF Walking, SlotsOK, SlotOK, Allocated, Locations
  <2>4. /\ NextOf(q, c) \in Group(r) \cup {NULL}
        /\ Before(r, NextOf(q, c)) = Before(r, c) \cup {c}
    BY <1>1, <2>3, WalkStep
  <2>5. ASSUME NEW s \in Slots, s # r PROVE SlotOK(s)'
    <3>1. ~Walking(s) /\ ~Walking(s)' /\ SlotOK(s)
      BY <1>1, <2>1, <2>2, <2>5 DEF Walking, SlotsOK
    <3>2. c[1] # s
      BY <2>3, <2>5, GroupFacts
    <3>3. inflight' \cap Group(s) = inflight \cap Group(s)
      BY <2>1, <2>2, <3>2, OtherSlot
    <3>4. QED
      BY <2>2, <3>1, <3>3, SlotFrame
  <2>6. SlotOK(r)'
    <3>1. inflight' \cap Group(r) = Before(r, c) \cup {c}
      BY <2>1, <2>2, <2>3 DEF Submitting
    <3>2. Submitting(r)'
      BY <2>2, <2>3, <2>4, <3>1 DEF Submitting, Alive, Before, Group
    <3>3. r < slot' /\ ~(r >= slot') /\ Walking(r)'
      <4>1. slot \in Int /\ r \in Int /\ r < slot
        BY <1>1, <2>3 DEF Allocated, Slots, TypeOK
      <4>2. QED
        BY <2>2, <4>1 DEF Walking
    <3>4. QED
      BY <2>2, <2>4, <3>2, <3>3 DEF SlotOK, Group
  <2>7. QED
    BY <2>5, <2>6 DEF SlotsOK
<1>5. CASE SubmitDone
  <2>1. PICK r \in Slots : r = call.main
    BY <1>1, <1>5 DEF SubmitDone, CallOK
  <2>2. /\ pc = "submit" /\ call.cur = NULL /\ pc' = call.ret
        /\ pc' \notin {"submit", "renew", "release"}
        /\ UNCHANGED <<slot, inflight, freed, buf_freed, rep_completed_num>>
    BY <1>1, <1>5 DEF SubmitDone, TypeOK, Frames, loopvars, taskvars
  <2>3. Walking(r) /\ SlotOK(r) /\ r < slot /\ Submitting(r)
    BY <1>1, <2>1, <2>2 DEF Walking, SlotsOK, SlotOK
  <2>4. ASSUME NEW s \in Slots, s # r PROVE SlotOK(s)'
    <3>1. ~Walking(s) /\ ~Walking(s)' /\ SlotOK(s)
      BY <1>1, <2>1, <2>2, <2>4 DEF Walking, SlotsOK
    <3>2. QED
      BY <2>2, <3>1, SlotFrame
  <2>5. SlotOK(r)'
    <3>1. inflight' \cap Group(r) = Group(r) /\ rep_completed_num'[r] = 0
      BY <2>2, <2>3 DEF Submitting, Before
    <3>2. Cardinality(inflight' \cap Group(r)) = NumNs
      BY <3>1, GroupFacts
    <3>3. Waiting(r)'
      BY <2>2, <2>3, <3>1, <3>2, ConstantTypes DEF Waiting, Submitting, Alive, Group
    <3>4. ~(r >= slot') /\ ~Walking(r)'
      BY <1>1, <2>2, <2>3 DEF Walking, TypeOK, Slots
    <3>5. QED
      BY <3>3, <3>4 DEF SlotOK
  <2>6. QED
    BY <2>4, <2>5 DEF SlotsOK
<1>6. QED
  BY <1>2, <1>3, <1>4, <1>5 DEF Submission

\* A completion counts a replica; the last one of the round finds none in flight.
LEMMA SlotsIoComplete ==
    ASSUME Healthy, HealthyInv, NEW t \in Tasks, IoComplete(t)
    PROVE  SlotsOK'
<1>1. TypeOK /\ CallOK /\ ListsOK /\ SlotsOK /\ RunsOn
  BY DEF HealthyInv
<1>2. PICK r \in Slots : r = t[1]
  BY DEF Tasks
<1>3. /\ pc \in {"poll", "drainpoll"} /\ t \in inflight /\ inflight' = inflight \ {t}
      /\ UNCHANGED <<slot, freed, buf_freed>>
  BY DEF IoComplete, loopvars
<1>4. IF RoundComplete(r)
      THEN /\ rep_completed_num' = [rep_completed_num EXCEPT ![r] = 0]
           /\ pc' = "renew" /\ call'.main = r /\ call'.cur = First(q, RepTasks(r))
      ELSE /\ rep_completed_num' = [rep_completed_num EXCEPT ![r] = @ + 1] /\ pc' = pc
  <2>1. TaskComplete(t, pc)
    BY DEF IoComplete
  <2>2. RoundComplete(r) =>
           \E gen, newid : call' = [ret |-> pc, main |-> r, cur |-> First(q, RepTasks(r)),
                                   gen |-> gen, newid |-> newid]
    BY <1>2, <2>1, Zenon DEF TaskComplete
  <2>3. RoundComplete(r) => call'.main = r /\ call'.cur = First(q, RepTasks(r))
    BY <2>2
  <2>4. QED
    BY <1>2, <2>1, <2>3, Zenon DEF TaskComplete
<1>5. rep_completed_num \in [Slots -> 0 .. (RepNum - 1)] /\ slot \in Int
  BY <1>1 DEF TypeOK
<1>6. t \in Group(r) /\ \A s \in Slots : ~Walking(s) /\ SlotOK(s)
  BY <1>1, <1>2, <1>3, GroupFacts DEF Walking, SlotsOK
<1>7. r < slot /\ r \in Allocated /\ Waiting(r)
  <2>1. ~(r >= slot)
    BY <1>3, <1>6 DEF SlotOK, Idle
  <2>2. r < slot
    BY <1>5, <2>1 DEF Slots
  <2>3. QED
    BY <1>3, <1>6, <2>2 DEF SlotOK, Released, Allocated
<1>8. /\ Cardinality(inflight \cap Group(r)) \in Nat
      /\ Cardinality(inflight' \cap Group(r)) = Cardinality(inflight \cap Group(r)) - 1
      /\ IsFiniteSet(inflight' \cap Group(r))
  <2>1. IsFiniteSet(inflight \cap Group(r)) /\ t \in inflight \cap Group(r)
    BY <1>3, <1>6, GroupFacts, FS_Subset, inflight \cap Group(r) \subseteq Group(r)
  <2>2. inflight' \cap Group(r) = (inflight \cap Group(r)) \ {t}
    BY <1>3
  <2>3. \A S : IsFiniteSet(S) /\ t \in S =>
           /\ Cardinality(S) \in Nat /\ IsFiniteSet(S \ {t})
           /\ Cardinality(S \ {t}) = Cardinality(S) - 1
    BY FS_RemoveElement, FS_CardinalityType
  <2>4. QED
    BY <2>1, <2>2, <2>3
<1>9. ASSUME NEW s \in Slots, s # r PROVE SlotOK(s)'
  <2>1. inflight' \cap Group(s) = inflight \cap Group(s)
    BY <1>2, <1>3, <1>9, OtherSlot
  <2>2. rep_completed_num'[s] = rep_completed_num[s] /\ ~Walking(s)'
    BY <1>3, <1>4, <1>5, <1>9 DEF Walking
  <2>3. QED
    BY <1>3, <1>6, <2>1, <2>2, SlotFrame
<1>10. CASE RoundComplete(r)
  <2>1. rep_completed_num'[r] = 0 /\ Walking(r)'
    BY <1>4, <1>5, <1>10 DEF Walking
  <2>2. Cardinality(inflight' \cap Group(r)) = 0
    <3>1. rep_completed_num[r] = NumNs - 1
      BY <1>5, <1>10, ConstantTypes DEF RoundComplete, Healthy
    <3>2. QED
      BY <1>7, <1>8, <3>1, ConstantTypes DEF Waiting
  <2>3. inflight' \cap Group(r) = {}
    BY <1>8, <2>2, FS_EmptySet
  <2>4. Idle(r)'
    BY <1>3, <1>7, <2>1, <2>3 DEF Idle, Waiting, Alive, Group
  <2>5. call'.cur \in Group(r)
    BY <1>1, <1>4, <1>7, <1>10, WalkStart
  <2>6. SlotOK(r)'
    BY <1>3, <1>4, <1>5, <1>7, <1>10, <2>1, <2>4, <2>5 DEF SlotOK, Group, Slots
  <2>7. QED
    BY <1>9, <2>6 DEF SlotsOK
<1>11. CASE ~RoundComplete(r)
  <2>1. rep_completed_num'[r] = rep_completed_num[r] + 1 /\ ~Walking(r)'
    BY <1>3, <1>4, <1>5, <1>11 DEF Walking
  <2>2. rep_completed_num'[r] + Cardinality(inflight' \cap Group(r)) = NumNs
    <3>1. rep_completed_num[r] \in Int
      BY <1>5, ConstantTypes
    <3>2. rep_completed_num[r] + Cardinality(inflight \cap Group(r)) = NumNs
      BY <1>7 DEF Waiting
    <3>3. \A c, k \in Int : c + k = NumNs => (c + 1) + (k - 1) = NumNs
      OBVIOUS
    <3>4. Cardinality(inflight \cap Group(r)) \in Int
      BY <1>8
    <3>5. QED
      BY <1>8, <2>1, <3>1, <3>2, <3>3, <3>4, Zenon
  <2>3. Waiting(r)'
    BY <1>3, <1>7, <2>2 DEF Waiting, Alive, Group
  <2>4. SlotOK(r)'
    BY <1>3, <1>5, <1>7, <2>1, <2>3 DEF SlotOK, Slots
  <2>5. QED
    BY <1>9, <2>4 DEF SlotsOK
<1>12. QED
  BY <1>10, <1>11

\* The walks of task_complete and rep_task_release.
LEMMA SlotsWalk ==
    ASSUME Healthy, HealthyInv, Renew \/ RenewDone \/ Release \/ ReleaseDone
    PROVE  SlotsOK'
<1>1. TypeOK /\ CallOK /\ ListsOK /\ SlotsOK /\ RunsOn
  BY DEF HealthyInv
<1>2. PICK r \in Slots : r = call.main
  BY <1>1 DEF Renew, RenewDone, Release, ReleaseDone, CallOK
<1>3. /\ pc \in {"renew", "release"} /\ UNCHANGED <<slot, inflight, rep_completed_num>>
  BY DEF Renew, RenewDone, Release, ReleaseDone, loopvars, taskvars
<1>4. /\ Walking(r) /\ SlotOK(r) /\ r < slot /\ r \in Allocated /\ ~(r >= slot')
      /\ call.cur \in Group(r) \cup {NULL}
      /\ pc = "renew" => Idle(r)
      /\ pc = "release" => Releasing(r)
  <2>1. slot \in Int /\ r \in Int
    BY <1>1 DEF TypeOK, Slots
  <2>2. Walking(r) /\ SlotOK(r)
    BY <1>1, <1>2, <1>3 DEF Walking, SlotsOK
  <2>3. r < slot /\ call.cur \in Group(r) \cup {NULL}
    BY <2>2, Zenon DEF SlotOK
  <2>4. (pc = "renew" => Idle(r)) /\ (pc = "release" => Releasing(r))
    BY <2>2, Zenon DEF SlotOK
  <2>5. r \in Allocated /\ ~(r >= slot')
    BY <1>3, <2>1, <2>3 DEF Allocated
  <2>6. QED
    BY <2>2, <2>3, <2>4, <2>5
<1>5. ASSUME NEW s \in Slots, s # r, ~Walking(s)',
             freed' \cap Group(s) = freed \cap Group(s), s \in buf_freed' <=> s \in buf_freed
      PROVE  SlotOK(s)'
  <2>1. ~Walking(s) /\ SlotOK(s)
    BY <1>1, <1>2, <1>5 DEF Walking, SlotsOK
  <2>2. QED
    BY <1>3, <1>5, <2>1, SlotFrame
<1>6. CASE Renew
  <2>1. PICK c \in Group(r) : c = call.cur
    BY <1>4, <1>6 DEF Renew
  <2>2. pc = "renew" /\ Idle(r) /\ call'.main = r /\ UNCHANGED freed
    BY <1>1, <1>2, <1>4, <1>6 DEF Renew, TypeOK, Frames
  <2>3. \/ /\ pc' = "release" /\ buf_freed' = buf_freed \cup {r}
           /\ call'.cur = First(q, RepTasks(r))
        \/ /\ pc' = "renew" /\ UNCHANGED buf_freed /\ call'.cur = NextOf(q, c)
    BY <1>1, <1>2, <1>6, <2>1 DEF Renew, TypeOK, Frames
  <2>4. ASSUME NEW s \in Slots, s # r PROVE SlotOK(s)'
    BY <1>5, <2>2, <2>3, <2>4 DEF Walking
  <2>5. SlotOK(r)'
    <3>1. CASE pc' = "release"
      <4>1. /\ buf_freed' = buf_freed \cup {r} /\ call'.cur \in Group(r)
            /\ Before(r, call'.cur) = {}
        BY <1>1, <1>4, <2>3, <3>1, WalkStart
      <4>2. Releasing(r)'
        BY <1>3, <2>2, <4>1 DEF Releasing, Idle, Alive, Before, Group
      <4>3. QED
        BY <1>3, <1>4, <2>2, <3>1, <4>1, <4>2 DEF SlotOK, Walking, Group
    <3>2. CASE pc' = "renew"
      <4>1. UNCHANGED buf_freed /\ call'.cur \in Group(r) \cup {NULL}
        BY <1>1, <1>4, <2>3, <3>2, WalkStep
      <4>2. Idle(r)'
        BY <1>3, <2>2, <4>1 DEF Idle, Alive, Group
      <4>3. QED
        BY <1>3, <1>4, <2>2, <3>2, <4>1, <4>2 DEF SlotOK, Walking, Group
    <3>3. QED
      BY <2>3, <3>1, <3>2
  <2>6. QED
    BY <2>4, <2>5 DEF SlotsOK
<1>7. CASE RenewDone
  <2>1. /\ pc = "renew" /\ Idle(r) /\ UNCHANGED <<freed, buf_freed>>
        /\ StartRound(call.main, q, call.ret)
    BY <1>4, <1>7 DEF RenewDone, taskvars
  <2>2. pc' = "submit" /\ call'.main = r /\ call'.cur = First(q, RepTasks(r))
    <3>1. PICK off \in Offsets, rd \in Ops :
             /\ pc' = "submit"
             /\ call' = [ret |-> call.ret, main |-> call.main,
                         cur |-> First(q, RepTasks(call.main)),
                         gen |-> [offset_in_ios |-> off, is_read |-> rd], newid |-> 0]
      BY <2>1, Zenon DEF StartRound
    <3>2. QED
      BY <1>2, <3>1
  <2>3. call'.cur \in Group(r) /\ Before(r, call'.cur) = {}
    BY <1>1, <1>4, <2>2, WalkStart
  <2>4. ASSUME NEW s \in Slots, s # r PROVE SlotOK(s)'
    BY <1>5, <2>1, <2>2, <2>4 DEF Walking
  <2>5. Submitting(r)'
    BY <1>3, <2>1, <2>3 DEF Submitting, Idle, Alive, Before, Group
  <2>6. SlotOK(r)'
    BY <1>3, <1>4, <2>2, <2>3, <2>5 DEF SlotOK, Walking, Group
  <2>7. QED
    BY <2>4, <2>6 DEF SlotsOK
<1>8. CASE Release
  <2>1. PICK c \in Group(r) : c = call.cur
    BY <1>4, <1>8 DEF Release
  <2>2. /\ pc = "release" /\ pc' = "release" /\ Releasing(r) /\ UNCHANGED buf_freed
        /\ call'.main = r /\ call'.cur = NextOf(q, c)
        /\ freed' = freed \cup ({c} \ {MainTask(r)})
    BY <1>1, <1>2, <1>4, <1>8, <2>1 DEF Release, FreedInWalk, TypeOK, Frames
  <2>3. /\ call'.cur \in Group(r) \cup {NULL}
        /\ Before(r, call'.cur) = Before(r, c) \cup {c}
    BY <1>1, <1>4, <2>2, WalkStep
  <2>4. ASSUME NEW s \in Slots, s # r PROVE SlotOK(s)'
    <3>1. c \in Tasks /\ c[1] # s
      BY <2>4, GroupFacts
    <3>2. freed' \cap Group(s) = freed \cap Group(s)
      BY <2>2, <2>4, <3>1, GroupFacts, SMTT(40)
    <3>3. QED
      BY <1>5, <2>2, <2>4, <3>2 DEF Walking
  <2>5. Releasing(r)'
    <3>1. freed' \cap Group(r) = (Before(r, c) \cup {c}) \ {MainTask(r)}
      BY <2>1, <2>2 DEF Releasing
    <3>2. QED
      BY <1>3, <2>2, <2>3, <3>1 DEF Releasing, Before, Group, MainTask
  <2>6. SlotOK(r)'
    BY <1>3, <1>4, <2>2, <2>3, <2>5 DEF SlotOK, Walking, Group
  <2>7. QED
    BY <2>4, <2>6 DEF SlotsOK
<1>9. CASE ReleaseDone
  <2>1. /\ pc = "release" /\ Releasing(r) /\ UNCHANGED buf_freed /\ call.cur = NULL
        /\ freed' = freed \cup {MainTask(r)} /\ pc' = call.ret
        /\ pc' \notin {"submit", "renew", "release"}
    BY <1>1, <1>2, <1>4, <1>9 DEF ReleaseDone, TypeOK, Frames
  <2>2. ASSUME NEW s \in Slots, s # r PROVE SlotOK(s)'
    <3>1. MainTask(r) \in Tasks /\ MainTask(r)[1] # s
      BY <2>2, HeadsTyped DEF MainTask
    <3>2. freed' \cap Group(s) = freed \cap Group(s)
      <4>1. (freed \cup {MainTask(r)}) \cap Group(s) = freed \cap Group(s)
        BY <2>2, <3>1, OtherSlot
      <4>2. QED
        BY <2>1, <4>1, Zenon
    <3>3. QED
      BY <1>5, <2>1, <2>2, <3>2 DEF Walking
  <2>3. Released(r)'
    BY <1>3, <2>1, GroupFacts DEF Released, Releasing, Before, Group
  <2>4. SlotOK(r)'
    BY <1>3, <1>4, <2>1, <2>3 DEF SlotOK, Walking
  <2>5. QED
    BY <2>2, <2>4 DEF SlotsOK
<1>10. QED
  BY <1>6, <1>7, <1>8, <1>9

\* Every other step leaves the slots alone: without refusals the retry list and the
\* lists of cleanup_ns_worker_ctx are empty.
LEMMA SlotsElsewhere ==
    ASSUME Healthy, HealthyInv, MainLoop \/ Drain \/ SetExit \/ UNCHANGED vars
    PROVE  SlotsOK' /\ RunsOn'
<1>1. TypeOK /\ CallOK /\ ListsOK /\ SlotsOK /\ RunsOn
  BY DEF HealthyInv
<1>2. ~RetryTask /\ ~CleanupTask
  BY <1>1 DEF RetryTask, CleanupTask, ListsOK, First
<1>3. CASE UNCHANGED vars \/ SetExit
  <2>1. UNCHANGED <<pc, call, slot, inflight, freed, buf_freed, rep_completed_num, fault>>
    BY <1>3 DEF vars, SetExit, loopvars, taskvars, envvars
  <2>2. QED
    BY <1>1, <2>1 DEF SlotsOK, SlotOK, Walking, Idle, Waiting, Released, Submitting, Releasing,
                      Alive, RunsOn, Before
<1>4. CASE MainLoop \/ Drain
  <2>1. /\ UNCHANGED <<slot, inflight, freed, buf_freed, rep_completed_num, fault>>
        /\ pc \notin {"submit", "renew", "release"}
        /\ pc' \notin {"submit", "renew", "release", "halted"}
    <3>1. CASE MainLoop
      BY <1>2, <3>1 DEF MainLoop, LoopTest, TakeQueue, RetryDone, PollError, EndPoll, TimeLeft,
                        TimeExpired, loopvars, taskvars, envvars
    <3>2. CASE Drain
      BY <1>2, <3>2 DEF Drain, DrainNs, EndDrainPoll, NextCleanup, NextDrain, loopvars, taskvars,
                        envvars
    <3>3. QED
      BY <1>4, <3>1, <3>2
  <2>2. RunsOn'
    BY <1>1, <2>1 DEF RunsOn
  <2>3. ASSUME NEW s \in Slots PROVE SlotOK(s)'
    <3>1. ~Walking(s) /\ ~Walking(s)' /\ SlotOK(s)
      BY <1>1, <2>1 DEF Walking, SlotsOK
    <3>2. QED
      BY <2>1, <3>1, SlotFrame
  <2>4. QED
    BY <2>2, <2>3 DEF SlotsOK
<1>5. QED
  BY <1>3, <1>4

-----------------------------------------------------------------------------
(* No undefined behaviour *)

\* The walks and the completions only meet tasks and buffers that are alive.
LEMMA NothingUndefined ==
    ASSUME Healthy, HealthyInv
    PROVE  \A why \in Faults : ~Undefined(why)
<1>1. TypeOK /\ CallOK /\ ListsOK /\ SlotsOK /\ RunsOn
  BY DEF HealthyInv
<1>2. First(q, SwapList) = NULL /\ tmp = NULL /\ NULL \notin Tasks
  BY <1>1, NullIsNoLocation DEF ListsOK, First, Locations
<1>3. NULL \notin freed /\ NULL \notin inflight /\ ~(rejects < MaxRejects)
  <2>1. /\ freed \subseteq Tasks /\ inflight \subseteq Tasks
        /\ rejects \in 0 .. MaxRejects /\ MaxRejects = 0
    BY <1>1, Zenon DEF TypeOK, Healthy
  <2>2. QED
    BY <1>2, <2>1
<1>4. ASSUME pc \in {"submit", "renew", "release"}
      PROVE  /\ call.main \in Allocated /\ SlotOK(call.main) /\ Walking(call.main)
             /\ call.cur \in Group(call.main) \cup {NULL}
  <2>1. call.main \in Slots
    BY <1>1, <1>4 DEF CallOK
  <2>2. QED
    BY <1>1, <1>4, <2>1 DEF SlotsOK, SlotOK, Walking, Allocated
<1>5. ASSUME pc = "submit" PROVE call.cur \notin freed /\ call.cur \notin inflight
  <2>1. PICK r \in Slots : r = call.main
    BY <1>4, <1>5 DEF Allocated
  <2>2. Submitting(r) /\ call.cur \in Group(r) \cup {NULL}
    BY <1>4, <1>5, <2>1 DEF SlotOK
  <2>3. CASE call.cur = NULL
    BY <1>3, <2>3
  <2>4. CASE call.cur \in Group(r)
    <3>1. call.cur \notin Before(r, call.cur)
      BY <1>1, <1>4, <1>5, <2>1, <2>4, WalkStep
    <3>2. QED
      BY <2>2, <2>4, <3>1 DEF Submitting, Alive
  <2>5. QED
    BY <2>2, <2>3, <2>4
<1>6. ASSUME pc = "renew" PROVE call.cur \notin freed /\ call.main \notin buf_freed
  <2>1. PICK r \in Slots : r = call.main
    BY <1>4, <1>6 DEF Allocated
  <2>2. Idle(r) /\ call.cur \in Group(r) \cup {NULL}
    BY <1>4, <1>6, <2>1 DEF SlotOK
  <2>3. QED
    BY <1>3, <2>1, <2>2 DEF Idle, Alive
<1>7. ASSUME pc = "release"
      PROVE  call.cur \notin freed /\ (call.cur = NULL => MainTask(call.main) \notin freed)
  <2>1. PICK r \in Slots : r = call.main
    BY <1>4, <1>7 DEF Allocated
  <2>2. Releasing(r) /\ call.cur \in Group(r) \cup {NULL}
    BY <1>4, <1>7, <2>1 DEF SlotOK
  <2>3. CASE call.cur = NULL
    BY <1>3, <2>1, <2>2, <2>3, GroupFacts DEF Releasing
  <2>4. CASE call.cur \in Group(r)
    <3>1. call.cur \notin Before(r, call.cur) /\ call.cur # NULL
      <4>1. call.cur # NULL
        BY <2>4, GroupFacts
      <4>2. QED
        BY <1>1, <1>4, <1>7, <2>1, <2>4, <4>1, WalkStep
    <3>2. QED
      BY <2>2, <2>4, <3>1 DEF Releasing
  <2>5. QED
    BY <2>2, <2>3, <2>4
<1>8. ASSUME pc \in {"poll", "drainpoll"}, NEW t \in inflight
      PROVE  {t, MainTask(t[1])} \cap freed = {}
  <2>1. t \in Tasks
    BY <1>1 DEF TypeOK
  <2>2. PICK r \in Slots : r = t[1]
    BY <2>1 DEF Tasks
  <2>3. t \in Group(r) /\ MainTask(r) \in Group(r) /\ ~Walking(r) /\ SlotOK(r) /\ slot \in Int
    <3>1. t \in Group(r) /\ MainTask(r) \in Group(r)
      BY <2>1, <2>2, GroupFacts
    <3>2. slot \in 1 .. (QueueDepth + 1)
      BY <1>1, Zenon DEF TypeOK
    <3>3. ~Walking(r)
      BY <1>8 DEF Walking
    <3>4. SlotOK(r)
      BY <1>1, Zenon DEF SlotsOK
    <3>5. QED
      BY <3>1, <3>2, <3>3, <3>4
  <2>4. Alive(r)
    <3>1. ~Idle(r) /\ ~Released(r)
      BY <2>3 DEF Idle, Released
    <3>2. r >= slot \/ r < slot
      BY <2>3 DEF Slots
    <3>3. Waiting(r)
      BY <2>3, <3>1, <3>2, Zenon DEF SlotOK
    <3>4. QED
      BY <3>3, Zenon DEF Waiting
  <2>5. QED
    BY <2>2, <2>3, <2>4 DEF Alive
<1>9. QED
  BY <1>2, <1>3, <1>5, <1>6, <1>7, <1>8 DEF Undefined, Faults, Healthy

LEMMA HealthyInit == Init => HealthyInv
<1>1. SUFFICES ASSUME Init PROVE HealthyInv
  OBVIOUS
<1>2. RunsOn
  BY <1>1 DEF Init, RunsOn
<1>3. QED
  BY <1>1, <1>2, TypeInit, ListsInit, SlotsInit DEF HealthyInv

LEMMA HealthyNext == Healthy /\ HealthyInv /\ [Next]_vars => HealthyInv'
<1>1. SUFFICES ASSUME Healthy, HealthyInv, [Next]_vars PROVE HealthyInv'
  OBVIOUS
<1>2. TypeOK /\ CallOK /\ ListsOK /\ SlotsOK /\ RunsOn
  BY <1>1 DEF HealthyInv
<1>3. TypeOK' /\ CallOK'
  BY <1>1, <1>2, TypeNext
<1>4. ListsOK'
  BY <1>1, <1>2, ListsNext DEF Healthy
<1>5. ~UndefinedBehaviour
  BY <1>1, NothingUndefined DEF UndefinedBehaviour
<1>6. SlotsOK' /\ RunsOn'
  <2>1. CASE Submission
    <3>1. RunsOn'
      BY <1>2, <2>1 DEF Submission, AllocateGroup, AllAllocated, SubmitReplica, SubmitDone,
                        StartRound, RunsOn, TypeOK, Frames, envvars
    <3>2. QED
      BY <1>1, <2>1, <3>1, SlotsSubmission
  <2>2. CASE Completion
    <3>1. RunsOn'
      BY <1>2, <2>2 DEF Completion, IoComplete, TaskComplete, Renew, RenewDone, Release,
                        ReleaseDone, StartRound, RunsOn, TypeOK, Frames, envvars
    <3>2. QED
      BY <1>1, <2>2, <3>1, SlotsIoComplete, SlotsWalk DEF Completion
  <2>3. CASE MainLoop \/ Drain \/ SetExit \/ UNCHANGED vars
    BY <1>1, <2>3, SlotsElsewhere
  <2>4. QED
    BY <1>1, <1>5, <2>1, <2>2, <2>3 DEF Next, WorkFn, Returned
<1>7. QED
  BY <1>3, <1>4, <1>6 DEF HealthyInv

\* The conditions are about the constants.
LEMMA HealthyStays == Healthy => []Healthy
<1>1. Healthy => Healthy'
  BY DEF Healthy
<1>2. QED
  BY <1>1, PTL

LEMMA HealthyAlways == Healthy /\ Spec => []HealthyInv
BY HealthyStays, HealthyInit, HealthyNext, PTL DEF Spec

\* The barrier of task_complete, for every number of replicas and every queue depth: a
\* group is renewed or released only when none of its replicas is in flight, and no
\* replica of a waiting group is lost or counted twice.
THEOREM BarrierHolds == Healthy /\ Spec => []Barrier
<1>1. HealthyInv => Barrier
  <2>1. SUFFICES ASSUME HealthyInv PROVE Barrier
    OBVIOUS
  <2>2. TypeOK /\ CallOK /\ SlotsOK
    BY <2>1 DEF HealthyInv
  <2>3. ASSUME pc \in {"renew", "release"} PROVE inflight \cap Group(call.main) = {}
    BY <2>2, <2>3 DEF CallOK, SlotsOK, SlotOK, Walking, Idle, Releasing
  <2>4. ASSUME NEW s \in Settled
        PROVE  rep_completed_num[s] + Cardinality(inflight \cap Group(s)) = NumNs
    BY <2>2, <2>4 DEF Settled, Allocated, SlotsOK, SlotOK, Walking, Waiting, Released
  <2>5. QED
    BY <2>3, <2>4 DEF Barrier
<1>2. QED
  BY <1>1, HealthyAlways, PTL

\* Without refusals the worker never runs into undefined behaviour: the walks of
\* submit_single_io_rep, task_complete and rep_task_release free every task and every
\* buffer at most once and touch none of them afterwards.
THEOREM NoFaultHolds == Healthy /\ Spec => []NoFault
<1>1. HealthyInv => NoFault
  BY DEF HealthyInv, RunsOn, NoFault
<1>2. QED
  BY <1>1, HealthyAlways, PTL

\* Without refusals the data buffer a group shares is given back only after the last
\* command that points to it.
THEOREM BuffersOutliveIo == Healthy /\ Spec => []BufferOutlivesIo
<1>1. HealthyInv => BufferOutlivesIo
  <2>1. SUFFICES ASSUME HealthyInv, NEW t \in inflight PROVE t[1] \notin buf_freed
    BY DEF BufferOutlivesIo
  <2>2. TypeOK /\ SlotsOK
    BY <2>1 DEF HealthyInv
  <2>3. t \in Tasks /\ slot \in Int
    <3>1. inflight \subseteq Tasks /\ slot \in 1 .. (QueueDepth + 1)
      BY <2>2, Zenon DEF TypeOK
    <3>2. QED
      BY <2>1, <3>1
  <2>4. PICK r \in Slots : r = t[1]
    BY <2>3 DEF Tasks
  <2>5. t \in inflight \cap Group(r) /\ SlotOK(r) /\ r \in Int
    <3>1. t \in Group(r)
      BY <2>3, <2>4, GroupFacts
    <3>2. QED
      BY <2>2, <3>1 DEF SlotsOK, Slots
  <2>6. Alive(r)
    <3>1. ~Idle(r) /\ ~Released(r) /\ ~Releasing(r)
      BY <2>5 DEF Idle, Released, Releasing
    <3>2. r >= slot \/ r < slot
      BY <2>3, <2>5
    <3>3. r < slot /\ (Waiting(r) \/ Submitting(r))
      BY <2>5, <3>1, <3>2, Zenon DEF SlotOK, Walking
    <3>4. QED
      BY <3>3, Zenon DEF Waiting, Submitting
  <2>7. QED
    BY <2>4, <2>6 DEF Alive
<1>2. QED
  BY <1>1, HealthyAlways, PTL

-----------------------------------------------------------------------------
(* The steps outside the walks *)

Walks == {"submit", "renew", "release"}

\* The steps outside the walks, and those that go nowhere.
Elsewhere == AllAllocated \/ MainLoop \/ Drain \/ SetExit \/ UNCHANGED vars

LEMMA ElsewhereStep ==
    ASSUME TypeOK, ListsOK, Elsewhere
    PROVE  /\ \/ pc' = pc
              \/ pc \notin Walks /\ pc' \notin Walks \cup {"submit_io_rep", "halted"}
           /\ \A n \in NsCtx : is_draining[n] => is_draining'[n]
           /\ \/ UNCHANGED <<io_submitted, warmup, is_draining>>
              \/ pc \notin Walks \cup {"submit_io_rep"} /\ UNCHANGED <<io_submitted, warmup>>
              \/ /\ pc = "clock" /\ warmup /\ io_submitted' = [n \in NsCtx |-> 0]
                 /\ ~warmup' /\ UNCHANGED is_draining
           /\ UNCHANGED <<slot, call, io_id, cmd, rep_completed_num, inflight, freed, buf_freed,
                          current_queue_depth, offset_in_ios>>
<1>1. ~RetryTask /\ ~CleanupTask
  BY DEF RetryTask, CleanupTask, ListsOK, First
<1>2. is_draining \in [NsCtx -> BOOLEAN] /\ ns \in NsCtx
  BY Zenon DEF TypeOK
<1>3. CASE PollError
  <2>1. /\ pc' = pc /\ pc \in {"poll", "drainpoll"}
        /\ \E gone \in BOOLEAN : is_draining' = [is_draining EXCEPT ![ns] = @ \/ gone]
        /\ UNCHANGED <<loopvars, call, taskvars, counters, offset_in_ios>>
    BY <1>3 DEF PollError
  <2>2. \A n \in NsCtx : is_draining[n] => is_draining'[n]
    BY <1>2, <2>1
  <2>3. QED
    BY <2>1, <2>2 DEF loopvars, taskvars, counters, Walks
<1>4. CASE DrainNs
  <2>1. /\ pc = "drain" /\ pc' \in {"drainpoll", "drain", "cleanup"}
        /\ is_draining' = [is_draining EXCEPT ![ns] = TRUE]
        /\ UNCHANGED <<slot, warmup, call, taskvars, counters, offset_in_ios>>
    BY <1>4 DEF DrainNs, NextDrain
  <2>2. \A n \in NsCtx : is_draining[n] => is_draining'[n]
    BY <1>2, <2>1
  <2>3. QED
    BY <2>1, <2>2 DEF taskvars, counters, Walks
<1>5. CASE TimeExpired
  BY <1>5 DEF TimeExpired, taskvars, Walks
<1>6. CASE AllAllocated \/ LoopTest \/ TakeQueue \/ RetryDone \/ EndPoll \/ TimeLeft
  BY <1>6 DEF AllAllocated, LoopTest, TakeQueue, RetryDone, EndPoll, TimeLeft, loopvars, taskvars,
              nsvars, counters, Walks
<1>7. CASE EndDrainPoll \/ NextCleanup
  BY <1>7 DEF EndDrainPoll, NextDrain, NextCleanup, taskvars, nsvars, counters, Walks
<1>8. CASE SetExit \/ UNCHANGED vars
  BY <1>8 DEF SetExit, vars, loopvars, taskvars, nsvars, counters
<1>9. QED
  BY <1>1, <1>3, <1>4, <1>5, <1>6, <1>7, <1>8 DEF Elsewhere, MainLoop, Drain

\* A step of a worker whose submissions are not refused is one of these.
LEMMA StepCases ==
    ASSUME Healthy, HealthyInv, [Next]_vars
    PROVE  \/ AllocateGroup \/ SubmitReplica \/ SubmitDone \/ (\E t \in Tasks : IoComplete(t))
           \/ Renew \/ RenewDone \/ Release \/ ReleaseDone \/ Elsewhere
<1>1. ~UndefinedBehaviour
  BY NothingUndefined DEF UndefinedBehaviour
<1>2. QED
  BY <1>1 DEF Next, WorkFn, Submission, Completion, Elsewhere, Returned
=============================================================================
