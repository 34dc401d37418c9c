-------------------------- MODULE RepRounds_proofs ---------------------------
(***************************************************************************)
(* The rounds of RepWorker, for every queue depth and number of replicas,  *)
(* under the conditions of RepBarrier_proofs: the replicas of a round      *)
(* carry one command, every namespace is sent it, inside its bounds, and   *)
(* the worker implements ReplicatedIO.                                     *)
(*                                                                         *)
(* The invariants follow the cursor of the walk again.  The replicas a     *)
(* submission has passed carry the command it generated, those a renewal   *)
(* has passed the io_id it computed; outside the walks the replicas of a   *)
(* group agree with their main task.                                       *)
(***************************************************************************)
EXTENDS RepBarrier_proofs

-----------------------------------------------------------------------------
(* What the steps of a walk do *)

LEMMA AllocateGroupStep ==
    ASSUME Healthy, HealthyInv, AllocateGroup
    PROVE  /\ slot \in Slots /\ slot' = slot + 1 /\ pc = "submit_io_rep" /\ pc' = "submit"
           /\ call'.main = slot /\ call'.ret = "submit_io_rep" /\ call'.cur \in Group(slot)
           /\ Before(slot, call'.cur) = {} /\ Idle(slot)
           /\ UNCHANGED <<ns, unfinished, warmup, cmd, rep_completed_num, inflight, freed, buf_freed,
                          counters, is_draining>>
<1>1. TypeOK /\ ListsOK /\ SlotsOK
  BY DEF HealthyInv
<1>2. slot \in Slots
  BY <1>1 DEF AllocateGroup, TypeOK, Slots
<1>3. slot' = slot + 1 /\ pc = "submit_io_rep" /\ StartRound(slot, q', "submit_io_rep")
      /\ UNCHANGED <<ns, unfinished, warmup, cmd, rep_completed_num, inflight, freed, buf_freed,
                     counters, is_draining>>
  BY DEF AllocateGroup
<1>4. /\ pc' = "submit" /\ call'.main = slot /\ call'.ret = "submit_io_rep"
      /\ call'.cur = q'.next[RepTasks(slot)]
  BY <1>3 DEF StartRound, First
<1>5. ListsOK' /\ slot \in Allocated'
  BY <1>1, <1>2, <1>3, ListsNext DEF Healthy, Next, WorkFn, Submission, Allocated, Slots
<1>6. call'.cur = <<slot, FirstReplica>>
  BY <1>4, <1>5 DEF ListsOK
<1>7. call'.cur \in Group(slot) /\ Before(slot, call'.cur) = {}
  <2>1. <<slot, FirstReplica>> \in Group(slot) /\ <<slot, FirstReplica>> # NULL
    BY <1>2, RankFacts, GroupFacts
  <2>2. \A n \in NsCtx : ~(Rank(n) < 1)
    BY RankFacts, ConstantTypes DEF NsCtx
  <2>3. \A t \in Group(slot) : ~(Rank(t[2]) < 1)
    BY <1>2, <2>2, GroupFacts
  <2>4. QED
    BY <1>6, <2>1, <2>3, RankFacts DEF Before
<1>8. Idle(slot)
  BY <1>1, <1>2 DEF SlotsOK, SlotOK, Slots
<1>9. QED
  BY <1>2, <1>3, <1>4, <1>7, <1>8

LEMMA SubmitReplicaStep ==
    ASSUME Healthy, HealthyInv, SubmitReplica
    PROVE  \E r \in Slots : \E c \in Group(r) :
               /\ r = call.main /\ c = call.cur /\ pc = "submit" /\ pc' = "submit"
               /\ call'.main = r /\ call'.ret = call.ret /\ call'.gen = call.gen
               /\ call'.cur \in Group(r) \cup {NULL}
               /\ Before(r, call'.cur) = Before(r, c) \cup {c} /\ c \notin Before(r, c)
               /\ Submitting(r) /\ Accepted(c) /\ DrainAtLimit(c)
               /\ cmd' = [cmd EXCEPT ![c] = call.gen]
               /\ UNCHANGED <<loopvars, q, io_id, rep_completed_num, freed, buf_freed, offset_in_ios>>
<1>1. TypeOK /\ CallOK /\ ListsOK /\ SlotsOK
  BY DEF HealthyInv
<1>2. PICK r \in Slots, c \in Tasks : r = call.main /\ c = call.cur
  BY <1>1 DEF SubmitReplica, TypeOK, CallOK, Frames
<1>3. ~Refused(c)
  <2>1. rejects \in 0 .. MaxRejects /\ MaxRejects = 0
    BY <1>1, Zenon DEF TypeOK, Healthy
  <2>2. QED
    BY <2>1 DEF Refused, Failed
<1>4. /\ pc = "submit" /\ pc' = "submit" /\ Accepted(c) /\ DrainAtLimit(c)
      /\ cmd' = [cmd EXCEPT ![c] = call.gen] /\ call' = [call EXCEPT !.cur = NextOf(q, c)]
      /\ UNCHANGED <<loopvars, q, io_id, rep_completed_num, freed, buf_freed, offset_in_ios>>
  BY <1>2, <1>3 DEF SubmitReplica
<1>5. /\ call'.main = r /\ call'.ret = call.ret /\ call'.gen = call.gen /\ call'.cur = NextOf(q, c)
  BY <1>1, <1>2, <1>4 DEF TypeOK, Frames
<1>6. c \in Group(r) /\ r \in Allocated /\ Submitting(r)
  BY <1>1, <1>2, <1>4, NullIsNoLocation DEF Walking, SlotsOK, SlotOK, Allocated, Locations
<1>7. /\ NextOf(q, c) \in Group(r) \cup {NULL} /\ c \notin Before(r, c)
      /\ Before(r, NextOf(q, c)) = Before(r, c) \cup {c}
  BY <1>1, <1>6, WalkStep
<1>8. QED
  BY <1>2, <1>4, <1>5, <1>6, <1>7

LEMMA SubmitDoneStep ==
    ASSUME Healthy, HealthyInv, SubmitDone
    PROVE  /\ call.main \in Slots /\ call.cur = NULL /\ pc = "submit" /\ pc' = call.ret
           /\ pc' \in {"submit_io_rep", "poll", "drainpoll", "cleanup"} /\ call' = NoCall
           /\ Before(call.main, call.cur) = Group(call.main) /\ Submitting(call.main)
           /\ UNCHANGED <<loopvars, taskvars, counters, is_draining, offset_in_ios>>
<1>1. TypeOK /\ CallOK /\ SlotsOK
  BY DEF HealthyInv
<1>2. /\ pc = "submit" /\ call.cur = NULL /\ pc' = call.ret /\ call' = NoCall
      /\ UNCHANGED <<loopvars, taskvars, counters, is_draining, offset_in_ios>>
  BY DEF SubmitDone, nsvars
<1>3. call.main \in Slots /\ call.ret \in {"submit_io_rep", "poll", "drainpoll", "cleanup"}
  BY <1>1, <1>2 DEF CallOK, TypeOK, Frames
<1>4. Submitting(call.main)
  BY <1>1, <1>2, <1>3 DEF SlotsOK, SlotOK, Walking
<1>5. QED
  BY <1>2, <1>3, <1>4 DEF Before

LEMMA IoCompleteStep ==
    ASSUME Healthy, HealthyInv, NEW t \in Tasks, IoComplete(t)
    PROVE  \E r \in Slots :
               /\ r = t[1] /\ t \in Group(r) /\ t[2] = ns /\ t \in inflight /\ inflight' = inflight \ {t}
               /\ pc \in {"poll", "drainpoll"} /\ r < slot /\ Waiting(r)
               /\ current_queue_depth' = OneLess(t[2])
               /\ \/ /\ RoundComplete(r) /\ pc' = "renew"
                     /\ call'.main = r /\ call'.ret = pc /\ call'.newid = NextIoId(io_id[MainTask(r)])
                     /\ call'.cur \in Group(r) /\ Before(r, call'.cur) = {}
                     /\ inflight' \cap Group(r) = {}
                  \/ ~RoundComplete(r) /\ pc' = pc /\ UNCHANGED call
               /\ \A n \in NsCtx : is_draining[n] => is_draining'[n]
               /\ UNCHANGED <<loopvars, q, io_id, cmd, freed, buf_freed, io_submitted, offset_in_ios>>
<1>1. TypeOK /\ ListsOK /\ SlotsOK
  BY DEF HealthyInv
<1>2. PICK r \in Slots : r = t[1]
  BY DEF Tasks
<1>3. /\ pc \in {"poll", "drainpoll"} /\ t[2] = ns /\ t \in inflight /\ inflight' = inflight \ {t}
      /\ UNCHANGED <<loopvars, q, io_id, cmd, freed, buf_freed, io_submitted, offset_in_ios>>
  BY DEF IoComplete
<1>4. t \in Group(r) /\ slot \in Int /\ r \in Int /\ ~Walking(r) /\ SlotOK(r)
  <2>1. t \in Group(r)
    BY <1>2, GroupFacts
  <2>2. slot \in 1 .. (QueueDepth + 1)
    BY <1>1, Zenon DEF TypeOK
  <2>3. QED
    BY <1>1, <1>3, <2>1, <2>2 DEF Walking, SlotsOK, Slots
<1>5. r < slot /\ Waiting(r) /\ r \in Allocated
  BY <1>3, <1>4 DEF SlotOK, Idle, Released, Allocated
<1>6. \A n \in NsCtx : is_draining[n] => is_draining'[n]
  <2>1. is_draining \in [NsCtx -> BOOLEAN]
    BY <1>1, Zenon DEF TypeOK
  <2>2. \/ UNCHANGED is_draining
        \/ \E b \in BOOLEAN : is_draining' = [is_draining EXCEPT ![ns] = @ \/ b]
    BY Zenon DEF IoComplete
  <2>3. QED
    BY <2>1, <2>2
<1>7. /\ current_queue_depth' = OneLess(t[2])
      /\ RoundComplete(r) =>
           /\ pc' = "renew"
           /\ call' = [ret |-> pc, main |-> r, cur |-> First(q, RepTasks(r)),
                       gen |-> NoCommand, newid |-> NextIoId(io_id[MainTask(r)])]
      /\ ~RoundComplete(r) => pc' = pc /\ UNCHANGED call
  BY <1>2, Zenon DEF IoComplete, TaskComplete
<1>8. CASE RoundComplete(r)
  <2>1. /\ pc' = "renew" /\ call'.main = r /\ call'.ret = pc /\ call'.cur = First(q, RepTasks(r))
        /\ call'.newid = NextIoId(io_id[MainTask(r)])
    BY <1>7, <1>8
  <2>2. call'.cur \in Group(r) /\ Before(r, call'.cur) = {}
    BY <1>1, <1>5, <2>1, WalkStart
  <2>3. inflight' \cap Group(r) = {}
    <3>1. SlotsOK' /\ CallOK'
      BY HealthyNext DEF HealthyInv, Next, WorkFn, Completion
    <3>2. QED
      BY <2>1, <3>1 DEF SlotsOK, SlotOK, Walking, Idle
  <2>4. QED
    BY <1>2, <1>3, <1>4, <1>5, <1>6, <1>7, <1>8, <2>1, <2>2, <2>3
<1>9. QED
  BY <1>2, <1>3, <1>4, <1>5, <1>6, <1>7, <1>8

LEMMA RenewStep ==
    ASSUME Healthy, HealthyInv, Renew
    PROVE  \E r \in Slots : \E c \in Group(r) :
               /\ r = call.main /\ c = call.cur /\ pc = "renew" /\ Idle(r) /\ r < slot
               /\ call'.main = r /\ call'.ret = call.ret /\ call'.newid = call.newid
               /\ \/ /\ is_draining[c[2]] /\ pc' = "release" /\ buf_freed' = buf_freed \cup {r}
                     /\ UNCHANGED io_id
                  \/ /\ ~is_draining[c[2]] /\ pc' = "renew" /\ UNCHANGED buf_freed
                     /\ io_id' = [io_id EXCEPT ![c] = call.newid]
                     /\ Before(r, call'.cur) = Before(r, c) \cup {c}
               /\ UNCHANGED <<loopvars, q, cmd, rep_completed_num, inflight, freed, counters,
                              is_draining, offset_in_ios>>
<1>1. TypeOK /\ CallOK /\ ListsOK /\ SlotsOK
  BY DEF HealthyInv
<1>2. pc = "renew" /\ call.cur # NULL
  BY DEF Renew
<1>3. PICK r \in Slots : r = call.main
  BY <1>1, <1>2 DEF CallOK
<1>4. SlotOK(r) /\ Walking(r)
  BY <1>1, <1>2, <1>3 DEF SlotsOK, Walking
<1>5. r < slot /\ Idle(r) /\ call.cur \in Group(r)
  BY <1>2, <1>4, Zenon DEF SlotOK
<1>6. PICK c \in Group(r) : c = call.cur
  BY <1>5
<1>7. UNCHANGED <<loopvars, q, cmd, rep_completed_num, inflight, freed, counters,
                  is_draining, offset_in_ios>>
  BY DEF Renew, nsvars
<1>8. \/ /\ is_draining[c[2]] /\ pc' = "release" /\ buf_freed' = buf_freed \cup {r}
         /\ UNCHANGED io_id /\ call' = [call EXCEPT !.cur = First(q, RepTasks(r))]
      \/ /\ ~is_draining[c[2]] /\ pc' = "renew" /\ UNCHANGED buf_freed
         /\ io_id' = [io_id EXCEPT ![c] = call.newid]
         /\ call' = [call EXCEPT !.cur = NextOf(q, c)]
  BY <1>2, <1>3, <1>6, Zenon DEF Renew, MustRelease, Renumber
<1>9. call'.main = r /\ call'.ret = call.ret /\ call'.newid = call.newid
  BY <1>1, <1>3, <1>8 DEF TypeOK, Frames
<1>10. r \in Allocated
  BY <1>5 DEF Allocated
<1>11. CASE is_draining[c[2]]
  BY <1>2, <1>3, <1>5, <1>6, <1>7, <1>8, <1>9, <1>11
<1>12. CASE ~is_draining[c[2]]
  <2>1. call'.cur = NextOf(q, c)
    BY <1>1, <1>8, <1>12 DEF TypeOK, Frames
  <2>2. Before(r, call'.cur) = Before(r, c) \cup {c}
    BY <1>1, <1>10, <2>1, WalkStep
  <2>3. QED
    BY <1>2, <1>3, <1>5, <1>6, <1>7, <1>8, <1>9, <1>12, <2>2
<1>13. QED
  BY <1>11, <1>12

LEMMA RenewDoneStep ==
    ASSUME Healthy, HealthyInv, RenewDone
    PROVE  \E r \in Slots :
               /\ r = call.main /\ pc = "renew" /\ pc' = "submit" /\ Idle(r) /\ r < slot
               /\ call.cur = NULL /\ Before(r, call.cur) = Group(r)
               /\ call'.main = r /\ call'.ret = call.ret
               /\ call'.cur \in Group(r) /\ Before(r, call'.cur) = {}
               /\ UNCHANGED <<loopvars, taskvars, counters, is_draining>>
<1>1. TypeOK /\ CallOK /\ ListsOK /\ SlotsOK
  BY DEF HealthyInv
<1>2. pc = "renew" /\ call.cur = NULL /\ UNCHANGED <<loopvars, taskvars, counters, is_draining>>
  BY DEF RenewDone
<1>3. PICK r \in Slots : r = call.main
  BY <1>1, <1>2 DEF CallOK
<1>4. r < slot /\ Idle(r) /\ r \in Allocated
  BY <1>1, <1>2, <1>3 DEF SlotsOK, SlotOK, Walking, Allocated
<1>5. pc' = "submit" /\ call'.main = r /\ call'.ret = call.ret /\ call'.cur = First(q, RepTasks(r))
  <2>1. PICK off \in Offsets, rd \in Ops :
             /\ pc' = "submit"
             /\ call' = [ret |-> call.ret, main |-> call.main,
                         cur |-> First(q, RepTasks(call.main)),
                         gen |-> [offset_in_ios |-> off, is_read |-> rd], newid |-> 0]
    BY Zenon DEF RenewDone, StartRound
  <2>2. QED
    BY <1>3, <2>1
<1>6. call'.cur \in Group(r) /\ Before(r, call'.cur) = {}
  BY <1>1, <1>4, <1>5, WalkStart
<1>7. Before(r, call.cur) = Group(r)
  BY <1>2 DEF Before
<1>8. QED
  BY <1>2, <1>3, <1>4, <1>5, <1>6, <1>7

LEMMA ReleaseStep ==
    ASSUME Healthy, HealthyInv, Release \/ ReleaseDone
    PROVE  \E r \in Slots :
               /\ r = call.main /\ pc = "release" /\ Releasing(r) /\ r < slot
               /\ \/ /\ pc' = "release" /\ call'.main = r /\ call'.ret = call.ret
                     /\ \A s \in Slots : MainTask(s) \in freed' <=> MainTask(s) \in freed
                  \/ /\ pc' = call.ret /\ pc' \in {"submit_io_rep", "poll", "drainpoll", "cleanup"}
                     /\ call' = NoCall
                     /\ MainTask(r) \notin freed /\ freed' = freed \cup {MainTask(r)}
               /\ UNCHANGED <<loopvars, q, io_id, cmd, rep_completed_num, inflight, buf_freed,
                              counters, is_draining, offset_in_ios>>
<1>1. TypeOK /\ CallOK /\ ListsOK /\ SlotsOK
  BY DEF HealthyInv
<1>2. /\ pc = "release"
      /\ UNCHANGED <<loopvars, q, io_id, cmd, rep_completed_num, inflight, buf_freed,
                     counters, is_draining, offset_in_ios>>
  BY DEF Release, ReleaseDone, nsvars
<1>3. PICK r \in Slots : r = call.main
  BY <1>1, <1>2 DEF CallOK
<1>4. r < slot /\ Releasing(r)
  BY <1>1, <1>2, <1>3 DEF SlotsOK, SlotOK, Walking
<1>5. CASE Release
  <2>1. /\ pc' = "release" /\ call' = [call EXCEPT !.cur = NextOf(q, call.cur)]
        /\ freed' = freed \cup ({call.cur} \ {MainTask(r)})
    BY <1>2, <1>3, <1>5 DEF Release, FreedInWalk
  <2>2. call'.main = r /\ call'.ret = call.ret
    BY <1>1, <1>3, <2>1 DEF TypeOK, Frames
  <2>3. call.cur \in Group(r)
    BY <1>1, <1>2, <1>3, <1>5 DEF Release, SlotsOK, SlotOK, Walking
  <2>4. ASSUME NEW s \in Slots PROVE MainTask(s) \in freed' <=> MainTask(s) \in freed
    <3>1. call.cur[1] = r /\ MainTask(s)[1] = s
      BY <2>3, GroupFacts DEF MainTask
    <3>2. MainTask(s) = call.cur => s = r
      BY <3>1, Zenon
    <3>3. QED
      BY <2>1, <3>2
  <2>5. QED
    BY <1>2, <1>3, <1>4, <2>1, <2>2, <2>4
<1>6. CASE ReleaseDone
  <2>1. /\ pc' = call.ret /\ call' = NoCall /\ MainTask(r) \notin freed
        /\ freed' = freed \cup {MainTask(r)}
    BY <1>3, <1>6 DEF ReleaseDone
  <2>2. call.ret \in {"submit_io_rep", "poll", "drainpoll", "cleanup"}
    BY <1>1, <1>2 DEF CallOK, TypeOK, Frames
  <2>3. QED
    BY <1>2, <1>3, <1>4, <2>1, <2>2
<1>7. QED
  BY <1>5, <1>6

-----------------------------------------------------------------------------
(* The walks of a group *)

Submits(s) == pc = "submit" /\ call.main = s

Renews(s) == pc = "renew" /\ call.main = s

-----------------------------------------------------------------------------
(* One command *)

CommandsOK ==
    \A s \in Slots :
        IF Submits(s) THEN \A t \in Before(s, call.cur) : cmd[t] = call.gen
                      ELSE \A t \in Group(s) : cmd[t] = cmd[MainTask(s)]

\* Outside the walk of submit_single_io_rep no command changes.
LEMMA CommandsFrame ==
    ASSUME CommandsOK, UNCHANGED cmd,
           \/ pc # "submit" /\ pc' # "submit"
           \/ UNCHANGED <<pc, call>>
    PROVE  CommandsOK'
<1>1. SUFFICES ASSUME NEW s \in Slots
               PROVE IF Submits(s)' THEN \A t \in Before(s, call'.cur) : cmd[t] = call'.gen
                     ELSE \A t \in Group(s) : cmd[t] = cmd[MainTask(s)]
  BY DEF CommandsOK, Before, Group, MainTask
<1>2. CASE pc # "submit" /\ pc' # "submit"
  BY <1>2 DEF CommandsOK, Submits
<1>3. CASE UNCHANGED <<pc, call>>
  BY <1>3 DEF CommandsOK, Submits
<1>4. QED
  BY <1>2, <1>3

LEMMA CommandsInit == Init => CommandsOK
<1>1. SUFFICES ASSUME Init, NEW s \in Slots
               PROVE ~Submits(s) /\ \A t \in Group(s) : cmd[t] = cmd[MainTask(s)]
  BY DEF CommandsOK
<1>2. \A t \in Tasks : cmd[t] = NoCommand
  BY <1>1 DEF Init
<1>3. ~Submits(s)
  BY <1>1 DEF Init, Submits
<1>4. QED
  BY <1>2, <1>3, GroupFacts

\* A round that starts has no replica behind its cursor; the other groups keep theirs.
LEMMA CommandsStart ==
    ASSUME CommandsOK, UNCHANGED cmd, NEW r \in Slots, pc # "submit",
           pc' = "submit", call'.main = r, Before(r, call'.cur) = {}
    PROVE  CommandsOK'
<1>1. ASSUME NEW s \in Slots
      PROVE IF Submits(s)' THEN \A t \in Before(s, call'.cur) : cmd[t] = call'.gen
            ELSE \A t \in Group(s) : cmd[t] = cmd[MainTask(s)]
  BY <1>1 DEF CommandsOK, Submits
<1>2. QED
  BY <1>1 DEF CommandsOK, Before, Group, MainTask

LEMMA CommandsNext ==
    ASSUME Healthy, HealthyInv, CommandsOK, [Next]_vars
    PROVE  CommandsOK'
<1>1. CASE AllocateGroup
  BY <1>1, AllocateGroupStep, CommandsStart
<1>2. CASE SubmitReplica
  <2>1. PICK r \in Slots : \E c \in Group(r) :
           /\ r = call.main /\ c = call.cur /\ pc = "submit" /\ pc' = "submit"
           /\ call'.main = r /\ call'.gen = call.gen
           /\ Before(r, call'.cur) = Before(r, c) \cup {c}
           /\ cmd' = [cmd EXCEPT ![c] = call.gen]
    BY <1>2, SubmitReplicaStep
  <2>2. PICK c \in Group(r) :
           /\ r = call.main /\ c = call.cur /\ pc = "submit" /\ pc' = "submit"
           /\ call'.main = r /\ call'.gen = call.gen
           /\ Before(r, call'.cur) = Before(r, c) \cup {c}
           /\ cmd' = [cmd EXCEPT ![c] = call.gen]
    BY <2>1
  <2>3. cmd \in [Tasks -> Commands]
    BY DEF HealthyInv, TypeOK
  <2>4. ASSUME NEW s \in Slots
        PROVE IF Submits(s)' THEN \A t \in Before(s, call'.cur) : cmd'[t] = call'.gen
              ELSE \A t \in Group(s) : cmd'[t] = cmd'[MainTask(s)]
    <3>1. CASE s = r
      <4>1. \A t \in Before(r, c) : cmd[t] = call.gen
        BY <2>2 DEF CommandsOK, Submits
      <4>2. c \in Tasks /\ Before(r, c) \subseteq Tasks
        BY GroupFacts DEF Before
      <4>3. \A t \in Before(r, c) \cup {c} : cmd'[t] = call.gen
        BY <2>2, <2>3, <4>1, <4>2
      <4>4. QED
        BY <2>2, <3>1, <4>3 DEF Submits
    <3>2. CASE s # r
      <4>1. ~Submits(s) /\ ~Submits(s)'
        BY <2>2, <3>2 DEF Submits
      <4>2. c \notin Group(s) /\ MainTask(s) \in Group(s) /\ Group(s) \subseteq Tasks
        BY <2>4, <3>2, GroupFacts
      <4>3. \A t \in Group(s) : cmd'[t] = cmd[t]
        BY <2>2, <2>3, <4>2
      <4>4. QED
        BY <2>4, <4>1, <4>2, <4>3 DEF CommandsOK
    <3>3. QED
      BY <3>1, <3>2
  <2>5. QED
    BY <2>4 DEF CommandsOK, Before, Group, MainTask
<1>3. CASE SubmitDone
  <2>1. /\ call.main \in Slots /\ pc = "submit" /\ pc' # "submit" /\ UNCHANGED cmd
        /\ Before(call.main, call.cur) = Group(call.main)
    BY <1>3, SubmitDoneStep DEF taskvars
  <2>2. ASSUME NEW s \in Slots PROVE \A t \in Group(s) : cmd[t] = cmd[MainTask(s)]
    BY <2>1, <2>2, GroupFacts DEF CommandsOK, Submits
  <2>3. QED
    BY <2>1, <2>2 DEF CommandsOK, Submits, Group, MainTask
<1>4. CASE \E t \in Tasks : IoComplete(t)
  BY <1>4, IoCompleteStep, CommandsFrame
<1>5. CASE Renew
  BY <1>5, RenewStep, CommandsFrame
<1>6. CASE RenewDone
  BY <1>6, RenewDoneStep, CommandsStart DEF taskvars
<1>7. CASE Release \/ ReleaseDone
  BY <1>7, ReleaseStep, CommandsFrame
<1>8. CASE Elsewhere
  BY <1>8, ElsewhereStep, CommandsFrame DEF Walks, HealthyInv
<1>9. QED
  BY <1>1, <1>2, <1>3, <1>4, <1>5, <1>6, <1>7, <1>8, StepCases

-----------------------------------------------------------------------------
(* One io_id *)

IdsOK ==
    \A s \in Slots \ buf_freed :
        IF Renews(s) THEN \A t \in Before(s, call.cur) : io_id[t] = call.newid
                     ELSE \A t \in Group(s) : io_id[t] = io_id[MainTask(s)]

\* Outside the walk of task_complete no io_id changes.
LEMMA IdsFrame ==
    ASSUME IdsOK, UNCHANGED io_id, buf_freed \subseteq buf_freed',
           \/ pc # "renew" /\ pc' # "renew"
           \/ UNCHANGED <<pc, call>>
    PROVE  IdsOK'
<1>1. ASSUME NEW s \in Slots \ buf_freed'
      PROVE IF Renews(s)' THEN \A t \in Before(s, call'.cur) : io_id[t] = call'.newid
            ELSE \A t \in Group(s) : io_id[t] = io_id[MainTask(s)]
  <2>1. s \in Slots \ buf_freed
    BY <1>1
  <2>2. CASE pc # "renew" /\ pc' # "renew"
    BY <2>1, <2>2 DEF IdsOK, Renews
  <2>3. CASE UNCHANGED <<pc, call>>
    BY <2>1, <2>3 DEF IdsOK, Renews
  <2>4. QED
    BY <2>2, <2>3
<1>2. QED
  BY <1>1 DEF IdsOK, Before, Group, MainTask

LEMMA IdsInit == Init => IdsOK
<1>1. SUFFICES ASSUME Init, NEW s \in Slots
               PROVE ~Renews(s) /\ \A t \in Group(s) : io_id[t] = io_id[MainTask(s)]
  BY DEF IdsOK
<1>2. \A t \in Tasks : io_id[t] = 0
  BY <1>1 DEF Init
<1>3. ~Renews(s)
  BY <1>1 DEF Init, Renews
<1>4. QED
  BY <1>2, <1>3, GroupFacts

LEMMA IdsRenew ==
    ASSUME Healthy, HealthyInv, IdsOK, Renew
    PROVE  IdsOK'
<1>1. PICK r \in Slots : \E c \in Group(r) :
         /\ r = call.main /\ c = call.cur /\ pc = "renew" /\ Idle(r)
         /\ call'.main = r /\ call'.newid = call.newid
         /\ \/ pc' = "release" /\ buf_freed' = buf_freed \cup {r} /\ UNCHANGED io_id
            \/ /\ pc' = "renew" /\ UNCHANGED buf_freed
               /\ io_id' = [io_id EXCEPT ![c] = call.newid]
               /\ Before(r, call'.cur) = Before(r, c) \cup {c}
  BY RenewStep
<1>2. PICK c \in Group(r) :
         /\ r = call.main /\ c = call.cur /\ pc = "renew" /\ Idle(r)
         /\ call'.main = r /\ call'.newid = call.newid
         /\ \/ pc' = "release" /\ buf_freed' = buf_freed \cup {r} /\ UNCHANGED io_id
            \/ /\ pc' = "renew" /\ UNCHANGED buf_freed
               /\ io_id' = [io_id EXCEPT ![c] = call.newid]
               /\ Before(r, call'.cur) = Before(r, c) \cup {c}
  BY <1>1
<1>3. io_id \in [Tasks -> 0 .. (IdModulus - 1)] /\ buf_freed \subseteq buf_freed' /\ r \notin buf_freed
  BY <1>2 DEF HealthyInv, TypeOK, Idle, Alive
<1>4. ASSUME NEW s \in Slots \ buf_freed'
      PROVE IF Renews(s)' THEN \A t \in Before(s, call'.cur) : io_id'[t] = call'.newid
            ELSE \A t \in Group(s) : io_id'[t] = io_id'[MainTask(s)]
  <2>1. s \in Slots \ buf_freed
    BY <1>3, <1>4
  <2>2. CASE s = r
    <3>1. /\ pc' = "renew" /\ io_id' = [io_id EXCEPT ![c] = call.newid]
          /\ Before(r, call'.cur) = Before(r, c) \cup {c}
      BY <1>2, <1>4, <2>2
    <3>2. \A t \in Before(r, c) : io_id[t] = call.newid
      BY <1>2, <1>3 DEF IdsOK, Renews
    <3>3. c \in Tasks /\ Before(r, c) \subseteq Tasks
      BY GroupFacts DEF Before
    <3>4. \A t \in Before(r, c) \cup {c} : io_id'[t] = call.newid
      BY <1>3, <3>1, <3>2, <3>3
    <3>5. QED
      BY <1>2, <2>2, <3>1, <3>4 DEF Renews
  <2>3. CASE s # r
    <3>1. ~Renews(s) /\ ~Renews(s)'
      BY <1>2, <2>3 DEF Renews
    <3>2. c \notin Group(s) /\ MainTask(s) \in Group(s) /\ Group(s) \subseteq Tasks
      BY <2>1, <2>3, GroupFacts
    <3>3. \A t \in Group(s) : io_id'[t] = io_id[t]
      BY <1>2, <1>3, <3>2
    <3>4. QED
      BY <2>1, <3>1, <3>2, <3>3 DEF IdsOK
  <2>4. QED
    BY <2>2, <2>3
<1>5. QED
  BY <1>4 DEF IdsOK, Before, Group, MainTask

LEMMA IdsNext ==
    ASSUME Healthy, HealthyInv, IdsOK, [Next]_vars
    PROVE  IdsOK'
<1>1. CASE AllocateGroup
  <2>1. slot \in Slots /\ pc = "submit_io_rep" /\ pc' = "submit" /\ UNCHANGED buf_freed
    BY <1>1, AllocateGroupStep
  <2>2. \A t \in Tasks : io_id'[t] = IF t[1] = slot THEN slot ELSE io_id[t]
    BY <1>1 DEF AllocateGroup
  <2>3. ASSUME NEW s \in Slots \ buf_freed, NEW t \in Group(s) PROVE io_id'[t] = io_id'[MainTask(s)]
    <3>1. t \in Tasks /\ MainTask(s) \in Tasks /\ t[1] = s /\ MainTask(s)[1] = s
      BY <2>3, GroupFacts
    <3>2. io_id[t] = io_id[MainTask(s)]
      BY <2>1, <2>3 DEF IdsOK, Renews
    <3>3. QED
      BY <2>2, <3>1, <3>2
  <2>4. QED
    BY <2>1, <2>3 DEF IdsOK, Renews, Group, MainTask
<1>2. CASE SubmitReplica
  BY <1>2, SubmitReplicaStep, IdsFrame
<1>3. CASE SubmitDone
  BY <1>3, SubmitDoneStep, IdsFrame DEF taskvars
<1>4. CASE \E t \in Tasks : IoComplete(t)
  <2>1. PICK r \in Slots :
           /\ pc \in {"poll", "drainpoll"} /\ UNCHANGED <<io_id, buf_freed>>
           /\ \/ pc' = "renew" /\ call'.main = r /\ Before(r, call'.cur) = {}
              \/ pc' = pc /\ UNCHANGED call
    BY <1>4, IoCompleteStep
  <2>2. CASE pc' = pc
    BY <2>1, <2>2, IdsFrame
  <2>3. CASE pc' = "renew" /\ call'.main = r /\ Before(r, call'.cur) = {}
    <3>1. ASSUME NEW s \in Slots \ buf_freed
          PROVE IF Renews(s)' THEN \A t \in Before(s, call'.cur) : io_id[t] = call'.newid
                ELSE \A t \in Group(s) : io_id[t] = io_id[MainTask(s)]
      BY <2>1, <2>3, <3>1 DEF IdsOK, Renews
    <3>2. QED
      BY <2>1, <3>1 DEF IdsOK, Before, Group, MainTask
  <2>4. QED
    BY <2>1, <2>2, <2>3
<1>5. CASE Renew
  BY <1>5, IdsRenew
<1>6. CASE RenewDone
  <2>1. /\ call.main \in Slots /\ pc = "renew" /\ pc' = "submit" /\ UNCHANGED <<io_id, buf_freed>>
        /\ Before(call.main, call.cur) = Group(call.main)
    BY <1>6, RenewDoneStep DEF taskvars
  <2>2. ASSUME NEW s \in Slots \ buf_freed PROVE \A t \in Group(s) : io_id[t] = io_id[MainTask(s)]
    <3>1. IF Renews(s) THEN \A t \in Before(s, call.cur) : io_id[t] = call.newid
          ELSE \A t \in Group(s) : io_id[t] = io_id[MainTask(s)]
      BY <2>2 DEF IdsOK
    <3>2. CASE Renews(s)
      <4>1. \A t \in Group(s) : io_id[t] = call.newid
        BY <2>1, <3>1, <3>2 DEF Renews
      <4>2. QED
        BY <4>1, MainTaskInGroup
    <3>3. QED
      BY <3>1, <3>2
  <2>3. QED
    BY <2>1, <2>2 DEF IdsOK, Renews, Group, MainTask
<1>7. CASE Release \/ ReleaseDone
  BY <1>7, ReleaseStep, IdsFrame
<1>8. CASE Elsewhere
  BY <1>8, ElsewhereStep, IdsFrame DEF Walks, HealthyInv
<1>9. QED
  BY <1>1, <1>2, <1>3, <1>4, <1>5, <1>6, <1>7, <1>8, StepCases

-----------------------------------------------------------------------------
(* The group outside the walks *)

RoundsInv == HealthyInv /\ CommandsOK /\ IdsOK

LEMMA RoundsAlways == Healthy /\ Spec => []RoundsInv
<1>1. Init => CommandsOK /\ IdsOK
  BY CommandsInit, IdsInit
<1>2. Healthy /\ HealthyInv /\ CommandsOK /\ IdsOK /\ [Next]_vars => CommandsOK' /\ IdsOK'
  BY CommandsNext, IdsNext
<1>3. QED
  BY HealthyStays, <1>1, <1>2, HealthyAlways, PTL DEF Spec, RoundsInv

\* A command in flight is of an allocated group with its buffer, which is waiting for its
\* barrier or being submitted.
LEMMA InFlightIsAlive ==
    ASSUME HealthyInv, NEW t \in inflight
    PROVE  \E r \in Slots :
               /\ r = t[1] /\ t \in Group(r) /\ r < slot /\ r \notin buf_freed /\ ~Renews(r)
               /\ Submits(r) => t \in Before(r, call.cur)
<1>1. TypeOK /\ SlotsOK
  BY DEF HealthyInv
<1>2. t \in Tasks /\ slot \in Int
  BY <1>1 DEF TypeOK
<1>3. PICK r \in Slots : r = t[1]
  BY <1>2 DEF Tasks
<1>4. t \in Group(r) /\ SlotOK(r) /\ r \in Int
  BY <1>1, <1>2, <1>3, GroupFacts DEF SlotsOK, Slots
<1>5. ~Idle(r) /\ ~Released(r) /\ ~Releasing(r)
  BY <1>4 DEF Idle, Released, Releasing
<1>6. r < slot
  BY <1>2, <1>4, <1>5 DEF SlotOK
<1>7. ~Renews(r)
  BY <1>4, <1>5 DEF Renews, SlotOK, Walking
<1>8. CASE Submits(r)
  <2>1. Submitting(r)
    BY <1>4, <1>8 DEF Submits, SlotOK, Walking
  <2>2. QED
    BY <1>3, <1>4, <1>6, <1>7, <2>1 DEF Submitting, Alive
<1>9. CASE ~Submits(r)
  <2>1. ~Walking(r)
    BY <1>4, <1>5, <1>9 DEF Submits, SlotOK, Walking
  <2>2. Waiting(r)
    BY <1>4, <1>5, <1>6, <2>1, Zenon DEF SlotOK
  <2>3. QED
    BY <1>3, <1>4, <1>6, <1>7, <1>9, <2>2 DEF Waiting, Alive
<1>10. QED
  BY <1>8, <1>9

LEMMA AgreeInFlight ==
    ASSUME HealthyInv, CommandsOK, IdsOK
    PROVE  ReplicasAgree
<1>1. SUFFICES ASSUME NEW t \in inflight, NEW u \in inflight, t[1] = u[1]
               PROVE  cmd[t] = cmd[u] /\ io_id[t] = io_id[u]
  BY DEF ReplicasAgree
<1>2. PICK r \in Slots : /\ r = t[1] /\ t \in Group(r) /\ r \notin buf_freed /\ ~Renews(r)
                         /\ Submits(r) => t \in Before(r, call.cur)
  BY InFlightIsAlive
<1>3. u \in Group(r) /\ (Submits(r) => u \in Before(r, call.cur))
  BY <1>1, <1>2, InFlightIsAlive
<1>4. cmd[t] = cmd[u]
  BY <1>2, <1>3 DEF CommandsOK
<1>5. io_id[t] = io_id[u]
  BY <1>2, <1>3 DEF IdsOK
<1>6. QED
  BY <1>4, <1>5

\* The namespace at place k of the replica list.
Unrank(k) == IF SendMainRepFinally THEN IF k = NumNs THEN 1 ELSE k + 1 ELSE k

LEMMA UnrankFacts ==
    /\ Unrank(1) = FirstReplica /\ Successor(Unrank(NumNs)) = 0
    /\ \A k \in NsCtx : Unrank(k) \in NsCtx
    /\ \A n \in NsCtx : Rank(n) \in NsCtx /\ Unrank(Rank(n)) = n
    /\ \A k \in 1 .. (NumNs - 1) :
          /\ k \in NsCtx /\ k + 1 \in NsCtx
          /\ Successor(Unrank(k)) = Unrank(k + 1) /\ Unrank(k + 1) # 0
<1>1. CASE SendMainRepFinally
  BY <1>1, ConstantTypes DEF Unrank, Rank, FirstReplica, Successor, NsCtx
<1>2. CASE ~SendMainRepFinally
  BY <1>2, ConstantTypes DEF Unrank, Rank, FirstReplica, Successor, NsCtx
<1>3. QED
  BY <1>1, <1>2

LEMMA ListIntact ==
    ASSUME ListsOK
    PROVE  GroupListIntact
<1>1. SUFFICES ASSUME NEW s \in Allocated \ buf_freed
               PROVE  \E walk \in [NsCtx -> Group(s)] :
                         /\ First(q, RepTasks(s)) = walk[1] /\ NextOf(q, walk[NumNs]) = NULL
                         /\ \A k \in 1 .. (NumNs - 1) : NextOf(q, walk[k]) = walk[k + 1]
                         /\ Group(s) = {walk[k] : k \in NsCtx}
  BY DEF GroupListIntact
<1> DEFINE w == [k \in NsCtx |-> <<s, Unrank(k)>>]
<1>2. s \in Slots
  BY DEF Allocated
<1>3. /\ q.next[RepTasks(s)] = <<s, FirstReplica>>
      /\ \A n \in NsCtx : q.next[<<s, n>>] = IF Successor(n) = 0 THEN NULL
                                             ELSE <<s, Successor(n)>>
  BY DEF ListsOK
<1>4. w \in [NsCtx -> Group(s)]
  BY <1>2, UnrankFacts, GroupFacts
<1>5. First(q, RepTasks(s)) = w[1]
  BY <1>3, UnrankFacts, ConstantTypes DEF First
<1>6. NextOf(q, w[NumNs]) = NULL
  <2>1. NumNs \in NsCtx
    BY ConstantTypes DEF NsCtx
  <2>2. QED
    BY <1>3, <2>1, UnrankFacts DEF NextOf
<1>7. ASSUME NEW k \in 1 .. (NumNs - 1) PROVE NextOf(q, w[k]) = w[k + 1]
  <2>1. /\ k \in NsCtx /\ k + 1 \in NsCtx /\ Unrank(k) \in NsCtx
        /\ Successor(Unrank(k)) = Unrank(k + 1) /\ Unrank(k + 1) # 0
    BY UnrankFacts
  <2>2. w[k] = <<s, Unrank(k)>> /\ w[k + 1] = <<s, Unrank(k + 1)>>
    BY <2>1
  <2>3. q.next[<<s, Unrank(k)>>] = <<s, Unrank(k + 1)>>
    BY <1>3, <2>1
  <2>4. QED
    BY <2>2, <2>3 DEF NextOf
<1>8. Group(s) = {w[k] : k \in NsCtx}
  <2>1. ASSUME NEW t \in Group(s) PROVE \E k \in NsCtx : t = w[k]
    <3>1. t = <<s, t[2]>> /\ t[2] \in NsCtx
      BY <1>2, <2>1, GroupFacts
    <3>2. Rank(t[2]) \in NsCtx /\ w[Rank(t[2])] = t
      BY <3>1, UnrankFacts
    <3>3. QED
      BY <3>2
  <2>2. QED
    BY <1>4, <2>1
<1>9. QED
  BY <1>4, <1>5, <1>6, <1>7, <1>8

-----------------------------------------------------------------------------
(* The worker implements ReplicatedIO *)

LEMMA RefinementInit == Init => Abstract!AbsInit
<1>1. SUFFICES ASSUME Init PROVE Abstract!AbsInit
  OBVIOUS
<1>2. /\ slot = 1 /\ pc = "submit_io_rep" /\ inflight = {}
      /\ \A t \in Tasks : cmd[t] = NoCommand
  BY <1>1 DEF Init
<1>3. phaseOf = [s \in Slots |-> "unused"]
  BY <1>2 DEF phaseOf, Slots
<1>4. pendingOf = [s \in Slots |-> {}]
  BY <1>2 DEF pendingOf
<1>5. commandOf \in [Slots -> Commands]
  BY <1>2, ConstantTypes, HeadsTyped DEF commandOf
<1>6. QED
  BY <1>3, <1>4, <1>5 DEF Abstract!AbsInit

LEMMA CommandOfTyped == TypeOK => commandOf \in [Slots -> Commands]
BY HeadsTyped DEF TypeOK, Frames, commandOf

\* A step that changes nothing a reader of ReplicatedIO sees.
LEMMA RefinementFrame ==
    ASSUME UNCHANGED <<slot, inflight, cmd>>,
           \A s \in Slots : MainTask(s) \in freed' <=> MainTask(s) \in freed,
           \/ pc # "submit" /\ pc' # "submit"
           \/ UNCHANGED <<pc, call>>
    PROVE  UNCHANGED <<phaseOf, pendingOf, commandOf>>
<1>1. phaseOf' = phaseOf
  BY DEF phaseOf, MainTask
<1>2. pendingOf' = pendingOf /\ commandOf' = commandOf
  BY DEF pendingOf, commandOf, MainTask
<1>3. QED
  BY <1>1, <1>2

\* The start of a round of slot r, as submit_io_rep and task_complete make it.
LEMMA RefinementBegin ==
    ASSUME TypeOK, TypeOK', NEW r \in Slots, Idle(r), UNCHANGED <<inflight, cmd, freed>>,
           pc # "submit", pc' = "submit", call'.main = r, r < slot', ~(r >= slot'),
           \A s \in Slots : s # r => (s >= slot' <=> s >= slot)
    PROVE  Abstract!Begin(r)
<1>1. MainTask(r) \notin freed /\ \A n \in NsCtx : <<r, n>> \notin inflight
  BY GroupFacts DEF Idle, Alive
<1>2. phaseOf[r] \in {"unused", "active"} /\ pendingOf[r] = {}
  BY <1>1 DEF phaseOf, pendingOf
<1>3. phaseOf' = [phaseOf EXCEPT ![r] = "active"]
  BY <1>1 DEF phaseOf, MainTask
<1>4. pendingOf' = [pendingOf EXCEPT ![r] = NsCtx]
  BY DEF pendingOf
<1>5. commandOf' \in [Slots -> Commands]
  <2>1. call'.gen \in Commands /\ cmd' \in [Tasks -> Commands]
    BY DEF TypeOK, Frames
  <2>2. QED
    BY <2>1, HeadsTyped DEF commandOf, MainTask
<1>6. \A s \in Slots \ {r} : commandOf'[s] = commandOf[s]
  BY DEF commandOf, MainTask
<1>7. QED
  BY <1>2, <1>3, <1>4, <1>5, <1>6 DEF Abstract!Begin

LEMMA RefinementSubmit ==
    ASSUME Healthy, HealthyInv, CommandsOK, SubmitReplica \/ SubmitDone
    PROVE  UNCHANGED <<phaseOf, pendingOf, commandOf>>
<1>1. CASE SubmitReplica
  <2>1. PICK r \in Slots : \E c \in Group(r) :
           /\ r = call.main /\ pc = "submit" /\ pc' = "submit"
           /\ call'.main = r /\ call'.gen = call.gen /\ Accepted(c)
           /\ cmd' = [cmd EXCEPT ![c] = call.gen] /\ UNCHANGED <<loopvars, freed>>
    BY <1>1, SubmitReplicaStep
  <2>2. PICK c \in Group(r) :
           /\ r = call.main /\ pc = "submit" /\ pc' = "submit"
           /\ call'.main = r /\ call'.gen = call.gen /\ Accepted(c)
           /\ cmd' = [cmd EXCEPT ![c] = call.gen] /\ UNCHANGED <<loopvars, freed>>
    BY <2>1
  <2>3. inflight' = inflight \cup {c} /\ UNCHANGED slot /\ cmd \in [Tasks -> Commands]
    BY <2>2 DEF Accepted, loopvars, HealthyInv, TypeOK
  <2>4. \A s \in Slots, n \in NsCtx : s # r => <<s, n>> # c
    BY DEF Group
  <2>5. \A s \in Slots : s # r => MainTask(s) # c /\ MainTask(s) \in Tasks
    BY <2>4, HeadsTyped, ConstantTypes DEF MainTask
  <2>6. phaseOf' = phaseOf
    BY <2>2, <2>3 DEF phaseOf, MainTask
  <2>7. pendingOf' = pendingOf
    BY <2>2, <2>3, <2>4 DEF pendingOf
  <2>8. commandOf' = commandOf
    <3>1. ASSUME NEW s \in Slots PROVE commandOf'[s] = commandOf[s]
      BY <2>2, <2>3, <2>5 DEF commandOf, MainTask
    <3>2. QED
      BY <3>1 DEF commandOf, MainTask
  <2>9. QED
    BY <2>6, <2>7, <2>8
<1>2. CASE SubmitDone
  <2>1. PICK r \in Slots :
           /\ r = call.main /\ pc = "submit" /\ pc' # "submit"
           /\ Before(r, call.cur) = Group(r) /\ Submitting(r)
           /\ UNCHANGED <<loopvars, taskvars>>
    BY <1>2, SubmitDoneStep
  <2>2. UNCHANGED <<slot, inflight, cmd, freed>>
    BY <2>1 DEF loopvars, taskvars
  <2>3. \A n \in NsCtx : <<r, n>> \in inflight
    <3>1. Group(r) \subseteq inflight
      BY <2>1 DEF Submitting
    <3>2. QED
      BY <3>1 DEF Group
  <2>4. cmd[MainTask(r)] = call.gen
    <3>1. MainTask(r) \in Before(r, call.cur)
      BY <2>1, MainTaskInGroup
    <3>2. \A t \in Before(r, call.cur) : cmd[t] = call.gen
      BY <2>1 DEF CommandsOK, Submits
    <3>3. QED
      BY <3>1, <3>2
  <2>5. phaseOf' = phaseOf
    BY <2>2 DEF phaseOf, MainTask
  <2>6. pendingOf' = pendingOf
    BY <2>1, <2>2, <2>3 DEF pendingOf
  <2>7. commandOf' = commandOf
    BY <2>1, <2>2, <2>4 DEF commandOf, MainTask
  <2>8. QED
    BY <2>5, <2>6, <2>7
<1>3. QED
  BY <1>1, <1>2

LEMMA RefinementAnswer ==
    ASSUME Healthy, HealthyInv, NEW t \in Tasks, IoComplete(t)
    PROVE  \E s \in Slots, n \in NsCtx : Abstract!Answer(s, n)
<1>1. PICK r \in Slots :
         /\ r = t[1] /\ t \in Group(r) /\ t \in inflight /\ inflight' = inflight \ {t}
         /\ pc # "submit" /\ pc' # "submit" /\ UNCHANGED <<loopvars, cmd, freed>>
  BY IoCompleteStep
<1>2. PICK m \in NsCtx : m = t[2]
  BY DEF Tasks
<1>3. t = <<r, m>> /\ UNCHANGED slot
  BY <1>1, <1>2, GroupFacts DEF loopvars
<1>4. m \in pendingOf[r]
  BY <1>1, <1>3 DEF pendingOf
<1>5. pendingOf' = [pendingOf EXCEPT ![r] = @ \ {m}]
  <2>1. \A s \in Slots, n \in NsCtx :
           <<s, n>> \in inflight' <=> <<s, n>> \in inflight /\ ~(s = r /\ n = m)
    BY <1>1, <1>3
  <2>2. QED
    BY <1>1, <2>1 DEF pendingOf
<1>6. UNCHANGED <<phaseOf, commandOf>>
  BY <1>1, <1>3 DEF phaseOf, commandOf, MainTask
<1>7. Abstract!Answer(r, m)
  BY <1>4, <1>5, <1>6 DEF Abstract!Answer
<1>8. QED
  BY <1>7

LEMMA RefinementRetire ==
    ASSUME Healthy, HealthyInv, Release \/ ReleaseDone
    PROVE  \/ UNCHANGED <<phaseOf, pendingOf, commandOf>>
           \/ \E s \in Slots : Abstract!Retire(s)
<1>1. PICK r \in Slots :
         /\ pc = "release" /\ pc' # "submit" /\ Releasing(r) /\ r < slot
         /\ \/ \A s \in Slots : MainTask(s) \in freed' <=> MainTask(s) \in freed
            \/ MainTask(r) \notin freed /\ freed' = freed \cup {MainTask(r)}
         /\ UNCHANGED <<loopvars, cmd, inflight>>
  BY ReleaseStep
<1>2. UNCHANGED slot /\ slot \in Int /\ r \in Int /\ ~(r >= slot)
  <2>1. slot \in 1 .. (QueueDepth + 1)
    BY Zenon DEF HealthyInv, TypeOK
  <2>2. QED
    BY <1>1, <2>1 DEF loopvars, Slots
<1>3. CASE \A s \in Slots : MainTask(s) \in freed' <=> MainTask(s) \in freed
  BY <1>1, <1>2, <1>3, RefinementFrame
<1>4. CASE MainTask(r) \notin freed /\ freed' = freed \cup {MainTask(r)}
  <2>1. \A s \in Slots : MainTask(s) \in freed' <=> MainTask(s) \in freed \/ s = r
    BY <1>4 DEF MainTask
  <2>2. phaseOf[r] = "active" /\ phaseOf' = [phaseOf EXCEPT ![r] = "retired"]
    BY <1>2, <1>4, <2>1 DEF phaseOf, MainTask
  <2>3. pendingOf[r] = {}
    <3>1. \A n \in NsCtx : <<r, n>> \notin inflight
      BY <1>1, GroupFacts DEF Releasing
    <3>2. QED
      BY <1>1, <3>1 DEF pendingOf
  <2>4. UNCHANGED <<pendingOf, commandOf>>
    BY <1>1 DEF pendingOf, commandOf, MainTask
  <2>5. Abstract!Retire(r)
    BY <2>2, <2>3, <2>4 DEF Abstract!Retire
  <2>6. QED
    BY <2>5
<1>5. QED
  BY <1>1, <1>3, <1>4

LEMMA RefinementStep ==
    Healthy /\ RoundsInv /\ [Next]_vars => [Abstract!AbsNext]_(Abstract!absvars)
<1>1. SUFFICES ASSUME Healthy, RoundsInv, [Next]_vars
               PROVE  \/ UNCHANGED <<phaseOf, pendingOf, commandOf>>
                      \/ \E s \in Slots : \/ Abstract!Begin(s) \/ Abstract!Retire(s)
                                          \/ \E n \in NsCtx : Abstract!Answer(s, n)
  BY DEF Abstract!AbsNext, Abstract!absvars
<1>2. HealthyInv /\ CommandsOK
  BY <1>1 DEF RoundsInv
<1>3. TypeOK /\ TypeOK'
  BY <1>1, <1>2, HealthyNext DEF HealthyInv
<1>4. slot \in Int
  <2>1. slot \in 1 .. (QueueDepth + 1)
    BY <1>3, Zenon DEF TypeOK
  <2>2. QED
    BY <2>1
<1>5. CASE AllocateGroup
  <2>1. PICK r \in Slots : /\ r = slot /\ slot' = slot + 1 /\ Idle(r) /\ pc # "submit"
                           /\ pc' = "submit" /\ call'.main = r /\ UNCHANGED <<inflight, cmd, freed>>
    BY <1>1, <1>2, <1>5, AllocateGroupStep
  <2>2. r < slot' /\ ~(r >= slot') /\ \A s \in Slots : s # r => (s >= slot' <=> s >= slot)
    BY <2>1 DEF Slots
  <2>3. Abstract!Begin(r)
    BY <1>3, <2>1, <2>2, RefinementBegin
  <2>4. QED
    BY <2>3
<1>6. CASE RenewDone
  <2>1. PICK r \in Slots : /\ pc = "renew" /\ pc' = "submit" /\ Idle(r) /\ r < slot
                           /\ call'.main = r /\ UNCHANGED <<slot, inflight, cmd, freed>>
    BY <1>1, <1>2, <1>6, RenewDoneStep DEF loopvars, taskvars
  <2>2. r < slot' /\ ~(r >= slot')
    BY <1>4, <2>1 DEF Slots
  <2>3. Abstract!Begin(r)
    BY <1>3, <2>1, <2>2, RefinementBegin
  <2>4. QED
    BY <2>3
<1>7. CASE SubmitReplica \/ SubmitDone
  BY <1>1, <1>2, <1>7, RefinementSubmit
<1>8. CASE \E t \in Tasks : IoComplete(t)
  BY <1>1, <1>2, <1>8, RefinementAnswer
<1>9. CASE Renew
  <2>1. pc = "renew" /\ pc' # "submit" /\ UNCHANGED <<slot, inflight, cmd, freed>>
    BY <1>1, <1>2, <1>9, RenewStep DEF loopvars
  <2>2. QED
    BY <2>1, RefinementFrame
<1>10. CASE Release \/ ReleaseDone
  BY <1>1, <1>2, <1>10, RefinementRetire
<1>11. CASE Elsewhere
  <2>1. /\ UNCHANGED <<slot, call, inflight, cmd, freed>>
        /\ pc' = pc \/ (pc # "submit" /\ pc' # "submit")
    BY <1>1, <1>2, <1>11, ElsewhereStep DEF Walks, HealthyInv
  <2>2. QED
    BY <2>1, RefinementFrame
<1>12. QED
  BY <1>1, <1>2, <1>5, <1>6, <1>7, <1>8, <1>9, <1>10, <1>11, StepCases

\* The worker implements ReplicatedIO for every queue depth and number of replicas: what
\* work_fn does with lists, cursors and counters is, seen from outside, rounds of one
\* command each that every namespace answers before the next begins, and slots that are
\* retired once.
THEOREM RefinesReplicatedIO == Healthy /\ Spec => ImplementsReplicatedIO
BY HealthyStays, RefinementInit, RefinementStep, RoundsAlways, PTL
DEF Spec, ImplementsReplicatedIO, Abstract!AbsSpec

-----------------------------------------------------------------------------
(* All the namespaces, inside their bounds *)

\* What namespace n has been sent of the round that is being submitted.
SentOf(n) == IF pc = "submit" /\ <<call.main, n>> \in Before(call.main, call.cur) THEN 1 ELSE 0

\* But for the round that is being submitted, the namespaces were sent equally many commands.
LockOK == \A m, n \in NsCtx : io_submitted[m] - SentOf(m) = io_submitted[n] - SentOf(n)

LEMMA LockNext ==
    ASSUME Healthy, HealthyInv, LockOK, [Next]_vars
    PROVE  LockOK'
<1>1. io_submitted \in [NsCtx -> Nat] /\ \A n \in NsCtx : SentOf(n) \in {0, 1}
  BY DEF HealthyInv, TypeOK, SentOf
<1>2. ASSUME UNCHANGED io_submitted, \A n \in NsCtx : SentOf(n)' = SentOf(n) PROVE LockOK'
  BY <1>2 DEF LockOK
<1>3. ASSUME UNCHANGED io_submitted, pc # "submit",
             pc' = "submit" => \E r \in Slots : call'.main = r /\ Before(r, call'.cur) = {}
      PROVE  LockOK'
  <2>1. \A n \in NsCtx : SentOf(n) = 0
    BY <1>3 DEF SentOf
  <2>2. ASSUME NEW n \in NsCtx PROVE SentOf(n)' = 0
    <3>1. CASE pc' = "submit"
      <4>1. PICK r \in Slots : call'.main = r /\ Before(r, call'.cur) = {}
        BY <1>3, <3>1
      <4>2. Before(call.main, call.cur)' = {}
        BY <4>1 DEF Before, Group
      <4>3. QED
        BY <4>2 DEF SentOf
    <3>2. QED
      BY <3>1 DEF SentOf
  <2>3. QED
    BY <1>2, <1>3, <2>1, <2>2
<1>4. CASE AllocateGroup
  BY <1>3, <1>4, AllocateGroupStep DEF counters
<1>5. CASE SubmitReplica
  <2>1. PICK r \in Slots : \E c \in Group(r) :
           /\ r = call.main /\ c = call.cur /\ pc = "submit" /\ pc' = "submit"
           /\ call'.main = r /\ Accepted(c)
           /\ Before(r, call'.cur) = Before(r, c) \cup {c} /\ c \notin Before(r, c)
    BY <1>5, SubmitReplicaStep
  <2>2. PICK c \in Group(r) :
           /\ r = call.main /\ c = call.cur /\ pc = "submit" /\ pc' = "submit"
           /\ call'.main = r /\ Accepted(c)
           /\ Before(r, call'.cur) = Before(r, c) \cup {c} /\ c \notin Before(r, c)
    BY <2>1
  <2>3. PICK k \in NsCtx : c = <<r, k>> /\ k = c[2]
    BY GroupFacts
  <2>4. Before(call.main, call.cur)' = Before(r, c) \cup {c} /\ call'.main = r
    BY <2>2 DEF Before, Group
  <2>5. SentOf(k) = 0 /\ SentOf(k)' = 1
    BY <2>2, <2>3, <2>4 DEF SentOf
  <2>6. ASSUME NEW n \in NsCtx, n # k PROVE SentOf(n)' = SentOf(n)
    <3>1. <<r, n>> # c
      BY <2>3, <2>6
    <3>2. <<r, n>> \in Before(r, c) \cup {c} <=> <<r, n>> \in Before(r, c)
      BY <3>1
    <3>3. QED
      BY <2>2, <2>4, <3>2 DEF SentOf
  <2>7. /\ io_submitted'[k] = io_submitted[k] + 1
        /\ \A n \in NsCtx : n # k => io_submitted'[n] = io_submitted[n]
    BY <1>1, <2>2, <2>3 DEF Accepted
  <2>8. \A n \in NsCtx : io_submitted'[n] - SentOf(n)' = io_submitted[n] - SentOf(n)
    BY <1>1, <2>5, <2>6, <2>7
  <2>9. QED
    BY <2>8 DEF LockOK
<1>6. CASE SubmitDone
  <2>1. /\ call.main \in Slots /\ pc = "submit" /\ pc' # "submit" /\ UNCHANGED io_submitted
        /\ Before(call.main, call.cur) = Group(call.main)
    BY <1>6, SubmitDoneStep DEF counters
  <2>2. \A n \in NsCtx : SentOf(n) = 1
    <3>1. \A n \in NsCtx : <<call.main, n>> \in Before(call.main, call.cur)
      BY <2>1 DEF Group
    <3>2. QED
      BY <2>1, <3>1 DEF SentOf
  <2>3. \A n \in NsCtx : SentOf(n)' = 0
    BY <2>1 DEF SentOf
  <2>4. \A m, n \in NsCtx : io_submitted[m] = io_submitted[n]
    BY <1>1, <2>2 DEF LockOK
  <2>5. QED
    BY <2>1, <2>3, <2>4 DEF LockOK
<1>7. CASE \E t \in Tasks : IoComplete(t)
  BY <1>3, <1>7, IoCompleteStep
<1>8. CASE Renew
  BY <1>3, <1>8, RenewStep DEF counters
<1>9. CASE RenewDone
  BY <1>3, <1>9, RenewDoneStep DEF counters
<1>10. CASE Release \/ ReleaseDone
  BY <1>3, <1>10, ReleaseStep DEF counters
<1>11. CASE Elsewhere
  <2>1. /\ UNCHANGED call /\ (pc' = pc \/ (pc # "submit" /\ pc' # "submit"))
        /\ UNCHANGED io_submitted \/ (pc = "clock" /\ io_submitted' = [n \in NsCtx |-> 0])
    BY <1>11, ElsewhereStep DEF Walks, HealthyInv
  <2>2. \A n \in NsCtx : SentOf(n)' = SentOf(n)
    BY <2>1 DEF SentOf, Before, Group
  <2>3. CASE pc = "clock" /\ io_submitted' = [n \in NsCtx |-> 0]
    <3>1. \A n \in NsCtx : SentOf(n) = 0
      BY <2>3 DEF SentOf
    <3>2. \A n \in NsCtx : SentOf(n)' = 0
      BY <2>2, <3>1
    <3>3. QED
      BY <2>3, <3>2 DEF LockOK
  <2>4. QED
    BY <1>2, <2>1, <2>2, <2>3
<1>12. QED
  BY <1>4, <1>5, <1>6, <1>7, <1>8, <1>9, <1>10, <1>11, StepCases

\* A drawn offset is drawn within the main namespace, so the replicas are addressed inside
\* their namespaces only if none of them is smaller.
Sized == IsRandom => \A n \in NsCtx : SizeInIos[1] <= SizeInIos[n]

InRange(c) == \A n \in NsCtx : c.offset_in_ios < SizeInIos[n]

RangeOK == offset_in_ios < MinSizeInIos /\ InRange(call.gen) /\ \A t \in Tasks : InRange(cmd[t])

LEMMA SmallestExists ==
    ASSUME NEW S \in SUBSET Nat, S # {}
    PROVE  \E m \in S : \A n \in S : m <= n
<1>1. PICK x \in S : \A y \in S : ~(<<y, x>> \in OpToRel(<, Nat))
  BY NatLessThanWellFounded, WFMin, Zenon
<1>2. \A y \in S : ~(y < x)
  BY <1>1, Zenon DEF OpToRel
<1>3. QED
  BY <1>2

LEMMA MinSize == MinSizeInIos \in Nat \ {0} /\ \A n \in NsCtx : MinSizeInIos <= SizeInIos[n]
<1> DEFINE Sizes == {SizeInIos[n] : n \in NsCtx}
<1>1. Sizes \in SUBSET (Nat \ {0}) /\ SizeInIos[1] \in Sizes
  BY ConstantsAssumption, ConstantTypes
<1>2. \E m \in Sizes : \A n \in Sizes : m <= n
  BY <1>1, SmallestExists
<1>3. \E m \in Sizes : \A n \in NsCtx : m <= SizeInIos[n]
  BY <1>2
<1>4. MinSizeInIos \in Sizes /\ \A n \in NsCtx : MinSizeInIos <= SizeInIos[n]
  BY <1>3, Zenon DEF MinSizeInIos
<1>5. QED
  BY <1>1, <1>4

LEMMA NoCommandInRange == InRange(NoCommand)
<1>1. NoCommand.offset_in_ios = 0
  BY DEF NoCommand
<1>2. \A n \in NsCtx : 0 < SizeInIos[n]
  <2>1. SizeInIos \in [NsCtx -> Nat \ {0}]
    BY ConstantsAssumption
  <2>2. QED
    BY <2>1
<1>3. QED
  BY <1>1, <1>2 DEF InRange

\* The command submit_single_io_rep generates fits every namespace.
LEMMA RangeStart ==
    ASSUME TypeOK, Sized, RangeOK, NEW s, NEW queues, NEW return, StartRound(s, queues, return)
    PROVE  (offset_in_ios < MinSizeInIos)' /\ InRange(call.gen)'
<1>1. PICK off \in Offsets, rd \in Ops :
         /\ NextOffset(off)
         /\ call' = [ret |-> return, main |-> s, cur |-> First(queues, RepTasks(s)),
                     gen |-> [offset_in_ios |-> off, is_read |-> rd], newid |-> 0]
  BY Zenon DEF StartRound
<1>2. call'.gen.offset_in_ios = off
  BY <1>1
<1>3. /\ offset_in_ios \in Nat /\ offset_in_ios < MinSizeInIos /\ off \in Nat
      /\ SizeInIos \in [NsCtx -> Nat \ {0}] /\ 1 \in NsCtx
  BY ConstantsAssumption, ConstantTypes DEF TypeOK, RangeOK
<1>4. CASE IsRandom
  <2>1. off < SizeInIos[1] /\ UNCHANGED offset_in_ios
    <3>1. NextOffset(off)
      BY <1>1
    <3>2. QED
      BY <1>3, <1>4, <3>1 DEF NextOffset
  <2>2. \A n \in NsCtx : off < SizeInIos[n]
    BY <1>3, <1>4, <2>1 DEF Sized
  <2>3. QED
    BY <1>2, <1>3, <2>1, <2>2 DEF InRange, MinSizeInIos
<1>5. CASE ~IsRandom
  <2>1. /\ off = offset_in_ios
        /\ offset_in_ios' = IF offset_in_ios + 1 = MinSizeInIos THEN 0 ELSE offset_in_ios + 1
    BY <1>1, <1>5 DEF NextOffset
  <2>2. offset_in_ios' < MinSizeInIos /\ \A n \in NsCtx : off < SizeInIos[n]
    BY <1>3, <2>1, MinSize
  <2>3. QED
    BY <1>2, <2>2 DEF InRange, MinSizeInIos
<1>6. QED
  BY <1>4, <1>5

LEMMA RangeNext ==
    ASSUME Healthy, Sized, HealthyInv, RangeOK, [Next]_vars
    PROVE  RangeOK'
<1>1. TypeOK
  BY DEF HealthyInv
<1>2. ASSUME UNCHANGED cmd, (offset_in_ios < MinSizeInIos)', InRange(call.gen)' PROVE RangeOK'
  BY <1>2 DEF RangeOK, InRange
<1>3. ASSUME UNCHANGED <<cmd, offset_in_ios>>, call'.gen \in {call.gen, NoCommand} PROVE RangeOK'
  <2>1. (offset_in_ios < MinSizeInIos)'
    BY <1>3 DEF RangeOK, MinSizeInIos
  <2>2. InRange(call.gen)'
    BY <1>3, NoCommandInRange DEF RangeOK, InRange
  <2>3. QED
    BY <1>2, <1>3, <2>1, <2>2
<1>4. CASE AllocateGroup
  BY <1>1, <1>2, <1>4, RangeStart DEF AllocateGroup
<1>5. CASE RenewDone
  BY <1>1, <1>2, <1>5, RangeStart DEF RenewDone, taskvars
<1>6. CASE SubmitReplica
  <2>1. PICK r \in Slots : \E c \in Group(r) :
           /\ call'.gen = call.gen /\ cmd' = [cmd EXCEPT ![c] = call.gen]
           /\ UNCHANGED offset_in_ios
    BY <1>6, SubmitReplicaStep
  <2>2. cmd \in [Tasks -> Commands]
    BY <1>1 DEF TypeOK
  <2>3. \A t \in Tasks : cmd'[t] = cmd[t] \/ cmd'[t] = call.gen
    BY <2>1, <2>2
  <2>4. (offset_in_ios < MinSizeInIos)' /\ InRange(call.gen)'
    BY <2>1 DEF RangeOK, InRange, MinSizeInIos
  <2>5. \A t \in Tasks : InRange(cmd[t])'
    BY <2>3 DEF RangeOK, InRange
  <2>6. QED
    BY <2>4, <2>5 DEF RangeOK
<1>7. CASE SubmitDone
  BY <1>3, <1>7 DEF SubmitDone, taskvars, nsvars, NoCall
<1>8. CASE \E t \in Tasks : IoComplete(t)
  <2>1. call'.gen \in {call.gen, NoCommand}
    <3>1. PICK t \in Tasks : IoComplete(t)
      BY <1>8
    <3>2. \/ UNCHANGED call
          \/ \E rt, mn, cr, id : call' = [ret |-> rt, main |-> mn, cur |-> cr, gen |-> NoCommand,
                                         newid |-> id]
      BY <3>1, Zenon DEF IoComplete, TaskComplete
    <3>3. QED
      BY <3>2
  <2>2. UNCHANGED <<cmd, offset_in_ios>>
    BY <1>8, IoCompleteStep
  <2>3. QED
    BY <1>3, <2>1, <2>2
<1>9. CASE Renew \/ Release
  BY <1>1, <1>3, <1>9 DEF Renew, Release, nsvars, TypeOK, Frames
<1>10. CASE ReleaseDone
  BY <1>3, <1>10 DEF ReleaseDone, nsvars, NoCall
<1>11. CASE Elsewhere
  BY <1>3, <1>11, ElsewhereStep DEF HealthyInv
<1>12. QED
  BY <1>4, <1>5, <1>6, <1>7, <1>8, <1>9, <1>10, <1>11, StepCases

LEMMA BoundsInit == Init => LockOK /\ RangeOK
<1>1. SUFFICES ASSUME Init PROVE LockOK /\ RangeOK
  OBVIOUS
<1>2. /\ pc = "submit_io_rep" /\ offset_in_ios = 0 /\ call = NoCall
      /\ \A n \in NsCtx : io_submitted[n] = 0
      /\ \A t \in Tasks : cmd[t] = NoCommand
  BY <1>1 DEF Init
<1>3. LockOK
  BY <1>2 DEF LockOK, SentOf
<1>4. RangeOK
  <2>1. offset_in_ios < MinSizeInIos
    <3>1. offset_in_ios = 0
      BY <1>2
    <3>2. QED
      BY <3>1, MinSize
  <2>2. call.gen = NoCommand
    BY <1>2 DEF NoCall
  <2>3. QED
    BY <1>2, <2>1, <2>2, NoCommandInRange DEF RangeOK
<1>5. QED
  BY <1>3, <1>4

\* Outside the walk of submit_single_io_rep no namespace has been sent more commands than
\* another, for every queue depth and number of replicas: a round reaches all of them.
THEOREM NamespacesInLockstep == Healthy /\ Spec => []Lockstep
<1>1. Healthy /\ HealthyInv /\ LockOK /\ [Next]_vars => LockOK'
  BY LockNext
<1>2. HealthyInv /\ LockOK => Lockstep
  <2>1. SUFFICES ASSUME HealthyInv, LockOK, pc # "submit", NEW m \in NsCtx, NEW n \in NsCtx
                 PROVE  io_submitted[m] = io_submitted[n]
    BY DEF Lockstep
  <2>2. SentOf(m) = 0 /\ SentOf(n) = 0 /\ io_submitted[m] \in Nat /\ io_submitted[n] \in Nat
    BY <2>1 DEF SentOf, HealthyInv, TypeOK
  <2>3. QED
    BY <2>1, <2>2 DEF LockOK
<1>3. QED
  BY <1>1, <1>2, HealthyStays, HealthyAlways, BoundsInit, PTL DEF Spec

LEMMA RangeAlways == Healthy /\ Sized /\ Spec => []RangeOK
<1>1. Sized => []Sized
  <2>1. Sized => Sized'
    BY DEF Sized
  <2>2. QED
    BY <2>1, PTL
<1>2. Healthy /\ Sized /\ HealthyInv /\ RangeOK /\ [Next]_vars => RangeOK'
  BY RangeNext
<1>3. QED
  BY <1>1, <1>2, HealthyStays, HealthyAlways, BoundsInit, PTL DEF Spec
=============================================================================
