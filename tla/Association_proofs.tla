------------------------- MODULE Association_proofs -------------------------
(***************************************************************************)
(* associate_workers_with_ns deals the namespaces out, for every number of *)
(* workers and of namespaces and both ways of dealing.                     *)
(*                                                                         *)
(* DealtOut speaks of the end of the loops; the invariant says how far     *)
(* they are.  With --use-every-core the lists before the cursor "worker"   *)
(* are complete, its own is complete up to the cursor "entry" and the      *)
(* others are empty.  The round robin has given the workers before the     *)
(* cursor one namespace more than those after it (Level), has dealt the    *)
(* first i namespaces, and deals one that nobody has as long as there are  *)
(* any; when there are more workers than namespaces it starts again, but   *)
(* then only workers with an empty list are left.                          *)
(***************************************************************************)
EXTENDS Association, SequenceTheorems, TLAPS

AssocTypeOK ==
    /\ g_num_workers \in Nat \ {0} /\ g_num_namespaces \in Nat \ {0}
    /\ g_use_every_core \in BOOLEAN /\ returned \in BOOLEAN
    /\ worker \in AllWorkers /\ entry \in AllNamespaces /\ i \in 0 .. Count
    /\ ns_ctx \in [AllWorkers -> Seq(AllNamespaces)]

\* The namespaces worker w has been given by the nested loops of --use-every-core.
Given(w) == IF returned \/ w < worker THEN g_num_namespaces
            ELSE IF w = worker THEN entry - 1 ELSE 0

EveryCoreOK ==
    \A w \in AllWorkers :
        Len(ns_ctx[w]) = Given(w) /\ \A k \in 1 .. Len(ns_ctx[w]) : ns_ctx[w][k] = k

\* The namespaces the last worker has been given: the complete rounds over the workers.
Level == Len(ns_ctx[g_num_workers])

RoundRobinOK ==
    /\ \A w \in AllWorkers : Len(ns_ctx[w]) = IF w < worker THEN Level + 1 ELSE Level
    /\ Level = 0 => worker = i + 1
    /\ Level > 0 => i >= g_num_workers
    /\ i < g_num_namespaces => entry = i + 1
    /\ \A w \in AllWorkers : \A k \in 1 .. Len(ns_ctx[w]) : ns_ctx[w][k] <= i
    /\ \A n \in AllNamespaces :
          n <= i => \E w \in AllWorkers : \E k \in 1 .. Len(ns_ctx[w]) : ns_ctx[w][k] = n
    /\ returned => i = Count
    /\ NoNamespaceTwice

AssocInv ==
    /\ AssocTypeOK
    /\ g_use_every_core => EveryCoreOK
    /\ ~g_use_every_core => RoundRobinOK

-----------------------------------------------------------------------------
(* allocate_ns_worker *)

LEMMA CountFacts ==
    ASSUME AssocTypeOK
    PROVE  /\ Count \in Nat \ {0} /\ Count >= g_num_workers /\ Count >= g_num_namespaces
           /\ Count = g_num_workers \/ Count = g_num_namespaces
BY DEF AssocTypeOK, Count

\* The list of the worker under the cursor grows by the namespace under the cursor.
LEMMA Allocated ==
    ASSUME AssocTypeOK, Allocate
    PROVE  /\ ns_ctx' \in [AllWorkers -> Seq(AllNamespaces)]
           /\ \A w \in AllWorkers : w # worker => ns_ctx'[w] = ns_ctx[w]
           /\ Len(ns_ctx'[worker]) = Len(ns_ctx[worker]) + 1
           /\ \A k \in 1 .. Len(ns_ctx[worker]) : ns_ctx'[worker][k] = ns_ctx[worker][k]
           /\ ns_ctx'[worker][Len(ns_ctx[worker]) + 1] = entry
           /\ \A w \in AllWorkers : Len(ns_ctx[w]) \in Nat
<1>1. /\ worker \in AllWorkers /\ entry \in AllNamespaces
      /\ ns_ctx \in [AllWorkers -> Seq(AllNamespaces)]
      /\ ns_ctx' = [ns_ctx EXCEPT ![worker] = Append(@, entry)]
  BY DEF AssocTypeOK, Allocate
<1>2. ns_ctx'[worker] = Append(ns_ctx[worker], entry) /\ ns_ctx[worker] \in Seq(AllNamespaces)
  BY <1>1
<1>3. Append(ns_ctx[worker], entry) \in Seq(AllNamespaces)
  BY <1>1, <1>2
<1>4. ns_ctx' \in [AllWorkers -> Seq(AllNamespaces)]
  BY <1>1, <1>3
<1>5. \A w \in AllWorkers : w # worker => ns_ctx'[w] = ns_ctx[w]
  BY <1>1
<1>6. \A w \in AllWorkers : Len(ns_ctx[w]) \in Nat
  BY <1>1, LenProperties
<1>7. QED
  BY <1>1, <1>2, <1>4, <1>5, <1>6

LEMMA AssocInvInit == AssocInit => AssocInv
<1>1. SUFFICES ASSUME AssocInit PROVE AssocInv
  OBVIOUS
<1>2. /\ g_num_workers \in Nat \ {0} /\ g_num_namespaces \in Nat \ {0}
      /\ g_use_every_core \in BOOLEAN /\ returned = FALSE
      /\ worker = 1 /\ entry = 1 /\ i = 0 /\ ns_ctx = [w \in AllWorkers |-> <<>>]
  BY <1>1, AssociationConstants DEF AssocInit, AllWorkers
<1>3. /\ 1 \in AllWorkers /\ 1 \in AllNamespaces /\ 0 \in 0 .. Count
      /\ g_num_workers \in AllWorkers
  BY <1>2 DEF AllWorkers, AllNamespaces, Count
<1>4. AssocTypeOK
  <2>1. <<>> \in Seq(AllNamespaces)
    BY EmptySeq
  <2>2. QED
    BY <1>2, <1>3, <2>1, Zenon DEF AssocTypeOK
<1>5. \A w \in AllWorkers : ns_ctx[w] = <<>> /\ Len(ns_ctx[w]) = 0 /\ w \in Nat /\ w >= 1
  BY <1>2 DEF AllWorkers
<1>6. EveryCoreOK
  BY <1>2, <1>5 DEF EveryCoreOK, Given
<1>7. RoundRobinOK
  <2>1. Level = 0
    BY <1>3, <1>5 DEF Level
  <2>2. NoNamespaceTwice
    BY <1>5 DEF NoNamespaceTwice
  <2>3. QED
    BY <1>2, <1>5, <2>1, <2>2 DEF RoundRobinOK, AllNamespaces
<1>8. QED
  BY <1>4, <1>6, <1>7 DEF AssocInv

\* The nested loops of --use-every-core.
LEMMA EveryCoreNext ==
    ASSUME AssocInv, EveryCoreStep
    PROVE  AssocInv'
<1>1. /\ AssocTypeOK /\ EveryCoreOK /\ Allocate /\ ~returned /\ g_use_every_core
      /\ UNCHANGED <<g_num_workers, g_num_namespaces, g_use_every_core, i>>
  BY DEF AssocInv, EveryCoreStep
<1>2. /\ AllWorkers' = AllWorkers /\ AllNamespaces' = AllNamespaces /\ Count' = Count
  BY <1>1 DEF AllWorkers, AllNamespaces, Count
<1>3. /\ g_num_workers \in Nat \ {0} /\ g_num_namespaces \in Nat \ {0}
      /\ worker \in 1 .. g_num_workers /\ entry \in 1 .. g_num_namespaces
  BY <1>1 DEF AssocTypeOK, AllWorkers, AllNamespaces
<1>4. returned' \in BOOLEAN
  BY <1>1, Zenon DEF EveryCoreStep, AssocTypeOK
<1>5. worker' \in AllWorkers /\ entry' \in AllNamespaces
  BY <1>3 DEF EveryCoreStep, AllWorkers, AllNamespaces
<1>6. AssocTypeOK'
  BY <1>1, <1>2, <1>4, <1>5, Allocated DEF AssocTypeOK
<1>7. ASSUME NEW w \in AllWorkers
      PROVE  Len(ns_ctx'[w]) = Given(w)' /\ \A k \in 1 .. Len(ns_ctx'[w]) : ns_ctx'[w][k] = k
  <2>1. Len(ns_ctx[w]) = Given(w) /\ \A k \in 1 .. Len(ns_ctx[w]) : ns_ctx[w][k] = k
    BY <1>1 DEF EveryCoreOK
  <2>2. w \in Nat /\ w >= 1 /\ w <= g_num_workers
    BY <1>3 DEF AllWorkers
  <2>3. CASE w = worker
    <3>1. Len(ns_ctx[w]) = entry - 1 /\ ~(w < worker)
      BY <1>1, <1>3, <2>1, <2>3 DEF Given
    <3>2. /\ Len(ns_ctx'[w]) = entry
          /\ \A k \in 1 .. (entry - 1) : ns_ctx'[w][k] = k
          /\ ns_ctx'[w][entry] = entry
      <4>1. /\ Len(ns_ctx'[w]) = Len(ns_ctx[w]) + 1
            /\ \A k \in 1 .. Len(ns_ctx[w]) : ns_ctx'[w][k] = ns_ctx[w][k]
            /\ ns_ctx'[w][Len(ns_ctx[w]) + 1] = entry
        BY <1>1, <2>3, Allocated
      <4>2. QED
        BY <1>3, <2>1, <3>1, <4>1
    <3>3. Given(w)' = entry
      BY <1>1, <1>3, <2>3 DEF Given, EveryCoreStep
    <3>4. QED
      BY <1>3, <3>2, <3>3
  <2>4. CASE w # worker
    <3>1. ns_ctx'[w] = ns_ctx[w]
      BY <1>1, <2>4, Allocated
    <3>2. Given(w)' = Given(w)
      BY <1>1, <1>3, <2>2, <2>4 DEF Given, EveryCoreStep
    <3>3. QED
      BY <2>1, <3>1, <3>2
  <2>5. QED
    BY <2>3, <2>4
<1>8. QED
  BY <1>1, <1>2, <1>6, <1>7 DEF AssocInv, EveryCoreOK

\* The round robin.
LEMMA RoundRobinNext ==
    ASSUME AssocInv, RoundRobinStep
    PROVE  AssocInv'
<1>1. /\ AssocTypeOK /\ RoundRobinOK /\ Allocate /\ ~returned /\ ~g_use_every_core /\ i < Count
      /\ worker' = NextWorker /\ entry' = NextEntry /\ i' = i + 1
      /\ UNCHANGED <<g_num_workers, g_num_namespaces, g_use_every_core, returned>>
  BY DEF AssocInv, RoundRobinStep
<1>2. AllWorkers' = AllWorkers /\ AllNamespaces' = AllNamespaces /\ Count' = Count
  BY <1>1 DEF AllWorkers, AllNamespaces, Count
<1>3. /\ g_num_workers \in Nat \ {0} /\ g_num_namespaces \in Nat \ {0} /\ i \in Nat
      /\ worker \in 1 .. g_num_workers /\ entry \in 1 .. g_num_namespaces
      /\ Count \in Nat /\ Count >= g_num_workers /\ Count >= g_num_namespaces
      /\ Count = g_num_workers \/ Count = g_num_namespaces
  BY <1>1, CountFacts DEF AssocTypeOK, AllWorkers, AllNamespaces
<1>4. AssocTypeOK'
  <2>1. worker' \in AllWorkers /\ entry' \in AllNamespaces /\ i' \in 0 .. Count
    BY <1>1, <1>3 DEF NextWorker, NextEntry, AllWorkers, AllNamespaces
  <2>2. QED
    BY <1>1, <1>2, <2>1, Allocated DEF AssocTypeOK
<1>5. /\ worker \in AllWorkers /\ g_num_workers \in AllWorkers
      /\ \A w \in AllWorkers : Len(ns_ctx[w]) \in Nat /\ Len(ns_ctx'[w]) \in Nat
      /\ Level \in Nat
  <2>1. worker \in AllWorkers /\ g_num_workers \in AllWorkers
    BY <1>3 DEF AllWorkers
  <2>2. /\ ns_ctx \in [AllWorkers -> Seq(AllNamespaces)]
        /\ ns_ctx' \in [AllWorkers -> Seq(AllNamespaces)]
    BY <1>1, Allocated DEF AssocTypeOK
  <2>3. \A w \in AllWorkers : Len(ns_ctx[w]) \in Nat /\ Len(ns_ctx'[w]) \in Nat
    BY <2>2, LenProperties
  <2>4. QED
    BY <2>1, <2>3 DEF Level
\* The list that grows.
<1>6. /\ \A w \in AllWorkers : w # worker => ns_ctx'[w] = ns_ctx[w]
      /\ Len(ns_ctx[worker]) = Level /\ Len(ns_ctx'[worker]) = Level + 1
      /\ \A k \in 1 .. Level : ns_ctx'[worker][k] = ns_ctx[worker][k]
      /\ ns_ctx'[worker][Level + 1] = entry
  <2>1. Len(ns_ctx[worker]) = Level
    BY <1>1, <1>3, <1>5 DEF RoundRobinOK
  <2>2. QED
    BY <1>1, <2>1, Allocated
<1>7. \A w \in AllWorkers : Len(ns_ctx[w]) = IF w < worker THEN Level + 1 ELSE Level
  BY <1>1 DEF RoundRobinOK
<1>8. Level' = IF worker = g_num_workers THEN Level + 1 ELSE Level
  BY <1>1, <1>5, <1>6 DEF Level
<1>9. /\ \A w \in AllWorkers : Len(ns_ctx'[w]) = IF w < worker' THEN Level' + 1 ELSE Level'
  <2>1. SUFFICES ASSUME NEW w \in AllWorkers
                 PROVE  Len(ns_ctx'[w]) = IF w < worker' THEN Level' + 1 ELSE Level'
    OBVIOUS
  <2>2. w \in 1 .. g_num_workers
    BY DEF AllWorkers
  <2>3. Len(ns_ctx'[w]) = IF w <= worker THEN Level + 1 ELSE Level
    BY <1>3, <1>6, <1>7, <2>2
  <2>4. CASE worker = g_num_workers
    BY <1>1, <1>3, <1>5, <1>8, <2>2, <2>3, <2>4 DEF NextWorker
  <2>5. CASE worker # g_num_workers
    BY <1>1, <1>3, <1>5, <1>8, <2>2, <2>3, <2>5 DEF NextWorker
  <2>6. QED
    BY <2>4, <2>5
<1>10. (Level' = 0 => worker' = i' + 1) /\ (Level' > 0 => i' >= g_num_workers)
  <2>1. (Level = 0 => worker = i + 1) /\ (Level > 0 => i >= g_num_workers)
    BY <1>1 DEF RoundRobinOK
  <2>2. QED
    BY <1>1, <1>3, <1>5, <1>8, <2>1 DEF NextWorker
<1>11. i' < g_num_namespaces => entry' = i' + 1
  <2>1. i < g_num_namespaces => entry = i + 1
    BY <1>1 DEF RoundRobinOK
  <2>2. QED
    BY <1>1, <1>3, <2>1 DEF NextEntry
<1>12. entry <= i + 1
  BY <1>1, <1>3 DEF RoundRobinOK
<1>13. ASSUME NEW w \in AllWorkers, NEW k \in 1 .. Len(ns_ctx'[w])
       PROVE  /\ ns_ctx'[w][k] <= i'
              /\ w # worker \/ k <= Level => k \in 1 .. Len(ns_ctx[w]) /\ ns_ctx'[w][k] = ns_ctx[w][k]
  <2>1. \A j \in 1 .. Len(ns_ctx[w]) : ns_ctx[w][j] <= i /\ ns_ctx[w][j] \in Nat
    <3>1. \A j \in 1 .. Len(ns_ctx[w]) : ns_ctx[w][j] <= i
      BY <1>1 DEF RoundRobinOK
    <3>2. ns_ctx[w] \in Seq(AllNamespaces)
      BY <1>1 DEF AssocTypeOK
    <3>3. \A j \in 1 .. Len(ns_ctx[w]) : ns_ctx[w][j] \in AllNamespaces
      BY <3>2, ElementOfSeq
    <3>4. QED
      BY <1>3, <3>1, <3>3 DEF AllNamespaces
  <2>2. w # worker \/ k <= Level => k \in 1 .. Len(ns_ctx[w]) /\ ns_ctx'[w][k] = ns_ctx[w][k]
    BY <1>5, <1>6, <1>13
  <2>3. CASE w # worker \/ k <= Level
    BY <1>1, <1>3, <2>1, <2>2, <2>3
  <2>4. CASE w = worker /\ k = Level + 1
    BY <1>1, <1>3, <1>6, <1>12, <2>2, <2>4
  <2>5. w # worker \/ k <= Level \/ (w = worker /\ k = Level + 1)
    BY <1>5, <1>6, <1>13
  <2>6. QED
    BY <2>2, <2>3, <2>4, <2>5
<1>14. ASSUME NEW n \in AllNamespaces, n <= i'
       PROVE  \E w \in AllWorkers : \E k \in 1 .. Len(ns_ctx'[w]) : ns_ctx'[w][k] = n
  <2>1. n \in Nat /\ n >= 1 /\ n <= g_num_namespaces
    BY <1>3, <1>14 DEF AllNamespaces
  <2>2. CASE n <= i
    <3>1. PICK w \in AllWorkers : \E k \in 1 .. Len(ns_ctx[w]) : ns_ctx[w][k] = n
      BY <1>1, <1>14, <2>2 DEF RoundRobinOK
    <3>2. PICK k \in 1 .. Len(ns_ctx[w]) : ns_ctx[w][k] = n
      BY <3>1
    <3>3. k \in 1 .. Len(ns_ctx'[w]) /\ ns_ctx'[w][k] = n
      BY <1>5, <1>6, <3>2
    <3>4. QED
      BY <3>3
  <2>3. CASE n = i + 1
    <3>1. entry = n
      BY <1>1, <1>3, <2>1, <2>3 DEF RoundRobinOK
    <3>2. Level + 1 \in 1 .. Len(ns_ctx'[worker]) /\ ns_ctx'[worker][Level + 1] = n
      BY <1>5, <1>6, <3>1
    <3>3. QED
      BY <1>5, <3>2
  <2>4. QED
    BY <1>1, <1>3, <1>14, <2>1, <2>2, <2>3
\* No list gets a namespace twice: as long as some are left the next one is new, and
\* afterwards only empty lists are left.
<1>15. NoNamespaceTwice'
  <2>1. SUFFICES ASSUME NEW w \in AllWorkers, NEW j \in DOMAIN ns_ctx'[w], NEW k \in DOMAIN ns_ctx'[w],
                        ns_ctx'[w][j] = ns_ctx'[w][k]
                 PROVE  j = k
    BY <1>2 DEF NoNamespaceTwice
  <2>2. /\ DOMAIN ns_ctx[w] = 1 .. Len(ns_ctx[w]) /\ DOMAIN ns_ctx'[w] = 1 .. Len(ns_ctx'[w])
    <3>1. ns_ctx[w] \in Seq(AllNamespaces) /\ ns_ctx'[w] \in Seq(AllNamespaces)
      BY <1>1, <2>1, Allocated DEF AssocTypeOK
    <3>2. QED
      BY <3>1, LenProperties
  <2>3. \A a, b \in 1 .. Len(ns_ctx[w]) : ns_ctx[w][a] = ns_ctx[w][b] => a = b
    BY <1>1, <2>1, <2>2 DEF RoundRobinOK, NoNamespaceTwice
  <2>4. CASE w # worker
    BY <1>6, <2>1, <2>2, <2>3, <2>4
  <2>5. CASE w = worker /\ i < g_num_namespaces
    <3>1. entry = i + 1 /\ \A a \in 1 .. Level : ns_ctx[w][a] <= i
      BY <1>1, <1>6, <2>5 DEF RoundRobinOK
    <3>2. ns_ctx'[w][Level + 1] = i + 1 /\ \A a \in 1 .. Level : ns_ctx'[w][a] = ns_ctx[w][a]
      BY <1>3, <1>6, <2>5, <3>1
    <3>3. \A a \in 1 .. Level : ns_ctx'[w][a] # ns_ctx'[w][Level + 1]
      BY <1>3, <3>1, <3>2
    <3>4. j \in 1 .. (Level + 1) /\ k \in 1 .. (Level + 1)
      BY <1>6, <2>1, <2>2, <2>5
    <3>5. j = Level + 1 <=> k = Level + 1
      BY <1>5, <2>1, <3>3, <3>4
    <3>6. CASE j \in 1 .. Level /\ k \in 1 .. Level
      BY <1>6, <2>1, <2>3, <2>5, <3>2, <3>6
    <3>7. QED
      BY <1>5, <3>4, <3>5, <3>6
  <2>6. CASE w = worker /\ i >= g_num_namespaces
    <3>1. Level = 0
      BY <1>1, <1>3, <1>5, <2>6 DEF RoundRobinOK
    <3>2. QED
      BY <1>6, <2>1, <2>2, <2>6, <3>1
  <2>7. QED
    BY <1>3, <2>4, <2>5, <2>6
<1>16. RoundRobinOK'
  BY <1>1, <1>2, <1>9, <1>10, <1>11, <1>13, <1>14, <1>15 DEF RoundRobinOK
<1>17. QED
  BY <1>1, <1>4, <1>16 DEF AssocInv

LEMMA AssocInvNext == AssocInv /\ [AssocNext]_assocvars => AssocInv'
<1>1. SUFFICES ASSUME AssocInv, [AssocNext]_assocvars PROVE AssocInv'
  OBVIOUS
<1>2. CASE RoundRobinDone
  <2>1. /\ i = Count /\ returned' /\ ~g_use_every_core
        /\ UNCHANGED <<g_num_workers, g_num_namespaces, g_use_every_core, worker, entry, i, ns_ctx>>
    BY <1>2, Zenon DEF RoundRobinDone
  <2>2. returned' \in BOOLEAN
    BY <1>2, Zenon DEF RoundRobinDone
  <2>3. AssocTypeOK'
    BY <1>1, <2>1, <2>2 DEF AssocInv, AssocTypeOK, AllWorkers, AllNamespaces, Count
  <2>4. RoundRobinOK'
    BY <1>1, <2>1 DEF AssocInv, RoundRobinOK, Level, Count, AllWorkers, AllNamespaces,
       NoNamespaceTwice
  <2>5. QED
    BY <2>1, <2>3, <2>4 DEF AssocInv
<1>3. CASE UNCHANGED assocvars
  <2>1. UNCHANGED <<g_num_workers, g_num_namespaces, g_use_every_core, worker, entry, i, ns_ctx,
                    returned>>
    BY <1>3 DEF assocvars
  <2>2. QED
    BY <1>1, <2>1 DEF AssocInv, AssocTypeOK, EveryCoreOK, Given, RoundRobinOK, Level, Count,
       AllWorkers, AllNamespaces, NoNamespaceTwice
<1>4. QED
  BY <1>1, <1>2, <1>3, EveryCoreNext, RoundRobinNext DEF AssocNext, AssocReturned

-----------------------------------------------------------------------------
(* The theorem *)

LEMMA AssocInvDealtOut == AssocInv => DealtOut
<1>1. SUFFICES ASSUME AssocInv PROVE DealtOut
  OBVIOUS
<1>2. /\ AssocTypeOK /\ g_num_workers \in Nat \ {0} /\ g_num_namespaces \in Nat \ {0}
      /\ 1 \in AllWorkers /\ g_num_workers \in AllWorkers /\ worker \in 1 .. g_num_workers
  BY <1>1 DEF AssocInv, AssocTypeOK, AllWorkers
<1>3. \A w \in AllWorkers : DOMAIN ns_ctx[w] = 1 .. Len(ns_ctx[w]) /\ Len(ns_ctx[w]) \in Nat
  BY <1>2, LenProperties DEF AssocTypeOK
<1>4. ASSUME \A w \in AllWorkers : Len(ns_ctx[w]) > 0,
             \A n \in AllNamespaces :
                \E w \in AllWorkers : \E k \in 1 .. Len(ns_ctx[w]) : ns_ctx[w][k] = n
      PROVE  NobodyIdle
  <2>1. ASSUME NEW w \in AllWorkers PROVE Driven(w) # {}
    <3>1. 1 \in DOMAIN ns_ctx[w]
      BY <1>3, <1>4
    <3>2. QED
      BY <3>1 DEF Driven
  <2>2. ASSUME NEW n \in AllNamespaces PROVE Drivers(n) # {}
    <3>1. PICK w \in AllWorkers : \E k \in 1 .. Len(ns_ctx[w]) : ns_ctx[w][k] = n
      BY <1>4
    <3>2. n \in Driven(w)
      BY <1>3, <3>1 DEF Driven
    <3>3. QED
      BY <3>2 DEF Drivers
  <2>3. QED
    BY <2>1, <2>2 DEF NobodyIdle
<1>5. CASE g_use_every_core
  <2>1. \A w \in AllWorkers :
           Len(ns_ctx[w]) = Given(w) /\ \A k \in 1 .. Len(ns_ctx[w]) : ns_ctx[w][k] = k
    BY <1>1, <1>5 DEF AssocInv, EveryCoreOK
  <2>2. NoNamespaceTwice
    BY <1>3, <2>1 DEF NoNamespaceTwice
  <2>3. ASSUME returned PROVE \A w \in AllWorkers : Len(ns_ctx[w]) = g_num_namespaces
    BY <2>1, <2>3 DEF Given
  <2>4. Balanced
    BY <1>2, <2>3 DEF Balanced
  <2>5. NobodyIdle
    <3>1. CASE ~returned
      BY <3>1 DEF NobodyIdle
    <3>2. CASE returned
      <4>1. \A w \in AllWorkers : Len(ns_ctx[w]) > 0
        BY <1>2, <2>3, <3>2
      <4>2. \A n \in AllNamespaces : n \in 1 .. Len(ns_ctx[1]) /\ ns_ctx[1][n] = n
        BY <1>2, <2>1, <2>3, <3>2 DEF AllNamespaces
      <4>3. QED
        BY <1>2, <1>4, <4>1, <4>2
    <3>3. QED
      BY <3>1, <3>2
  <2>6. QED
    BY <2>2, <2>4, <2>5 DEF DealtOut
<1>6. CASE ~g_use_every_core
  <2>1. RoundRobinOK /\ Level \in Nat
    BY <1>1, <1>2, <1>3, <1>6 DEF AssocInv, Level
  <2>2. \A w \in AllWorkers : Len(ns_ctx[w]) = IF w < worker THEN Level + 1 ELSE Level
    BY <2>1 DEF RoundRobinOK
  <2>3. Balanced
    BY <2>1, <2>2 DEF Balanced
  <2>4. NobodyIdle
    <3>1. CASE ~returned
      BY <3>1 DEF NobodyIdle
    <3>2. CASE returned
      <4>1. i = Count /\ Count >= g_num_workers /\ Count >= g_num_namespaces /\ Count \in Nat
        BY <1>2, <2>1, <3>2, CountFacts DEF RoundRobinOK
      <4>2. Level > 0
        BY <1>2, <2>1, <4>1 DEF RoundRobinOK
      <4>3. \A w \in AllWorkers : Len(ns_ctx[w]) > 0
        BY <2>1, <2>2, <4>2
      <4>4. \A n \in AllNamespaces : n <= i
        BY <1>2, <4>1 DEF AllNamespaces
      <4>5. QED
        BY <1>4, <2>1, <4>3, <4>4 DEF RoundRobinOK
    <3>3. QED
      BY <3>1, <3>2
  <2>5. QED
    BY <2>1, <2>3, <2>4 DEF DealtOut, RoundRobinOK
<1>7. QED
  BY <1>5, <1>6

\* associate_workers_with_ns, for every number of cores and namespaces: when it returns no
\* worker and no namespace is left out, no list has a namespace twice and the load of two
\* workers differs by at most one.
THEOREM NamespacesDealtOut == AssocSpec => []DealtOut
<1>1. AssocSpec => []AssocInv
  BY AssocInvInit, AssocInvNext, PTL DEF AssocSpec
<1>2. QED
  BY <1>1, AssocInvDealtOut, PTL
=============================================================================
