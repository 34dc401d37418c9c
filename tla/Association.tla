----------------------------- MODULE Association -----------------------------
(***************************************************************************)
(* associate_workers_with_ns of perf_rep.c: which namespaces each worker   *)
(* thread drives.  The loops are walked one iteration a step; the numbers  *)
(* of workers (cores) and namespaces are those of the command line.        *)
(***************************************************************************)
EXTENDS Integers, Sequences

CONSTANTS MaxWorkers, MaxNamespaces    \* bounds: g_num_workers and g_num_namespaces

ASSUME AssociationConstants == {MaxWorkers, MaxNamespaces} \subseteq Nat \ {0}

VARIABLES
    g_num_workers, g_num_namespaces, g_use_every_core,
    worker, entry,    \* cursors in g_workers and g_namespaces
    i,                \* loop counter of the round robin
    ns_ctx,           \* per worker: the namespaces of its list, in order
    returned

assocvars == <<g_num_workers, g_num_namespaces, g_use_every_core, worker, entry, i, ns_ctx, returned>>

AssocInit ==
    /\ g_num_workers \in 1 .. MaxWorkers /\ g_num_namespaces \in 1 .. MaxNamespaces
    /\ g_use_every_core \in BOOLEAN
    /\ worker = 1 /\ entry = 1 /\ i = 0
    /\ ns_ctx = [w \in 1 .. g_num_workers |-> <<>>]
    /\ returned = FALSE

\* allocate_ns_worker.
Allocate == ns_ctx' = [ns_ctx EXCEPT ![worker] = Append(@, entry)]

\* --use-every-core: every worker with every namespace.
EveryCoreStep ==
    /\ ~returned /\ g_use_every_core
    /\ Allocate
    /\ \/ /\ entry < g_num_namespaces
          /\ entry' = entry + 1 /\ UNCHANGED <<worker, returned>>
       \/ /\ entry = g_num_namespaces /\ worker < g_num_workers
          /\ entry' = 1 /\ worker' = worker + 1 /\ UNCHANGED returned
       \/ /\ entry = g_num_namespaces /\ worker = g_num_workers
          /\ returned' = TRUE /\ UNCHANGED <<worker, entry>>
    /\ UNCHANGED <<g_num_workers, g_num_namespaces, g_use_every_core, i>>

\* Mutants: the round robin stops when every namespace has a worker; it runs over every
\* pair of a worker and a namespace.
CountNamespaces == g_num_namespaces

CountPairs == g_num_namespaces * g_num_workers

Count == IF g_num_namespaces > g_num_workers THEN g_num_namespaces ELSE g_num_workers

\* Mutant: the last worker keeps the rest of the namespaces.
NextWorkerSticks == IF worker = g_num_workers THEN worker ELSE worker + 1

\* TAILQ_NEXT, or TAILQ_FIRST at the end of the list.
NextEntry == IF entry = g_num_namespaces THEN 1 ELSE entry + 1

NextWorker == IF worker = g_num_workers THEN 1 ELSE worker + 1

\* The default: one round robin over both lists.
RoundRobinStep ==
    /\ ~returned /\ ~g_use_every_core /\ i < Count
    /\ Allocate
    /\ worker' = NextWorker /\ entry' = NextEntry /\ i' = i + 1
    /\ UNCHANGED <<g_num_workers, g_num_namespaces, g_use_every_core, returned>>

RoundRobinDone ==
    /\ ~returned /\ ~g_use_every_core /\ i = Count
    /\ returned' = TRUE
    /\ UNCHANGED <<g_num_workers, g_num_namespaces, g_use_every_core, worker, entry, i, ns_ctx>>

AssocReturned == returned /\ UNCHANGED assocvars

AssocNext == EveryCoreStep \/ RoundRobinStep \/ RoundRobinDone \/ AssocReturned

AssocSpec == AssocInit /\ [][AssocNext]_assocvars

-----------------------------------------------------------------------------
(* Properties *)

AllWorkers == 1 .. g_num_workers

AllNamespaces == 1 .. g_num_namespaces

Driven(w) == {ns_ctx[w][k] : k \in DOMAIN ns_ctx[w]}

Drivers(n) == {w \in AllWorkers : n \in Driven(w)}

\* No worker is left without a namespace, for which submit_io_rep would have no main
\* task to submit, and no namespace without a worker, which would leave a replica out.
NobodyIdle ==
    returned => /\ \A w \in AllWorkers : Driven(w) # {}
                /\ \A n \in AllNamespaces : Drivers(n) # {}

\* No list has a namespace twice: its replicas would be counted twice in one group.
NoNamespaceTwice == \A w \in AllWorkers : \A j, k \in DOMAIN ns_ctx[w] :
    ns_ctx[w][j] = ns_ctx[w][k] => j = k

\* The lists of two workers differ in length by at most one.
Balanced == returned => \A v, w \in AllWorkers : Len(ns_ctx[v]) <= Len(ns_ctx[w]) + 1

\* associate_workers_with_ns deals the namespaces out: nobody is left out, no list has one
\* twice, and the load differs by at most one.
DealtOut == NobodyIdle /\ NoNamespaceTwice /\ Balanced
=============================================================================
