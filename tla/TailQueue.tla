------------------------------ MODULE TailQueue ------------------------------
(***************************************************************************)
(* The BSD tail queues of <sys/queue.h> and spdk/queue_extras.h, at the    *)
(* level of their pointers.  A perf_task has ONE link field, so the        *)
(* same task sitting in two lists is a real possibility, and what then     *)
(* happens is decided by the stores below and by nothing else.             *)
(*                                                                         *)
(* A location is either a task (its tqe_next field) or a list head (its    *)
(* tqh_first field).  q.next[l] is what location l points to, q.prev[t]    *)
(* the location tqe_prev of t points to, q.last[h] the location tqh_last   *)
(* of head h points to.                                                    *)
(***************************************************************************)
CONSTANTS Tasks,   \* the elements
          Heads,   \* the list heads
          NULL     \* the null pointer

Locations == Tasks \cup Heads

TailQueues == [next : [Locations -> Tasks \cup {NULL}],
               prev : [Tasks -> Locations \cup {NULL}],
               last : [Heads -> Locations \cup {NULL}]]

\* Every list empty, no task linked.
EmptyQueues == [next |-> [l \in Locations |-> NULL],
                prev |-> [t \in Tasks |-> NULL],
                last |-> [h \in Heads |-> h]]

First(q, h) == q.next[h]

NextOf(q, t) == q.next[t]

\* elm->next = NULL; elm->prev = head->last; *head->last = elm; head->last = &elm->next
InsertTail(q, h, t) ==
    [next |-> [[q.next EXCEPT ![t] = NULL] EXCEPT ![q.last[h]] = t],
     prev |-> [q.prev EXCEPT ![t] = q.last[h]],
     last |-> [q.last EXCEPT ![h] = t]]

\* The neighbour after elm (or the head's tail pointer) is given elm->prev, then
\* *elm->prev = elm->next.
Remove(q, h, t) ==
    LET n == q.next[t]
    IN  [next |-> [q.next EXCEPT ![q.prev[t]] = n],
         prev |-> IF n # NULL THEN [q.prev EXCEPT ![n] = q.prev[t]] ELSE q.prev,
         last |-> IF n # NULL THEN q.last ELSE [q.last EXCEPT ![h] = q.prev[t]]]

\* TAILQ_INIT(into) followed by TAILQ_SWAP(into, from): "into" takes the whole list
\* and "from" is left empty.
MoveAll(q, into, from) ==
    LET f == q.next[from]
    IN  [next |-> [q.next EXCEPT ![into] = f, ![from] = NULL],
         prev |-> IF f # NULL THEN [q.prev EXCEPT ![f] = into] ELSE q.prev,
         last |-> [q.last EXCEPT ![into] = IF f # NULL THEN q.last[from] ELSE into,
                                 ![from] = from]]
==============================================================================
