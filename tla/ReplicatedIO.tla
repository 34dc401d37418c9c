---------------------------- MODULE ReplicatedIO ----------------------------
(***************************************************************************)
(* What replicated I/O promises, without lists, cursors or counters.  Each *)
(* slot runs rounds.  A round has one command, issued to every namespace;  *)
(* the namespaces answer in any order; only when all have answered may the *)
(* slot begin another round or be retired, and it is retired once and for  *)
(* good.  This is the contract stated by the comment in task_complete      *)
(* (perf_rep.c): all replicas first, then release or submit again.         *)
(***************************************************************************)
CONSTANTS Slots, NsCtx, Commands

VARIABLES phase,     \* per slot: "unused", "active" or "retired"
          pending,   \* per slot: the namespaces that have not answered
          command    \* per slot: the command of its round

absvars == <<phase, pending, command>>

AbsInit ==
    /\ phase = [s \in Slots |-> "unused"]
    /\ pending = [s \in Slots |-> {}]
    /\ command \in [Slots -> Commands]

\* A round begins: one command for all the replicas.
Begin(s) ==
    /\ phase[s] \in {"unused", "active"} /\ pending[s] = {}
    /\ phase' = [phase EXCEPT ![s] = "active"]
    /\ pending' = [pending EXCEPT ![s] = NsCtx]
    /\ command' \in [Slots -> Commands]
    /\ \A r \in Slots \ {s} : command'[r] = command[r]

\* Namespace n answers; the command of the round stays what it was.
Answer(s, n) ==
    /\ n \in pending[s]
    /\ pending' = [pending EXCEPT ![s] = @ \ {n}]
    /\ UNCHANGED <<phase, command>>

Retire(s) ==
    /\ phase[s] = "active" /\ pending[s] = {}
    /\ phase' = [phase EXCEPT ![s] = "retired"]
    /\ UNCHANGED <<pending, command>>

AbsNext == \E s \in Slots : Begin(s) \/ Retire(s) \/ \E n \in NsCtx : Answer(s, n)

AbsSpec == AbsInit /\ [][AbsNext]_absvars
=============================================================================
