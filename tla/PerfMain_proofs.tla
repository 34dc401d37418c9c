-------------------------- MODULE PerfMain_proofs --------------------------
(***************************************************************************)
(* Theorems about PerfMain, for every number of cores and of namespaces    *)
(* and every way the set-up, a launch or an initialisation can fail.       *)
(*                                                                         *)
(* The invariant ties what exists, and which threads run, to the place of  *)
(* main: what main has set up at each step (SetUpOK), that a thread that   *)
(* uses it keeps main from tearing it down (PollOK, ThreadsOK), that the   *)
(* barrier opens for all the workers or for none (BarrierOK), and how the  *)
(* errors get into rc (RcOK, LogOK).                                       *)
(***************************************************************************)
EXTENDS PerfMain, Association_proofs, FiniteSetTheorems

\* The steps of main up to the return of the workers, and from cleanup on.
SettingUp == {"sig", "workers", "controllers", "poll", "associate", "log", "launch", "work", "wait"}

\* Main has no worker threads yet.
BeforeLaunch == SettingUp \ {"launch", "work", "wait"}

CleaningUp == {"cleanup", "join", "unregister", "fini_log", "exit", "returned", "halted"}

\* The errors before the set-up of the log.
EarlyErrors == {"sig", "workers", "controllers", "no namespaces", "poll", "associate", "barrier"}

\* The errors that leave rc at 0.
SilentErrors == {"none", "no namespaces", "log"}

MainTypeOK ==
    /\ g_num_workers \in Nat /\ AllWorkers \subseteq OtherCores
    /\ mpc \in SettingUp \cup CleaningUp /\ rc \in {-1, 0, 1} /\ latency_log \in BOOLEAN
    /\ have \subseteq {"workers", "controllers", "barrier", "log"}
    /\ wpc \in [OtherCores -> {"none", "init", "barrier", "run", "stuck", "returned", "refused"}]
    /\ inited \in [OtherCores -> Nat] /\ status \subseteq OtherCores /\ arrived \subseteq AllWorkers
    /\ poll \in {"none", "work", "sleep", "exited"}
    /\ failed \in EarlyErrors \cup {"none", "log", "exit"} 
    /\ fault \in {"none", "log not set up", "thread id"}

\* The lists of the workers: as associate_workers_with_ns has left them so far, or empty
\* when main gave up before it.
AssocOK ==
    /\ mpc \in {"sig", "workers", "controllers"} =>
          ~returned /\ \A w \in AllWorkers : ns_ctx[w] = <<>>
    /\ \/ AssocInv
       \/ /\ mpc \in CleaningUp
          /\ ~returned /\ \A w \in AllWorkers : ns_ctx[w] = <<>>

SetUpOK ==
    /\ mpc \in {"controllers", "poll", "associate", "log", "launch", "work", "wait"} =>
          "workers" \in have
    /\ mpc \in {"poll", "associate", "log", "launch", "work", "wait"} => "controllers" \in have
    /\ mpc \in {"log", "launch", "work", "wait"} => "barrier" \in have
    /\ mpc \in SettingUp => failed = "none"

\* The controllers are there for nvme_poll_ctrlrs until it is joined.
PollOK ==
    poll \in {"work", "sleep"} =>
        /\ "controllers" \in have
        /\ mpc \in {"associate", "log", "launch", "work", "wait", "cleanup", "join", "halted"}

\* The workers run between the launch and spdk_env_thread_wait_all.
ThreadsOK ==
    /\ \A w \in AllWorkers :
          wpc[w] \in {"init", "barrier", "run", "stuck"} => mpc \in {"launch", "work", "wait"}
    /\ mpc \in BeforeLaunch => \A w \in AllWorkers : wpc[w] = "none"

\* The barrier opens for all: whoever is past it knows that everybody has arrived.
BarrierOK ==
    /\ \A w \in arrived : wpc[w] \in {"barrier", "run", "stuck", "returned"}
    /\ (\E w \in AllWorkers : wpc[w] \in {"run", "stuck", "returned"}) => arrived = AllWorkers

\* A worker without all its queue pairs does no I/O and has its status set.
StatusOK ==
    \A w \in AllWorkers :
        /\ wpc[w] = "run" => ~Incomplete(w)
        /\ wpc[w] = "returned" /\ Incomplete(w) => w \in status

RcOK ==
    /\ mpc \in SettingUp \cup {"cleanup", "join"} => (rc # 0 <=> failed \notin SilentErrors)
    /\ mpc \in {"unregister", "fini_log", "exit", "returned"} =>
          (rc # 0 <=> failed \notin SilentErrors \/ status # {})

\* fini_log_fn finds the log set up, unless an earlier step failed.
LogOK ==
    /\ mpc \in {"launch", "work", "wait"} /\ latency_log => "log" \in have
    /\ mpc \in {"cleanup", "join", "unregister", "fini_log"} /\ latency_log /\ "log" \notin have =>
          failed \in EarlyErrors
    /\ mpc = "fini_log" => latency_log

MainInv ==
    /\ MainTypeOK /\ AssocOK /\ SetUpOK /\ PollOK /\ ThreadsOK /\ BarrierOK /\ StatusOK /\ RcOK
    /\ LogOK /\ CleanupDefined

-----------------------------------------------------------------------------
(* The steps of main outside the workers *)

LEMMA AssocFrame ==
    ASSUME AssocOK, UNCHANGED assocvars,
           mpc \in CleaningUp => mpc' \in CleaningUp,
           mpc' \in {"sig", "workers", "controllers"} => mpc \in {"sig", "workers", "controllers"}
    PROVE  AssocOK'
<1>1. AssocInv => AssocInv'
  BY AssocInvNext
<1>2. UNCHANGED <<g_num_workers, g_num_namespaces, ns_ctx, returned>>
  BY DEF assocvars
<1>3. QED
  BY <1>1, <1>2 DEF AssocOK, AllWorkers

\* A step that leaves the threads and the lists of the workers alone.
LEMMA ThreadFrame ==
    ASSUME UNCHANGED <<assocvars, threadvars>>
    PROVE  /\ UNCHANGED <<g_num_workers, g_num_namespaces, ns_ctx, returned, wpc, inited, status, arrived>>
           /\ AllWorkers' = AllWorkers
           /\ BarrierOK => BarrierOK'
           /\ StatusOK => StatusOK'
<1>1. UNCHANGED <<g_num_workers, g_num_namespaces, ns_ctx, returned, wpc, inited, status, arrived>>
  BY DEF assocvars, threadvars
<1>2. AllWorkers' = AllWorkers
  BY <1>1 DEF AllWorkers
<1>3. QED
  BY <1>1, <1>2 DEF BarrierOK, StatusOK, Incomplete

\* A step of the set-up that fails: main goes to cleanup with what it has so far, which may
\* be fewer workers than there are cores.
LEMMA FailsWithFewer ==
    ASSUME MainInv, AssocOK',
           NEW from \in BeforeLaunch, NEW what \in EarlyErrors \cup {"log"},
           NEW code \in {-1, 0, 1}, NEW new \in SUBSET {"workers", "controllers", "log"},
           Fails(from, what, code, new),
           code # 0 <=> what \notin SilentErrors, what = "log" => "log" \in new,
           g_num_workers' \in Nat, AllWorkers' \subseteq AllWorkers,
           UNCHANGED <<ns_ctx, threadvars, poll>>
    PROVE  MainInv'
<1>1. /\ MainTypeOK /\ SetUpOK /\ PollOK /\ ThreadsOK /\ BarrierOK /\ StatusOK /\ RcOK
      /\ LogOK /\ CleanupDefined
  BY DEF MainInv
<1>2. /\ mpc = from /\ mpc' = "cleanup" /\ rc' = code /\ failed' = what /\ have' = have \cup new
      /\ UNCHANGED <<ns_ctx, wpc, inited, status, arrived, poll, latency_log, fault>>
  BY DEF Fails, threadvars
<1>3. arrived = {} /\ \A w \in AllWorkers : wpc[w] = "none"
  BY <1>1, <1>2 DEF ThreadsOK, BarrierOK, MainTypeOK
<1>4. MainTypeOK'
  <2>1. have' \subseteq {"workers", "controllers", "barrier", "log"}
    BY <1>1, <1>2 DEF MainTypeOK
  <2>2. QED
    BY <1>1, <1>2, <1>3, <2>1 DEF MainTypeOK, CleaningUp
<1>5. SetUpOK' /\ PollOK'
  BY <1>1, <1>2 DEF SetUpOK, PollOK, SettingUp, BeforeLaunch
<1>6. ThreadsOK'
  BY <1>1, <1>2, <1>3 DEF ThreadsOK, SettingUp, BeforeLaunch
<1>7. BarrierOK' /\ StatusOK'
  BY <1>1, <1>2, <1>3 DEF BarrierOK, StatusOK, Incomplete
<1>8. RcOK'
  BY <1>2 DEF RcOK, SilentErrors
<1>9. LogOK'
  BY <1>2 DEF LogOK
<1>10. CleanupDefined'
  BY <1>1, <1>2 DEF CleanupDefined, SetUpOK, BeforeLaunch
<1>11. QED
  BY <1>2, <1>4, <1>5, <1>6, <1>7, <1>8, <1>9, <1>10 DEF MainInv

LEMMA FailsNext ==
    ASSUME MainInv, AssocOK',
           NEW from \in BeforeLaunch, NEW what \in EarlyErrors \cup {"log"},
           NEW code \in {-1, 0, 1}, NEW new \in SUBSET {"workers", "controllers", "log"},
           Fails(from, what, code, new),
           code # 0 <=> what \notin SilentErrors, what = "log" => "log" \in new,
           UNCHANGED <<g_num_workers, ns_ctx, threadvars, poll>>
    PROVE  MainInv'
<1>1. g_num_workers' \in Nat /\ AllWorkers' \subseteq AllWorkers
  BY DEF MainInv, MainTypeOK, AllWorkers
<1>2. QED
  BY <1>1, FailsWithFewer

\* A step of the set-up that is through.
LEMMA DoneNext ==
    ASSUME MainInv, AssocOK', SetUpOK', LogOK', PollOK',
           NEW from \in BeforeLaunch, NEW to \in BeforeLaunch \cup {"launch"},
           NEW new \in SUBSET {"workers", "controllers", "barrier", "log"},
           Done(from, to, new),
           UNCHANGED <<g_num_workers, ns_ctx, threadvars>>,
           poll' \in {"none", "work", "sleep", "exited"}
    PROVE  MainInv'
<1>1. /\ MainTypeOK /\ ThreadsOK /\ BarrierOK /\ StatusOK /\ RcOK /\ CleanupDefined
  BY DEF MainInv
<1>2. /\ mpc = from /\ mpc' = to /\ have' = have \cup new
      /\ UNCHANGED <<g_num_workers, ns_ctx, wpc, inited, status, arrived, rc, failed, latency_log, fault>>
  BY DEF Done, threadvars
<1>3. AllWorkers' = AllWorkers
  BY <1>2 DEF AllWorkers
<1>4. MainTypeOK'
  <2>1. have' \subseteq {"workers", "controllers", "barrier", "log"}
    BY <1>1, <1>2 DEF MainTypeOK
  <2>2. QED
    BY <1>1, <1>2, <1>3, <2>1 DEF MainTypeOK, BeforeLaunch, SettingUp
<1>5. \A w \in AllWorkers : wpc[w] = "none"
  BY <1>1, <1>2 DEF ThreadsOK
<1>6. ThreadsOK'
  BY <1>2, <1>3, <1>5 DEF ThreadsOK
<1>7. BarrierOK' /\ StatusOK'
  BY <1>1, <1>2, <1>3 DEF BarrierOK, StatusOK, Incomplete
<1>8. RcOK'
  BY <1>1, <1>2 DEF RcOK, SettingUp, BeforeLaunch
<1>9. CleanupDefined'
  BY <1>1, <1>2 DEF CleanupDefined
<1>10. QED
  BY <1>4, <1>6, <1>7, <1>8, <1>9 DEF MainInv

LEMMA SetUpNext == MainInv /\ SetUp => MainInv'
<1> SUFFICES ASSUME MainInv, SetUp PROVE MainInv'
  OBVIOUS
<1>1. AssocOK /\ SetUpOK /\ PollOK /\ LogOK
  BY DEF MainInv
<1>2. UNCHANGED <<threadvars, poll>>
  BY DEF SetUp, pollvars
<1>3. ASSUME UNCHANGED assocvars,
             NEW from \in {"sig", "workers", "controllers"}, NEW to \in {"workers", "controllers", "poll"},
             NEW new \in SUBSET {"workers", "controllers"}, Done(from, to, new),
             from = "sig" => to = "workers",
             from = "workers" => to = "controllers" /\ "workers" \in new,
             from = "controllers" => to = "poll" /\ "controllers" \in new
      PROVE  MainInv'
  <2>1. /\ mpc = from /\ mpc' = to /\ have' = have \cup new
        /\ UNCHANGED <<latency_log, failed, g_num_workers, ns_ctx, poll>>
    BY <1>2, <1>3 DEF Done, assocvars
  <2>2. AssocOK'
    BY <1>1, <1>3, <2>1, AssocFrame DEF CleaningUp
  <2>3. SetUpOK' /\ PollOK'
    BY <1>1, <1>3, <2>1 DEF SetUpOK, PollOK, SettingUp
  <2>4. LogOK'
    BY <1>1, <1>3, <2>1 DEF LogOK
  <2>5. from \in BeforeLaunch /\ to \in BeforeLaunch \cup {"launch"}
    BY <1>3 DEF SettingUp, BeforeLaunch
  <2>6. poll' \in {"none", "work", "sleep", "exited"}
    BY <2>1 DEF MainInv, MainTypeOK
  <2>7. new \in SUBSET {"workers", "controllers", "barrier", "log"}
    BY <1>3
  <2>8. QED
    BY <1>2, <1>3, <2>1, <2>2, <2>3, <2>4, <2>5, <2>6, <2>7, DoneNext
<1>4. ASSUME AssocOK', UNCHANGED <<g_num_workers, ns_ctx>>,
             NEW from \in {"sig", "workers", "controllers"},
             NEW what \in {"sig", "workers", "controllers", "no namespaces"},
             NEW code \in {-1, 0, 1}, NEW new \in SUBSET {"workers", "controllers"},
             Fails(from, what, code, new),
             code # 0 <=> what # "no namespaces"
      PROVE  MainInv'
  <2>1. from \in BeforeLaunch /\ what \in EarlyErrors \cup {"log"} /\ what # "log"
    BY <1>4 DEF SettingUp, BeforeLaunch, EarlyErrors
  <2>2. code # 0 <=> what \notin SilentErrors
    BY <1>4 DEF SilentErrors
  <2>3. new \in SUBSET {"workers", "controllers", "log"}
    BY <1>4
  <2>4. UNCHANGED <<g_num_workers, ns_ctx, threadvars, poll>>
    BY <1>2, <1>4
  <2>5. QED
    BY <1>4, <2>1, <2>2, <2>3, <2>4, FailsNext DEF Fails
<1>5. CASE (SetupSignals \/ RegisterControllers) /\ UNCHANGED assocvars
  <2>1. CASE Done("sig", "workers", {})
    BY <1>3, <1>5, <2>1
  <2>3. CASE Done("controllers", "poll", {"controllers"})
    BY <1>3, <1>5, <2>3
  <2>4. ASSUME NEW from \in {"sig", "controllers"}, NEW new \in SUBSET {"workers", "controllers"},
               Fails(from, from, -1, new)
        PROVE  MainInv'
    <3>1. AssocOK' /\ UNCHANGED <<g_num_workers, ns_ctx>>
      BY <1>1, <1>5, <2>4, AssocFrame DEF Fails, CleaningUp, assocvars
    <3>2. -1 \in {-1, 0, 1} /\ -1 # 0
      OBVIOUS
    <3>3. from \in {"sig", "workers", "controllers", "no namespaces"} /\ from # "no namespaces"
      OBVIOUS
    <3>4. QED
      BY <1>4, <2>4, <3>1, <3>2, <3>3
  <2>5. QED
    BY <1>5, <2>1, <2>3, <2>4 DEF SetupSignals, RegisterControllers
<1>6. CASE NoNamespaces
  <2>1. /\ Fails("controllers", "no namespaces", 0, {"controllers"})
        /\ UNCHANGED <<g_num_workers, ns_ctx, returned>> /\ g_num_namespaces' = 0
        /\ mpc = "controllers" /\ mpc' = "cleanup"
    BY <1>6 DEF NoNamespaces, Fails
  <2>2. AssocOK'
    BY <1>1, <2>1 DEF AssocOK, AllWorkers, CleaningUp
  <2>3. 0 \in {-1, 0, 1} /\ (0 # 0 <=> "no namespaces" # "no namespaces")
    OBVIOUS
  <2>4. QED
    BY <1>4, <2>1, <2>2, <2>3
<1>7. CASE RegisterWorkers
  <2>1. CASE Done("workers", "controllers", {"workers"}) /\ UNCHANGED assocvars
    BY <1>3, <2>1
  <2>2. CASE /\ Fails("workers", "workers", -1, {"workers"})
             /\ g_num_workers' \in 0 .. (g_num_workers - 1)
             /\ UNCHANGED <<ns_ctx, returned>>
    <3>1. g_num_workers \in Nat
      BY DEF MainInv, MainTypeOK
    <3>2. g_num_workers' \in Nat /\ AllWorkers' \subseteq AllWorkers
      BY <2>2, <3>1 DEF AllWorkers
    <3>3. AssocOK'
      BY <1>1, <2>2, <3>2 DEF AssocOK, CleaningUp, Fails
    <3>4. "workers" \in BeforeLaunch /\ "workers" \in EarlyErrors \cup {"log"}
          /\ "workers" \notin SilentErrors
      BY DEF SettingUp, BeforeLaunch, EarlyErrors, SilentErrors
    <3>5. -1 \in {-1, 0, 1} /\ -1 # 0 /\ {"workers"} \in SUBSET {"workers", "controllers", "log"}
      OBVIOUS
    <3>6. UNCHANGED <<ns_ctx, threadvars, poll>>
      BY <1>2, <2>2
    <3>7. QED
      BY <2>2, <3>2, <3>3, <3>4, <3>5, <3>6, FailsWithFewer
  <2>3. QED
    BY <1>7, <2>1, <2>2 DEF RegisterWorkers, assocvars
<1>8. QED
  BY <1>5, <1>6, <1>7 DEF SetUp

LEMMA CreatePollThreadNext == MainInv /\ CreatePollThread => MainInv'
<1> SUFFICES ASSUME MainInv, CreatePollThread PROVE MainInv'
  OBVIOUS
<1>1. AssocOK /\ SetUpOK /\ PollOK /\ LogOK
  BY DEF MainInv
<1>2. UNCHANGED assocvars /\ UNCHANGED <<g_num_workers, ns_ctx, threadvars>>
  BY DEF CreatePollThread, assocvars
<1>3. CASE Done("poll", "associate", {}) /\ poll' = "work"
  <2>1. /\ mpc = "poll" /\ mpc' = "associate" /\ have' = have
        /\ UNCHANGED <<latency_log, failed>>
    BY <1>3 DEF Done
  <2>2. AssocOK'
    BY <1>1, <1>2, <2>1, AssocFrame DEF CleaningUp
  <2>3. SetUpOK' /\ PollOK'
    BY <1>1, <1>3, <2>1 DEF SetUpOK, PollOK, SettingUp
  <2>4. LogOK'
    BY <2>1 DEF LogOK
  <2>5. "poll" \in BeforeLaunch /\ "associate" \in BeforeLaunch \cup {"launch"}
    BY DEF SettingUp, BeforeLaunch
  <2>6. poll' \in {"none", "work", "sleep", "exited"}
    BY <1>3
  <2>7. QED
    BY <1>2, <1>3, <2>2, <2>3, <2>4, <2>5, <2>6, DoneNext
<1>4. CASE Fails("poll", "poll", 1, {}) /\ UNCHANGED poll
  <2>1. AssocOK'
    BY <1>1, <1>2, <1>4, AssocFrame DEF Fails, CleaningUp
  <2>2. "poll" \in BeforeLaunch /\ "poll" \in EarlyErrors \cup {"log"}
        /\ "poll" \notin SilentErrors
    BY DEF SettingUp, BeforeLaunch, EarlyErrors, SilentErrors
  <2>3. UNCHANGED <<g_num_workers, ns_ctx, threadvars, poll>>
    BY <1>2, <1>4
  <2>4. QED
    BY <1>4, <2>1, <2>2, <2>3, FailsNext
<1>5. QED
  BY <1>3, <1>4 DEF CreatePollThread

LEMMA AssociateNext == MainInv /\ Associate => MainInv'
<1> SUFFICES ASSUME MainInv, Associate PROVE MainInv'
  OBVIOUS
<1>1. /\ MainTypeOK /\ AssocOK /\ SetUpOK /\ PollOK /\ ThreadsOK /\ BarrierOK /\ StatusOK /\ RcOK
      /\ LogOK /\ CleanupDefined
  BY DEF MainInv
<1>2. /\ mpc = "associate" /\ UNCHANGED <<wpc, inited, status, arrived, poll>> /\ UNCHANGED threadvars
  BY DEF Associate, threadvars, pollvars
<1>3. CASE (EveryCoreStep \/ RoundRobinStep \/ RoundRobinDone) /\ UNCHANGED mainvars
  <2>1. UNCHANGED <<mpc, rc, latency_log, have, failed, fault, g_num_workers>>
    BY <1>3 DEF mainvars, EveryCoreStep, RoundRobinStep, RoundRobinDone
  <2>2. AllWorkers' = AllWorkers
    BY <2>1 DEF AllWorkers
  <2>3. AssocOK'
    <3>1. AssocInv
      BY <1>1, <1>2 DEF AssocOK, CleaningUp
    <3>2. AssocInv'
      BY <1>3, <3>1, AssocInvNext DEF AssocNext
    <3>3. QED
      BY <1>2, <2>1, <3>2 DEF AssocOK
  <2>4. \A w \in AllWorkers : wpc[w] = "none"
    BY <1>1, <1>2 DEF ThreadsOK, SettingUp, BeforeLaunch
  <2>5. MainTypeOK'
    BY <1>1, <1>2, <2>1, <2>2 DEF MainTypeOK
  <2>6. SetUpOK' /\ PollOK' /\ RcOK' /\ LogOK' /\ CleanupDefined'
    BY <1>1, <1>2, <2>1 DEF SetUpOK, PollOK, RcOK, LogOK, CleanupDefined
  <2>7. ThreadsOK' /\ BarrierOK' /\ StatusOK'
    BY <1>1, <1>2, <2>1, <2>2, <2>4 DEF ThreadsOK, BarrierOK, StatusOK
  <2>8. QED
    BY <2>3, <2>5, <2>6, <2>7 DEF MainInv
<1>4. CASE Fails("associate", "associate", -1, {}) /\ UNCHANGED assocvars
  <2>1. UNCHANGED <<g_num_workers, ns_ctx, threadvars, poll>>
    BY <1>2, <1>4 DEF assocvars
  <2>2. AssocOK'
    BY <1>1, <1>4, AssocFrame DEF Fails, CleaningUp
  <2>3. "associate" \in BeforeLaunch /\ "associate" \in EarlyErrors \cup {"log"}
        /\ "associate" \notin SilentErrors
    BY DEF SettingUp, BeforeLaunch, EarlyErrors, SilentErrors
  <2>4. -1 \in {-1, 0, 1} /\ -1 # 0
    OBVIOUS
  <2>5. QED
    BY <1>4, <2>1, <2>2, <2>3, <2>4, FailsNext DEF Fails
<1>5. QED
  BY <1>3, <1>4 DEF Associate

LEMMA InitBarrierNext == MainInv /\ InitBarrier => MainInv'
<1> SUFFICES ASSUME MainInv, InitBarrier PROVE MainInv'
  OBVIOUS
<1>1. MainTypeOK /\ AssocOK /\ SetUpOK /\ PollOK /\ LogOK
  BY DEF MainInv
<1>2. UNCHANGED assocvars /\ UNCHANGED <<g_num_workers, ns_ctx, threadvars, poll>>
  BY DEF InitBarrier, assocvars, pollvars
<1>3. ASSUME NEW to \in {"log", "launch"}, Done("associate", to, {"barrier"}),
             to = "launch" => ~latency_log
      PROVE  MainInv'
  <2>1. /\ mpc = "associate" /\ mpc' = to /\ have' = have \cup {"barrier"}
        /\ UNCHANGED <<latency_log, failed>>
    BY <1>3 DEF Done
  <2>2. AssocOK'
    BY <1>1, <1>2, <1>3, <2>1, AssocFrame DEF CleaningUp
  <2>3. SetUpOK' /\ PollOK'
    BY <1>1, <1>2, <1>3, <2>1 DEF SetUpOK, PollOK, SettingUp
  <2>4. LogOK'
    BY <1>3, <2>1 DEF LogOK
  <2>5. "associate" \in BeforeLaunch /\ to \in BeforeLaunch \cup {"launch"}
    BY <1>3 DEF SettingUp, BeforeLaunch
  <2>6. poll' \in {"none", "work", "sleep", "exited"}
    BY <1>1, <1>2 DEF MainTypeOK
  <2>7. QED
    BY <1>2, <1>3, <2>2, <2>3, <2>4, <2>5, <2>6, DoneNext
<1>4. CASE Fails("associate", "barrier", 1, {})
  <2>1. AssocOK'
    BY <1>1, <1>2, <1>4, AssocFrame DEF Fails, CleaningUp
  <2>2. "associate" \in BeforeLaunch /\ "barrier" \in EarlyErrors \cup {"log"}
        /\ "barrier" \notin SilentErrors
    BY DEF SettingUp, BeforeLaunch, EarlyErrors, SilentErrors
  <2>3. QED
    BY <1>2, <1>4, <2>1, <2>2, FailsNext
<1>5. QED
  BY <1>1, <1>3, <1>4 DEF InitBarrier, MainTypeOK

LEMMA SetUpLogNext == MainInv /\ SetUpLog => MainInv'
<1> SUFFICES ASSUME MainInv, SetUpLog PROVE MainInv'
  OBVIOUS
<1>1. /\ MainTypeOK /\ AssocOK /\ SetUpOK /\ PollOK /\ ThreadsOK /\ BarrierOK /\ StatusOK /\ RcOK
      /\ LogOK /\ CleanupDefined
  BY DEF MainInv
<1>2. UNCHANGED <<assocvars, threadvars>> /\ UNCHANGED <<g_num_workers, ns_ctx, threadvars, poll>>
  BY DEF SetUpLog, assocvars, pollvars
<1>3. CASE Done("log", "launch", {"log"})
  <2>1. /\ mpc = "log" /\ mpc' = "launch" /\ have' = have \cup {"log"}
        /\ UNCHANGED <<latency_log, failed>>
    BY <1>3 DEF Done
  <2>2. AssocOK'
    BY <1>1, <1>2, <1>3, <2>1, AssocFrame DEF CleaningUp
  <2>3. SetUpOK' /\ PollOK'
    BY <1>1, <1>2, <1>3, <2>1 DEF SetUpOK, PollOK, SettingUp
  <2>4. LogOK'
    BY <2>1 DEF LogOK
  <2>5. "log" \in BeforeLaunch /\ "launch" \in BeforeLaunch \cup {"launch"}
    BY DEF SettingUp, BeforeLaunch
  <2>6. poll' \in {"none", "work", "sleep", "exited"}
    BY <1>1, <1>2 DEF MainTypeOK
  <2>7. QED
    BY <1>2, <1>3, <2>2, <2>3, <2>4, <2>5, <2>6, DoneNext
<1>4. CASE Fails("log", "log", 0, {"log"})
  <2>1. AssocOK'
    BY <1>1, <1>2, <1>4, AssocFrame DEF Fails, CleaningUp
  <2>2. "log" \in BeforeLaunch /\ "log" \in EarlyErrors \cup {"log"}
        /\ "log" \in SilentErrors
    BY DEF SettingUp, BeforeLaunch, EarlyErrors, SilentErrors
  <2>3. QED
    BY <1>2, <1>4, <2>1, <2>2, FailsNext
<1>5. CASE ExitAt("log")
  <2>1. /\ mpc = "log" /\ mpc' = "halted" /\ failed' = "exit"
        /\ UNCHANGED <<rc, latency_log, have, fault, poll>>
    BY <1>2, <1>5 DEF ExitAt
  <2>2. AssocOK'
    BY <1>1, <1>2, <2>1, AssocFrame DEF CleaningUp
  <2>3. /\ UNCHANGED <<wpc, inited, status, arrived>> /\ AllWorkers' = AllWorkers
        /\ BarrierOK' /\ StatusOK'
    BY <1>1, <1>2, ThreadFrame
  <2>4. MainTypeOK'
    BY <1>1, <1>2, <2>1, <2>3 DEF MainTypeOK, CleaningUp
  <2>5. SetUpOK' /\ PollOK' /\ ThreadsOK' /\ LogOK'
    BY <1>1, <2>1, <2>3 DEF SetUpOK, PollOK, ThreadsOK, LogOK, SettingUp, BeforeLaunch
  <2>6. RcOK'
    BY <2>1 DEF RcOK, SettingUp
  <2>7. CleanupDefined'
    BY <1>1, <2>1 DEF CleanupDefined, SetUpOK, SettingUp
  <2>8. QED
    BY <2>2, <2>3, <2>4, <2>5, <2>6, <2>7 DEF MainInv
<1>6. QED
  BY <1>3, <1>4, <1>5 DEF SetUpLog

-----------------------------------------------------------------------------
(* The steps of the workers *)

\* A step that leaves main alone, while main has not yet collected the statuses.
LEMMA MainFrame ==
    ASSUME MainInv, UNCHANGED <<assocvars, mainvars, pollvars>>,
           mpc \in {"launch", "work", "wait"}
    PROVE  /\ AssocOK' /\ SetUpOK' /\ PollOK' /\ RcOK' /\ LogOK' /\ CleanupDefined'
           /\ AllWorkers' = AllWorkers
           /\ UNCHANGED <<g_num_workers, ns_ctx, mpc, rc, latency_log, have, failed, fault, poll>>
<1>1. UNCHANGED <<g_num_workers, ns_ctx, mpc, rc, latency_log, have, failed, fault, poll>>
  BY DEF assocvars, mainvars, pollvars
<1>2. AssocOK'
  BY <1>1, AssocFrame DEF MainInv
<1>3. SetUpOK' /\ PollOK' /\ LogOK' /\ CleanupDefined'
  BY <1>1 DEF MainInv, SetUpOK, PollOK, LogOK, CleanupDefined
<1>4. RcOK'
  BY <1>1 DEF MainInv, RcOK
<1>5. QED
  BY <1>1, <1>2, <1>3, <1>4 DEF AllWorkers

LEMMA LaunchNext ==
    ASSUME MainInv, NEW w \in AllWorkers, Launch(w)
    PROVE  MainInv'
<1>1. MainTypeOK /\ ThreadsOK /\ BarrierOK /\ StatusOK
  BY DEF MainInv
<1>2. /\ mpc = "launch" /\ wpc[w] = "none"
      /\ UNCHANGED <<assocvars, mainvars, pollvars>> /\ UNCHANGED <<inited, status, arrived>>
  BY DEF Launch
<1>3. PICK new \in {"init", "refused"} : wpc' = [wpc EXCEPT ![w] = new]
  BY DEF Launch
<1>4. /\ AssocOK' /\ SetUpOK' /\ PollOK' /\ RcOK' /\ LogOK' /\ CleanupDefined'
      /\ AllWorkers' = AllWorkers
      /\ UNCHANGED <<g_num_workers, ns_ctx, mpc, rc, latency_log, have, failed, fault, poll>>
  BY <1>2, MainFrame
<1>5. wpc'[w] = new /\ \A v \in AllWorkers \ {w} : wpc'[v] = wpc[v]
  BY <1>1, <1>3 DEF MainTypeOK
<1>6. MainTypeOK'
  BY <1>1, <1>2, <1>3, <1>4 DEF MainTypeOK
<1>7. ThreadsOK'
  BY <1>1, <1>2, <1>4, <1>5 DEF ThreadsOK, BeforeLaunch
<1>8. BarrierOK' /\ StatusOK'
  BY <1>1, <1>2, <1>4, <1>5 DEF BarrierOK, StatusOK, Incomplete, MainTypeOK
<1>9. QED
  BY <1>4, <1>6, <1>7, <1>8 DEF MainInv

\* The end of the launches and main_work_fn, while the workers run.
LEMMA MainWorksNext == MainInv /\ (LaunchDone \/ MainWorkFn) => MainInv'
<1> SUFFICES ASSUME MainInv, LaunchDone \/ MainWorkFn PROVE MainInv'
  OBVIOUS
<1>1. /\ MainTypeOK /\ AssocOK /\ SetUpOK /\ PollOK /\ ThreadsOK /\ BarrierOK /\ StatusOK /\ RcOK
      /\ LogOK /\ CleanupDefined
  BY DEF MainInv
<1>2. /\ mpc \in {"launch", "work"} /\ mpc' \in {"work", "wait"}
      /\ UNCHANGED <<assocvars, threadvars>>
      /\ UNCHANGED <<rc, latency_log, have, failed, fault, poll>>
  BY DEF LaunchDone, MainWorkFn, pollvars
<1>3. /\ UNCHANGED <<g_num_workers, wpc, inited, status, arrived>>
      /\ AllWorkers' = AllWorkers /\ BarrierOK' /\ StatusOK'
  BY <1>1, <1>2, ThreadFrame
<1>4. AssocOK'
  BY <1>1, <1>2, AssocFrame DEF CleaningUp
<1>5. MainTypeOK'
  BY <1>1, <1>2, <1>3 DEF MainTypeOK, SettingUp
<1>6. SetUpOK' /\ PollOK' /\ LogOK' /\ CleanupDefined'
  BY <1>1, <1>2 DEF SetUpOK, PollOK, LogOK, CleanupDefined, SettingUp
<1>7. ThreadsOK'
  BY <1>1, <1>2, <1>3 DEF ThreadsOK, BeforeLaunch
<1>8. RcOK'
  BY <1>1, <1>2 DEF RcOK, SettingUp
<1>9. QED
  BY <1>3, <1>4, <1>5, <1>6, <1>7, <1>8 DEF MainInv

LEMMA WorkerNext ==
    ASSUME MainInv, NEW w \in AllWorkers, Worker(w)
    PROVE  MainInv'
<1>1. MainTypeOK /\ ThreadsOK /\ BarrierOK /\ StatusOK
  BY DEF MainInv
<1>2. /\ wpc[w] \in {"init", "barrier", "run"} /\ UNCHANGED <<assocvars, mainvars, pollvars>>
  BY DEF Worker, InitNamespace, ArriveAtBarrier, LeaveBarrier, Run
<1>3. mpc \in {"launch", "work", "wait"}
  BY <1>1, <1>2 DEF ThreadsOK
<1>4. /\ AssocOK' /\ SetUpOK' /\ PollOK' /\ RcOK' /\ LogOK' /\ CleanupDefined'
      /\ AllWorkers' = AllWorkers
      /\ UNCHANGED <<g_num_workers, ns_ctx, mpc, rc, latency_log, have, failed, fault, poll>>
  BY <1>2, <1>3, MainFrame
<1>5. SUFFICES ThreadsOK' /\ BarrierOK' /\ StatusOK'
               /\ wpc' \in [OtherCores -> {"none", "init", "barrier", "run", "stuck", "returned", "refused"}]
               /\ inited' \in [OtherCores -> Nat] /\ status' \subseteq OtherCores
               /\ arrived' \subseteq AllWorkers
  BY <1>1, <1>4 DEF MainInv, MainTypeOK
\* What the step does to the thread, and to nobody else.
<1>6. ASSUME NEW to \in {"barrier", "run", "stuck", "returned"}, wpc' = [wpc EXCEPT ![w] = to]
      PROVE  /\ wpc'[w] = to /\ \A v \in AllWorkers \ {w} : wpc'[v] = wpc[v]
             /\ wpc' \in [OtherCores -> {"none", "init", "barrier", "run", "stuck", "returned", "refused"}]
             /\ ThreadsOK'
  <2>1. /\ wpc'[w] = to /\ \A v \in AllWorkers \ {w} : wpc'[v] = wpc[v]
        /\ wpc' \in [OtherCores -> {"none", "init", "barrier", "run", "stuck", "returned", "refused"}]
    BY <1>1, <1>6 DEF MainTypeOK
  <2>2. ThreadsOK'
    BY <1>1, <1>2, <1>3, <1>4, <2>1 DEF ThreadsOK, BeforeLaunch
  <2>3. QED
    BY <2>1, <2>2
<1>7. CASE InitNamespace(w)
  <2>1. wpc[w] = "init" /\ UNCHANGED <<status, arrived>>
    BY <1>7 DEF InitNamespace
  <2>2. CASE inited' = [inited EXCEPT ![w] = @ + 1] /\ UNCHANGED wpc
    <3>1. inited' \in [OtherCores -> Nat] /\ \A v \in AllWorkers \ {w} : inited'[v] = inited[v]
      <4>1. inited \in [OtherCores -> Nat]
        BY <1>1 DEF MainTypeOK
      <4>2. AllWorkers \subseteq OtherCores
        BY <1>1 DEF MainTypeOK
      <4>3. QED
        BY <2>2, <4>1, <4>2
    <3>2. ThreadsOK' /\ BarrierOK' /\ StatusOK'
      BY <1>1, <1>4, <2>1, <2>2, <3>1 DEF ThreadsOK, BarrierOK, StatusOK, Incomplete
    <3>3. QED
      BY <1>1, <2>1, <2>2, <3>1, <3>2 DEF MainTypeOK
  <2>3. CASE wpc' = [wpc EXCEPT ![w] = "barrier"] /\ UNCHANGED inited
    <3>1. BarrierOK' /\ StatusOK'
      BY <1>1, <1>4, <1>6, <2>1, <2>3 DEF BarrierOK, StatusOK, Incomplete, MainTypeOK
    <3>2. QED
      BY <1>1, <1>6, <2>1, <2>3, <3>1 DEF MainTypeOK
  <2>4. QED
    BY <1>7, <2>2, <2>3 DEF InitNamespace, AfterInitFailure
<1>8. CASE ArriveAtBarrier(w)
  <2>1. /\ wpc[w] = "barrier" /\ w \notin arrived /\ arrived' = arrived \cup {w}
        /\ UNCHANGED <<wpc, inited, status>>
    BY <1>8 DEF ArriveAtBarrier
  <2>2. ThreadsOK' /\ BarrierOK' /\ StatusOK'
    BY <1>1, <1>4, <2>1 DEF ThreadsOK, BarrierOK, StatusOK, Incomplete, MainTypeOK
  <2>3. QED
    BY <1>1, <2>1, <2>2 DEF MainTypeOK
<1>9. CASE LeaveBarrier(w)
  <2>1. PICK to \in {"run", "returned"} :
           /\ wpc[w] = "barrier" /\ Cardinality(arrived) >= g_num_workers
           /\ wpc' = [wpc EXCEPT ![w] = to]
           /\ to = "run" => ~Incomplete(w) /\ status' = status
           /\ to = "returned" => status' = status \cup {w}
           /\ UNCHANGED <<inited, arrived>>
    BY <1>9 DEF LeaveBarrier, BarrierCount, StatusAfter, Incomplete
  <2>2. arrived = AllWorkers
    <3>1. g_num_workers \in Nat /\ arrived \subseteq 1 .. g_num_workers
      BY <1>1 DEF MainTypeOK, AllWorkers
    <3>2. IsFiniteSet(1 .. g_num_workers) /\ Cardinality(1 .. g_num_workers) = g_num_workers
      BY <3>1, FS_Interval
    <3>3. Cardinality(arrived) \in Nat /\ Cardinality(arrived) <= Cardinality(1 .. g_num_workers)
          /\ (Cardinality(arrived) = Cardinality(1 .. g_num_workers) => arrived = 1 .. g_num_workers)
      BY <3>1, <3>2, FS_Subset, FS_CardinalityType
    <3>4. QED
      BY <2>1, <3>1, <3>2, <3>3 DEF AllWorkers
  <2>3. BarrierOK'
    BY <1>1, <1>4, <1>6, <2>1, <2>2 DEF BarrierOK
  <2>4. StatusOK'
    BY <1>1, <1>4, <1>6, <2>1 DEF StatusOK, Incomplete
  <2>5. QED
    BY <1>1, <1>6, <2>1, <2>3, <2>4 DEF MainTypeOK
<1>10. CASE Run(w)
  <2>1. PICK to \in {"stuck", "returned"} : wpc' = [wpc EXCEPT ![w] = to]
    BY <1>10 DEF Run
  <2>2. /\ wpc[w] = "run"
        /\ status' = status \/ status' = status \cup {w}
        /\ UNCHANGED <<inited, arrived>>
    BY <1>10 DEF Run
  <2>3. BarrierOK' /\ StatusOK'
    BY <1>1, <1>4, <1>6, <2>1, <2>2 DEF BarrierOK, StatusOK, Incomplete
  <2>4. QED
    BY <1>1, <1>6, <2>1, <2>2, <2>3 DEF MainTypeOK
<1>11. QED
  BY <1>7, <1>8, <1>9, <1>10 DEF Worker

-----------------------------------------------------------------------------
(* The end of main, the other threads, and the whole *)

LEMMA CleanupNext ==
    ASSUME MainInv, WaitAll \/ CancelPollThread \/ JoinAndCollect \/ Unregister \/ FiniLog \/ Return
    PROVE  MainInv'
<1>1. /\ MainTypeOK /\ AssocOK /\ SetUpOK /\ PollOK /\ ThreadsOK /\ BarrierOK /\ StatusOK /\ RcOK
      /\ LogOK /\ CleanupDefined
  BY DEF MainInv
<1>2. /\ UNCHANGED <<assocvars, threadvars>> /\ UNCHANGED <<latency_log, failed, poll>>
      /\ mpc' \in CleaningUp /\ have' \subseteq have /\ rc' \in {rc, 1}
      /\ fault' \in {fault, "log not set up", "thread id"}
  BY DEF WaitAll, CancelPollThread, JoinAndCollect, Unregister, FiniLog, Return, CleaningUp, pollvars
<1>3. /\ UNCHANGED <<g_num_workers, wpc, inited, status, arrived>>
      /\ AllWorkers' = AllWorkers /\ BarrierOK' /\ StatusOK'
  BY <1>1, <1>2, ThreadFrame
<1>4. AssocOK'
  BY <1>1, <1>2, AssocFrame DEF CleaningUp
<1>5. MainTypeOK'
  BY <1>1, <1>2, <1>3 DEF MainTypeOK
<1>6. SetUpOK'
  BY <1>2 DEF SetUpOK, SettingUp, CleaningUp
<1>7. ThreadsOK'
  BY <1>1, <1>2, <1>3 DEF ThreadsOK, SettingUp, BeforeLaunch, CleaningUp, WaitAll, AllReturned,
     CancelPollThread, JoinAndCollect, Unregister, FiniLog, Return
<1>8. PollOK'
  BY <1>1, <1>2 DEF PollOK, MainTypeOK, WaitAll, CancelPollThread, JoinAndCollect, Joined, Unregister,
     FiniLog, Return
<1>9. RcOK'
  <2>1. CASE WaitAll \/ CancelPollThread \/ Unregister \/ FiniLog \/ Return
    BY <1>1, <1>2, <1>3, <2>1 DEF RcOK, SettingUp, WaitAll, CancelPollThread, Unregister, FiniLog, Return
  <2>2. CASE JoinAndCollect
    BY <1>1, <1>2, <1>3, <2>2 DEF RcOK, SettingUp, JoinAndCollect
  <2>3. QED
    BY <2>1, <2>2
<1>10. LogOK'
  BY <1>1, <1>2 DEF LogOK, MainTypeOK, SetUpOK, SettingUp, WaitAll, CancelPollThread, JoinAndCollect, Unregister,
     FiniLog, Return
<1>11. CleanupDefined'
  BY <1>1, <1>2 DEF CleanupDefined, LogOK, EarlyErrors, WaitAll, CancelPollThread, JoinAndCollect,
     Unregister, FiniLog, Return
<1>12. QED
  BY <1>3, <1>4, <1>5, <1>6, <1>7, <1>8, <1>9, <1>10, <1>11 DEF MainInv

LEMMA ElsewhereNext ==
    ASSUME MainInv, PollThread \/ Signal \/ UNCHANGED allvars
    PROVE  MainInv'
<1>1. /\ MainTypeOK /\ AssocOK /\ SetUpOK /\ PollOK /\ ThreadsOK /\ BarrierOK /\ StatusOK /\ RcOK
      /\ LogOK /\ CleanupDefined
  BY DEF MainInv
<1>2. /\ UNCHANGED <<assocvars, threadvars>>
      /\ UNCHANGED <<mpc, rc, latency_log, have, failed, fault>>
      /\ \/ poll' = poll
         \/ poll \in {"work", "sleep"} /\ poll' \in {"work", "sleep", "exited"}
  BY DEF PollThread, PollControllers, PollSleep, Signal, allvars, mainvars, pollvars
<1>3. /\ UNCHANGED <<g_num_workers, wpc, inited, status, arrived>>
      /\ AllWorkers' = AllWorkers /\ BarrierOK' /\ StatusOK'
  BY <1>1, <1>2, ThreadFrame
<1>4. AssocOK'
  BY <1>1, <1>2, AssocFrame
<1>5. MainTypeOK'
  BY <1>1, <1>2, <1>3 DEF MainTypeOK
<1>6. SetUpOK' /\ LogOK' /\ CleanupDefined'
  BY <1>1, <1>2, <1>3 DEF SetUpOK, LogOK, CleanupDefined
<1>7. PollOK'
  BY <1>1, <1>2, <1>3 DEF PollOK
<1>8. ThreadsOK'
  BY <1>1, <1>2, <1>3 DEF ThreadsOK
<1>9. RcOK'
  BY <1>1, <1>2, <1>3 DEF RcOK
<1>10. QED
  BY <1>3, <1>4, <1>5, <1>6, <1>7, <1>8, <1>9 DEF MainInv

LEMMA MainInvNext == MainInv /\ [MainNext]_allvars => MainInv'
<1> SUFFICES ASSUME MainInv, [MainNext]_allvars PROVE MainInv'
  OBVIOUS
<1>1. CASE Main
  BY <1>1, SetUpNext, CreatePollThreadNext, AssociateNext, InitBarrierNext, SetUpLogNext, LaunchNext,
     MainWorksNext, CleanupNext DEF Main
<1>2. CASE \E w \in 1 .. MaxWorkers : w \in AllWorkers /\ Worker(w)
  BY <1>2, WorkerNext
<1>3. CASE PollThread \/ Signal \/ UNCHANGED allvars
  BY <1>3, ElsewhereNext
<1>4. QED
  BY <1>1, <1>2, <1>3 DEF MainNext, Over

LEMMA MainInvInit == MainInit => MainInv
<1> SUFFICES ASSUME MainInit PROVE MainInv
  OBVIOUS
<1>1. /\ AssocInit /\ mpc = "sig" /\ rc = 0 /\ latency_log \in BOOLEAN /\ have = {}
      /\ wpc = [w \in OtherCores |-> "none"] /\ inited = [w \in OtherCores |-> 0]
      /\ status = {} /\ arrived = {} /\ poll = "none" /\ failed = "none" /\ fault = "none"
  BY DEF MainInit
<1>2. /\ g_num_workers \in Nat /\ AllWorkers \subseteq OtherCores
      /\ ~returned /\ \A w \in AllWorkers : ns_ctx[w] = <<>>
  BY <1>1, AssociationConstants DEF AssocInit, AllWorkers, OtherCores
<1>3. AssocInv
  BY <1>1, AssocInvInit
<1>4. AssocOK
  BY <1>2, <1>3 DEF AssocOK
<1>5. MainTypeOK
  BY <1>1, <1>2 DEF MainTypeOK, SettingUp
<1>6. SetUpOK /\ PollOK /\ ThreadsOK /\ BarrierOK /\ StatusOK
  BY <1>1, <1>2, <1>5 DEF SetUpOK, PollOK, ThreadsOK, BarrierOK, StatusOK
<1>7. RcOK /\ LogOK /\ CleanupDefined
  BY <1>1 DEF RcOK, LogOK, CleanupDefined, SilentErrors
<1>8. QED
  BY <1>4, <1>5, <1>6, <1>7 DEF MainInv

-----------------------------------------------------------------------------
(* Theorems *)

LEMMA MainInvAlways == MainSpec => []MainInv
<1>1. MainSpec => MainInit /\ [][MainNext]_allvars
  BY PTL DEF MainSpec
<1>2. QED
  BY <1>1, MainInvInit, MainInvNext, PTL

\* No thread uses the controllers, the namespaces, its ns_worker_ctx or the barrier before
\* main has set them up or after main tore them down, whichever goto cleanup was taken:
\* main frees nothing while a worker or nvme_poll_ctrlrs may still run.
THEOREM NoUseAfterCleanup == MainSpec => []UsesLive
<1>1. MainInv => UsesLive
  <2> SUFFICES ASSUME MainInv PROVE UsesLive
    OBVIOUS
  <2>1. SetUpOK /\ PollOK /\ ThreadsOK
    BY DEF MainInv
  <2>2. QED
    BY <2>1 DEF UsesLive, SetUpOK, PollOK, ThreadsOK
<1>2. QED
  BY <1>1, MainInvAlways, PTL

\* A worker that is past pthread_barrier_wait knows that every worker has arrived there,
\* those whose init_ns_worker_ctx failed included.
THEOREM WorkersStartTogether == MainSpec => []StartTogether
<1>1. MainInv => StartTogether
  BY DEF MainInv, BarrierOK, StartTogether
<1>2. QED
  BY <1>1, MainInvAlways, PTL

\* The value main returns tells whether something failed, but for the two errors that leave
\* rc at 0: no namespace found, and the log thread not created.
THEOREM ErrorsAreReported == MainSpec => []ErrorsReported
<1>1. MainInv => ErrorsReported
  <2> SUFFICES ASSUME MainInv, mpc = "returned"
               PROVE  rc # 0 <=> \/ failed \notin {"none", "no namespaces", "log"}
                                 \/ status # {}
                                 \/ \E w \in AllWorkers : wpc[w] = "returned" /\ Incomplete(w)
    BY DEF ErrorsReported
  <2>1. rc # 0 <=> failed \notin {"none", "no namespaces", "log"} \/ status # {}
    BY DEF MainInv, RcOK, SilentErrors
  <2>2. (\E w \in AllWorkers : wpc[w] = "returned" /\ Incomplete(w)) => status # {}
    BY DEF MainInv, StatusOK
  <2>3. QED
    BY <2>1, <2>2
<1>2. QED
  BY <1>1, MainInvAlways, PTL

\* The cleanup of main is undefined only when a step before the log failed in a build with
\* PERF_LATENCY_LOG, or when one of its two pthread_create failed and left a thread id that
\* pthread_cancel is given.
THEOREM CleanupIsDefined == MainSpec => []CleanupDefined
<1>1. MainInv => CleanupDefined
  BY DEF MainInv
<1>2. QED
  BY <1>1, MainInvAlways, PTL

\* associate_workers_with_ns deals the namespaces out in every run of main, also when it is
\* left half-way for lack of memory or never called for lack of a namespace.
THEOREM NamespacesDealtOutByMain == MainSpec => []DealtOut
<1>1. MainInv => DealtOut
  <2> SUFFICES ASSUME MainInv PROVE DealtOut
    OBVIOUS
  <2>1. AssocOK
    BY DEF MainInv
  <2>2. CASE AssocInv
    BY <2>2, AssocInvDealtOut
  <2>3. CASE ~returned /\ \A w \in AllWorkers : ns_ctx[w] = <<>>
    BY <2>3 DEF DealtOut, NobodyIdle, NoNamespaceTwice, Balanced
  <2>4. QED
    BY <2>1, <2>2, <2>3 DEF AssocOK
<1>2. QED
  BY <1>1, MainInvAlways, PTL
=============================================================================
