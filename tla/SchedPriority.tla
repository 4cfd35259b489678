---------------------------- MODULE SchedPriority ----------------------------
(***************************************************************************)
(* The priority scheduler of 3-sched (kern/sched.c built with USE_PR=1)    *)
(* and its statistics, on top of as much of an environment's life as it    *)
(* depends on.  Every action is one visit of a CPU to the kernel, from the *)
(* trap to the return to user mode, under the big kernel lock; Kernel has  *)
(* the traps, the ids and the zombies that are left out here.              *)
(*                                                                         *)
(* Two accesses of the scheduler are outside their arrays.  The execution  *)
(* count it tests is at env_id, not at the slot, so whether the chosen     *)
(* environment is degraded depends on memory that counts nothing (as long  *)
(* as the ids are so small that the places they denote are mapped); and the*)
(* history has NENV entries and no end, so that the runs after the last    *)
(* entry are written over the fields that follow it in sched_stats.        *)
(***************************************************************************)
EXTENDS Naturals

CONSTANTS
  CPUs,             \* the processors
  NENV,             \* the number of slots of envs[]
  Initial,          \* the environments i386_init creates
  MAX_PRIORITY,
  BOOST_INTERVAL

MIN_PRIORITY == 0

(* In the code 2, 1024, 5 and 20: the boost comes long before the history  *)
(* is full.                                                                *)
ASSUME SchedAssumption ==
  /\ NENV \in Nat \ {0} /\ Initial \in 1 .. NENV
  /\ MAX_PRIORITY \in Nat \ {0}
  /\ BOOST_INTERVAL \in 1 .. NENV

Envs == 0 .. NENV - 1
NULL == NENV
Priorities == MIN_PRIORITY .. MAX_PRIORITY
Statuses == {"FREE", "RUNNABLE", "RUNNING", "NOT_RUNNABLE"}

(* struct SchedStats, in ints from history[0]: where the fields lie that   *)
(* the end of history meets, and the first place after the struct, at      *)
(* which the model stops counting.                                         *)
CallsField == NENV
IndexField == 2 * NENV + 1
Beyond == 2 * NENV + 3

VARIABLES
  env_status,       \* envs[e].env_status
  env_priority,     \* envs[e].env_priority
  curenv,           \* cpus[c].cpu_env, or NULL
  monitor,          \* a CPU is in the monitor, with the lock
  scheduler_calls,  \* the count in sched_stats, up to BOOST_INTERVAL
  history_index     \* the next entry of history, up to Beyond

vars == <<env_status, env_priority, curenv, monitor, scheduler_calls, history_index>>

-----------------------------------------------------------------------------
(* sched_yield *)

(* One more call.  Only whether it has reached BOOST_INTERVAL matters.     *)
CountCall == IF scheduler_calls < BOOST_INTERVAL THEN scheduler_calls + 1 ELSE scheduler_calls

(* Mutant: nobody is boosted. *)
BoostNobody(st, pr) == pr

(* boost_all_envs *)
BoostAll(st, pr) ==
  [e \in Envs |-> IF st[e] # "FREE" /\ pr[e] < MAX_PRIORITY THEN pr[e] + 1 ELSE pr[e]]

(* How far the circular search from start goes before it meets e. *)
Distance(start, e) == (e + NENV - start) % NENV

(* Mutant: best_priority is not updated, so the last candidate wins. *)
BestLast(e, start, st, pr) ==
  /\ st[e] = "RUNNABLE"
  /\ \A f \in Envs : st[f] = "RUNNABLE" => Distance(start, f) <= Distance(start, e)

(* The first RUNNABLE environment of the circular search that has the      *)
(* highest priority.                                                       *)
BestPriority(e, start, st, pr) ==
  /\ st[e] = "RUNNABLE"
  /\ \A f \in Envs : st[f] = "RUNNABLE" =>
       \/ pr[f] < pr[e]
       \/ pr[f] = pr[e] /\ Distance(start, e) <= Distance(start, f)

(* add_counts_to_sched, given an env_id: the slot it records is read from  *)
(* outside envs[], and the entry it writes may be the count of calls or,   *)
(* in an order C does not fix, the index that is being incremented.        *)
AddCounts(calls) ==
  \E index_sched \in Envs :
    /\ scheduler_calls' =
         IF history_index # CallsField THEN calls
         ELSE IF index_sched < BOOST_INTERVAL THEN index_sched ELSE BOOST_INTERVAL
    /\ \/ history_index' = IF history_index < Beyond THEN history_index + 1 ELSE Beyond
       \/ history_index = IndexField /\ history_index' = index_sched

(* The chosen environment loses a level, or not. *)
Degrade(e, pr) ==
  \/ env_priority' = pr
  \/ pr[e] > MIN_PRIORITY /\ env_priority' = [pr EXCEPT ![e] = @ - 1]

(* env_run *)
EnvRun(c, e, cur, st) ==
  /\ env_status' = [x \in Envs |-> IF x = e THEN "RUNNING"
                                   ELSE IF x = cur /\ st[x] = "RUNNING" THEN "RUNNABLE"
                                   ELSE st[x]]
  /\ curenv' = [curenv EXCEPT ![c] = e]
  /\ UNCHANGED monitor

(* sched_halt *)
SchedHalt(c, cur, st) ==
  /\ env_status' = st
  /\ IF \E e \in Envs : st[e] \in {"RUNNABLE", "RUNNING"}
     THEN curenv' = [curenv EXCEPT ![c] = NULL] /\ UNCHANGED monitor
     ELSE curenv' = [curenv EXCEPT ![c] = cur] /\ monitor' = TRUE

(* sched_yield on CPU c, whose curenv is cur, with the statuses st. *)
SchedYield(c, cur, st) ==
  LET pr == IF CountCall >= BOOST_INTERVAL THEN BoostAll(st, env_priority) ELSE env_priority
  IN \/ \E e \in Envs :
          /\ BestPriority(e, IF cur = NULL THEN 0 ELSE cur, st, pr)
          /\ AddCounts(CountCall)
          /\ Degrade(e, pr)
          /\ EnvRun(c, e, cur, st)
     \/ /\ \A e \in Envs : st[e] # "RUNNABLE"
        /\ env_priority' = pr
        /\ scheduler_calls' = CountCall
        /\ UNCHANGED history_index
        /\ IF cur # NULL /\ st[cur] = "RUNNING"
           THEN EnvRun(c, cur, cur, st)
           ELSE SchedHalt(c, cur, st)

-----------------------------------------------------------------------------
(* The visits to the kernel *)

Running(c) == ~monitor /\ curenv[c] # NULL

(* A system call after which the environment goes on. *)
GoOn == UNCHANGED <<curenv, monitor, scheduler_calls, history_index>>

(* The timer interrupt, in user mode or in the hlt loop; sys_yield; the    *)
(* first call, from i386_init or mp_main.                                  *)
Tick(c) ==
  /\ ~monitor
  /\ SchedYield(c, curenv[c], env_status)

(* sys_ipc_recv *)
Block(c) ==
  /\ Running(c)
  /\ SchedYield(c, curenv[c], [env_status EXCEPT ![curenv[c]] = "NOT_RUNNABLE"])

(* sys_env_destroy of the environment itself *)
Exit(c) ==
  /\ Running(c)
  /\ SchedYield(c, NULL, [env_status EXCEPT ![curenv[c]] = "FREE"])

(* sys_ipc_try_send to a blocked environment, sys_env_set_status on the    *)
(* child just made                                                         *)
Unblock(c) ==
  /\ Running(c)
  /\ \E e \in Envs : /\ env_status[e] = "NOT_RUNNABLE"
                     /\ env_status' = [env_status EXCEPT ![e] = "RUNNABLE"]
  /\ UNCHANGED env_priority
  /\ GoOn

(* sys_exofork: the child starts with the priority of its parent.          *)
Fork(c) ==
  /\ Running(c)
  /\ \E e \in Envs : /\ env_status[e] = "FREE"
                     /\ env_status' = [env_status EXCEPT ![e] = "NOT_RUNNABLE"]
                     /\ env_priority' = [env_priority EXCEPT ![e] = env_priority[curenv[c]]]
  /\ GoOn

(* Mutant: an environment may raise its own priority. *)
SetPriorityFreely(c) ==
  /\ Running(c)
  /\ \E p \in Priorities \ {MAX_PRIORITY} :
       env_priority' = [env_priority EXCEPT ![curenv[c]] = p]
  /\ UNCHANGED env_status
  /\ GoOn

(* sys_set_priority *)
SetPriority(c) ==
  /\ Running(c)
  /\ \E p \in Priorities \ {MAX_PRIORITY} :
       /\ p <= env_priority[curenv[c]]
       /\ env_priority' = [env_priority EXCEPT ![curenv[c]] = p]
  /\ UNCHANGED env_status
  /\ GoOn

Init ==
  /\ env_status = [e \in Envs |-> IF e < Initial THEN "RUNNABLE" ELSE "FREE"]
  /\ env_priority = [e \in Envs |-> IF e < Initial THEN MAX_PRIORITY ELSE 0]
  /\ curenv = [c \in CPUs |-> NULL]
  /\ monitor = FALSE
  /\ scheduler_calls = 0
  /\ history_index = 0

Next == \E c \in CPUs : Tick(c) \/ Block(c) \/ Exit(c) \/ Unblock(c) \/ Fork(c) \/ SetPriority(c)

Spec == Init /\ [][Next]_vars

(* The timer of every CPU goes on ticking. *)
FairSpec == Spec /\ \A c \in CPUs : WF_vars(Tick(c))

-----------------------------------------------------------------------------
(* Properties *)

(* The types: priorities stay within their bounds. *)
TypeOK ==
  /\ env_status \in [Envs -> Statuses]
  /\ env_priority \in [Envs -> Priorities]
  /\ curenv \in [CPUs -> Envs \cup {NULL}]
  /\ monitor \in BOOLEAN
  /\ scheduler_calls \in 0 .. BOOST_INTERVAL
  /\ history_index \in 0 .. Beyond

(* The boost is due at the next visit of the scheduler. *)
BoostDue == scheduler_calls + 1 >= BOOST_INTERVAL

(* The priority that e brings to the next visit of the scheduler: boosted, *)
(* when the boost is due, and not yet degraded.                            *)
Standing(e) ==
  IF BoostDue /\ env_priority[e] < MAX_PRIORITY THEN env_priority[e] + 1 ELSE env_priority[e]

(* The scheduler chooses one of the most important of the environments     *)
(* that wait, whatever their priorities have become by then: a CPU changes *)
(* to a RUNNABLE environment which no CPU runs and to which no RUNNABLE    *)
(* one is preferred, not even by one level, that environment loses one     *)
(* level at most by it, and a CPU halts only if nobody is RUNNABLE         *)
(* (sched.c:71-81,109-136; sched.md:32-34).                                *)
MostImportantChosen ==
  [][\A c \in CPUs :
       LET chosen == curenv'[c]
       IN /\ curenv[c] # NULL /\ chosen = NULL =>
               \A e \in Envs : env_status[e] # "RUNNABLE"
          /\ chosen # curenv[c] /\ chosen # NULL =>
               /\ env_status[chosen] = "RUNNABLE"
               /\ \A d \in CPUs : curenv[d] # chosen
               /\ \A e \in Envs :
                    env_status[e] = "RUNNABLE" => Standing(e) <= Standing(chosen)
               /\ env_priority'[chosen] <= Standing(chosen)
               /\ Standing(chosen) <= env_priority'[chosen] + 1]_vars

(* No environment becomes more important by what it does itself: only the  *)
(* scheduler's boost raises the priority of an environment, when it is     *)
(* due, and then of all that wait, RUNNABLE or blocked, and are not at the *)
(* top (sched.c:47-56,104-107; syscall.c:433-442).  How far they rise is   *)
(* the question of BoostRestoresMaximum.                                   *)
OnlyBoostRaises ==
  [][\A e \in Envs :
       env_status[e] # "FREE" /\ env_priority'[e] > env_priority[e] =>
         /\ BoostDue
         /\ \A f \in Envs : env_status'[f] \in {"RUNNABLE", "NOT_RUNNABLE"} =>
              env_priority'[f] > env_priority[f] \/ env_priority[f] = MAX_PRIORITY]_vars

(* What sched.md:40-43 says of the boost: everybody gets the highest       *)
(* priority back, but for the level the chosen one may lose at once.  The  *)
(* code raises everybody by one (sched.c:47-56).                           *)
BoostRestoresMaximum ==
  [][\A e \in Envs :
       /\ env_status[e] # "FREE" /\ env_priority'[e] > env_priority[e]
       /\ env_status'[e] # "RUNNING"
       => env_priority'[e] = MAX_PRIORITY]_vars

(* A slot of the table is taken. *)
Created == \E e \in Envs : env_status[e] = "FREE" /\ env_status'[e] # "FREE"

(* Nobody starves (sched.c:104-105): whatever the memory says that decides *)
(* who is degraded, and although the history runs over the count of calls, *)
(* the boost lets every RUNNABLE environment run in the end, unless        *)
(* environments are created for ever.                                      *)
NoStarvation ==
  \/ []<><<Created>>_vars
  \/ \A e \in Envs : env_status[e] = "RUNNABLE" ~> env_status[e] # "RUNNABLE"
=============================================================================
