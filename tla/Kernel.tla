------------------------------- MODULE Kernel -------------------------------
(***************************************************************************)
(* Environments and CPUs in the JOS kernel of 3-sched, built with the      *)
(* round-robin scheduler: the envs table and its free list (kern/env.c),   *)
(* the scheduler (kern/sched.c), the entry into and the exit from the      *)
(* kernel (kern/trap.c, env_run) and the system calls that change an       *)
(* environment's life (kern/syscall.c).                                    *)
(*                                                                         *)
(* The big kernel lock is the atomic lock of Mutex, which SpinLock         *)
(* implements.  What a CPU does between lock_kernel and unlock_kernel is   *)
(* one step; what it does outside the lock (taking a trap, entering user   *)
(* mode after env_run has unlocked) is a step of its own.                  *)
(***************************************************************************)
EXTENDS Naturals, Sequences

CONSTANTS
  CPUs,         \* the processors
  BSP,          \* the one that boots the others
  NoCPU,        \* the owner of the big kernel lock when nobody holds it
  NENV,         \* the number of slots of envs[]
  MaxGen,       \* how many generations an environment id tells apart
  Initial,      \* the environments i386_init creates with ENV_CREATE
  Syscalls,     \* the system calls the programs make
  Liberties,    \* what the programs do that those of the repository do not
  Keyboard      \* whether someone types at the console

AllSyscalls == {"yield", "exofork", "env_set_status", "env_destroy",
                "ipc_recv", "ipc_try_send"}

(***************************************************************************)
(* The programs of the repository are disciplined: they mark RUNNABLE only *)
(* the child they have just made (lib/fork.c:183,247, user/dumbfork.c:75), *)
(* receive at a valid address (lib/ipc.c:25) and kill a child at most once *)
(* (user/spin.c:29).  A liberty lifts one of these.                        *)
(***************************************************************************)
AllLiberties == {"any_status", "bad_dstva", "kill_zombie"}

ASSUME KernelAssumption ==
  /\ BSP \in CPUs
  /\ NoCPU \notin CPUs
  /\ NENV \in Nat \ {0}
  /\ MaxGen \in Nat \ {0}
  /\ Initial \in 1 .. NENV
  /\ Syscalls \subseteq AllSyscalls
  /\ Liberties \subseteq AllLiberties
  /\ Keyboard \in BOOLEAN

Envs == 0 .. NENV - 1
NULL == NENV                \* no environment

Statuses == {"FREE", "DYING", "RUNNABLE", "RUNNING", "NOT_RUNNABLE"}

VARIABLES
  env_status,       \* envs[e].env_status
  env_gen,          \* the generation in envs[e].env_id, 0 before the first use
  env_parent_id,    \* envs[e].env_parent_id
  env_ipc_recving,  \* envs[e].env_ipc_recving
  env_free_list,    \* the free list, first to be allocated first
  curenv,           \* cpus[c].cpu_env, or NULL
  pc,               \* where each CPU is
  kernel_lock       \* the CPU that keeps the big kernel lock over this state

table == <<env_gen, env_parent_id, env_ipc_recving, env_free_list>>
vars == <<env_status, table, curenv, pc, kernel_lock>>

(***************************************************************************)
(* "boot"     about to call sched_yield for the first time                 *)
(* "user"     in user mode                                                 *)
(* "trap"     trapped from user mode by a system call or a fault           *)
(* "timer"    trapped from user mode by the timer                          *)
(* "resume"   in env_run, after unlock_kernel and before context_switch    *)
(* "halted"   in the hlt loop of sched_halt                                *)
(* "wake"     woken from it by the timer                                   *)
(* "key"      woken from it by the keyboard                                *)
(* "monitor"  in the kernel monitor: nothing is left to run                *)
(* "panic"    in the kernel monitor, after a panic                         *)
(* "stopped"  halted in trap because another CPU has panicked              *)
(***************************************************************************)
Locations == {"boot", "user", "trap", "timer", "resume", "halted", "wake",
              "key", "monitor", "panic", "stopped"}

(* The locations at which a CPU runs an environment. *)
OnEnv == {"user", "trap", "timer", "resume"}

(* Environment ids: a generation and a slot; 0 is the id of no environment *)
(* and stands for the caller.                                              *)
Zero == <<0, 0>>
EnvIds == {Zero} \cup ((1 .. MaxGen) \X Envs)
EnvId(e) == <<env_gen[e], e>>

-----------------------------------------------------------------------------
(* kern/env.c *)

(* Mutant: a FREE slot passes. *)
Envid2envFree(c, id, e, checkperm) ==
  \/ /\ id = Zero
     /\ e = curenv[c]
  \/ /\ id # Zero
     /\ e = id[2]
     /\ EnvId(e) = id
     /\ checkperm => e = curenv[c] \/ env_parent_id[e] = EnvId(curenv[c])

(* The slot an id given by the environment of c denotes, if it passes      *)
(* envid2env.                                                              *)
Envid2env(c, id, e, checkperm) ==
  \/ /\ id = Zero
     /\ e = curenv[c]
  \/ /\ id # Zero
     /\ e = id[2]
     /\ env_status[e] # "FREE"
     /\ EnvId(e) = id
     /\ checkperm => e = curenv[c] \/ env_parent_id[e] = EnvId(curenv[c])

(* Mutant: no check of the sign. *)
NextGenUnbounded(g) == g + 1

(* The 32-bit id that would become negative starts over. *)
NextGen(g) == IF g >= MaxGen THEN 1 ELSE g + 1

(* Mutant: the slot stays on the list. *)
EnvAllocKeeps(e, parent_id) ==
  /\ env_free_list # <<>>
  /\ e = Head(env_free_list)
  /\ env_gen' = [env_gen EXCEPT ![e] = NextGen(@)]
  /\ env_parent_id' = [env_parent_id EXCEPT ![e] = parent_id]
  /\ env_ipc_recving' = [env_ipc_recving EXCEPT ![e] = FALSE]
  /\ UNCHANGED env_free_list

(* env_alloc takes the head of the free list. *)
EnvAlloc(e, parent_id) ==
  /\ env_free_list # <<>>
  /\ e = Head(env_free_list)
  /\ env_gen' = [env_gen EXCEPT ![e] = NextGen(@)]
  /\ env_parent_id' = [env_parent_id EXCEPT ![e] = parent_id]
  /\ env_ipc_recving' = [env_ipc_recving EXCEPT ![e] = FALSE]
  /\ env_free_list' = Tail(env_free_list)

(* What env_free does to the table besides the status of e. *)
EnvFree(e) ==
  /\ env_free_list' = <<e>> \o env_free_list
  /\ UNCHANGED <<env_gen, env_parent_id, env_ipc_recving>>

(* env_run on CPU c, whose curenv is cur, with the statuses st. *)
EnvRun(c, e, cur, st) ==
  /\ env_status' = [x \in Envs |-> IF x = e THEN "RUNNING"
                                   ELSE IF x = cur /\ st[x] = "RUNNING" THEN "RUNNABLE"
                                   ELSE st[x]]
  /\ curenv' = [curenv EXCEPT ![c] = e]
  /\ pc' = [pc EXCEPT ![c] = "resume"]
  /\ kernel_lock' = NoCPU

-----------------------------------------------------------------------------
(* kern/sched.c *)

(* How far the circular search from start goes before it meets e. *)
Distance(start, e) == (e + NENV - start) % NENV

(* Mutant: whatever is not FREE and not running is taken. *)
FirstNotRunning(e, start, st) ==
  LET Ready(f) == st[f] \in {"RUNNABLE", "NOT_RUNNABLE"}
  IN Ready(e) /\ \A f \in Envs : Ready(f) => Distance(start, e) <= Distance(start, f)

(* e is the first RUNNABLE environment of the circular search from start. *)
FirstRunnable(e, start, st) ==
  /\ st[e] = "RUNNABLE"
  /\ \A f \in Envs : st[f] = "RUNNABLE" => Distance(start, e) <= Distance(start, f)

(* Mutant: environments on other CPUs are not counted. *)
SchedHaltAlone(c, cur, st) ==
  /\ env_status' = st
  /\ IF \E e \in Envs : st[e] = "RUNNABLE"
     THEN /\ curenv' = [curenv EXCEPT ![c] = NULL]
          /\ pc' = [pc EXCEPT ![c] = "halted"]
          /\ kernel_lock' = NoCPU
     ELSE /\ curenv' = [curenv EXCEPT ![c] = cur]
          /\ pc' = [pc EXCEPT ![c] = "monitor"]
          /\ kernel_lock' = c

SchedHalt(c, cur, st) ==
  /\ env_status' = st
  /\ IF \E e \in Envs : st[e] \in {"RUNNABLE", "RUNNING", "DYING"}
     THEN /\ curenv' = [curenv EXCEPT ![c] = NULL]
          /\ pc' = [pc EXCEPT ![c] = "halted"]
          /\ kernel_lock' = NoCPU
     ELSE /\ curenv' = [curenv EXCEPT ![c] = cur]
          /\ pc' = [pc EXCEPT ![c] = "monitor"]
          /\ kernel_lock' = c

(* Mutant: an environment that can go on does. *)
SchedYieldSticky(c, cur, st) ==
  \/ /\ cur # NULL /\ st[cur] = "RUNNING"
     /\ EnvRun(c, cur, cur, st)
  \/ /\ ~ (cur # NULL /\ st[cur] = "RUNNING")
     /\ \/ \E e \in Envs : /\ FirstRunnable(e, IF cur = NULL THEN 0 ELSE cur, st)
                           /\ EnvRun(c, e, cur, st)
        \/ /\ \A e \in Envs : st[e] # "RUNNABLE"
           /\ SchedHalt(c, cur, st)

(* sched_yield on CPU c, whose curenv is cur, with the statuses st. *)
SchedYield(c, cur, st) ==
  \/ \E e \in Envs : /\ FirstRunnable(e, IF cur = NULL THEN 0 ELSE cur, st)
                     /\ EnvRun(c, e, cur, st)
  \/ /\ \A e \in Envs : st[e] # "RUNNABLE"
     /\ cur # NULL /\ st[cur] = "RUNNING"
     /\ EnvRun(c, cur, cur, st)
  \/ /\ \A e \in Envs : st[e] # "RUNNABLE"
     /\ ~ (cur # NULL /\ st[cur] = "RUNNING")
     /\ SchedHalt(c, cur, st)

-----------------------------------------------------------------------------
(* kern/trap.c and kern/init.c: entering and leaving the kernel *)

Goto(c, from, to) ==
  /\ pc[c] = from
  /\ pc' = [pc EXCEPT ![c] = to]

(* Mutant: a panic elsewhere goes unnoticed. *)
EnterAnyway(c, from, to) ==
  /\ Goto(c, from, to)
  /\ UNCHANGED <<env_status, table, curenv, kernel_lock>>

(* trap() first halts the CPU if another one has panicked. *)
Enter(c, from, to) ==
  /\ Goto(c, from, IF \E d \in CPUs : pc[d] = "panic" THEN "stopped" ELSE to)
  /\ UNCHANGED <<env_status, table, curenv, kernel_lock>>

UserTrap(c) == Enter(c, "user", "trap")
TimerTrap(c) == Enter(c, "user", "timer")
WakeTrap(c) == Enter(c, "halted", "wake")

(* kbd_init unmasks the keyboard, which interrupts the boot processor.     *)
KeyTrap(c) ==
  /\ Keyboard /\ c = BSP
  /\ Enter(c, "halted", "key")

(* The rest of env_run: context_switch, outside the lock. *)
Resume(c) ==
  /\ Goto(c, "resume", "user")
  /\ UNCHANGED <<env_status, table, curenv, kernel_lock>>

(* _panic stays in the monitor, and keeps the lock. *)
Panic(c) ==
  /\ pc' = [pc EXCEPT ![c] = "panic"]
  /\ kernel_lock' = c
  /\ UNCHANGED <<env_status, table, curenv>>

(* lock_kernel: the CPU that boots the others already has the lock. *)
Locking(c) == kernel_lock = NoCPU \/ kernel_lock = c

Boot(c) ==
  /\ pc[c] = "boot" /\ Locking(c)
  /\ SchedYield(c, NULL, env_status)
  /\ UNCHANGED table

Wake(c) ==
  /\ pc[c] = "wake" /\ Locking(c)
  /\ SchedYield(c, curenv[c], env_status)
  /\ UNCHANGED table

(* There is no gate for the keyboard: the trap is unexpected, and from     *)
(* kernel mode that is a panic.                                            *)
UnexpectedTrap(c) ==
  /\ pc[c] = "key" /\ Locking(c)
  /\ Panic(c)

(* A zombie is collected before its trap is looked at. *)
CollectZombie(c) ==
  /\ pc[c] \in {"trap", "timer"} /\ Locking(c)
  /\ env_status[curenv[c]] = "DYING"
  /\ EnvFree(curenv[c])
  /\ SchedYield(c, NULL, [env_status EXCEPT ![curenv[c]] = "FREE"])

(* Mutant: a zombie is served like any other. *)
DispatchAny(c, kind) ==
  /\ pc[c] = kind /\ Locking(c)

(* The trap of an environment that is no zombie is dispatched. *)
Dispatch(c, kind) ==
  /\ pc[c] = kind /\ Locking(c)
  /\ env_status[curenv[c]] # "DYING"

(* trap() after trap_dispatch has returned. *)
Return(c, st) ==
  IF st[curenv[c]] = "RUNNING"
  THEN EnvRun(c, curenv[c], curenv[c], st)
  ELSE SchedYield(c, curenv[c], st)

Timer(c) ==
  /\ Dispatch(c, "timer")
  /\ SchedYield(c, curenv[c], env_status)
  /\ UNCHANGED table

-----------------------------------------------------------------------------
(* kern/syscall.c *)

Syscall(c, name) == name \in Syscalls /\ Dispatch(c, "trap")

(* A call that fails, or changes nothing that is modelled, and a page      *)
(* fault the environment handles itself.                                   *)
OtherSyscall(c) ==
  /\ Dispatch(c, "trap")
  /\ Return(c, env_status)
  /\ UNCHANGED table

SysYield(c) ==
  /\ Syscall(c, "yield")
  /\ SchedYield(c, curenv[c], env_status)
  /\ UNCHANGED table

SysExofork(c) ==
  /\ Syscall(c, "exofork")
  /\ \E e \in Envs :
       /\ EnvAlloc(e, EnvId(curenv[c]))
       /\ Return(c, [env_status EXCEPT ![e] = "NOT_RUNNABLE"])

(* The child exofork has just made: neither started nor waiting for IPC. *)
Newborn(e) == env_status[e] = "NOT_RUNNABLE" /\ ~env_ipc_recving[e]

SysEnvSetStatus(c) ==
  /\ Syscall(c, "env_set_status")
  /\ \E id \in EnvIds, e \in Envs, status \in {"RUNNABLE", "NOT_RUNNABLE"} :
       /\ Envid2env(c, id, e, TRUE)
       /\ "any_status" \in Liberties
            \/ (status = "RUNNABLE" /\ e # curenv[c] /\ Newborn(e))
       /\ Return(c, [env_status EXCEPT ![e] = status])
  /\ UNCHANGED table

(* Mutant: an environment is freed under the CPU that runs it. *)
EnvDestroyAtOnce(c, e) ==
  IF env_status[e] = "FREE"
  THEN Panic(c)
  ELSE /\ EnvFree(e)
       /\ LET st == [env_status EXCEPT ![e] = "FREE"]
          IN IF curenv[c] = e THEN SchedYield(c, NULL, st) ELSE Return(c, st)

(* env_destroy: an environment that runs on another CPU becomes a zombie;  *)
(* env_free on a slot already free would follow its null page directory.   *)
EnvDestroy(c, e) ==
  IF env_status[e] = "RUNNING" /\ curenv[c] # e
  THEN /\ Return(c, [env_status EXCEPT ![e] = "DYING"])
       /\ UNCHANGED table
  ELSE IF env_status[e] = "FREE"
  THEN Panic(c)
  ELSE /\ EnvFree(e)
       /\ LET st == [env_status EXCEPT ![e] = "FREE"]
          IN IF curenv[c] = e THEN SchedYield(c, NULL, st) ELSE Return(c, st)

SysEnvDestroy(c) ==
  /\ Syscall(c, "env_destroy")
  /\ \E id \in EnvIds, e \in Envs :
       /\ Envid2env(c, id, e, TRUE)
       /\ "kill_zombie" \in Liberties \/ env_status[e] # "DYING"
       /\ EnvDestroy(c, e)

(* env_ipc_recving is set before dstva is looked at. *)
SysIpcRecv(c) ==
  /\ Syscall(c, "ipc_recv")
  /\ env_ipc_recving' = [env_ipc_recving EXCEPT ![curenv[c]] = TRUE]
  /\ \/ SchedYield(c, curenv[c], [env_status EXCEPT ![curenv[c]] = "NOT_RUNNABLE"])
     \/ /\ "bad_dstva" \in Liberties
        /\ Return(c, env_status)
  /\ UNCHANGED <<env_gen, env_parent_id, env_free_list>>

(* Mutant: the receive stays pending. *)
SysIpcTrySendAgain(c) ==
  /\ Syscall(c, "ipc_try_send")
  /\ \E id \in EnvIds, e \in Envs :
       /\ Envid2env(c, id, e, FALSE)
       /\ env_ipc_recving[e]
       /\ Return(c, [env_status EXCEPT ![e] = "RUNNABLE"])
  /\ UNCHANGED table

SysIpcTrySend(c) ==
  /\ Syscall(c, "ipc_try_send")
  /\ \E id \in EnvIds, e \in Envs :
       /\ Envid2env(c, id, e, FALSE)
       /\ env_ipc_recving[e]
       /\ env_ipc_recving' = [env_ipc_recving EXCEPT ![e] = FALSE]
       /\ Return(c, [env_status EXCEPT ![e] = "RUNNABLE"])
  /\ UNCHANGED <<env_gen, env_parent_id, env_free_list>>

-----------------------------------------------------------------------------
(* i386_init has created the first environments and started the other CPUs,*)
(* which wait for the lock in mp_main.                                     *)
Init ==
  /\ env_status = [e \in Envs |-> IF e < Initial THEN "RUNNABLE" ELSE "FREE"]
  /\ env_gen = [e \in Envs |-> IF e < Initial THEN 1 ELSE 0]
  /\ env_parent_id = [e \in Envs |-> Zero]
  /\ env_ipc_recving = [e \in Envs |-> FALSE]
  /\ env_free_list = [i \in 1 .. NENV - Initial |-> Initial + i - 1]
  /\ curenv = [c \in CPUs |-> NULL]
  /\ pc = [c \in CPUs |-> "boot"]
  /\ kernel_lock = BSP

(* What a CPU does once it gets the lock. *)
Handle(c) ==
  \/ Boot(c) \/ Wake(c) \/ UnexpectedTrap(c) \/ CollectZombie(c) \/ Timer(c)
  \/ OtherSyscall(c) \/ SysYield(c) \/ SysExofork(c) \/ SysEnvSetStatus(c)
  \/ SysEnvDestroy(c) \/ SysIpcRecv(c) \/ SysIpcTrySend(c)

(* What a CPU does without it. *)
Unlocked(c) == UserTrap(c) \/ TimerTrap(c) \/ WakeTrap(c) \/ KeyTrap(c) \/ Resume(c)

Next == \E c \in CPUs : Handle(c) \/ Unlocked(c)

Spec == Init /\ [][Next]_vars

(***************************************************************************)
(* A CPU that enters user mode does enter it.  The local APIC timer is     *)
(* periodic and interrupts are on in user mode and in the hlt loop, so a   *)
(* CPU that keeps returning to user mode is interrupted by the timer.  A   *)
(* CPU that spins for the lock gets it if it is free again and again: the  *)
(* xchg does not promise that, the pause of unlock_kernel is there for it. *)
(***************************************************************************)
Fairness ==
  \A c \in CPUs :
    /\ WF_vars(Resume(c))
    /\ WF_vars(WakeTrap(c))
    /\ SF_vars(TimerTrap(c))
    /\ SF_vars(Handle(c))

FairSpec == Spec /\ Fairness
-----------------------------------------------------------------------------
(* Properties *)

(* The types of the table, the curenv of the CPUs and the lock. *)
TypeOK ==
  /\ env_status \in [Envs -> Statuses]
  /\ env_gen \in [Envs -> 0 .. MaxGen]
  /\ env_parent_id \in [Envs -> EnvIds]
  /\ env_ipc_recving \in [Envs -> BOOLEAN]
  /\ env_free_list \in Seq(Envs)
  /\ curenv \in [CPUs -> Envs \cup {NULL}]
  /\ pc \in [CPUs -> Locations]
  /\ kernel_lock \in CPUs \cup {NoCPU}

(* No environment is ever on two CPUs, in user mode, on its way into the   *)
(* kernel or on its way out after env_run gave up the lock, and the status *)
(* in the table agrees with the curenv of the CPUs: RUNNING and DYING are  *)
(* exactly the environments some CPU is on (sched.c:85-86,                 *)
(* stresssched.c:25).                                                      *)
OneCpuPerEnv ==
  /\ \A c, d \in CPUs : curenv[c] = curenv[d] /\ curenv[c] # NULL => c = d
  /\ \A c \in CPUs : pc[c] \in OnEnv =>
       curenv[c] # NULL /\ env_status[curenv[c]] \in {"RUNNING", "DYING"}
  /\ \A e \in Envs : env_status[e] \in {"RUNNING", "DYING"} =>
       \E c \in CPUs : curenv[c] = e

(* The free list holds every FREE slot once and no other slot, so a slot   *)
(* is neither lost nor handed out twice (env_alloc, env_free).             *)
FreeListExact ==
  /\ \A e \in Envs : env_status[e] = "FREE" <=>
                       \E i \in 1 .. Len(env_free_list) : env_free_list[i] = e
  /\ \A i, j \in 1 .. Len(env_free_list) : env_free_list[i] = env_free_list[j] => i = j

(* A CPU gives up in the monitor, keeping the lock for ever, only when no  *)
(* environment is left to run on any CPU (sched.c:160-173).                *)
MonitorOnlyWhenIdle ==
  \A c \in CPUs : pc[c] = "monitor" =>
    /\ kernel_lock = c
    /\ \A e \in Envs : env_status[e] \in {"FREE", "NOT_RUNNABLE"}
    /\ \A d \in CPUs : pc[d] \notin OnEnv

(* An environment whose env_ipc_recving is set is blocked: only then may a *)
(* sender mark it RUNNABLE (syscall.c:321-322 and 397).                    *)
ReceiverBlocked ==
  \A e \in Envs : env_status[e] # "FREE" /\ env_ipc_recving[e] => env_status[e] = "NOT_RUNNABLE"

(* The kernel does not panic. *)
NoPanic == \A c \in CPUs : pc[c] # "panic"

(* A zombie is freed by the next trap of the CPU it runs on, and nothing   *)
(* else happens to it (env.c:468-470).                                     *)
ZombieFreedByItsTrap ==
  [][\A e \in Envs : env_status[e] = "DYING" /\ env_status'[e] # "DYING" =>
       /\ env_status'[e] = "FREE"
       /\ \E c \in CPUs : curenv[c] = e /\ pc[c] \in {"trap", "timer"} /\ pc'[c] # pc[c]]_vars

(* Nothing but a message wakes a receiver: it does not become RUNNABLE     *)
(* with its receive still pending.                                         *)
WokenBySend ==
  [][\A e \in Envs : /\ env_status[e] = "NOT_RUNNABLE" /\ env_ipc_recving[e]
                     /\ env_status'[e] \in {"RUNNABLE", "RUNNING"}
                     => ~env_ipc_recving'[e]]_vars

Panicked == \E c \in CPUs : pc[c] = "panic"

(* A zombie is freed in the end, unless the kernel panics: the CPU it runs *)
(* on traps, by itself or by the timer, and gets the lock.                 *)
ZombiesAreFreed ==
  \A e \in Envs : env_status[e] = "DYING" ~> (env_status[e] = "FREE" \/ Panicked)

(* A slot of the table is taken. *)
Created == \E e \in Envs : env_status[e] = "FREE" /\ env_status'[e] # "FREE"

(* Round robin starves nobody: a RUNNABLE environment runs in the end, or  *)
(* is destroyed, unless the kernel panics or environments are created for  *)
(* ever.                                                                   *)
NoStarvation ==
  \/ []<><<Created>>_vars
  \/ \A e \in Envs : env_status[e] = "RUNNABLE" ~> (env_status[e] # "RUNNABLE" \/ Panicked)

(* A panic stops every CPU that is in user mode, at its next trap          *)
(* (trap.c:251-254).                                                       *)
PanicHaltsTheOthers ==
  \A d \in CPUs : (Panicked /\ pc[d] \in {"user", "resume"})
                     ~> pc[d] = "stopped"
=============================================================================
