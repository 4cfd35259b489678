---------------------------- MODULE KernelProofs ----------------------------
(***************************************************************************)
(* Proofs about Kernel for every number of CPUs, slots and generations and *)
(* every set of system calls, under the discipline of the repository's     *)
(* programs: type correctness, one CPU per environment, an exact free      *)
(* list, blocked receivers, a monitor entered only when nothing is left to *)
(* run and, as long as nobody types, the absence of panics; that zombies   *)
(* are freed by their own traps, and receivers woken by sends.             *)
(***************************************************************************)
EXTENDS Kernel, SequenceTheorems, TLAPS

Disciplined == Liberties = {}

(* Where a CPU has no environment. *)
Unused == {"boot", "halted", "wake", "key"}

(* Where a CPU stays for ever. *)
Final == {"monitor", "panic", "stopped"}

FreeListOK(st, list) ==
  /\ \A e \in Envs : st[e] = "FREE" <=> \E i \in 1 .. Len(list) : list[i] = e
  /\ \A i, j \in 1 .. Len(list) : list[i] = list[j] => i = j

ReceiversOK(st, recving) ==
  \A e \in Envs : st[e] # "FREE" /\ recving[e] => st[e] = "NOT_RUNNABLE"

(* A slot in use has an id, and it is not 0. *)
IdsOK(st, gen) == \A e \in Envs : st[e] # "FREE" => gen[e] # 0

(* The lock outlives a step only at boot, in the monitor and in a panic,   *)
(* and a CPU in one of the last two has it.                                *)
LockOK ==
  /\ kernel_lock # NoCPU => pc[kernel_lock] \in {"boot", "monitor", "panic"}
  /\ \A c \in CPUs : pc[c] \in {"monitor", "panic"} => kernel_lock = c
  /\ \A c \in CPUs : pc[c] = "stopped" => \E d \in CPUs : pc[d] = "panic"

UnusedOK == \A c \in CPUs : pc[c] \in Unused => curenv[c] = NULL

(* The inductive invariant. *)
IInv ==
  /\ TypeOK
  /\ OneCpuPerEnv
  /\ FreeListExact
  /\ ReceiverBlocked
  /\ MonitorOnlyWhenIdle
  /\ IdsOK(env_status, env_gen)
  /\ LockOK
  /\ UnusedOK

(* What holds inside the kernel, on CPU c with curenv cur, between the     *)
(* statements of a handler that leave the statuses st and the scheduler:   *)
(* every other CPU agrees with st, and cur either runs or has blocked.     *)
Settled(c, cur, st) ==
  /\ st \in [Envs -> Statuses]
  /\ cur \in Envs \cup {NULL}
  /\ cur # NULL => st[cur] \in {"RUNNING", "NOT_RUNNABLE"}
  /\ \A d \in CPUs : pc[d] \notin Final
  /\ \A d \in CPUs : d # c /\ curenv[d] # NULL =>
       curenv[d] # cur /\ st[curenv[d]] \in {"RUNNING", "DYING"}
  /\ \A e \in Envs : st[e] \in {"RUNNING", "DYING"} =>
       e = cur \/ \E d \in CPUs : d # c /\ curenv[d] = e

(* The rest of the table, as a handler leaves it. *)
TableOK(st) ==
  /\ env_gen' \in [Envs -> 0 .. MaxGen]
  /\ env_parent_id' \in [Envs -> EnvIds]
  /\ env_ipc_recving' \in [Envs -> BOOLEAN]
  /\ env_free_list' \in Seq(Envs)
  /\ FreeListOK(st, env_free_list')
  /\ ReceiversOK(st, env_ipc_recving')
  /\ IdsOK(st, env_gen')

-----------------------------------------------------------------------------
LEMMA NullNotEnv == NULL \notin Envs
  BY KernelAssumption DEF NULL, Envs

(* A CPU that has the lock, or may take it, shares the machine with no CPU *)
(* that has stopped for good.                                              *)
LEMMA NoneFinal ==
  ASSUME IInv, NEW c \in CPUs, Locking(c), pc[c] \notin Final
  PROVE  \A d \in CPUs : pc[d] \notin Final
<1>1. \A d \in CPUs : pc[d] \notin {"monitor", "panic"}
  BY KernelAssumption DEF IInv, LockOK, Locking, Final
<1> QED BY <1>1 DEF IInv, LockOK, Final

(* Running an environment nobody runs preserves the invariant. *)
LEMMA EnvRunStep ==
  ASSUME IInv, NEW c \in CPUs, NEW cur, NEW st, NEW e \in Envs,
         Settled(c, cur, st), TableOK(st),
         st[e] = "RUNNABLE" \/ (e = cur /\ st[e] = "RUNNING"),
         EnvRun(c, e, cur, st)
  PROVE  IInv'
<1> USE DEF OnEnv, Unused, Final, Statuses, Locations
<1>1. /\ curenv'[c] = e /\ pc'[c] = "resume" /\ kernel_lock' = NoCPU
      /\ env_status'[e] = "RUNNING"
      /\ \A d \in CPUs : d # c => curenv'[d] = curenv[d] /\ pc'[d] = pc[d]
  BY DEF EnvRun, IInv, TypeOK
<1>2. \A x \in Envs : x # e =>
        env_status'[x] = IF x = cur /\ st[x] = "RUNNING" THEN "RUNNABLE" ELSE st[x]
  BY DEF EnvRun
<1>3. \A d \in CPUs : d # c => curenv[d] # e
  BY NullNotEnv DEF Settled
<1>4. TypeOK'
  BY DEF EnvRun, IInv, TypeOK, TableOK, Settled
<1>5. OneCpuPerEnv'
  <2>1. \A d1, d2 \in CPUs : curenv'[d1] = curenv'[d2] /\ curenv'[d1] # NULL => d1 = d2
    BY <1>1, <1>3 DEF IInv, OneCpuPerEnv
  <2>2. \A d \in CPUs : pc'[d] \in OnEnv =>
          curenv'[d] # NULL /\ env_status'[curenv'[d]] \in {"RUNNING", "DYING"}
    <3> SUFFICES ASSUME NEW d \in CPUs, pc'[d] \in OnEnv, d # c
                 PROVE  curenv'[d] # NULL /\ env_status'[curenv'[d]] \in {"RUNNING", "DYING"}
      BY <1>1, NullNotEnv
    <3>1. curenv[d] # NULL /\ curenv[d] \in Envs
      BY <1>1 DEF IInv, OneCpuPerEnv, TypeOK
    <3>2. curenv[d] # e /\ curenv[d] # cur /\ st[curenv[d]] \in {"RUNNING", "DYING"}
      BY <3>1, <1>3 DEF Settled
    <3> QED BY <1>1, <1>2, <3>1, <3>2
  <2>3. \A x \in Envs : env_status'[x] \in {"RUNNING", "DYING"} =>
          \E d \in CPUs : curenv'[d] = x
    <3> SUFFICES ASSUME NEW x \in Envs, env_status'[x] \in {"RUNNING", "DYING"}, x # e
                 PROVE  \E d \in CPUs : curenv'[d] = x
      BY <1>1
    <3>1. st[x] \in {"RUNNING", "DYING"} /\ x # cur
      BY <1>2, NullNotEnv DEF Settled
    <3> QED BY <1>1, <3>1 DEF Settled
  <2> QED BY <2>1, <2>2, <2>3 DEF OneCpuPerEnv
<1>6. /\ \A x \in Envs : env_status'[x] = "FREE" <=> st[x] = "FREE"
      /\ \A x \in Envs : env_status'[x] = "NOT_RUNNABLE" <=> st[x] = "NOT_RUNNABLE"
  BY <1>1, <1>2
<1>7. FreeListExact' /\ ReceiverBlocked' /\ IdsOK(env_status', env_gen')
  BY <1>6 DEF TableOK, FreeListOK, FreeListExact, ReceiversOK, ReceiverBlocked, IdsOK
<1>8. \A d \in CPUs : pc'[d] \notin Final
  BY <1>1 DEF Settled
<1>9. MonitorOnlyWhenIdle' /\ LockOK' /\ UnusedOK'
  BY <1>1, <1>8 DEF MonitorOnlyWhenIdle, LockOK, UnusedOK, IInv
<1> QED BY <1>4, <1>5, <1>7, <1>9 DEF IInv

(* Halting a CPU, or entering the monitor, preserves the invariant. *)
LEMMA SchedHaltStep ==
  ASSUME IInv, NEW c \in CPUs, NEW cur, NEW st,
         Settled(c, cur, st), TableOK(st),
         \A e \in Envs : st[e] # "RUNNABLE",
         ~ (cur # NULL /\ st[cur] = "RUNNING"),
         SchedHalt(c, cur, st)
  PROVE  IInv'
<1> USE DEF OnEnv, Unused, Final, Statuses, Locations
<1>1. \A d \in CPUs : d # c => curenv'[d] = curenv[d] /\ pc'[d] = pc[d]
  BY DEF SchedHalt, IInv, TypeOK
<1>2. env_status' = st /\ pc'[c] \in {"halted", "monitor"}
  <2>1. pc \in [CPUs -> Locations] BY DEF IInv, TypeOK
  <2>2. pc' = [pc EXCEPT ![c] = "halted"] \/ pc' = [pc EXCEPT ![c] = "monitor"]
    BY DEF SchedHalt
  <2> QED BY <2>1, <2>2 DEF SchedHalt
<1>3. cur # NULL => cur \in Envs /\ st[cur] = "NOT_RUNNABLE"
  BY DEF Settled
<1>4. curenv'[c] \in {cur, NULL}
  BY DEF SchedHalt, IInv, TypeOK
<1>5. TypeOK'
  <2>1. /\ pc \in [CPUs -> Locations] /\ curenv \in [CPUs -> Envs \cup {NULL}]
        /\ st \in [Envs -> Statuses] /\ cur \in Envs \cup {NULL}
    BY DEF IInv, TypeOK, Settled
  <2>2. /\ env_status' = st
        /\ \/ /\ curenv' = [curenv EXCEPT ![c] = NULL]
              /\ pc' = [pc EXCEPT ![c] = "halted"] /\ kernel_lock' = NoCPU
           \/ /\ curenv' = [curenv EXCEPT ![c] = cur]
              /\ pc' = [pc EXCEPT ![c] = "monitor"] /\ kernel_lock' = c
    BY DEF SchedHalt
  <2>3. /\ env_status' \in [Envs -> Statuses] /\ curenv' \in [CPUs -> Envs \cup {NULL}]
        /\ pc' \in [CPUs -> Locations] /\ kernel_lock' \in CPUs \cup {NoCPU}
    BY <2>1, <2>2
  <2> QED BY <2>3 DEF TypeOK, TableOK
<1>6. OneCpuPerEnv'
  <2>1. \A d1, d2 \in CPUs : curenv'[d1] = curenv'[d2] /\ curenv'[d1] # NULL => d1 = d2
    BY <1>1, <1>4 DEF IInv, OneCpuPerEnv, Settled
  <2>2. \A d \in CPUs : pc'[d] \in OnEnv =>
          curenv'[d] # NULL /\ env_status'[curenv'[d]] \in {"RUNNING", "DYING"}
    <3> SUFFICES ASSUME NEW d \in CPUs, pc'[d] \in OnEnv
                 PROVE  curenv'[d] # NULL /\ st[curenv'[d]] \in {"RUNNING", "DYING"}
      BY <1>2
    <3>1. d # c BY <1>2
    <3>2. curenv[d] # NULL
      BY <3>1, <1>1 DEF IInv, OneCpuPerEnv
    <3> QED BY <3>1, <3>2, <1>1 DEF Settled
  <2>3. \A x \in Envs : env_status'[x] \in {"RUNNING", "DYING"} =>
          \E d \in CPUs : curenv'[d] = x
    BY <1>1, <1>2, <1>3, NullNotEnv DEF Settled
  <2> QED BY <2>1, <2>2, <2>3 DEF OneCpuPerEnv
<1>7. FreeListExact' /\ ReceiverBlocked' /\ IdsOK(env_status', env_gen')
  BY <1>2 DEF TableOK, FreeListOK, FreeListExact, ReceiversOK, ReceiverBlocked, IdsOK
<1>8. CASE \E e \in Envs : st[e] \in {"RUNNABLE", "RUNNING", "DYING"}
  <2>1. pc'[c] = "halted" /\ curenv'[c] = NULL /\ kernel_lock' = NoCPU
    BY <1>8 DEF SchedHalt, IInv, TypeOK
  <2>2. \A d \in CPUs : pc'[d] \notin Final
    BY <2>1, <1>1 DEF Settled
  <2>3. MonitorOnlyWhenIdle' /\ LockOK' /\ UnusedOK'
    BY <2>1, <2>2, <1>1 DEF MonitorOnlyWhenIdle, LockOK, UnusedOK, IInv
  <2> QED BY <1>5, <1>6, <1>7, <2>3 DEF IInv
<1>9. CASE \A e \in Envs : st[e] \notin {"RUNNABLE", "RUNNING", "DYING"}
  <2>1. pc'[c] = "monitor" /\ kernel_lock' = c
    BY <1>9 DEF SchedHalt, IInv, TypeOK
  <2>2. \A d \in CPUs : d # c => pc'[d] \notin Final \cup OnEnv
    <3> SUFFICES ASSUME NEW d \in CPUs, d # c PROVE pc[d] \notin Final \cup OnEnv
      BY <1>1
    <3>1. curenv[d] \notin Envs
      BY <1>9, NullNotEnv DEF Settled, IInv, TypeOK
    <3>2. pc[d] \notin OnEnv
      BY <3>1 DEF IInv, OneCpuPerEnv, TypeOK
    <3> QED BY <3>2 DEF Settled
  <2>3. \A e \in Envs : env_status'[e] \in {"FREE", "NOT_RUNNABLE"}
    BY <1>2, <1>9 DEF Settled
  <2>4. MonitorOnlyWhenIdle' /\ LockOK' /\ UnusedOK'
    BY <2>1, <2>2, <2>3, <1>1, KernelAssumption
       DEF MonitorOnlyWhenIdle, LockOK, UnusedOK, IInv
  <2> QED BY <1>5, <1>6, <1>7, <2>4 DEF IInv
<1> QED BY <1>8, <1>9

(* Whatever the scheduler chooses, the invariant is preserved. *)
LEMMA SchedYieldStep ==
  ASSUME IInv, NEW c \in CPUs, NEW cur, NEW st,
         Settled(c, cur, st), TableOK(st), SchedYield(c, cur, st)
  PROVE  IInv'
<1>1. CASE \E e \in Envs : /\ FirstRunnable(e, IF cur = NULL THEN 0 ELSE cur, st)
                           /\ EnvRun(c, e, cur, st)
  BY <1>1, EnvRunStep DEF FirstRunnable
<1>2. CASE /\ cur # NULL /\ st[cur] = "RUNNING"
           /\ EnvRun(c, cur, cur, st)
  <2>1. cur \in Envs BY <1>2 DEF Settled
  <2> QED BY <1>2, <2>1, EnvRunStep
<1>3. CASE /\ \A e \in Envs : st[e] # "RUNNABLE"
           /\ ~ (cur # NULL /\ st[cur] = "RUNNING")
           /\ SchedHalt(c, cur, st)
  BY <1>3, SchedHaltStep
<1> QED BY <1>1, <1>2, <1>3 DEF SchedYield

(* So is it by the end of trap(). *)
LEMMA ReturnStep ==
  ASSUME IInv, NEW c \in CPUs, NEW st, curenv[c] # NULL,
         Settled(c, curenv[c], st), TableOK(st), Return(c, st)
  PROVE  IInv'
<1>1. curenv[c] \in Envs BY DEF IInv, TypeOK
<1> QED BY <1>1, EnvRunStep, SchedYieldStep DEF Return

-----------------------------------------------------------------------------
(* Inside a handler *)

(* A CPU with an environment that is no zombie is settled at the start of  *)
(* its handler.                                                            *)
LEMMA DispatchSettled ==
  ASSUME IInv, NEW c \in CPUs, Locking(c), pc[c] \in {"trap", "timer"},
         env_status[curenv[c]] # "DYING"
  PROVE  /\ curenv[c] \in Envs
         /\ env_status[curenv[c]] = "RUNNING"
         /\ Settled(c, curenv[c], env_status)
<1> USE DEF OnEnv, Unused, Final, Statuses, Locations
<1>1. curenv[c] # NULL /\ env_status[curenv[c]] = "RUNNING"
  BY DEF IInv, OneCpuPerEnv
<1>2. curenv[c] \in Envs
  BY <1>1 DEF IInv, TypeOK
<1>3. \A d \in CPUs : pc[d] \notin Final
  BY NoneFinal
<1>4. \A d \in CPUs : d # c /\ curenv[d] # NULL =>
        curenv[d] # curenv[c] /\ env_status[curenv[d]] \in {"RUNNING", "DYING"}
  <2> SUFFICES ASSUME NEW d \in CPUs, d # c, curenv[d] # NULL
               PROVE  curenv[d] # curenv[c] /\ env_status[curenv[d]] \in {"RUNNING", "DYING"}
    OBVIOUS
  <2>1. pc[d] \in OnEnv
    BY <1>3 DEF IInv, UnusedOK, TypeOK
  <2> QED BY <2>1 DEF IInv, OneCpuPerEnv
<1>5. \A e \in Envs : env_status[e] \in {"RUNNING", "DYING"} =>
        e = curenv[c] \/ \E d \in CPUs : d # c /\ curenv[d] = e
  BY DEF IInv, OneCpuPerEnv
<1> QED BY <1>1, <1>2, <1>3, <1>4, <1>5 DEF Settled, IInv, TypeOK

(* So is a CPU without one. *)
LEMMA UnusedSettled ==
  ASSUME IInv, NEW c \in CPUs, Locking(c), pc[c] \in Unused
  PROVE  curenv[c] = NULL /\ Settled(c, NULL, env_status)
<1> USE DEF OnEnv, Unused, Final, Statuses, Locations
<1>1. curenv[c] = NULL
  BY DEF IInv, UnusedOK
<1>2. \A d \in CPUs : pc[d] \notin Final
  BY NoneFinal
<1>3. \A d \in CPUs : curenv[d] # NULL => env_status[curenv[d]] \in {"RUNNING", "DYING"}
  <2> SUFFICES ASSUME NEW d \in CPUs, curenv[d] # NULL
               PROVE  env_status[curenv[d]] \in {"RUNNING", "DYING"}
    OBVIOUS
  <2>1. pc[d] \in OnEnv
    BY <1>2 DEF IInv, UnusedOK, TypeOK
  <2> QED BY <2>1 DEF IInv, OneCpuPerEnv
<1>4. \A e \in Envs : env_status[e] \in {"RUNNING", "DYING"} =>
        \E d \in CPUs : d # c /\ curenv[d] = e
  BY <1>1, NullNotEnv DEF IInv, OneCpuPerEnv
<1> QED BY <1>1, <1>2, <1>3, <1>4 DEF Settled, IInv, TypeOK

(* Leaving the table alone leaves it right. *)
LEMMA TableUnchanged ==
  ASSUME IInv, UNCHANGED table
  PROVE  TableOK(env_status)
  BY DEF table, TableOK, IInv, TypeOK, FreeListExact, FreeListOK,
     ReceiverBlocked, ReceiversOK, IdsOK

(* The free list survives the freeing of a slot that was in use. *)
LEMMA FreeListPush ==
  ASSUME NEW st, NEW list \in Seq(Envs), NEW e \in Envs,
         st \in [Envs -> Statuses], st[e] # "FREE", FreeListOK(st, list)
  PROVE  /\ <<e>> \o list \in Seq(Envs)
         /\ FreeListOK([st EXCEPT ![e] = "FREE"], <<e>> \o list)
<1> DEFINE new == <<e>> \o list
           stn == [st EXCEPT ![e] = "FREE"]
<1>1. new \in Seq(Envs) /\ Len(new) = Len(list) + 1
  OBVIOUS
<1>2. new[1] = e /\ \A i \in 1 .. Len(list) : new[i + 1] = list[i]
  OBVIOUS
<1>3. \A i \in 2 .. Len(new) : i - 1 \in 1 .. Len(list) /\ new[i] = list[i - 1]
  BY <1>1, <1>2
<1>4. \A i \in 1 .. Len(list) : list[i] # e
  BY DEF FreeListOK
<1>5. \A x \in Envs : stn[x] = "FREE" <=> x = e \/ st[x] = "FREE"
  OBVIOUS
<1>6. \A x \in Envs : (\E i \in 1 .. Len(new) : new[i] = x) <=>
                        x = e \/ \E i \in 1 .. Len(list) : list[i] = x
  <2> SUFFICES ASSUME NEW x \in Envs
               PROVE  (\E i \in 1 .. Len(new) : new[i] = x) <=>
                        x = e \/ \E i \in 1 .. Len(list) : list[i] = x
    OBVIOUS
  <2>1. ASSUME NEW i \in 1 .. Len(new), new[i] = x
        PROVE  x = e \/ \E j \in 1 .. Len(list) : list[j] = x
    <3>1. CASE i = 1 BY <3>1, <2>1, <1>2
    <3>2. CASE i # 1
      <4>1. i \in 2 .. Len(new) BY <3>2, <1>1
      <4> QED BY <4>1, <2>1, <1>3
    <3> QED BY <3>1, <3>2
  <2>2. ASSUME NEW j \in 1 .. Len(list), list[j] = x
        PROVE  \E i \in 1 .. Len(new) : new[i] = x
    <3>1. j + 1 \in 1 .. Len(new) BY <1>1
    <3> QED BY <3>1, <2>2, <1>2
  <2>3. x = e => \E i \in 1 .. Len(new) : new[i] = x
    <3>1. 1 \in 1 .. Len(new) BY <1>1
    <3> QED BY <3>1, <1>2
  <2> QED BY <2>1, <2>2, <2>3
<1>7. ASSUME NEW i \in 1 .. Len(new), NEW j \in 1 .. Len(new), new[i] = new[j]
      PROVE  i = j
  <2>1. CASE i = 1 /\ j = 1 BY <2>1
  <2>2. CASE i = 1 /\ j # 1
    <3>1. j \in 2 .. Len(new) BY <2>2, <1>1
    <3> QED BY <3>1, <2>2, <1>2, <1>3, <1>4, <1>7
  <2>3. CASE i # 1 /\ j = 1
    <3>1. i \in 2 .. Len(new) BY <2>3, <1>1
    <3> QED BY <3>1, <2>3, <1>2, <1>3, <1>4, <1>7
  <2>4. CASE i # 1 /\ j # 1
    <3>1. i \in 2 .. Len(new) /\ j \in 2 .. Len(new) BY <2>4, <1>1
    <3>2. list[i - 1] = list[j - 1] BY <3>1, <1>3, <1>7
    <3>3. i - 1 = j - 1 BY <3>1, <3>2, <1>3 DEF FreeListOK
    <3> QED BY <3>1, <3>3
  <2> QED BY <2>1, <2>2, <2>3, <2>4
<1>8. FreeListOK(stn, new)
  <2>1. \A x \in Envs : stn[x] = "FREE" <=> \E i \in 1 .. Len(new) : new[i] = x
    <3> HIDE DEF new, stn
    <3> QED BY <1>5, <1>6 DEF FreeListOK
  <2> HIDE DEF new, stn
  <2> QED BY <2>1, <1>7 DEF FreeListOK
<1> QED BY <1>1, <1>8

(* And the taking of its head. *)
LEMMA FreeListPop ==
  ASSUME NEW st, NEW list \in Seq(Envs), NEW s \in Statuses, s # "FREE",
         st \in [Envs -> Statuses], list # <<>>, FreeListOK(st, list)
  PROVE  /\ Head(list) \in Envs /\ st[Head(list)] = "FREE"
         /\ Tail(list) \in Seq(Envs)
         /\ FreeListOK([st EXCEPT ![Head(list)] = s], Tail(list))
<1> DEFINE e == Head(list)
           new == Tail(list)
           stn == [st EXCEPT ![e] = s]
<1>1. Len(list) \in Nat /\ Len(list) >= 1 /\ e = list[1] /\ e \in Envs
  OBVIOUS
<1>2. new \in Seq(Envs) /\ Len(new) = Len(list) - 1
  OBVIOUS
<1>3. \A i \in 1 .. Len(new) : i + 1 \in 1 .. Len(list) /\ new[i] = list[i + 1]
  BY <1>1, <1>2
<1>4. st[e] = "FREE"
  BY <1>1 DEF FreeListOK
<1>5. \A i \in 2 .. Len(list) : list[i] # e
  BY <1>1 DEF FreeListOK
<1>6. \A x \in Envs : stn[x] = "FREE" <=> x # e /\ st[x] = "FREE"
  BY <1>1
<1>7. ASSUME NEW x \in Envs
      PROVE  (\E i \in 1 .. Len(new) : new[i] = x) <=>
               x # e /\ \E i \in 1 .. Len(list) : list[i] = x
  <2>1. ASSUME NEW i \in 1 .. Len(new), new[i] = x
        PROVE  x # e /\ \E j \in 1 .. Len(list) : list[j] = x
    <3>1. i + 1 \in 2 .. Len(list) BY <1>1, <1>2
    <3> QED BY <3>1, <2>1, <1>3, <1>5
  <2>2. ASSUME x # e, NEW j \in 1 .. Len(list), list[j] = x
        PROVE  \E i \in 1 .. Len(new) : new[i] = x
    <3>1. j # 1 BY <2>2, <1>1
    <3>2. j - 1 \in 1 .. Len(new) /\ (j - 1) + 1 = j BY <3>1, <1>1, <1>2
    <3>3. new[j - 1] = list[j] BY <3>2, <1>3
    <3> QED BY <3>2, <3>3, <2>2
  <2> QED BY <2>1, <2>2
<1>8. ASSUME NEW i \in 1 .. Len(new), NEW j \in 1 .. Len(new), new[i] = new[j]
      PROVE  i = j
  <2>1. list[i + 1] = list[j + 1] /\ i + 1 \in 1 .. Len(list) /\ j + 1 \in 1 .. Len(list)
    BY <1>3, <1>8
  <2>2. i + 1 = j + 1
    BY <2>1 DEF FreeListOK
  <2> QED BY <2>2
<1>9. FreeListOK(stn, new)
  <2>1. \A x \in Envs : stn[x] = "FREE" <=> \E i \in 1 .. Len(new) : new[i] = x
    <3> HIDE DEF new, stn, e
    <3> QED BY <1>6, <1>7 DEF FreeListOK
  <2> HIDE DEF new, stn
  <2> QED BY <2>1, <1>8 DEF FreeListOK
<1> QED BY <1>1, <1>2, <1>4, <1>9

-----------------------------------------------------------------------------
(* The steps of Kernel *)

(* The machine as i386_init leaves it. *)
LEMMA InitIInv == Init => IInv
<1> SUFFICES ASSUME Init PROVE IInv
  OBVIOUS
<1> USE KernelAssumption DEF Init
<1>1. /\ NENV \in Nat /\ Initial \in Nat /\ Initial <= NENV
      /\ \A e \in Envs : e \in Nat /\ e < NENV
  BY DEF Envs
<1>2. env_free_list \in Seq(Envs) /\ Len(env_free_list) = NENV - Initial
  <2>1. NENV - Initial \in Nat BY <1>1
  <2>2. \A i \in 1 .. NENV - Initial : Initial + i - 1 \in Envs BY <1>1 DEF Envs
  <2> QED BY <2>1, <2>2, IsASeq
<1>3. TypeOK
  BY <1>2 DEF TypeOK, Envs, NULL, EnvIds, Zero, Statuses, Locations
<1>4. OneCpuPerEnv
  BY DEF OneCpuPerEnv, OnEnv
<1>5. FreeListExact
  <2>1. ASSUME NEW e \in Envs
        PROVE  env_status[e] = "FREE" <=> \E i \in 1 .. Len(env_free_list) : env_free_list[i] = e
    <3>1. env_status[e] = "FREE" <=> e >= Initial
      BY <1>1
    <3>2. ASSUME e >= Initial PROVE \E i \in 1 .. Len(env_free_list) : env_free_list[i] = e
      <4>1. e - Initial + 1 \in 1 .. Len(env_free_list) BY <1>1, <1>2, <3>2
      <4>2. env_free_list[e - Initial + 1] = e BY <1>1, <1>2, <4>1
      <4> QED BY <4>1, <4>2
    <3>3. ASSUME NEW i \in 1 .. Len(env_free_list), env_free_list[i] = e PROVE e >= Initial
      BY <1>1, <1>2, <3>3
    <3> QED BY <3>1, <3>2, <3>3
  <2>2. \A i, j \in 1 .. Len(env_free_list) : env_free_list[i] = env_free_list[j] => i = j
    BY <1>1, <1>2
  <2> QED BY <2>1, <2>2 DEF FreeListExact
<1>6. ReceiverBlocked /\ MonitorOnlyWhenIdle /\ UnusedOK /\ IdsOK(env_status, env_gen)
  BY DEF ReceiverBlocked, MonitorOnlyWhenIdle, UnusedOK, IdsOK
<1>7. LockOK
  BY DEF LockOK
<1> QED BY <1>3, <1>4, <1>5, <1>6, <1>7 DEF IInv

(* Taking a trap, or entering user mode. *)
LEMMA UnlockedStep ==
  ASSUME IInv, NEW c \in CPUs, Unlocked(c)
  PROVE  IInv'
<1> USE DEF OnEnv, Unused, Locations
<1>1. UNCHANGED <<env_status, table, curenv, kernel_lock>>
  BY DEF Unlocked, UserTrap, TimerTrap, WakeTrap, KeyTrap, Resume, Enter
<1>2. /\ pc' \in [CPUs -> Locations]
      /\ \A d \in CPUs : d # c => pc'[d] = pc[d]
      /\ pc[c] \in OnEnv \cup Unused /\ pc[c] # "boot"
      /\ \/ pc[c] \in OnEnv /\ pc'[c] \in OnEnv
         \/ pc[c] \in Unused /\ pc'[c] \in {"wake", "key"}
         \/ pc'[c] = "stopped" /\ \E d \in CPUs : pc[d] = "panic"
  BY DEF Unlocked, UserTrap, TimerTrap, WakeTrap, KeyTrap, Resume, Enter, Goto, IInv, TypeOK
<1>3. TypeOK'
  BY <1>1, <1>2 DEF IInv, TypeOK, table
<1>4. OneCpuPerEnv'
  BY <1>1, <1>2 DEF IInv, OneCpuPerEnv, TypeOK
<1>5. FreeListExact' /\ ReceiverBlocked' /\ IdsOK(env_status', env_gen')
  BY <1>1 DEF IInv, FreeListExact, ReceiverBlocked, IdsOK, table
<1>6. MonitorOnlyWhenIdle'
  <2> SUFFICES ASSUME NEW d \in CPUs, pc'[d] = "monitor"
               PROVE  /\ kernel_lock' = d
                      /\ \A e \in Envs : env_status'[e] \in {"FREE", "NOT_RUNNABLE"}
                      /\ \A x \in CPUs : pc'[x] \notin OnEnv
    BY DEF MonitorOnlyWhenIdle
  <2>1. pc[d] = "monitor" BY <1>2
  <2> QED BY <2>1, <1>1, <1>2 DEF IInv, MonitorOnlyWhenIdle
<1>7. LockOK' /\ UnusedOK'
  BY <1>1, <1>2, KernelAssumption DEF IInv, LockOK, UnusedOK, TypeOK
<1> QED BY <1>3, <1>4, <1>5, <1>6, <1>7 DEF IInv

(* A panic in the kernel. *)
LEMMA PanicStep ==
  ASSUME IInv, NEW c \in CPUs, Locking(c), pc[c] = "key", Panic(c)
  PROVE  IInv'
<1> USE DEF OnEnv, Unused, Final, Locations
<1>1. /\ UNCHANGED <<env_status, table, curenv>>
      /\ kernel_lock' = c /\ pc'[c] = "panic"
      /\ \A d \in CPUs : d # c => pc'[d] = pc[d]
      /\ pc' \in [CPUs -> Locations]
  BY DEF Panic, IInv, TypeOK
<1>2. \A d \in CPUs : pc[d] \notin Final
  BY NoneFinal
<1>3. TypeOK'
  BY <1>1 DEF IInv, TypeOK, table
<1>4. OneCpuPerEnv'
  BY <1>1 DEF IInv, OneCpuPerEnv
<1>5. FreeListExact' /\ ReceiverBlocked' /\ UnusedOK' /\ IdsOK(env_status', env_gen')
  BY <1>1 DEF IInv, FreeListExact, ReceiverBlocked, UnusedOK, IdsOK, table
<1>6. MonitorOnlyWhenIdle' /\ LockOK'
  BY <1>1, <1>2 DEF MonitorOnlyWhenIdle, LockOK
<1> QED BY <1>3, <1>4, <1>5, <1>6 DEF IInv

(* Scheduling when nothing in the table has changed. *)
LEMMA BootWakeStep ==
  ASSUME IInv, NEW c \in CPUs, Boot(c) \/ Wake(c)
  PROVE  IInv'
<1>1. pc[c] \in Unused /\ Locking(c) /\ UNCHANGED table
  BY DEF Boot, Wake, Unused
<1>2. curenv[c] = NULL /\ Settled(c, NULL, env_status)
  BY <1>1, UnusedSettled
<1>3. SchedYield(c, NULL, env_status)
  BY <1>2 DEF Boot, Wake
<1> QED BY <1>1, <1>2, <1>3, TableUnchanged, SchedYieldStep

LEMMA YieldStep ==
  ASSUME IInv, NEW c \in CPUs, Timer(c) \/ SysYield(c) \/ OtherSyscall(c)
  PROVE  IInv'
<1>1. /\ Locking(c) /\ pc[c] \in {"trap", "timer"} /\ env_status[curenv[c]] # "DYING"
      /\ UNCHANGED table
      /\ SchedYield(c, curenv[c], env_status) \/ Return(c, env_status)
  BY DEF Timer, SysYield, OtherSyscall, Syscall, Dispatch
<1>2. curenv[c] \in Envs /\ Settled(c, curenv[c], env_status)
  BY <1>1, DispatchSettled
<1> QED BY <1>1, <1>2, NullNotEnv, TableUnchanged, SchedYieldStep, ReturnStep

(* env_free of a slot that is not current on another CPU, inside a handler *)
(* of CPU c. *)
LEMMA FreeTable ==
  ASSUME IInv, NEW e \in Envs, env_status[e] # "FREE", EnvFree(e)
  PROVE  TableOK([env_status EXCEPT ![e] = "FREE"])
<1> DEFINE st == [env_status EXCEPT ![e] = "FREE"]
<1>1. env_free_list' \in Seq(Envs) /\ FreeListOK(st, env_free_list')
  <2>1. /\ env_free_list \in Seq(Envs) /\ env_status \in [Envs -> Statuses]
        /\ FreeListOK(env_status, env_free_list)
    BY DEF IInv, TypeOK, FreeListExact, FreeListOK
  <2> QED BY <2>1, FreeListPush DEF EnvFree
<1>2. ReceiversOK(st, env_ipc_recving')
  BY DEF EnvFree, IInv, TypeOK, ReceiverBlocked, ReceiversOK
<1>3. /\ env_gen' \in [Envs -> 0..MaxGen]
      /\ env_parent_id' \in [Envs -> EnvIds]
      /\ env_ipc_recving' \in [Envs -> BOOLEAN]
  BY DEF EnvFree, IInv, TypeOK
<1>4. IdsOK(st, env_gen')
  BY DEF EnvFree, IInv, TypeOK, IdsOK
<1> HIDE DEF st
<1>5. TableOK(st)
  BY <1>1, <1>2, <1>3, <1>4 DEF TableOK
<1> QED BY <1>5 DEF st

(* A CPU that has just freed its own environment is settled without one.   *)
LEMMA SettledWithout ==
  ASSUME IInv, NEW c \in CPUs, Locking(c), pc[c] \in {"trap", "timer"}
  PROVE  /\ curenv[c] \in Envs
         /\ env_status[curenv[c]] # "FREE"
         /\ Settled(c, NULL, [env_status EXCEPT ![curenv[c]] = "FREE"])
<1> DEFINE e == curenv[c]
           st == [env_status EXCEPT ![e] = "FREE"]
<1> USE DEF OnEnv, Unused, Final, Statuses, Locations
<1>1. e # NULL /\ e \in Envs /\ env_status[e] # "FREE"
  BY DEF IInv, OneCpuPerEnv, TypeOK
<1>2. \A d \in CPUs : pc[d] \notin Final
  BY NoneFinal
<1>3. \A d \in CPUs : d # c /\ curenv[d] # NULL => st[curenv[d]] \in {"RUNNING", "DYING"}
  <2> SUFFICES ASSUME NEW d \in CPUs, d # c, curenv[d] # NULL
               PROVE  st[curenv[d]] \in {"RUNNING", "DYING"}
    OBVIOUS
  <2>1. pc[d] \in OnEnv
    BY <1>2 DEF IInv, UnusedOK, TypeOK
  <2>2. curenv[d] # e /\ curenv[d] \in Envs
    BY <1>1 DEF IInv, OneCpuPerEnv, TypeOK
  <2>3. env_status[curenv[d]] \in {"RUNNING", "DYING"}
    BY <2>1 DEF IInv, OneCpuPerEnv
  <2> QED BY <2>2, <2>3, <1>1 DEF IInv, TypeOK
<1>4. \A x \in Envs : st[x] \in {"RUNNING", "DYING"} => \E d \in CPUs : d # c /\ curenv[d] = x
  BY <1>1 DEF IInv, OneCpuPerEnv, TypeOK
<1>5. st \in [Envs -> Statuses]
  BY DEF IInv, TypeOK
<1> QED BY <1>1, <1>2, <1>3, <1>4, <1>5 DEF Settled

LEMMA CollectZombieStep ==
  ASSUME IInv, NEW c \in CPUs, CollectZombie(c)
  PROVE  IInv'
<1> DEFINE e == curenv[c]
           st == [env_status EXCEPT ![e] = "FREE"]
<1>1. /\ Locking(c) /\ pc[c] \in {"trap", "timer"}
      /\ EnvFree(e) /\ SchedYield(c, NULL, st)
  BY DEF CollectZombie
<1>2. e \in Envs /\ env_status[e] # "FREE" /\ Settled(c, NULL, st)
  BY <1>1, SettledWithout
<1>3. TableOK(st)
  BY <1>1, <1>2, FreeTable
<1> QED BY <1>1, <1>2, <1>3, SchedYieldStep

(* Changing the status of an environment nobody runs, while c runs its own *)
(* environment, to one nobody runs either.                                 *)
LEMMA SettledChange ==
  ASSUME IInv, NEW c \in CPUs, Locking(c), pc[c] \in {"trap", "timer"},
         env_status[curenv[c]] # "DYING",
         NEW e \in Envs, env_status[e] \notin {"RUNNING", "DYING"},
         NEW s \in {"FREE", "RUNNABLE", "NOT_RUNNABLE"}
  PROVE  /\ e # curenv[c]
         /\ Settled(c, curenv[c], [env_status EXCEPT ![e] = s])
<1> DEFINE st == [env_status EXCEPT ![e] = s]
<1>1. /\ curenv[c] \in Envs /\ env_status[curenv[c]] = "RUNNING"
      /\ Settled(c, curenv[c], env_status)
  BY DispatchSettled
<1>2. env_status \in [Envs -> Statuses] /\ st \in [Envs -> Statuses]
  BY DEF IInv, TypeOK, Statuses
<1>3. st[e] = s /\ \A x \in Envs : x # e => st[x] = env_status[x]
  BY <1>2
<1>4. e # curenv[c]
  BY <1>1
<1>5. \A d \in CPUs : d # c /\ curenv[d] # NULL =>
        curenv[d] # curenv[c] /\ st[curenv[d]] \in {"RUNNING", "DYING"}
  <2> SUFFICES ASSUME NEW d \in CPUs, d # c, curenv[d] # NULL
               PROVE  curenv[d] # curenv[c] /\ st[curenv[d]] \in {"RUNNING", "DYING"}
    OBVIOUS
  <2>1. curenv[d] # curenv[c] /\ env_status[curenv[d]] \in {"RUNNING", "DYING"}
    BY <1>1 DEF Settled
  <2>2. curenv[d] \in Envs
    BY DEF IInv, TypeOK
  <2> QED BY <2>1, <2>2, <1>3
<1>6. \A x \in Envs : st[x] \in {"RUNNING", "DYING"} =>
        x = curenv[c] \/ \E d \in CPUs : d # c /\ curenv[d] = x
  BY <1>1, <1>3 DEF Settled
<1> HIDE DEF st
<1>7. Settled(c, curenv[c], st)
  BY <1>1, <1>2, <1>3, <1>4, <1>5, <1>6 DEF Settled
<1> QED BY <1>4, <1>7 DEF st

LEMMA SysExoforkStep ==
  ASSUME IInv, NEW c \in CPUs, SysExofork(c)
  PROVE  IInv'
<1>1. /\ Locking(c) /\ pc[c] \in {"trap", "timer"} /\ env_status[curenv[c]] # "DYING"
  BY DEF SysExofork, Syscall, Dispatch
<1>2. curenv[c] \in Envs /\ env_status[curenv[c]] = "RUNNING"
  BY <1>1, DispatchSettled
<1>3. PICK e \in Envs : /\ EnvAlloc(e, EnvId(curenv[c]))
                        /\ Return(c, [env_status EXCEPT ![e] = "NOT_RUNNABLE"])
  BY DEF SysExofork
<1> DEFINE st == [env_status EXCEPT ![e] = "NOT_RUNNABLE"]
<1>4. env_free_list \in Seq(Envs) /\ env_free_list # <<>> /\ e = Head(env_free_list)
      /\ env_status \in [Envs -> Statuses] /\ FreeListOK(env_status, env_free_list)
  BY <1>3 DEF EnvAlloc, IInv, TypeOK, FreeListExact, FreeListOK
<1>5. /\ env_status[e] = "FREE"
      /\ Tail(env_free_list) \in Seq(Envs) /\ FreeListOK(st, Tail(env_free_list))
  <2>1. "NOT_RUNNABLE" \in Statuses BY DEF Statuses
  <2> QED BY <1>4, <2>1, FreeListPop
<1>6. Settled(c, curenv[c], st)
  BY <1>1, <1>5, SettledChange
<1>7. ReceiversOK(st, env_ipc_recving')
  BY <1>3, <1>4 DEF EnvAlloc, IInv, TypeOK, ReceiverBlocked, ReceiversOK
<1>8. /\ env_gen' \in [Envs -> 0 .. MaxGen]
      /\ env_parent_id' \in [Envs -> EnvIds]
      /\ env_ipc_recving' \in [Envs -> BOOLEAN]
      /\ env_free_list' = Tail(env_free_list)
      /\ IdsOK(st, env_gen')
  <2>1. \A g \in 0 .. MaxGen : NextGen(g) \in 1 .. MaxGen
    BY KernelAssumption DEF NextGen
  <2>2. EnvId(curenv[c]) \in EnvIds
    <3>1. env_gen[curenv[c]] \in 1 .. MaxGen \/ env_gen[curenv[c]] = 0
      BY <1>2, KernelAssumption DEF IInv, TypeOK
    <3>2. env_gen[curenv[c]] # 0
      BY <1>2 DEF IInv, IdsOK
    <3> QED BY <3>1, <3>2, <1>2 DEF EnvId, EnvIds
  <2>3. /\ env_gen' \in [Envs -> 0 .. MaxGen]
        /\ env_gen'[e] # 0 /\ \A x \in Envs : x # e => env_gen'[x] = env_gen[x]
    BY <1>3, <2>1 DEF EnvAlloc, IInv, TypeOK
  <2>4. IdsOK(st, env_gen')
    BY <2>3, <1>4 DEF IInv, IdsOK
  <2> QED BY <1>3, <2>2, <2>3, <2>4 DEF EnvAlloc, IInv, TypeOK
<1> HIDE DEF st
<1>9. TableOK(st)
  BY <1>5, <1>7, <1>8 DEF TableOK
<1> QED BY <1>2, <1>3, <1>6, <1>9, NullNotEnv, ReturnStep DEF st

LEMMA SysEnvSetStatusStep ==
  ASSUME Disciplined, IInv, NEW c \in CPUs, SysEnvSetStatus(c)
  PROVE  IInv'
<1>1. /\ Locking(c) /\ pc[c] \in {"trap", "timer"} /\ env_status[curenv[c]] # "DYING"
      /\ UNCHANGED table
  BY DEF SysEnvSetStatus, Syscall, Dispatch
<1>2. PICK e \in Envs : /\ Newborn(e)
                        /\ Return(c, [env_status EXCEPT ![e] = "RUNNABLE"])
  BY DEF SysEnvSetStatus, Disciplined
<1> DEFINE st == [env_status EXCEPT ![e] = "RUNNABLE"]
<1>3. curenv[c] \in Envs /\ Settled(c, curenv[c], st)
  BY <1>1, <1>2, DispatchSettled, SettledChange DEF Newborn
<1>4. TableOK(st)
  <2>1. /\ FreeListOK(st, env_free_list)
        /\ ReceiversOK(st, env_ipc_recving)
        /\ IdsOK(st, env_gen)
    BY <1>2 DEF Newborn, IInv, TypeOK, FreeListExact, FreeListOK, ReceiverBlocked, ReceiversOK, IdsOK
  <2> HIDE DEF st
  <2> QED BY <1>1, <2>1 DEF TableOK, IInv, TypeOK, table
<1> QED BY <1>2, <1>3, <1>4, NullNotEnv, ReturnStep

LEMMA SysIpcTrySendStep ==
  ASSUME IInv, NEW c \in CPUs, SysIpcTrySend(c)
  PROVE  IInv'
<1>1. /\ Locking(c) /\ pc[c] \in {"trap", "timer"} /\ env_status[curenv[c]] # "DYING"
      /\ UNCHANGED <<env_gen, env_parent_id, env_free_list>>
  BY DEF SysIpcTrySend, Syscall, Dispatch
<1>2. curenv[c] \in Envs /\ env_status[curenv[c]] = "RUNNING"
  BY <1>1, DispatchSettled
<1>3. PICK e \in Envs : /\ env_status[e] # "FREE" /\ env_ipc_recving[e]
                        /\ env_ipc_recving' = [env_ipc_recving EXCEPT ![e] = FALSE]
                        /\ Return(c, [env_status EXCEPT ![e] = "RUNNABLE"])
  BY <1>2 DEF SysIpcTrySend, Envid2env
<1> DEFINE st == [env_status EXCEPT ![e] = "RUNNABLE"]
<1>4. env_status[e] = "NOT_RUNNABLE"
  BY <1>3 DEF IInv, ReceiverBlocked
<1>5. Settled(c, curenv[c], st)
  BY <1>1, <1>4, SettledChange
<1>6. TableOK(st)
  <2>1. /\ FreeListOK(st, env_free_list)
        /\ ReceiversOK(st, env_ipc_recving')
        /\ env_ipc_recving' \in [Envs -> BOOLEAN]
        /\ IdsOK(st, env_gen)
    BY <1>3, <1>4 DEF IInv, TypeOK, FreeListExact, FreeListOK, ReceiverBlocked, ReceiversOK, IdsOK
  <2> HIDE DEF st
  <2> QED BY <1>1, <2>1 DEF TableOK, IInv, TypeOK
<1> QED BY <1>2, <1>3, <1>5, <1>6, NullNotEnv, ReturnStep

LEMMA SysIpcRecvStep ==
  ASSUME Disciplined, IInv, NEW c \in CPUs, SysIpcRecv(c)
  PROVE  IInv'
<1> DEFINE e == curenv[c]
           st == [env_status EXCEPT ![e] = "NOT_RUNNABLE"]
<1>1. /\ Locking(c) /\ pc[c] \in {"trap", "timer"} /\ env_status[e] # "DYING"
      /\ UNCHANGED <<env_gen, env_parent_id, env_free_list>>
      /\ env_ipc_recving' = [env_ipc_recving EXCEPT ![e] = TRUE]
      /\ SchedYield(c, e, st)
  BY DEF SysIpcRecv, Syscall, Dispatch, Disciplined
<1>2. e \in Envs /\ env_status[e] = "RUNNING" /\ Settled(c, e, env_status)
  BY <1>1, DispatchSettled
<1>3. st \in [Envs -> Statuses] /\ st[e] = "NOT_RUNNABLE"
      /\ \A x \in Envs : x # e => st[x] = env_status[x]
  BY <1>2 DEF IInv, TypeOK, Statuses
<1>4. TableOK(st)
  <2>1. /\ FreeListOK(st, env_free_list)
        /\ ReceiversOK(st, env_ipc_recving')
        /\ env_ipc_recving' \in [Envs -> BOOLEAN]
        /\ IdsOK(st, env_gen)
    BY <1>1, <1>2, <1>3
       DEF IInv, TypeOK, FreeListExact, FreeListOK, ReceiverBlocked, ReceiversOK, IdsOK
  <2> HIDE DEF st
  <2> QED BY <1>1, <2>1 DEF TableOK, IInv, TypeOK
<1>5. Settled(c, e, st)
  <2>1. \A d \in CPUs : d # c /\ curenv[d] # NULL =>
          curenv[d] # e /\ st[curenv[d]] \in {"RUNNING", "DYING"}
    <3> SUFFICES ASSUME NEW d \in CPUs, d # c, curenv[d] # NULL
                 PROVE  curenv[d] # e /\ st[curenv[d]] \in {"RUNNING", "DYING"}
      OBVIOUS
    <3>1. curenv[d] # e /\ env_status[curenv[d]] \in {"RUNNING", "DYING"}
      BY <1>2 DEF Settled
    <3>2. curenv[d] \in Envs
      BY DEF IInv, TypeOK
    <3> QED BY <3>1, <3>2, <1>3
  <2>2. \A x \in Envs : st[x] \in {"RUNNING", "DYING"} =>
          x = e \/ \E d \in CPUs : d # c /\ curenv[d] = x
    BY <1>2, <1>3 DEF Settled
  <2> HIDE DEF st
  <2> QED BY <1>2, <1>3, <2>1, <2>2 DEF Settled
<1> QED BY <1>1, <1>4, <1>5, SchedYieldStep

(* Killing: oneself, an environment nobody runs, or one that runs on       *)
(* another CPU and becomes a zombie.                                       *)
LEMMA SysEnvDestroyStep ==
  ASSUME Disciplined, IInv, NEW c \in CPUs, SysEnvDestroy(c)
  PROVE  IInv'
<1>1. Locking(c) /\ pc[c] \in {"trap", "timer"} /\ env_status[curenv[c]] # "DYING"
  BY DEF SysEnvDestroy, Syscall, Dispatch
<1>2. /\ curenv[c] \in Envs /\ env_status[curenv[c]] = "RUNNING"
      /\ Settled(c, curenv[c], env_status)
  BY <1>1, DispatchSettled
<1>3. PICK e \in Envs : /\ env_status[e] \notin {"FREE", "DYING"}
                        /\ EnvDestroy(c, e)
  BY <1>2 DEF SysEnvDestroy, Envid2env, Disciplined
<1>4. env_status \in [Envs -> Statuses]
  BY DEF IInv, TypeOK
<1>5. CASE env_status[e] = "RUNNING" /\ curenv[c] # e
  <2> DEFINE st == [env_status EXCEPT ![e] = "DYING"]
  <2>1. Return(c, st) /\ UNCHANGED table
    BY <1>3, <1>5 DEF EnvDestroy
  <2>2. /\ st \in [Envs -> Statuses] /\ st[e] = "DYING"
        /\ \A x \in Envs : x # e => st[x] = env_status[x]
    BY <1>4 DEF Statuses
  <2>3. TableOK(st)
    <3>1. FreeListOK(st, env_free_list) /\ ReceiversOK(st, env_ipc_recving) /\ IdsOK(st, env_gen)
      BY <1>5, <2>2 DEF IInv, FreeListExact, FreeListOK, ReceiverBlocked, ReceiversOK, IdsOK
    <3> HIDE DEF st
    <3> QED BY <2>1, <3>1 DEF TableOK, IInv, TypeOK, table
  <2>4. Settled(c, curenv[c], st)
    <3>1. \A d \in CPUs : d # c /\ curenv[d] # NULL =>
            curenv[d] # curenv[c] /\ st[curenv[d]] \in {"RUNNING", "DYING"}
      <4> SUFFICES ASSUME NEW d \in CPUs, d # c, curenv[d] # NULL
                   PROVE  curenv[d] # curenv[c] /\ st[curenv[d]] \in {"RUNNING", "DYING"}
        OBVIOUS
      <4>1. curenv[d] # curenv[c] /\ env_status[curenv[d]] \in {"RUNNING", "DYING"}
        BY <1>2 DEF Settled
      <4>2. curenv[d] \in Envs
        BY DEF IInv, TypeOK
      <4> QED BY <4>1, <4>2, <2>2
    <3>2. \A x \in Envs : st[x] \in {"RUNNING", "DYING"} =>
            x = curenv[c] \/ \E d \in CPUs : d # c /\ curenv[d] = x
      BY <1>2, <1>5, <2>2 DEF Settled
    <3>3. st[curenv[c]] = "RUNNING"
      BY <1>2, <1>5, <2>2
    <3> HIDE DEF st
    <3> QED BY <1>2, <2>2, <3>1, <3>2, <3>3 DEF Settled
  <2> HIDE DEF st
  <2> QED BY <1>2, <2>1, <2>3, <2>4, NullNotEnv, ReturnStep
<1>6. CASE curenv[c] # e /\ env_status[e] # "RUNNING"
  <2> DEFINE st == [env_status EXCEPT ![e] = "FREE"]
  <2>1. EnvFree(e) /\ Return(c, st)
    BY <1>3, <1>6 DEF EnvDestroy
  <2>2. TableOK(st)
    BY <1>3, <2>1, FreeTable
  <2>3. Settled(c, curenv[c], st)
    BY <1>1, <1>3, <1>6, SettledChange
  <2> HIDE DEF st
  <2> QED BY <1>2, <2>1, <2>2, <2>3, NullNotEnv, ReturnStep
<1>7. CASE curenv[c] = e
  <2> DEFINE st == [env_status EXCEPT ![e] = "FREE"]
  <2>1. EnvFree(e) /\ SchedYield(c, NULL, st)
    BY <1>3, <1>7 DEF EnvDestroy
  <2>2. TableOK(st)
    BY <1>3, <2>1, FreeTable
  <2>3. Settled(c, NULL, st)
    BY <1>1, <1>7, SettledWithout
  <2> HIDE DEF st
  <2> QED BY <2>1, <2>2, <2>3, SchedYieldStep
<1> QED BY <1>5, <1>6, <1>7

-----------------------------------------------------------------------------
(* Every step preserves the invariant. *)
LEMMA NextIInv == ASSUME Disciplined, IInv, [Next]_vars PROVE IInv'
<1>1. CASE UNCHANGED vars
  BY <1>1 DEF vars, table, IInv, TypeOK, OneCpuPerEnv, FreeListExact, ReceiverBlocked,
              MonitorOnlyWhenIdle, IdsOK, LockOK, UnusedOK
<1>2. ASSUME NEW c \in CPUs, Handle(c) PROVE IInv'
  <2>1. CASE Boot(c) \/ Wake(c)
    BY <2>1, BootWakeStep
  <2>2. CASE UnexpectedTrap(c)
    BY <2>2, PanicStep DEF UnexpectedTrap
  <2>3. CASE CollectZombie(c)
    BY <2>3, CollectZombieStep
  <2>4. CASE Timer(c) \/ OtherSyscall(c) \/ SysYield(c)
    BY <2>4, YieldStep
  <2>5. CASE SysExofork(c)
    BY <2>5, SysExoforkStep
  <2>6. CASE SysEnvSetStatus(c)
    BY <2>6, SysEnvSetStatusStep
  <2>7. CASE SysEnvDestroy(c)
    BY <2>7, SysEnvDestroyStep
  <2>8. CASE SysIpcRecv(c)
    BY <2>8, SysIpcRecvStep
  <2>9. CASE SysIpcTrySend(c)
    BY <2>9, SysIpcTrySendStep
  <2> QED BY <1>2, <2>1, <2>2, <2>3, <2>4, <2>5, <2>6, <2>7, <2>8, <2>9 DEF Handle
<1> QED BY <1>1, <1>2, UnlockedStep DEF Next

(* The inductive invariant holds of every behaviour whose programs are     *)
(* disciplined.                                                            *)
THEOREM Invariance == ASSUME Disciplined PROVE Spec => []IInv
<1>1. Init => IInv
  BY InitIInv
<1>2. IInv /\ [Next]_vars => IInv'
  BY NextIInv
<1> QED BY <1>1, <1>2, PTL DEF Spec

(* Every variable keeps its type. *)
THEOREM TypeCorrect == ASSUME Disciplined PROVE Spec => []TypeOK
<1>1. IInv => TypeOK
  BY DEF IInv
<1> QED BY <1>1, Invariance, PTL

(* No environment is ever on two CPUs, and RUNNING and DYING are exactly   *)
(* the environments some CPU is on.                                        *)
THEOREM OneCpuPerEnvHolds == ASSUME Disciplined PROVE Spec => []OneCpuPerEnv
<1>1. IInv => OneCpuPerEnv
  BY DEF IInv
<1> QED BY <1>1, Invariance, PTL

(* The free list holds each FREE slot once, and nothing else.              *)
THEOREM FreeListExactHolds == ASSUME Disciplined PROVE Spec => []FreeListExact
<1>1. IInv => FreeListExact
  BY DEF IInv
<1> QED BY <1>1, Invariance, PTL

(* A pending receive means a blocked environment. *)
THEOREM ReceiverBlockedHolds == ASSUME Disciplined PROVE Spec => []ReceiverBlocked
<1>1. IInv => ReceiverBlocked
  BY DEF IInv
<1> QED BY <1>1, Invariance, PTL

(* A CPU enters the monitor only when nothing is left to run.              *)
THEOREM MonitorOnlyWhenIdleHolds ==
  ASSUME Disciplined PROVE Spec => []MonitorOnlyWhenIdle
<1>1. IInv => MonitorOnlyWhenIdle
  BY DEF IInv
<1> QED BY <1>1, Invariance, PTL

-----------------------------------------------------------------------------
(* Where each CPU may be when nobody types. *)
Calm == \A c \in CPUs : pc[c] \notin {"key", "panic", "stopped"}

LEMMA ScheduledCalmly ==
  ASSUME Calm, TypeOK, NEW c \in CPUs, NEW cur, NEW st,
         SchedYield(c, cur, st) \/ (curenv[c] = cur /\ Return(c, st))
  PROVE  Calm'
<1>1. \/ pc' = [pc EXCEPT ![c] = "resume"]
      \/ pc' = [pc EXCEPT ![c] = "halted"]
      \/ pc' = [pc EXCEPT ![c] = "monitor"]
  BY DEF Return, SchedYield, SchedHalt, EnvRun
<1> QED BY <1>1 DEF Calm, TypeOK

(* As long as nobody types, the kernel never panics: env_destroy never     *)
(* meets a free slot.                                                      *)
THEOREM NoPanicHolds ==
  ASSUME Disciplined, Keyboard = FALSE PROVE Spec => []NoPanic
<1>1. Init => Calm
  BY DEF Init, Calm
<1>2. ASSUME IInv, Calm, [Next]_vars PROVE Calm'
  <2>1. CASE UNCHANGED vars
    BY <1>2, <2>1 DEF vars, Calm
  <2>2. ASSUME NEW c \in CPUs, Unlocked(c) PROVE Calm'
    BY <1>2, <2>2 DEF Unlocked, UserTrap, TimerTrap, WakeTrap, KeyTrap, Resume, Enter, Goto,
                      Calm, IInv, TypeOK
  <2>3. ASSUME NEW c \in CPUs, Handle(c) PROVE Calm'
    <3>1. CASE SysEnvDestroy(c)
      <4>1. Locking(c) /\ pc[c] \in {"trap", "timer"} /\ env_status[curenv[c]] # "DYING"
        BY <3>1 DEF SysEnvDestroy, Syscall, Dispatch
      <4>2. env_status[curenv[c]] = "RUNNING"
        BY <4>1, <1>2, DispatchSettled
      <4>3. PICK e \in Envs : env_status[e] # "FREE" /\ EnvDestroy(c, e)
        BY <3>1, <4>2 DEF SysEnvDestroy, Envid2env
      <4>4. \E cur, st : SchedYield(c, cur, st) \/ (curenv[c] = cur /\ Return(c, st))
        BY <4>3 DEF EnvDestroy
      <4> QED BY <4>4, <1>2, ScheduledCalmly DEF IInv
    <3>2. CASE UnexpectedTrap(c)
      BY <3>2, <1>2 DEF UnexpectedTrap, Calm
    <3>3. CASE ~ SysEnvDestroy(c) /\ ~ UnexpectedTrap(c)
      <4>1. \E cur, st : SchedYield(c, cur, st) \/ (curenv[c] = cur /\ Return(c, st))
        BY <2>3, <3>3 DEF Handle, Boot, Wake, CollectZombie, Timer, OtherSyscall, SysYield,
             SysExofork, SysEnvSetStatus, SysIpcRecv, SysIpcTrySend
      <4> QED BY <4>1, <1>2, ScheduledCalmly DEF IInv
    <3> QED BY <3>1, <3>2, <3>3
  <2> QED BY <1>2, <2>1, <2>2, <2>3 DEF Next
<1>3. Calm => NoPanic
  BY DEF Calm, NoPanic
<1> QED BY <1>1, <1>2, <1>3, Invariance, PTL DEF Spec

-----------------------------------------------------------------------------
(* What the scheduler does with the statuses it is given: an environment   *)
(* that is FREE, a zombie or blocked is so afterwards, and no other is.    *)
Kept(st) ==
  \A x \in Envs, s \in {"FREE", "DYING", "NOT_RUNNABLE"} : env_status'[x] = s <=> st[x] = s

LEMMA ScheduleKeeps ==
  ASSUME TypeOK, NEW c \in CPUs, NEW cur, NEW st,
         SchedYield(c, cur, st) \/ (curenv[c] = cur /\ Return(c, st))
  PROVE  Kept(st) /\ pc'[c] \in {"resume", "halted", "monitor"}
<1>1. ASSUME NEW e, EnvRun(c, e, cur, st),
             st[e] = "RUNNABLE" \/ (e = cur /\ st[e] = "RUNNING")
      PROVE  Kept(st) /\ pc'[c] = "resume"
  <2>1. \A x \in Envs : env_status'[x] = IF x = e THEN "RUNNING"
                                        ELSE IF x = cur /\ st[x] = "RUNNING" THEN "RUNNABLE"
                                        ELSE st[x]
    BY <1>1 DEF EnvRun
  <2>2. Kept(st) BY <1>1, <2>1 DEF Kept
  <2>3. pc'[c] = "resume" BY <1>1 DEF EnvRun, TypeOK
  <2> QED BY <2>2, <2>3
<1>2. ASSUME SchedHalt(c, cur, st) PROVE Kept(st) /\ pc'[c] \in {"halted", "monitor"}
  <2>1. Kept(st) BY <1>2 DEF SchedHalt, Kept
  <2>2. pc' = [pc EXCEPT ![c] = "halted"] \/ pc' = [pc EXCEPT ![c] = "monitor"]
    BY <1>2 DEF SchedHalt
  <2> QED BY <2>1, <2>2 DEF TypeOK
<1>3. CASE SchedYield(c, cur, st)
  BY <1>1, <1>2, <1>3 DEF SchedYield, FirstRunnable
<1>4. CASE curenv[c] = cur /\ Return(c, st)
  <2>1. CASE st[cur] = "RUNNING" BY <1>1, <1>4, <2>1 DEF Return
  <2>2. CASE st[cur] # "RUNNING" BY <1>3, <1>4, <2>2 DEF Return
  <2> QED BY <2>1, <2>2
<1> QED BY <1>3, <1>4

(* The status CPU c may give to e before it schedules: a zombie is only    *)
(* freed, by its own CPU, and a receiver that waits is only freed or sent  *)
(* to.                                                                     *)
Allowed(c, e, status) ==
  \/ status = env_status[e]
  \/ status = "FREE" /\ (env_status[e] = "DYING" => curenv[c] = e /\ pc[c] \in {"trap", "timer"})
  \/ /\ env_status[e] # "DYING"
     /\ env_status[e] = "NOT_RUNNABLE" /\ env_ipc_recving[e] => ~env_ipc_recving'[e]

LEMMA HandlersAllow ==
  ASSUME Disciplined, IInv, NEW c \in CPUs, Handle(c)
  PROVE  \/ env_status' = env_status
         \/ /\ pc'[c] \in {"resume", "halted", "monitor"}
            /\ \E st : Kept(st) /\ \A e \in Envs : Allowed(c, e, st[e])
<1> DEFINE Goal == \/ env_status' = env_status
                   \/ /\ pc'[c] \in {"resume", "halted", "monitor"}
                      /\ \E st : Kept(st) /\ \A e \in Envs : Allowed(c, e, st[e])
<1>1. TypeOK /\ env_status \in [Envs -> Statuses] BY DEF IInv, TypeOK
<1>2. ASSUME NEW cur, NEW st, SchedYield(c, cur, st) \/ (curenv[c] = cur /\ Return(c, st)),
             \A e \in Envs : Allowed(c, e, st[e])
      PROVE  Goal
  BY <1>1, <1>2, ScheduleKeeps
<1> HIDE DEF Goal
<1> SUFFICES Goal BY DEF Goal
<1>3. CASE Boot(c) \/ Wake(c) \/ Timer(c) \/ OtherSyscall(c) \/ SysYield(c)
  <2>1. \A e \in Envs : Allowed(c, e, env_status[e]) BY DEF Allowed
  <2> QED BY <1>2, <1>3, <2>1 DEF Boot, Wake, Timer, OtherSyscall, SysYield
<1>4. CASE UnexpectedTrap(c)
  BY <1>4 DEF UnexpectedTrap, Panic, Goal
<1>5. CASE CollectZombie(c)
  <2>1. curenv[c] \in Envs BY <1>5 DEF CollectZombie, IInv, OneCpuPerEnv, OnEnv, TypeOK
  <2>2. Allowed(c, curenv[c], "FREE") BY <1>5 DEF CollectZombie, Allowed
  <2> DEFINE st == [env_status EXCEPT ![curenv[c]] = "FREE"]
  <2>3. SchedYield(c, NULL, st) BY <1>5 DEF CollectZombie
  <2>4. \A e \in Envs : Allowed(c, e, st[e]) BY <1>1, <2>1, <2>2 DEF Allowed
  <2> HIDE DEF st
  <2> QED BY <1>2, <2>3, <2>4
<1>6. ASSUME Dispatch(c, "trap")
      PROVE  curenv[c] \in Envs /\ env_status[curenv[c]] = "RUNNING"
  BY <1>6, DispatchSettled DEF Dispatch
<1>7. CASE SysExofork(c)
  <2>1. PICK e \in Envs : /\ EnvAlloc(e, EnvId(curenv[c]))
                          /\ Return(c, [env_status EXCEPT ![e] = "NOT_RUNNABLE"])
    BY <1>7 DEF SysExofork
  <2>2. env_status[e] = "FREE"
    <3>1. env_free_list \in Seq(Envs) /\ env_free_list # <<>> /\ e = env_free_list[1]
      BY <1>1, <2>1 DEF EnvAlloc, TypeOK
    <3>2. 1 \in 1 .. Len(env_free_list) BY <3>1
    <3> QED BY <3>1, <3>2 DEF IInv, FreeListExact
  <2>3. Allowed(c, e, "NOT_RUNNABLE") BY <2>2 DEF Allowed
  <2> DEFINE st == [env_status EXCEPT ![e] = "NOT_RUNNABLE"]
  <2>4. Return(c, st) BY <2>1
  <2>5. \A x \in Envs : Allowed(c, x, st[x]) BY <1>1, <2>3 DEF Allowed
  <2> HIDE DEF st
  <2> QED BY <1>2, <2>4, <2>5
<1>8. CASE SysEnvSetStatus(c)
  <2>1. PICK e \in Envs, s \in {"RUNNABLE", "NOT_RUNNABLE"} :
          Newborn(e) /\ Return(c, [env_status EXCEPT ![e] = s])
    BY <1>8 DEF SysEnvSetStatus, Disciplined
  <2>2. Allowed(c, e, s) BY <2>1 DEF Allowed, Newborn
  <2> DEFINE st == [env_status EXCEPT ![e] = s]
  <2>3. Return(c, st) BY <2>1
  <2>4. \A x \in Envs : Allowed(c, x, st[x]) BY <1>1, <2>2 DEF Allowed
  <2> HIDE DEF st
  <2> QED BY <1>2, <2>3, <2>4
<1>9. CASE SysEnvDestroy(c)
  <2>0. curenv[c] \in Envs /\ env_status[curenv[c]] = "RUNNING"
    BY <1>6, <1>9 DEF SysEnvDestroy, Syscall
  <2>1. PICK e \in Envs : env_status[e] \notin {"FREE", "DYING"} /\ EnvDestroy(c, e)
    BY <1>9, <2>0 DEF SysEnvDestroy, Envid2env, Disciplined
  <2>2. Allowed(c, e, "FREE") BY <2>1 DEF Allowed
  <2>3. env_status[e] = "RUNNING" => Allowed(c, e, "DYING") BY DEF Allowed
  <2> DEFINE dying == [env_status EXCEPT ![e] = "DYING"]
             free == [env_status EXCEPT ![e] = "FREE"]
  <2>4. \/ env_status[e] = "RUNNING" /\ Return(c, dying)
        \/ SchedYield(c, NULL, free)
        \/ Return(c, free)
    BY <2>1 DEF EnvDestroy
  <2>5. /\ env_status[e] = "RUNNING" => \A x \in Envs : Allowed(c, x, dying[x])
        /\ \A x \in Envs : Allowed(c, x, free[x])
    BY <1>1, <2>2, <2>3 DEF Allowed
  <2> HIDE DEF dying, free
  <2> QED BY <1>2, <2>4, <2>5
<1>10. CASE SysIpcRecv(c)
  <2>1. curenv[c] \in Envs /\ env_status[curenv[c]] = "RUNNING"
    BY <1>6, <1>10 DEF SysIpcRecv, Syscall
  <2> DEFINE st == [env_status EXCEPT ![curenv[c]] = "NOT_RUNNABLE"]
  <2>2. SchedYield(c, curenv[c], st) BY <1>10 DEF SysIpcRecv, Disciplined
  <2>3. Allowed(c, curenv[c], "NOT_RUNNABLE") BY <2>1 DEF Allowed
  <2>4. \A e \in Envs : Allowed(c, e, st[e]) BY <1>1, <2>1, <2>3 DEF Allowed
  <2> HIDE DEF st
  <2> QED BY <1>2, <2>2, <2>4
<1>11. CASE SysIpcTrySend(c)
  <2>0. curenv[c] \in Envs /\ env_status[curenv[c]] = "RUNNING"
    BY <1>6, <1>11 DEF SysIpcTrySend, Syscall
  <2>1. PICK e \in Envs : /\ env_status[e] # "FREE" /\ env_ipc_recving[e]
                          /\ env_ipc_recving' = [env_ipc_recving EXCEPT ![e] = FALSE]
                          /\ Return(c, [env_status EXCEPT ![e] = "RUNNABLE"])
    BY <1>11, <2>0 DEF SysIpcTrySend, Envid2env
  <2>2. env_status[e] = "NOT_RUNNABLE" /\ ~env_ipc_recving'[e]
    BY <1>1, <2>1 DEF IInv, ReceiverBlocked, TypeOK
  <2>3. Allowed(c, e, "RUNNABLE") BY <2>2 DEF Allowed
  <2> DEFINE st == [env_status EXCEPT ![e] = "RUNNABLE"]
  <2>4. Return(c, st) BY <2>1
  <2>5. \A x \in Envs : Allowed(c, x, st[x]) BY <1>1, <2>3 DEF Allowed
  <2> HIDE DEF st
  <2> QED BY <1>2, <2>4, <2>5
<1> QED BY <1>3, <1>4, <1>5, <1>7, <1>8, <1>9, <1>10, <1>11 DEF Handle

(* A step that changes a status is a handler's. *)
LEMMA WhoChanges ==
  ASSUME Disciplined, IInv, [Next]_vars, NEW e \in Envs, env_status'[e] # env_status[e]
  PROVE  \E c \in CPUs :
           /\ pc'[c] \in {"resume", "halted", "monitor"}
           /\ \E st : Kept(st) /\ Allowed(c, e, st[e])
<1>1. env_status' # env_status OBVIOUS
<1>2. PICK c \in CPUs : Handle(c)
  BY <1>1 DEF Next, vars, Unlocked, UserTrap, TimerTrap, WakeTrap, KeyTrap, Resume, Enter
<1> QED BY <1>1, <1>2, HandlersAllow

(* A zombie is freed by the next trap of the CPU it runs on, and nothing   *)
(* else happens to it: nobody else's destroy, send or set_status reaches   *)
(* it (env.c:468-470, trap.c:271-276).                                     *)
THEOREM ZombieFreedByItsTrapHolds ==
  ASSUME Disciplined PROVE Spec => ZombieFreedByItsTrap
<1> DEFINE A == \A e \in Envs : env_status[e] = "DYING" /\ env_status'[e] # "DYING" =>
                  /\ env_status'[e] = "FREE"
                  /\ \E c \in CPUs : curenv[c] = e /\ pc[c] \in {"trap", "timer"} /\ pc'[c] # pc[c]
<1>1. ASSUME IInv, [Next]_vars PROVE A
  <2> SUFFICES ASSUME NEW e \in Envs, env_status[e] = "DYING", env_status'[e] # "DYING"
               PROVE  /\ env_status'[e] = "FREE"
                      /\ \E c \in CPUs : curenv[c] = e /\ pc[c] \in {"trap", "timer"} /\ pc'[c] # pc[c]
    OBVIOUS
  <2>1. PICK c \in CPUs : /\ pc'[c] \in {"resume", "halted", "monitor"}
                          /\ \E st : Kept(st) /\ Allowed(c, e, st[e])
    BY <1>1, WhoChanges
  <2>2. PICK st : Kept(st) /\ Allowed(c, e, st[e]) BY <2>1
  <2>3. st[e] # "DYING" BY <2>2 DEF Kept
  <2>4. st[e] = "FREE" /\ curenv[c] = e /\ pc[c] \in {"trap", "timer"}
    BY <2>2, <2>3 DEF Allowed
  <2>5. env_status'[e] = "FREE" BY <2>2, <2>4 DEF Kept
  <2> QED BY <2>1, <2>4, <2>5
<1>2. IInv /\ [Next]_vars => [A]_vars BY <1>1
<1> QED BY <1>2, Invariance, PTL DEF Spec, ZombieFreedByItsTrap

(* Nothing but a message wakes a receiver: an environment blocked in       *)
(* sys_ipc_recv gets on a CPU or on the run queue only in a step that      *)
(* clears env_ipc_recving (syscall.c:363-398, sched.c:60-75).              *)
THEOREM WokenBySendHolds ==
  ASSUME Disciplined PROVE Spec => WokenBySend
<1> DEFINE A == \A e \in Envs : /\ env_status[e] = "NOT_RUNNABLE" /\ env_ipc_recving[e]
                                /\ env_status'[e] \in {"RUNNABLE", "RUNNING"}
                                => ~env_ipc_recving'[e]
<1>1. ASSUME IInv, [Next]_vars PROVE A
  <2> SUFFICES ASSUME NEW e \in Envs, env_status[e] = "NOT_RUNNABLE", env_ipc_recving[e],
                      env_status'[e] \in {"RUNNABLE", "RUNNING"}
               PROVE  ~env_ipc_recving'[e]
    OBVIOUS
  <2>1. PICK c \in CPUs : \E st : Kept(st) /\ Allowed(c, e, st[e])
    BY <1>1, WhoChanges
  <2>2. PICK st : Kept(st) /\ Allowed(c, e, st[e]) BY <2>1
  <2>3. st[e] # "NOT_RUNNABLE" /\ st[e] # "FREE" BY <2>2 DEF Kept
  <2> QED BY <2>2, <2>3 DEF Allowed
<1>2. IInv /\ [Next]_vars => [A]_vars BY <1>1
<1> QED BY <1>2, Invariance, PTL DEF Spec, WokenBySend
=============================================================================
