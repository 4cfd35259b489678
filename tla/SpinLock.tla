------------------------------ MODULE SpinLock ------------------------------
(***************************************************************************)
(* The spin lock of the JOS kernel (kern/spinlock.c), one action per       *)
(* access to the memory the CPUs share: lk->locked, read and written by    *)
(* the atomic xchg, and the debugging record lk->cpu, read and written by  *)
(* plain loads and stores.  DEBUG_SPINLOCK is on, as in the kernel's       *)
(* build, so spin_lock and spin_unlock first ask holding(lk) and panic on  *)
(* the wrong answer.  A CPU takes the lock, works, and gives it back, as   *)
(* every path through the kernel does.                                     *)
(*                                                                         *)
(* A plain store first goes to the store buffer of its CPU, which alone    *)
(* sees it there; the locked xchg empties the buffer before it executes    *)
(* (the x86 ordering the comments of spinlock.c:70-72 and :118-122 invoke).*)
(***************************************************************************)
EXTENDS Naturals, Sequences

CONSTANTS CPUs,     \* the processors
          NoCPU     \* lk->cpu when no CPU is recorded (the null pointer)

ASSUME NoCPUAssumption == NoCPU \notin CPUs

VARIABLES locked,   \* lk->locked
          cpu,      \* lk->cpu, in memory
          buffer,   \* stores to lk->cpu in each CPU's store buffer
          at        \* where each CPU is

lockVars == <<locked, cpu, buffer, at>>

(***************************************************************************)
(* "idle"        not using the lock                                        *)
(* "lock_cpu"    in spin_lock: holding has read locked = 1                 *)
(* "xchg"        in spin_lock: about to execute the xchg                   *)
(* "record"      in spin_lock: owns the lock, lk->cpu not yet written      *)
(* "cs"          between spin_lock and spin_unlock                         *)
(* "unlock_cpu"  in spin_unlock: holding has read locked = 1               *)
(* "clear"       in spin_unlock: about to write lk->cpu = 0                *)
(* "release"     in spin_unlock: about to execute the xchg                 *)
(* "panic"       one of the two debugging checks has failed                *)
(***************************************************************************)
Locations == {"idle", "lock_cpu", "xchg", "record", "cs", "unlock_cpu",
              "clear", "release", "panic"}

Owning == {"record", "cs", "unlock_cpu", "clear", "release"}

Jump(c, from, to) ==
  /\ at[c] = from
  /\ at' = [at EXCEPT ![c] = to]

LockInit ==
  /\ locked = 0
  /\ cpu = NoCPU
  /\ buffer = [c \in CPUs |-> <<>>]
  /\ at = [c \in CPUs |-> "idle"]

-----------------------------------------------------------------------------
(* The memory: what c reads from lk->cpu, and a plain store to it. *)

Load(c) == IF buffer[c] = <<>> THEN cpu ELSE buffer[c][Len(buffer[c])]

Store(c, value) ==
  /\ buffer' = [buffer EXCEPT ![c] = Append(@, value)]
  /\ UNCHANGED cpu

(* The oldest buffered store reaches memory, at any time. *)
Drain(c) ==
  /\ buffer[c] # <<>>
  /\ cpu' = Head(buffer[c])
  /\ buffer' = [buffer EXCEPT ![c] = Tail(@)]
  /\ UNCHANGED <<locked, at>>

(* xchg(&lk->locked, value) *)
Xchg(c, value) ==
  /\ buffer[c] = <<>>
  /\ locked' = value
  /\ UNCHANGED <<cpu, buffer>>

-----------------------------------------------------------------------------
(* spin_lock *)

(* holding(lk) reads lk->locked; a free lock is held by nobody. *)
LockReadLocked(c) ==
  /\ Jump(c, "idle", IF locked = 0 THEN "xchg" ELSE "lock_cpu")
  /\ UNCHANGED <<locked, cpu, buffer>>

(* holding(lk) reads lk->cpu; "already holding" is a panic. *)
LockReadCpu(c) ==
  /\ Jump(c, "lock_cpu", IF Load(c) = c THEN "panic" ELSE "xchg")
  /\ UNCHANGED <<locked, cpu, buffer>>

(* Mutant: the result of the xchg is ignored. *)
TestAndSetOnce(c) ==
  /\ Jump(c, "xchg", "record")
  /\ Xchg(c, 1)

(* One round of the loop: write 1, look at what was there. *)
TestAndSet(c) ==
  /\ Jump(c, "xchg", IF locked = 0 THEN "record" ELSE "xchg")
  /\ Xchg(c, 1)

RecordOwner(c) ==
  /\ Jump(c, "record", "cs")
  /\ Store(c, c)
  /\ UNCHANGED locked

-----------------------------------------------------------------------------
(* spin_unlock *)

UnlockReadLocked(c) ==
  /\ Jump(c, "cs", IF locked = 0 THEN "panic" ELSE "unlock_cpu")
  /\ UNCHANGED <<locked, cpu, buffer>>

UnlockReadCpu(c) ==
  /\ Jump(c, "unlock_cpu", IF Load(c) = c THEN "clear" ELSE "panic")
  /\ UNCHANGED <<locked, cpu, buffer>>

(* Mutant: lk->cpu keeps naming the last owner. *)
ClearOwnerSkipped(c) ==
  /\ Jump(c, "clear", "release")
  /\ UNCHANGED <<locked, cpu, buffer>>

(* Mutant: the lock is released before the record is cleared. *)
ClearOwnerLate(c) ==
  /\ Jump(c, "clear", "release")
  /\ Xchg(c, 0)

ClearOwner(c) ==
  /\ Jump(c, "clear", "release")
  /\ Store(c, NoCPU)
  /\ UNCHANGED locked

(* Mutant: the lock is left taken. *)
ReleaseNothing(c) ==
  /\ Jump(c, "release", "idle")
  /\ Xchg(c, 1)

Release(c) ==
  /\ Jump(c, "release", "idle")
  /\ Xchg(c, 0)

-----------------------------------------------------------------------------
Acquiring(c) == LockReadCpu(c) \/ TestAndSet(c)
Holding(c) == RecordOwner(c) \/ UnlockReadLocked(c) \/ UnlockReadCpu(c)
                \/ ClearOwner(c) \/ Release(c)

LockNext == \E c \in CPUs : LockReadLocked(c) \/ Acquiring(c) \/ Holding(c) \/ Drain(c)

LockSpec == LockInit /\ [][LockNext]_lockVars

(* A CPU that has begun to take or to give back the lock runs on, and its  *)
(* stores reach memory; nothing makes it begin.  xchg gives no CPU         *)
(* precedence, so no stronger fairness of TestAndSet is assumed.           *)
Fairness ==
  \A c \in CPUs : WF_lockVars(Acquiring(c)) /\ WF_lockVars(Holding(c)) /\ WF_lockVars(Drain(c))

FairSpec == LockSpec /\ Fairness

-----------------------------------------------------------------------------
(* Properties *)

(* The types: lk->locked is 0 or 1, and the buffers hold values of lk->cpu. *)
TypeOK ==
  /\ locked \in {0, 1}
  /\ cpu \in CPUs \cup {NoCPU}
  /\ buffer \in [CPUs -> Seq(CPUs \cup {NoCPU})]
  /\ at \in [CPUs -> Locations]

(* No two CPUs are ever between the successful xchg of spin_lock and the   *)
(* releasing xchg of spin_unlock: the promise the whole kernel rests on.   *)
MutualExclusion ==
  \A c, d \in CPUs : at[c] \in Owning /\ at[d] \in Owning => c = d

(* The two debugging panics, "already holding" (spinlock.c:65) and         *)
(* "spin_unlock" (:111), are never raised against a CPU that uses the lock *)
(* correctly, although holding reads lk->locked and lk->cpu one after the  *)
(* other, without the lock, while other CPUs write both and their stores   *)
(* to lk->cpu arrive late.                                                 *)
NoFalsePanic == \A c \in CPUs : at[c] # "panic"

(* The lock as its users see it: owned from the xchg that took it to the   *)
(* xchg that gives it back.                                                *)
Owner == IF \E c \in CPUs : at[c] \in Owning
         THEN CHOOSE c \in CPUs : at[c] \in Owning
         ELSE NoCPU

Abstract == INSTANCE Mutex WITH owner <- Owner

(* spin_lock and spin_unlock implement an atomic lock.                     *)
ImplementsMutex == Abstract!Spec

(* As long as some CPU spins, the lock keeps being taken: no interleaving  *)
(* of releases and attempts leaves every CPU spinning on a lock that       *)
(* nobody holds.                                                           *)
LockIsTaken ==
  (\E c \in CPUs : at[c] = "xchg") ~> (\E c \in CPUs : at[c] = "cs")
=============================================================================
