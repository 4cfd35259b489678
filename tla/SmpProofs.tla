------------------------------ MODULE SmpProofs ------------------------------
(***************************************************************************)
(* Proofs about the processors of 3-sched, for every set of them: how they *)
(* exclude one another (SpinLock) and how they start (Boot).  Of the spin  *)
(* lock: type correctness, mutual exclusion, the absence of false panics,  *)
(* and the implementation of the atomic lock of Mutex.  Of the start, for  *)
(* any machines, memory layout and order of processors: what they are      *)
(* given while no lock protects it, they are given once.                   *)
(***************************************************************************)
EXTENDS SpinLock, Boot, SequenceTheorems, FiniteSetTheorems, TLAPS

-----------------------------------------------------------------------------
(* The spin lock *)

(* Where lk->cpu has been recorded and not yet cleared. *)
Recorded == {"cs", "unlock_cpu", "clear"}

(* An owner has written 1 into lk->locked. *)
OwnerLocked == \A c \in CPUs : at[c] \in Owning => locked = 1

(* What the store buffer of a CPU can hold, by where the CPU is; once it   *)
(* has drained, memory holds the last store.                               *)
BufferOK ==
  \A c \in CPUs :
    /\ at[c] \notin Recorded \cup {"release"} => buffer[c] = <<>>
    /\ at[c] \in Recorded =>
         \/ buffer[c] = <<c>>
         \/ buffer[c] = <<>> /\ cpu = c
    /\ at[c] = "release" =>
         \/ buffer[c] = <<c, NoCPU>>
         \/ buffer[c] = <<NoCPU>>
         \/ buffer[c] = <<>> /\ cpu = NoCPU

(* A CPU is recorded in memory only between its store of itself and the    *)
(* moment its store of the null pointer drains.                            *)
CpuRecorded ==
  \A c \in CPUs : cpu = c => \/ at[c] \in Recorded
                             \/ at[c] = "release" /\ buffer[c] # <<>>

(* The inductive invariant. *)
IInv ==
  /\ TypeOK
  /\ MutualExclusion
  /\ OwnerLocked
  /\ BufferOK
  /\ CpuRecorded
  /\ NoFalsePanic

-----------------------------------------------------------------------------
(* The store buffers that occur hold one store of c, or that and another. *)
LEMMA Buffers ==
  ASSUME NEW a, NEW b
  PROVE  /\ Append(<<>>, a) = <<a>> /\ Append(<<a>>, b) = <<a, b>>
         /\ Tail(<<a>>) = <<>> /\ Tail(<<a, b>>) = <<b>>
         /\ Head(<<a>>) = a /\ Head(<<a, b>>) = a
         /\ <<a>> # <<>> /\ <<a, b>> # <<>>
<1>1. Append(<<>>, a) = <<a>> OBVIOUS
<1>2. Append(<<a>>, b) = <<a, b>>
  <2>1. <<a>> \in Seq({a, b}) OBVIOUS
  <2>2. /\ Append(<<a>>, b) \in Seq({a, b}) /\ Len(Append(<<a>>, b)) = 2
        /\ Append(<<a>>, b)[1] = a /\ Append(<<a>>, b)[2] = b
    BY <2>1
  <2>3. /\ <<a, b>> \in Seq({a, b}) /\ Len(<<a, b>>) = 2
        /\ <<a, b>>[1] = a /\ <<a, b>>[2] = b
    OBVIOUS
  <2>4. \A i \in 1 .. 2 : Append(<<a>>, b)[i] = <<a, b>>[i]
    BY <2>2, <2>3
  <2> QED BY <2>2, <2>3, <2>4, SeqEqual
<1>3. Tail(<<a>>) = <<>> OBVIOUS
<1>4. Tail(<<a, b>>) = <<b>> OBVIOUS
<1>5. Head(<<a>>) = a /\ Head(<<a, b>>) = a OBVIOUS
<1>6. <<a>> # <<>> /\ <<a, b>> # <<>> OBVIOUS
<1> QED BY <1>1, <1>2, <1>3, <1>4, <1>5, <1>6

(* What a CPU reads from lk->cpu is itself exactly while it is recorded. *)
LEMMA LoadLemma ==
  ASSUME IInv, NEW c \in CPUs
  PROVE  /\ at[c] \in Recorded => Load(c) = c
         /\ at[c] \notin Recorded \cup {"release"} => Load(c) # c
<1>1. CASE at[c] \in Recorded
  <2>1. CASE buffer[c] = <<c>>
    <3>1. Len(buffer[c]) = 1 /\ buffer[c][1] = c /\ buffer[c] # <<>>
      BY <2>1
    <3> QED BY <3>1, <1>1 DEF Load, Recorded
  <2>2. CASE buffer[c] = <<>> /\ cpu = c
    BY <2>2, <1>1 DEF Load, Recorded
  <2> QED BY <1>1, <2>1, <2>2 DEF IInv, BufferOK
<1>2. CASE at[c] \notin Recorded \cup {"release"}
  <2>1. buffer[c] = <<>> BY <1>2 DEF IInv, BufferOK
  <2>2. cpu # c BY <1>2 DEF IInv, CpuRecorded
  <2> QED BY <1>2, <2>1, <2>2 DEF Load
<1> QED BY <1>1, <1>2

LEMMA InitIInv == LockInit => IInv
  BY NoCPUAssumption DEF LockInit, IInv, TypeOK, MutualExclusion, OwnerLocked,
     BufferOK, CpuRecorded, NoFalsePanic, Owning, Recorded, Locations

(* Every step of every CPU preserves the inductive invariant. *)
LEMMA NextIInv == IInv /\ [LockNext]_lockVars => IInv'
<1> SUFFICES ASSUME IInv, [LockNext]_lockVars PROVE IInv'
  OBVIOUS
<1> USE DEF Owning, Recorded, Locations
<1>1. ASSUME NEW c \in CPUs, LockReadLocked(c) PROVE IInv'
  BY <1>1 DEF IInv, LockReadLocked, Jump, TypeOK, MutualExclusion, OwnerLocked,
     BufferOK, CpuRecorded, NoFalsePanic
<1>2. ASSUME NEW c \in CPUs, LockReadCpu(c) PROVE IInv'
  <2>1. Load(c) # c
    BY <1>2, LoadLemma DEF LockReadCpu, Jump
  <2> QED BY <1>2, <2>1 DEF IInv, LockReadCpu, Jump, TypeOK, MutualExclusion,
             OwnerLocked, BufferOK, CpuRecorded, NoFalsePanic
<1>3. ASSUME NEW c \in CPUs, TestAndSet(c) PROVE IInv'
  BY <1>3 DEF IInv, TestAndSet, Xchg, Jump, TypeOK, MutualExclusion, OwnerLocked,
     BufferOK, CpuRecorded, NoFalsePanic
<1>4. ASSUME NEW c \in CPUs, RecordOwner(c) PROVE IInv'
  <2>1. buffer[c] = <<>> /\ buffer'[c] = <<c>>
    <3>1. buffer[c] = <<>>
      BY <1>4 DEF IInv, BufferOK, RecordOwner, Jump
    <3>2. buffer'[c] = Append(buffer[c], c)
      BY <1>4 DEF IInv, TypeOK, RecordOwner, Store
    <3> QED BY <3>1, <3>2, Buffers
  <2>2. buffer' \in [CPUs -> Seq(CPUs \cup {NoCPU})]
    BY <1>4 DEF IInv, TypeOK, RecordOwner, Store
  <2>3. \A d \in CPUs : d # c => buffer'[d] = buffer[d]
    BY <1>4 DEF IInv, TypeOK, RecordOwner, Store
  <2> QED BY <1>4, <2>1, <2>2, <2>3 DEF IInv, RecordOwner, Store, Jump, TypeOK,
             MutualExclusion, OwnerLocked, BufferOK, CpuRecorded, NoFalsePanic
<1>5. ASSUME NEW c \in CPUs, UnlockReadLocked(c) PROVE IInv'
  BY <1>5 DEF IInv, UnlockReadLocked, Jump, TypeOK, MutualExclusion, OwnerLocked,
     BufferOK, CpuRecorded, NoFalsePanic
<1>6. ASSUME NEW c \in CPUs, UnlockReadCpu(c) PROVE IInv'
  <2>1. Load(c) = c
    BY <1>6, LoadLemma DEF UnlockReadCpu, Jump
  <2> QED BY <1>6, <2>1 DEF IInv, UnlockReadCpu, Jump, TypeOK, MutualExclusion,
             OwnerLocked, BufferOK, CpuRecorded, NoFalsePanic
<1>7. ASSUME NEW c \in CPUs, ClearOwner(c) PROVE IInv'
  <2>1. \/ buffer[c] = <<c>> /\ buffer'[c] = <<c, NoCPU>>
        \/ buffer[c] = <<>> /\ buffer'[c] = <<NoCPU>>
    <3>1. buffer[c] = <<c>> \/ buffer[c] = <<>>
      BY <1>7 DEF IInv, BufferOK, ClearOwner, Jump
    <3>2. buffer'[c] = Append(buffer[c], NoCPU)
      BY <1>7 DEF IInv, TypeOK, ClearOwner, Store
    <3> QED BY <3>1, <3>2, Buffers
  <2>2. buffer' \in [CPUs -> Seq(CPUs \cup {NoCPU})]
    BY <1>7 DEF IInv, TypeOK, ClearOwner, Store
  <2>3. \A d \in CPUs : d # c => buffer'[d] = buffer[d]
    BY <1>7 DEF IInv, TypeOK, ClearOwner, Store
  <2>4. buffer'[c] # <<>>
    BY <2>1
  <2> QED BY <1>7, <2>1, <2>2, <2>3, <2>4 DEF IInv, ClearOwner, Store, Jump,
             TypeOK, MutualExclusion, OwnerLocked, BufferOK, CpuRecorded, NoFalsePanic
<1>8. ASSUME NEW c \in CPUs, Release(c) PROVE IInv'
  <2>1. buffer[c] = <<>> /\ cpu = NoCPU
    BY <1>8 DEF IInv, BufferOK, Release, Jump, Xchg
  <2> QED BY <1>8, <2>1, NoCPUAssumption DEF IInv, Release, Xchg, Jump, TypeOK,
             MutualExclusion, OwnerLocked, BufferOK, CpuRecorded, NoFalsePanic
<1>9. ASSUME NEW c \in CPUs, Drain(c) PROVE IInv'
  <2>1. at[c] \in Recorded \cup {"release"}
    BY <1>9 DEF IInv, BufferOK, Drain
  <2>2. \/ /\ at[c] \in Recorded
           /\ buffer'[c] = <<>> /\ cpu' = c
        \/ /\ at[c] = "release"
           /\ buffer'[c] = <<NoCPU>> /\ cpu' = c
        \/ /\ at[c] = "release"
           /\ buffer'[c] = <<>> /\ cpu' = NoCPU
    <3>1. buffer[c] # <<>> /\ buffer'[c] = Tail(buffer[c]) /\ cpu' = Head(buffer[c])
      BY <1>9 DEF IInv, TypeOK, Drain
    <3>2. \/ at[c] \in Recorded /\ buffer[c] = <<c>>
          \/ at[c] = "release" /\ buffer[c] = <<c, NoCPU>>
          \/ at[c] = "release" /\ buffer[c] = <<NoCPU>>
      BY <2>1, <3>1 DEF IInv, BufferOK
    <3>3. CASE at[c] \in Recorded /\ buffer[c] = <<c>>
      BY <3>1, <3>3, Buffers
    <3>4. CASE at[c] = "release" /\ buffer[c] = <<c, NoCPU>>
      <4>1. buffer'[c] = <<NoCPU>> /\ cpu' = c BY <3>1, <3>4, Buffers
      <4> QED BY <4>1, <3>4
    <3>5. CASE at[c] = "release" /\ buffer[c] = <<NoCPU>>
      <4>1. buffer'[c] = <<>> /\ cpu' = NoCPU BY <3>1, <3>5, Buffers
      <4> QED BY <4>1, <3>5
    <3> QED BY <3>2, <3>3, <3>4, <3>5
  <2>3. buffer' \in [CPUs -> Seq(CPUs \cup {NoCPU})] /\ at' = at /\ locked' = locked
    BY <1>9 DEF IInv, TypeOK, Drain
  <2>4. \A d \in CPUs : d # c => buffer'[d] = buffer[d]
    BY <1>9 DEF IInv, TypeOK, Drain
  <2>5. \A d \in CPUs : d # c => at[d] \notin Recorded \cup {"release"}
    BY <2>1 DEF IInv, MutualExclusion
  <2>6. TypeOK' /\ MutualExclusion' /\ OwnerLocked' /\ NoFalsePanic'
    BY <2>2, <2>3 DEF IInv, TypeOK, MutualExclusion, OwnerLocked, NoFalsePanic
  <2>7. BufferOK'
    BY <2>2, <2>3, <2>4, <2>5 DEF IInv, BufferOK
  <2>8. CpuRecorded'
    <3>1. <<NoCPU>> # <<>> OBVIOUS
    <3> QED BY <3>1, <2>2, <2>3, <2>4, <2>5, NoCPUAssumption DEF CpuRecorded
  <2> QED BY <2>6, <2>7, <2>8 DEF IInv
<1>10. CASE UNCHANGED lockVars
  BY <1>10 DEF lockVars, IInv, TypeOK, MutualExclusion, OwnerLocked, BufferOK,
     CpuRecorded, NoFalsePanic
<1> QED BY <1>1, <1>2, <1>3, <1>4, <1>5, <1>6, <1>7, <1>8, <1>9, <1>10
        DEF LockNext, Acquiring, Holding

(* The inductive invariant holds in every reachable state. *)
THEOREM LockInvariance == LockSpec => []IInv
  BY InitIInv, NextIInv, PTL DEF LockSpec

(* The variables of spinlock.c keep their types. *)
THEOREM LockTypeCorrect == LockSpec => []TypeOK
<1>1. IInv => TypeOK BY DEF IInv
<1> QED BY <1>1, LockInvariance, PTL

(* At most one CPU is between the taking and the releasing xchg. *)
THEOREM MutualExclusionHolds == LockSpec => []MutualExclusion
<1>1. IInv => MutualExclusion BY DEF IInv
<1> QED BY <1>1, LockInvariance, PTL

(* The debugging checks of spin_lock and spin_unlock never fail. *)
THEOREM NoFalsePanicHolds == LockSpec => []NoFalsePanic
<1>1. IInv => NoFalsePanic BY DEF IInv
<1> QED BY <1>1, LockInvariance, PTL

-----------------------------------------------------------------------------
(* Owner is the one CPU that owns the lock. *)
LEMMA OwnerIs ==
  ASSUME MutualExclusion
  PROVE  /\ \A c \in CPUs : at[c] \in Owning => Owner = c
         /\ (\A c \in CPUs : at[c] \notin Owning) => Owner = NoCPU
  BY DEF MutualExclusion, Owner

(* Every step of the spin lock is a step of the atomic lock, or none. *)
LEMMA StepImplements ==
  IInv /\ IInv' /\ [LockNext]_lockVars => [Abstract!Next]_Owner
<1> SUFFICES ASSUME IInv, IInv', [LockNext]_lockVars PROVE [Abstract!Next]_Owner
  OBVIOUS
<1>0. MutualExclusion /\ MutualExclusion' BY DEF IInv
<1>1. /\ \A c \in CPUs : at[c] \in Owning => Owner = c
      /\ (\A c \in CPUs : at[c] \notin Owning) => Owner = NoCPU
  BY <1>0, OwnerIs
<1>2. /\ \A c \in CPUs : at'[c] \in Owning => Owner' = c
      /\ (\A c \in CPUs : at'[c] \notin Owning) => Owner' = NoCPU
  <2>1. MutualExclusion' => /\ \A c \in CPUs : at'[c] \in Owning => Owner' = c
                            /\ (\A c \in CPUs : at'[c] \notin Owning) => Owner' = NoCPU
    BY DEF MutualExclusion, Owner
  <2> QED BY <1>0, <2>1
(* A step that moves no CPU into or out of ownership is a stutter. *)
<1>3. ASSUME \A c \in CPUs : at'[c] \in Owning <=> at[c] \in Owning
      PROVE  Owner' = Owner
  BY <1>1, <1>2, <1>3
<1>4. ASSUME NEW c \in CPUs, TestAndSet(c), locked = 0 PROVE Abstract!Next
  <2>1. \A d \in CPUs : at[d] \notin Owning
    BY <1>4 DEF IInv, OwnerLocked
  <2>2. at'[c] \in Owning
    BY <1>4 DEF TestAndSet, Jump, IInv, TypeOK, Owning
  <2> QED BY <1>1, <1>2, <2>1, <2>2 DEF Abstract!Next, Abstract!Acquire
<1>5. ASSUME NEW c \in CPUs, Release(c) PROVE Abstract!Next
  <2>1. at[c] \in Owning /\ \A d \in CPUs : at'[d] \notin Owning
    BY <1>5 DEF Release, Jump, IInv, TypeOK, MutualExclusion, Owning
  <2> QED BY <1>1, <1>2, <2>1 DEF Abstract!Next, Abstract!Release
<1>6. ASSUME NEW c \in CPUs,
             \/ LockReadLocked(c) \/ LockReadCpu(c) \/ RecordOwner(c)
             \/ UnlockReadLocked(c) \/ UnlockReadCpu(c) \/ ClearOwner(c)
             \/ Drain(c) \/ (TestAndSet(c) /\ locked # 0)
      PROVE  Owner' = Owner
  <2>1. \A d \in CPUs : at'[d] # "panic" BY DEF IInv, NoFalsePanic
  <2>2. \A d \in CPUs : at'[d] \in Owning <=> at[d] \in Owning
    BY <1>6, <2>1 DEF LockReadLocked, LockReadCpu, RecordOwner, UnlockReadLocked,
       UnlockReadCpu, ClearOwner, Drain, TestAndSet, Jump, IInv, TypeOK, Owning
  <2> QED BY <2>2, <1>3
<1>7. CASE UNCHANGED lockVars
  BY <1>7, <1>3 DEF lockVars
<1>8. CASE LockNext
  <2>1. PICK c \in CPUs : LockReadLocked(c) \/ Acquiring(c) \/ Holding(c) \/ Drain(c)
    BY <1>8 DEF LockNext
  <2>2. CASE TestAndSet(c) /\ locked = 0
    BY <2>2, <1>4
  <2>3. CASE Release(c)
    BY <2>3, <1>5
  <2>4. CASE ~(TestAndSet(c) /\ locked = 0) /\ ~Release(c)
    <3>1. Owner' = Owner
      BY <2>1, <2>4, <1>6 DEF Acquiring, Holding
    <3> QED BY <3>1
  <2> QED BY <2>2, <2>3, <2>4
<1> QED BY <1>7, <1>8

(* The spin lock, with its store buffers and its debugging record,         *)
(* implements an atomic lock.                                              *)
THEOREM LockImplementation == LockSpec => ImplementsMutex
<1>1. LockInit => Abstract!Init
  BY DEF LockInit, Abstract!Init, Owner, Owning
<1> QED BY <1>1, StepImplements, LockInvariance, PTL
        DEF LockSpec, ImplementsMutex, Abstract!Spec

-----------------------------------------------------------------------------
(* The start of the processors *)

(* Physical memory *)

Uses == {"bios", "io", "kernel", "pgdir", "pages", "envs", "free", "table",
         "entry", "program"}

(* No page of r has two uses; no page is below the image that boot_alloc   *)
(* gives out, nor is the page of the entry code used for another purpose.  *)
Tidy(r) ==
  /\ DOMAIN r = {"npages", "nextfree", "stuck", "use"} /\ DOMAIN r.use = Uses
  /\ r.nextfree \in Nat
  /\ \A u, v \in Uses : u # v => r.use[u] \cap r.use[v] = {}
  /\ \A u \in Uses \ {"entry"} : MPENTRY \notin r.use[u]

(* What is used before there is a list of free pages. *)
Early(r) ==
  /\ Tidy(r) /\ KernelEnd <= r.nextfree
  /\ \A u \in Uses : \A p \in r.use[u] : p = 0 \/ p \in IOPHYSMEM .. (r.nextfree - 1)
  /\ r.use["free"] = {} /\ r.use["entry"] = {}

LEMMA Layout ==
  /\ {MPENTRY, IOPHYSMEM, EXTPHYSMEM, KernelEnd, KSTACKTOP} \subseteq Nat
  /\ 0 < MPENTRY /\ MPENTRY < IOPHYSMEM /\ IOPHYSMEM < EXTPHYSMEM
  /\ EXTPHYSMEM < KernelEnd
  /\ {PagesSize, EnvsSize, KernelTables, ProgramSize, KSTKSIZE, KSTKGAP} \subseteq Nat \ {0}
  /\ NCPU \in Nat \ {0}
BY BootAssumption

(* boot_alloc gives out pages above all that is in use. *)
LEMMA BootAllocated ==
  ASSUME NEW r, Early(r), NEW n \in Nat, NEW user \in Uses \ {"free", "entry"}
  PROVE  Early(boot_alloc(r, n, user))
<1> DEFINE last == r.nextfree + n
           new == r.nextfree .. (last - 1)
           b == [r EXCEPT !.nextfree = last, !.use[user] = @ \cup new]
<1>1. CASE last >= r.npages
  <2> DEFINE x == [r EXCEPT !.stuck = TRUE]
  <2>1. boot_alloc(r, n, user) = x BY <1>1 DEF boot_alloc
  <2>2. /\ DOMAIN x = DOMAIN r /\ x.use = r.use /\ x.nextfree = r.nextfree
    BY DEF Early, Tidy
  <2> HIDE DEF x
  <2> QED BY <2>1, <2>2 DEF Early, Tidy
<1>2. CASE ~(last >= r.npages)
  <2>1. boot_alloc(r, n, user) = b BY <1>2 DEF boot_alloc
  <2>2. /\ DOMAIN b = DOMAIN r /\ b.nextfree = last /\ DOMAIN b.use = Uses
        /\ b.use[user] = r.use[user] \cup new
        /\ \A u \in Uses \ {user} : b.use[u] = r.use[u]
    BY DEF Early, Tidy
  <2>3. last \in Nat /\ r.nextfree <= last /\ r.nextfree \in Nat BY DEF Early, Tidy
  <2>4. \A u \in Uses : r.use[u] \cap new = {}
    <3>1. SUFFICES ASSUME NEW u \in Uses, NEW p \in r.use[u] PROVE p \notin new
      OBVIOUS
    <3>2. p = 0 \/ p \in IOPHYSMEM .. (r.nextfree - 1) BY DEF Early
    <3> QED BY <2>3, <3>2, Layout DEF Early
  <2>5. MPENTRY \notin new BY <2>3, Layout DEF Early
  <2> HIDE DEF b, new
  <2>6. Tidy(b) BY <2>2, <2>3, <2>4, <2>5 DEF Early, Tidy
  <2>7. \A u \in Uses : \A p \in b.use[u] : p = 0 \/ p \in IOPHYSMEM .. (b.nextfree - 1)
    <3>1. SUFFICES ASSUME NEW u \in Uses, NEW p \in b.use[u]
                   PROVE  p = 0 \/ p \in IOPHYSMEM .. (last - 1)
      BY <2>2
    <3>2. CASE p \in r.use[u]
      BY <2>3, <3>2, Layout DEF Early
    <3>3. CASE p \in new BY <2>3, <3>3, Layout DEF Early, new
    <3> QED BY <2>2, <3>2, <3>3
  <2>8. b.use["free"] = {} /\ b.use["entry"] = {}
    BY <2>2 DEF Early, Uses
  <2>9. KernelEnd <= b.nextfree BY <2>2, <2>3, Layout DEF Early
  <2>10. Early(b) BY <2>6, <2>7, <2>8, <2>9 DEF Early
  <2> QED BY <2>1, <2>10
<1> QED BY <1>1, <1>2

(* page_init lists what is left, but for the page of the entry code. *)
LEMMA PagesListed ==
  ASSUME NEW r, Early(r)
  PROVE  Tidy(page_init(r))
<1> DEFINE free == {i \in 1 .. (r.npages - 1) :
                      /\ i # MPENTRY
                      /\ i \notin IOPHYSMEM .. (EXTPHYSMEM - 1)
                      /\ i \notin EXTPHYSMEM .. (r.nextfree - 1)}
           x == [r EXCEPT !.use.free = free]
<1>1. page_init(r) = x BY DEF page_init
<1>2. /\ DOMAIN x = DOMAIN r /\ DOMAIN x.use = Uses /\ x.nextfree = r.nextfree
      /\ x.use["free"] = free
      /\ \A u \in Uses \ {"free"} : x.use[u] = r.use[u]
  BY DEF Early, Tidy, Uses
<1>3. \A u \in Uses : r.use[u] \cap free = {}
  <2>1. SUFFICES ASSUME NEW u \in Uses, NEW p \in r.use[u], p \in free PROVE FALSE
    OBVIOUS
  <2>2. p = 0 \/ p \in IOPHYSMEM .. (r.nextfree - 1) BY DEF Early
  <2>3. r.nextfree \in Nat BY DEF Early, Tidy
  <2> QED BY <2>1, <2>2, <2>3, Layout
<1>4. MPENTRY \notin free OBVIOUS
<1> HIDE DEF free, x
<1>5. Tidy(x) BY <1>2, <1>3, <1>4 DEF Early, Tidy
<1> QED BY <1>1, <1>5

LEMMA PagesAllocated ==
  ASSUME NEW r, Tidy(r), NEW n, NEW user \in Uses \ {"free", "entry"}
  PROVE  Tidy(page_alloc(r, n, user))
<1> DEFINE taken == {p \in r.use.free : Cardinality({q \in r.use.free : q > p}) < n}
           x == [r EXCEPT !.stuck = TRUE]
           b == [r EXCEPT !.use.free = @ \ taken, !.use[user] = @ \cup taken]
<1>1. page_alloc(r, n, user) = IF Cardinality(taken) < n THEN x ELSE b BY DEF page_alloc
<1>2. taken \subseteq r.use["free"] OBVIOUS
<1> HIDE DEF taken
<1>3. DOMAIN x = DOMAIN r /\ x.use = r.use /\ x.nextfree = r.nextfree BY DEF Tidy
<1>4. /\ DOMAIN b = DOMAIN r /\ b.nextfree = r.nextfree /\ DOMAIN b.use = Uses
      /\ b.use["free"] = r.use["free"] \ taken
      /\ b.use[user] = r.use[user] \cup taken
      /\ \A u \in Uses \ {"free", user} : b.use[u] = r.use[u]
  BY DEF Tidy, Uses
<1> HIDE DEF x, b
<1>5. Tidy(x) BY <1>3 DEF Tidy
<1>6. Tidy(b)
  <2>1. "free" \in Uses \ {"entry"} BY DEF Uses
  <2>2. \A u \in Uses \ {"entry"} : MPENTRY \notin b.use[u] BY <1>2, <1>4, <2>1 DEF Tidy
  <2>3. ASSUME NEW u \in Uses, NEW v \in Uses, u # v PROVE b.use[u] \cap b.use[v] = {}
    BY <1>2, <1>4, <2>1, <2>3 DEF Tidy
  <2> QED BY <1>4, <2>2, <2>3 DEF Tidy
<1> QED BY <1>1, <1>5, <1>6

LEMMA FirmwareEarly == ASSUME NEW n PROVE Early(Firmware(n))
<1> DEFINE r == Firmware(n)
<1>1. /\ DOMAIN r = {"npages", "nextfree", "stuck", "use"} /\ DOMAIN r.use = Uses
      /\ r.nextfree = KernelEnd
      /\ r.use["bios"] = {0} /\ r.use["io"] = IOPHYSMEM .. (EXTPHYSMEM - 1)
      /\ r.use["kernel"] = EXTPHYSMEM .. (KernelEnd - 1)
      /\ \A u \in Uses \ {"bios", "io", "kernel"} : r.use[u] = {}
  BY DEF Firmware, Uses
<1> HIDE DEF r
<1>2. {"bios", "io", "kernel"} \subseteq Uses \ {"entry", "free"} BY DEF Uses
<1>3. \A u, v \in Uses : u # v => r.use[u] \cap r.use[v] = {}
  <2>1. SUFFICES ASSUME NEW u \in Uses, NEW v \in Uses, u # v, NEW p \in r.use[u]
                 PROVE  p \notin r.use[v]
    OBVIOUS
  <2>2. u \in {"bios", "io", "kernel"} BY <1>1, <2>1
  <2>3. CASE v \notin {"bios", "io", "kernel"} BY <1>1, <2>3
  <2>4. CASE v \in {"bios", "io", "kernel"} BY <1>1, <2>1, <2>2, <2>4, Layout
  <2> QED BY <2>3, <2>4
<1>4. \A u \in Uses : \A p \in r.use[u] : p # MPENTRY /\ (p = 0 \/ p \in IOPHYSMEM .. (KernelEnd - 1))
  BY <1>1, Layout
<1>5. r.use["free"] = {} /\ r.use["entry"] = {} BY <1>1 DEF Uses
<1> QED BY <1>1, <1>3, <1>4, <1>5, Layout DEF Early, Tidy, r

LEMMA MemoryInitialised == ASSUME NEW n PROVE Tidy(mem_init(Firmware(n)))
<1> DEFINE pgdir == boot_alloc(Firmware(n), 1, "pgdir")
           pages == boot_alloc(pgdir, PagesSize, "pages")
           envs_ == boot_alloc(pages, EnvsSize, "envs")
<1>1. {"pgdir", "pages", "envs", "table"} \subseteq Uses \ {"free", "entry"} BY DEF Uses
<1>2. Early(pgdir) BY <1>1, FirmwareEarly, BootAllocated
<1>3. Early(pages) BY <1>1, <1>2, BootAllocated, Layout
<1>4. Early(envs_) BY <1>1, <1>3, BootAllocated, Layout
<1> HIDE DEF pgdir, pages, envs_
<1>5. Tidy(page_init(envs_)) BY <1>4, PagesListed
<1>6. Tidy(page_alloc(page_init(envs_), 4 + KernelTables, "table"))
  BY <1>1, <1>5, PagesAllocated
<1> QED BY <1>6 DEF mem_init, pgdir, pages, envs_

-----------------------------------------------------------------------------
(* The table of processors *)

LEMMA TableCounted ==
  ASSUME NEW m \in Machines
  PROVE  /\ mp_init(m.conf, m.table).bootcpu = bsp
         /\ mp_init(m.conf, m.table).ncpu \in Nat
         /\ mp_init(m.conf, m.table).ismp \in BOOLEAN
         /\ mp_init(m.conf, m.table).ncpu > 1 => mp_init(m.conf, m.table).ismp
         /\ \A k \in Nat : k < mp_init(m.conf, m.table).ncpu => k \in Cpus
<1> DEFINE t == m.table
           all == Processors(t)
           read == {i \in all : \A j \in 1 .. i : t[j] # "unknown"}
           boot == {i \in read : t[i] = "boot"}
           last == CHOOSE i \in boot : \A j \in boot : j <= i
           ismp == m.conf /\ \A i \in DOMAIN t : t[i] # "unknown"
           mp == mp_init(m.conf, m.table)
<1>1. /\ mp.ncpu = IF ismp THEN Fits(Cardinality(read)) ELSE IF m.conf THEN 1 ELSE 0
      /\ mp.bootcpu = IF boot = {} THEN 0 ELSE Fits(Cardinality({i \in read : i < last}))
      /\ mp.ismp = ismp
  BY DEF mp_init
<1> HIDE DEF mp
<1>2. /\ m.conf \in BOOLEAN /\ all # {} /\ t \in Seq({"boot", "cpu", "bus", "unknown"})
      /\ \A i \in all : t[i] = "boot" <=> \A j \in all : i <= j
  BY BootAssumption
<1>3. all \subseteq 1 .. Len(t) /\ Len(t) \in Nat BY <1>2 DEF Processors
<1>4. /\ IsFiniteSet(all) /\ IsFiniteSet(read)
      /\ Cardinality(read) \in Nat /\ Cardinality(read) <= Cardinality(all)
      /\ Cardinality(all) \in Nat /\ Cardinality(all) >= 1
  <2>1. IsFiniteSet(1 .. Len(t)) BY <1>3, FS_Interval
  <2>2. IsFiniteSet(all) BY <1>3, <2>1, FS_Subset
  <2>3. read \subseteq all OBVIOUS
  <2> HIDE DEF all, read
  <2>4. Cardinality(all) # 0 BY <1>2, <2>2, FS_EmptySet
  <2> QED BY <2>2, <2>3, <2>4, FS_Subset, FS_CardinalityType
<1>5. \A k \in Nat : k < Cardinality(all) => k \in Cpus BY <1>4 DEF Cpus
<1>6. mp.bootcpu = bsp
  <2>1. CASE boot = {} BY <1>1, <2>1 DEF bsp
  <2>2. CASE boot # {}
    <3>1. PICK b \in boot : TRUE BY <2>2
    <3>2. b \in all /\ \A j \in all : b <= j BY <1>2, <3>1
    <3>3. \A j \in boot : j = b
      <4>1. SUFFICES ASSUME NEW j \in boot PROVE j = b
        OBVIOUS
      <4>2. j \in all /\ j <= b /\ b <= j BY <1>2, <3>1, <3>2
      <4> QED BY <1>3, <3>2, <4>2
    <3>4. b <= b BY <3>2
    <3>5. last = b BY <3>1, <3>3, <3>4
    <3> HIDE DEF last
    <3>6. {i \in read : i < last} = {}
      <4>1. SUFFICES ASSUME NEW i \in read, i < b PROVE FALSE BY <3>5
      <4>2. i \in all /\ b <= i BY <3>2
      <4> QED BY <1>3, <3>2, <4>1, <4>2
    <3>7. Cardinality({i \in read : i < last}) = 0 BY <3>6, FS_EmptySet
    <3> QED BY <1>1, <2>2, <3>7, Layout DEF Fits, bsp
  <2> QED BY <2>1, <2>2
<1>7. ismp \in BOOLEAN /\ (mp.ncpu > 1 => mp.ismp) BY <1>1, <1>2
<1>8. mp.ncpu \in Nat /\ \A k \in Nat : k < mp.ncpu => k < Cardinality(all)
  BY <1>1, <1>4, Layout DEF Fits
<1> QED BY <1>1, <1>5, <1>6, <1>7, <1>8 DEF mp

-----------------------------------------------------------------------------
(* The invariant *)

(* Where the boot processor is, and where another one is. *)
BspAlone == {"mem_init", "percpu", "mp_init", "lapic_init", "mapped", "lock_boot", "copy"}
Launching == {"startup", "startup_again", "wait"}
BspAfter == {"create", "sched_yield", "user", "halt", "monitor", "panic"}
Starting == {"reset", "mpentry", "lapic_init", "mapped", "percpu", "started"}
Up == {"lock", "sched_yield", "user", "halt", "monitor"}

Labels == BspAlone \cup {"next", "init", "off"} \cup Launching \cup BspAfter \cup Starting \cup Up
CpuInfo == [status : {"UNUSED", "STARTED", "HALTED"}, esp : Nat \cup {None}, esp0 : Int,
            ltr : Nat \cup {None}, map : Nat \cup {None}]

Types ==
  /\ machine \in Machines
  /\ pc \in [Cpus -> Labels]
  /\ cpus \in [Cpus -> CpuInfo]
  /\ start \in [ncpu : Nat, ismp : BOOLEAN, c : Nat, kstack : Nat \cup {None}]
  /\ mmio \in [base : Nat, lapic : Nat \cup {None}]

Memory == Tidy(ram) /\ (pc[bsp] = "mem_init" => ram = Firmware(machine.npages))

(* One processor starts at a time, the one that boot_aps waits for; those  *)
(* before it are up, those behind it off.                                  *)
Serial(c) ==
  /\ pc[c] \in {"off"} \cup Starting \cup Up
  /\ pc[bsp] \in BspAlone => pc[c] = "off"
  /\ pc[bsp] \in {"next", "init"} /\ c >= start.c => pc[c] = "off"
  /\ c > start.c => pc[c] = "off"
  /\ pc[c] \in Starting => pc[bsp] \in Launching /\ start.c = c
  /\ pc[bsp] = "startup" /\ c = start.c => pc[c] = "reset"
  /\ pc[c] \in Starting \cup {"off"} => cpus[c].status = "UNUSED"
  /\ pc[c] # "off" => mmio.lapic # None

Stage ==
  /\ pc[bsp] \in BspAlone \cup {"next", "init"} \cup Launching \cup BspAfter
  /\ pc[bsp] \in {"init"} \cup Launching =>
       start.c \in Cpus \ {bsp} /\ start.c < start.ncpu /\ start.kstack = start.c
  /\ \A c \in Cpus \ {bsp} : Serial(c)

(* What boot_aps knows of the others, and how they know who they are. *)
Table ==
  /\ \A k \in Nat : k < start.ncpu => k \in Cpus
  /\ start.ncpu > 1 => start.ismp
  /\ start.ismp => \/ mmio.lapic # None
                   \/ pc[bsp] \in {"lapic_init", "mapped"}

Own ==
  \A c \in Cpus :
    /\ cpus[c].esp \in {None, c}
    /\ \/ cpus[c].esp0 = None /\ cpus[c].ltr = None
       \/ cpus[c].esp0 = StackTop(c) /\ cpus[c].ltr = c

(* mmio_map_region gives out addresses below its base. *)
Maps ==
  /\ \A c \in Cpus : /\ \/ cpus[c].map = None \/ cpus[c].map < mmio.base
                        \/ cpus[c].map = mmio.base /\ pc[c] = "mapped"
                     /\ pc[c] = "mapped" => cpus[c].map = mmio.base
  /\ \A c, d \in Cpus : c # d /\ cpus[c].map # None => cpus[c].map # cpus[d].map

BInv == Types /\ Memory /\ Stage /\ Table /\ Own /\ Maps

LEMMA Numbers ==
  /\ Cpus \subseteq Nat /\ bsp = 0 /\ None = -1
  /\ \A m \in Machines : bsp \in Cpus
<1>1. \A m \in Machines : IsFiniteSet(Processors(m.table)) /\ Processors(m.table) # {}
  <2>1. SUFFICES ASSUME NEW m \in Machines PROVE IsFiniteSet(Processors(m.table))
    BY BootAssumption
  <2>2. m.table \in Seq({"boot", "cpu", "bus", "unknown"}) BY BootAssumption
  <2>3. Processors(m.table) \subseteq 1 .. Len(m.table) /\ Len(m.table) \in Nat
    BY <2>2 DEF Processors
  <2>4. IsFiniteSet(1 .. Len(m.table)) BY <2>3, FS_Interval
  <2> QED BY <2>3, <2>4, FS_Subset
<1>2. \A m \in Machines : Cardinality(Processors(m.table)) \in Nat \ {0}
  BY <1>1, FS_EmptySet, FS_CardinalityType
<1>3. Cpus \subseteq Nat BY <1>2 DEF Cpus
<1>4. \A m \in Machines : 0 \in 0 .. Cardinality(Processors(m.table)) - 1 BY <1>2
<1> QED BY <1>3, <1>4 DEF Cpus, bsp, None

(* A processor that is itself, or that has an APIC, knows who it is. *)
LEMMA Knows == ASSUME NEW c \in Cpus, c = bsp \/ mmio.lapic # None PROVE cpunum(c) = c
BY Numbers DEF cpunum

LEMMA WhoIs ==
  ASSUME BInv, NEW c \in Cpus
  PROVE  /\ bsp \in Cpus /\ Cpus \subseteq Nat /\ bsp = 0
         /\ pc[c] \in (BspAlone \ {"percpu", "lapic_init", "mapped"}) \cup
                      {"next", "init", "create", "panic"} \cup Launching => c = bsp
         /\ pc[c] \in {"mpentry", "started", "lock"} => c # bsp
         /\ c # bsp => Serial(c)
BY Numbers DEF BInv, Types, Stage, Serial, BspAlone, BspAfter, Launching, Starting, Up

LEMMA MemInitStep == ASSUME BInv, NEW c \in Cpus, MemInit(c) PROVE BInv'
<1>1. c = bsp BY DEF BInv, Stage, Serial, MemInit, Starting, Up
<1>2. bsp \in Cpus /\ Cpus \subseteq Nat BY Numbers DEF BInv, Types
<1>3. /\ pc[bsp] = "mem_init" /\ pc' = [pc EXCEPT ![bsp] = pc'[bsp]]
      /\ pc'[bsp] \in {"panic", "percpu"}
      /\ machine' = machine /\ cpus' = cpus /\ start' = start /\ mmio' = mmio
      /\ ram' = mem_init(ram)
  BY <1>1, <1>2 DEF MemInit, Goto, BInv, Types
<1>4. Types' BY <1>3 DEF BInv, Types, Labels, BspAfter, BspAlone
<1>5. Memory' BY <1>3, MemoryInitialised DEF BInv, Memory
<1>6. Stage'
  BY <1>2, <1>3 DEF BInv, Types, Stage, Serial, BspAlone, BspAfter, Launching, Starting, Up
<1>7. Table' BY <1>3 DEF BInv, Table, Types
<1>8. Own' BY <1>3 DEF BInv, Own
<1>9. Maps' BY <1>3 DEF BInv, Maps, Types
<1> QED BY <1>4, <1>5, <1>6, <1>7, <1>8, <1>9 DEF BInv

(* A step of the boot processor, which leaves the records of the others    *)
(* alone, from one stage to another.                                       *)
LEMMA TrapInitPercpuStep == ASSUME BInv, NEW c \in Cpus, TrapInitPercpu(c) PROVE BInv'
<1>1. /\ bsp \in Cpus /\ Cpus \subseteq Nat /\ bsp = 0
      /\ c # bsp => Serial(c) /\ pc[c] \in Starting /\ mmio.lapic # None
  BY WhoIs DEF TrapInitPercpu, Serial, Starting
<1>2. cpunum(c) = c BY <1>1, Knows
<1>3. /\ pc[c] = "percpu" /\ pc' = [pc EXCEPT ![c] = IF c = bsp THEN "mp_init" ELSE "started"]
      /\ machine' = machine /\ ram' = ram /\ start' = start /\ mmio' = mmio
      /\ cpus' = [cpus EXCEPT ![c].esp0 = StackTop(c), ![c].ltr = c]
  BY <1>2 DEF TrapInitPercpu, Goto
<1>4. StackTop(c) \in Int BY <1>1, Layout DEF StackTop
<1>5. /\ cpus'[c].status = cpus[c].status /\ cpus'[c].esp = cpus[c].esp
      /\ cpus'[c].map = cpus[c].map /\ cpus'[c].esp0 = StackTop(c) /\ cpus'[c].ltr = c
      /\ \A d \in Cpus \ {c} : cpus'[d] = cpus[d]
      /\ cpus' \in [Cpus -> CpuInfo]
  <2>1. PICK top \in Int : top = StackTop(c) BY <1>4
  <2>2. cpus' = [cpus EXCEPT ![c].esp0 = top, ![c].ltr = c] BY <1>3, <2>1
  <2>3. cpus \in [Cpus -> CpuInfo] /\ c \in Nat BY <1>1 DEF BInv, Types
  <2>4. cpus[c] \in CpuInfo BY <2>3
  <2>5. PICK k : k = [cpus[c] EXCEPT !.esp0 = top, !.ltr = c] OBVIOUS
  <2>6. /\ k.status = cpus[c].status /\ k.esp = cpus[c].esp /\ k.map = cpus[c].map
        /\ k.esp0 = top /\ k.ltr = c /\ k \in CpuInfo
    BY <2>3, <2>4, <2>5 DEF CpuInfo
  <2>7. cpus' = [cpus EXCEPT ![c] = k] BY <2>2, <2>5
  <2> QED BY <2>1, <2>3, <2>6, <2>7
<1>6. /\ pc'[c] = IF c = bsp THEN "mp_init" ELSE "started"
      /\ \A d \in Cpus \ {c} : pc'[d] = pc[d]
  BY <1>3 DEF BInv, Types
<1>7. Types' BY <1>3, <1>5 DEF BInv, Types, Labels, Starting, BspAlone
<1>8. Memory' BY <1>1, <1>3, <1>6 DEF BInv, Memory
<1>9. Stage'
  BY <1>1, <1>3, <1>5, <1>6
     DEF BInv, Types, Stage, Serial, BspAlone, BspAfter, Launching, Starting, Up
<1>10. Table' BY <1>1, <1>3, <1>6 DEF BInv, Table, Types
<1>11. Own' BY <1>5 DEF BInv, Own
<1>12. Maps' BY <1>3, <1>5, <1>6 DEF BInv, Maps, Types
<1> QED BY <1>7, <1>8, <1>9, <1>10, <1>11, <1>12 DEF BInv

LEMMA MpInitStep == ASSUME BInv, NEW c \in Cpus, MpInit(c) PROVE BInv'
<1>1. c = bsp /\ bsp \in Cpus /\ Cpus \subseteq Nat /\ bsp = 0
  BY WhoIs DEF MpInit, BspAlone
<1>2. PICK mp : mp = mp_init(machine.conf, machine.table) OBVIOUS
<1>3. /\ pc[bsp] = "mp_init" /\ pc' = [pc EXCEPT ![bsp] = "lapic_init"]
      /\ machine' = machine /\ ram' = ram /\ mmio' = mmio
      /\ start' = [start EXCEPT !.ncpu = mp.ncpu, !.ismp = mp.ismp]
      /\ cpus' = [cpus EXCEPT ![mp.bootcpu].status = "STARTED"] \/ cpus' = cpus
  BY <1>1, <1>2 DEF MpInit, Goto
<1>4. /\ mp.bootcpu = bsp /\ mp.ncpu \in Nat /\ mp.ismp \in BOOLEAN
      /\ mp.ncpu > 1 => mp.ismp
      /\ \A k \in Nat : k < mp.ncpu => k \in Cpus
  BY <1>2, TableCounted DEF BInv, Types
<1>5. /\ start'.ncpu = mp.ncpu /\ start'.ismp = mp.ismp /\ start'.c = start.c
      /\ start'.kstack = start.kstack
      /\ start' \in [ncpu : Nat, ismp : BOOLEAN, c : Nat, kstack : Nat \cup {None}]
  BY <1>3, <1>4 DEF BInv, Types
<1>6. /\ cpus'[bsp].esp = cpus[bsp].esp /\ cpus'[bsp].esp0 = cpus[bsp].esp0
      /\ cpus'[bsp].ltr = cpus[bsp].ltr /\ cpus'[bsp].map = cpus[bsp].map
      /\ \A d \in Cpus \ {bsp} : cpus'[d] = cpus[d]
      /\ cpus' \in [Cpus -> CpuInfo]
  BY <1>1, <1>3, <1>4 DEF BInv, Types, CpuInfo
<1>7. pc'[bsp] = "lapic_init" /\ \A d \in Cpus \ {bsp} : pc'[d] = pc[d]
  BY <1>1, <1>3 DEF BInv, Types
<1>8. Types' BY <1>3, <1>5, <1>6 DEF BInv, Types, Labels, Starting
<1>9. Memory' BY <1>3, <1>7 DEF BInv, Memory
<1>10. Stage'
  BY <1>1, <1>3, <1>5, <1>6, <1>7
     DEF BInv, Types, Stage, Serial, BspAlone, BspAfter, Launching, Starting, Up
<1>11. Table' BY <1>3, <1>4, <1>5, <1>7 DEF BInv, Table
<1>12. Own' BY <1>6 DEF BInv, Own
<1>13. Maps' BY <1>3, <1>6, <1>7 DEF BInv, Maps, Types
<1> QED BY <1>8, <1>9, <1>10, <1>11, <1>12, <1>13 DEF BInv

(* Nobody else is about to map its APIC. *)
LEMMA LapicInitStep == ASSUME BInv, NEW c \in Cpus, LapicInit(c) PROVE BInv'
<1>1. /\ bsp \in Cpus /\ Cpus \subseteq Nat /\ bsp = 0
      /\ c # bsp => Serial(c) /\ pc[c] \in Starting
  BY WhoIs DEF LapicInit, Serial, Starting
<1>2. \A d \in Cpus \ {c} : pc[d] # "mapped"
  <2>1. SUFFICES ASSUME NEW d \in Cpus \ {c}, pc[d] = "mapped" PROVE FALSE
    OBVIOUS
  <2>2. pc[c] = "lapic_init" BY DEF LapicInit
  <2> QED BY <1>1, <2>1, <2>2
          DEF BInv, Stage, Serial, BspAlone, BspAfter, Launching, Starting, Up
<1>3. CASE start.ismp
  <2>1. /\ pc[c] = "lapic_init" /\ pc' = [pc EXCEPT ![c] = "mapped"]
        /\ machine' = machine /\ ram' = ram /\ start' = start /\ mmio' = mmio
        /\ cpus' = [cpus EXCEPT ![c].map = mmio.base]
    BY <1>3 DEF LapicInit, Goto
  <2>2. /\ cpus'[c].status = cpus[c].status /\ cpus'[c].esp = cpus[c].esp
        /\ cpus'[c].map = mmio.base /\ cpus'[c].esp0 = cpus[c].esp0
        /\ cpus'[c].ltr = cpus[c].ltr
        /\ \A d \in Cpus \ {c} : cpus'[d] = cpus[d]
        /\ cpus' \in [Cpus -> CpuInfo]
    BY <1>1, <2>1 DEF BInv, Types, CpuInfo
  <2>3. pc'[c] = "mapped" /\ \A d \in Cpus \ {c} : pc'[d] = pc[d]
    BY <2>1 DEF BInv, Types
  <2>4. Types' BY <2>1, <2>2 DEF BInv, Types, Labels, Starting
  <2>5. Memory' BY <1>1, <2>1, <2>3 DEF BInv, Memory
  <2>6. Stage'
    BY <1>1, <2>1, <2>2, <2>3
       DEF BInv, Types, Stage, Serial, BspAlone, BspAfter, Launching, Starting, Up
  <2>7. Table' BY <1>1, <2>1, <2>3 DEF BInv, Table, Types
  <2>8. Own' BY <2>2 DEF BInv, Own
  <2>9. Maps'
    <3>1. mmio.base \in Nat /\ None = -1 BY Numbers DEF BInv, Types
    <3>2. \A d \in Cpus \ {c} : cpus[d].map = None \/ cpus[d].map < mmio.base
      BY <1>2 DEF BInv, Maps
    <3> QED BY <2>1, <2>2, <2>3, <3>1, <3>2, <1>2 DEF BInv, Maps
  <2> QED BY <2>4, <2>5, <2>6, <2>7, <2>8, <2>9 DEF BInv
<1>4. CASE ~start.ismp
  <2>1. /\ pc[c] = "lapic_init" /\ pc' = [pc EXCEPT ![c] = AfterLapic(c)]
        /\ machine' = machine /\ ram' = ram /\ start' = start /\ mmio' = mmio
        /\ cpus' = cpus
    BY <1>4 DEF LapicInit, Goto
  <2>2. pc'[c] = AfterLapic(c) /\ \A d \in Cpus \ {c} : pc'[d] = pc[d]
    BY <2>1 DEF BInv, Types
  <2>3. AfterLapic(c) = IF c = bsp THEN "lock_boot" ELSE "percpu" BY DEF AfterLapic
  <2>4. Types' BY <2>1, <2>3 DEF BInv, Types, Labels, Starting, BspAlone
  <2>5. Memory' BY <1>1, <2>1, <2>2, <2>3 DEF BInv, Memory
  <2>6. Stage'
    BY <1>1, <2>1, <2>2, <2>3
       DEF BInv, Types, Stage, Serial, BspAlone, BspAfter, Launching, Starting, Up
  <2>7. Table' BY <1>1, <1>4, <2>1 DEF BInv, Table, Types
  <2>8. Own' BY <2>1 DEF BInv, Own
  <2>9. Maps' BY <1>2, <2>1, <2>2, <2>3 DEF BInv, Maps, Types
  <2> QED BY <2>4, <2>5, <2>6, <2>7, <2>8, <2>9 DEF BInv
<1> QED BY <1>3, <1>4

LEMMA LapicMappedStep == ASSUME BInv, NEW c \in Cpus, LapicMapped(c) PROVE BInv'
<1>1. /\ bsp \in Cpus /\ Cpus \subseteq Nat /\ bsp = 0 /\ None = -1
      /\ c # bsp => Serial(c) /\ pc[c] \in Starting
  BY WhoIs, Numbers DEF LapicMapped, Serial, Starting
<1>2. \A d \in Cpus \ {c} : pc[d] # "mapped"
  <2>1. SUFFICES ASSUME NEW d \in Cpus \ {c}, pc[d] = "mapped" PROVE FALSE
    OBVIOUS
  <2>2. pc[c] = "mapped" BY DEF LapicMapped
  <2> QED BY <1>1, <2>1, <2>2
          DEF BInv, Stage, Serial, BspAlone, BspAfter, Launching, Starting, Up
<1>3. /\ pc[c] = "mapped" /\ pc' = [pc EXCEPT ![c] = AfterLapic(c)]
      /\ machine' = machine /\ ram' = ram /\ start' = start /\ cpus' = cpus
      /\ mmio' = [base |-> mmio.base + 1, lapic |-> mmio.base]
  BY DEF LapicMapped, Goto
<1>4. AfterLapic(c) = IF c = bsp THEN "lock_boot" ELSE "percpu" BY DEF AfterLapic
<1>5. pc'[c] = AfterLapic(c) /\ \A d \in Cpus \ {c} : pc'[d] = pc[d]
  BY <1>3 DEF BInv, Types
<1>6. /\ mmio'.base = mmio.base + 1 /\ mmio'.lapic = mmio.base /\ mmio.base \in Nat
      /\ mmio'.lapic # None
  BY <1>1, <1>3 DEF BInv, Types
<1>7. Types' BY <1>3, <1>4, <1>6 DEF BInv, Types, Labels, Starting, BspAlone
<1>8. Memory' BY <1>1, <1>3, <1>4, <1>5 DEF BInv, Memory
<1>9. Stage'
  BY <1>1, <1>3, <1>4, <1>5, <1>6
     DEF BInv, Types, Stage, Serial, BspAlone, BspAfter, Launching, Starting, Up
<1>10. Table' BY <1>3, <1>6 DEF BInv, Table
<1>11. Own' BY <1>3 DEF BInv, Own
<1>12. Maps'
  <2>1. \A d \in Cpus : cpus[d].map = None \/ (cpus[d].map \in Nat /\ cpus[d].map <= mmio.base)
    <3>1. \A d \in Cpus : cpus[d].map \in Nat \cup {None} BY DEF BInv, Types, CpuInfo
    <3>2. ASSUME NEW d \in Cpus
          PROVE  cpus[d].map = None \/ (cpus[d].map \in Nat /\ cpus[d].map <= mmio.base)
      <4>1. cpus[d].map = None \/ cpus[d].map < mmio.base \/ cpus[d].map = mmio.base
        BY DEF BInv, Maps
      <4>2. PICK n \in Nat \cup {None} : n = cpus[d].map BY <3>1
      <4>3. n = None \/ (n \in Nat /\ n <= mmio.base) BY <1>6, <4>1, <4>2
      <4> QED BY <4>2, <4>3
    <3> QED BY <3>2
  <2>2. \A d \in Cpus : pc'[d] # "mapped" BY <1>2, <1>4, <1>5
  <2> QED BY <1>3, <1>6, <2>1, <2>2 DEF BInv, Maps
<1> QED BY <1>7, <1>8, <1>9, <1>10, <1>11, <1>12 DEF BInv

LEMMA LockBootStep == ASSUME BInv, NEW c \in Cpus, LockBoot(c) PROVE BInv'
<1>1. c = bsp /\ bsp \in Cpus /\ Cpus \subseteq Nat /\ bsp = 0
  BY WhoIs DEF LockBoot, BspAlone
<1>2. /\ pc[bsp] = "lock_boot" /\ pc' = [pc EXCEPT ![bsp] = "copy"]
      /\ machine' = machine /\ ram' = ram /\ start' = start /\ mmio' = mmio /\ cpus' = cpus
  BY <1>1 DEF LockBoot, Goto
<1>3. pc'[bsp] = "copy" /\ \A d \in Cpus \ {bsp} : pc'[d] = pc[d]
  BY <1>1, <1>2 DEF BInv, Types
<1>4. Types' BY <1>2 DEF BInv, Types, Labels, BspAlone
<1>5. Memory' BY <1>2, <1>3 DEF BInv, Memory
<1>6. Stage'
  BY <1>1, <1>2, <1>3
     DEF BInv, Types, Stage, Serial, BspAlone, BspAfter, Launching, Starting, Up
<1>7. Table' BY <1>2, <1>3 DEF BInv, Table
<1>8. Own' BY <1>2 DEF BInv, Own
<1>9. Maps' BY <1>2, <1>3 DEF BInv, Maps
<1> QED BY <1>4, <1>5, <1>6, <1>7, <1>8, <1>9 DEF BInv

(* The page of the entry code is nobody else's. *)
LEMMA CopyEntryStep == ASSUME BInv, NEW c \in Cpus, CopyEntry(c) PROVE BInv'
<1>1. c = bsp /\ bsp \in Cpus /\ Cpus \subseteq Nat /\ bsp = 0
  BY WhoIs DEF CopyEntry, BspAlone
<1>2. /\ pc[bsp] = "copy" /\ pc' = [pc EXCEPT ![bsp] = "next"]
      /\ machine' = machine /\ start' = start /\ mmio' = mmio /\ cpus' = cpus
      /\ ram' = [ram EXCEPT !.use.entry = {MPENTRY}]
  BY <1>1 DEF CopyEntry, Goto
<1>3. pc'[bsp] = "next" /\ \A d \in Cpus \ {bsp} : pc'[d] = pc[d]
  BY <1>1, <1>2 DEF BInv, Types
<1>4. Types' BY <1>2 DEF BInv, Types, Labels
<1>5. Memory'
  <2>1. /\ DOMAIN ram' = DOMAIN ram /\ DOMAIN ram'.use = Uses /\ ram'.nextfree = ram.nextfree
        /\ ram'.use["entry"] = {MPENTRY}
        /\ \A u \in Uses \ {"entry"} : ram'.use[u] = ram.use[u]
    BY <1>2 DEF BInv, Memory, Tidy, Uses
  <2>2. Tidy(ram)' BY <2>1 DEF BInv, Memory, Tidy
  <2> QED BY <1>3, <2>2 DEF Memory
<1>6. Stage'
  BY <1>1, <1>2, <1>3
     DEF BInv, Types, Stage, Serial, BspAlone, BspAfter, Launching, Starting, Up
<1>7. Table' BY <1>2, <1>3 DEF BInv, Table
<1>8. Own' BY <1>2 DEF BInv, Own
<1>9. Maps' BY <1>2, <1>3 DEF BInv, Maps
<1> QED BY <1>4, <1>5, <1>6, <1>7, <1>8, <1>9 DEF BInv

LEMMA NextCpuStep == ASSUME BInv, NEW c \in Cpus, NextCpu(c) PROVE BInv'
<1>1. c = bsp /\ bsp \in Cpus /\ Cpus \subseteq Nat /\ bsp = 0
  BY WhoIs DEF NextCpu
<1>2. cpunum(bsp) = bsp BY <1>1, Knows
<1>3. /\ pc[bsp] = "next"
      /\ machine' = machine /\ ram' = ram /\ mmio' = mmio /\ cpus' = cpus
      /\ \/ /\ pc' = [pc EXCEPT ![bsp] = "create"] /\ start' = start
         \/ /\ pc' = pc /\ start' = [start EXCEPT !.c = @ + 1] /\ start.c = bsp
         \/ /\ start.c < start.ncpu /\ start.c # bsp
            /\ start' = [start EXCEPT !.kstack = start.c]
            /\ pc' = [pc EXCEPT ![bsp] = "init"]
  BY <1>1, <1>2 DEF NextCpu, Goto
<1>4. /\ pc'[bsp] \in {"create", "next", "init"} /\ \A d \in Cpus \ {bsp} : pc'[d] = pc[d]
      /\ start'.ncpu = start.ncpu /\ start'.ismp = start.ismp
      /\ start' \in [ncpu : Nat, ismp : BOOLEAN, c : Nat, kstack : Nat \cup {None}]
      /\ start'.c >= start.c /\ start.c \in Nat /\ start'.c \in Nat
      /\ pc'[bsp] = "init" => /\ start.c < start.ncpu /\ start.c # bsp
                              /\ start'.kstack = start.c /\ start'.c = start.c
  BY <1>1, <1>3 DEF BInv, Types
<1>5. Types' BY <1>3, <1>4 DEF BInv, Types, Labels, BspAfter
<1>6. Memory' BY <1>3, <1>4 DEF BInv, Memory
<1>7. Stage'
  <2>1. pc'[bsp] = "init" => start'.c \in Cpus \ {bsp} /\ start'.c < start'.ncpu
                             /\ start'.kstack = start'.c
    BY <1>4 DEF BInv, Table
  <2>2. ASSUME NEW d \in Cpus \ {bsp} PROVE Serial(d)'
    <3>1. Serial(d) /\ d \in Nat BY <1>1 DEF BInv, Stage
    <3> QED BY <1>1, <1>3, <1>4, <3>1
            DEF Serial, BspAlone, BspAfter, Launching, Starting, Up
  <2> QED BY <1>4, <2>1, <2>2 DEF Stage, Launching, BspAfter
<1>8. Table' BY <1>3, <1>4 DEF BInv, Table
<1>9. Own' BY <1>3 DEF BInv, Own
<1>10. Maps' BY <1>1, <1>3, <1>4 DEF BInv, Maps
<1> QED BY <1>5, <1>6, <1>7, <1>8, <1>9, <1>10 DEF BInv

(* A step of the boot processor that moves the one it starts. *)
LEMMA BothMove ==
  ASSUME BInv, NEW from \in {"init"} \cup Launching, NEW to \in Launching,
         pc[bsp] = from, NEW x \in Labels,
         pc' = [pc EXCEPT ![bsp] = to, ![start.c] = x],
         machine' = machine, ram' = ram, start' = start, mmio' = mmio, cpus' = cpus,
         x = pc[start.c] \/ (x \in {"reset", "mpentry"} /\ pc[start.c] \in {"off", "reset"}),
         to = "startup" => x = "reset"
  PROVE  BInv'
<1>1. bsp \in Cpus /\ Cpus \subseteq Nat /\ bsp = 0 BY Numbers DEF BInv, Types
<1>2. start.c \in Cpus \ {bsp} /\ start.c < start.ncpu /\ start.kstack = start.c
  BY DEF BInv, Stage
<1>3. /\ pc'[bsp] = to /\ pc'[start.c] = x
      /\ \A d \in Cpus \ {bsp, start.c} : pc'[d] = pc[d]
  BY <1>1, <1>2 DEF BInv, Types
<1>4. mmio.lapic # None
  <2>1. start.ncpu > 1 BY <1>1, <1>2 DEF BInv, Types
  <2> QED BY <2>1 DEF BInv, Table, Launching
<1>5. Types' BY <1>1, <1>2 DEF BInv, Types, Labels
<1>6. Memory' BY <1>3 DEF BInv, Memory, Launching
<1>7. Stage'
  <2>1. ASSUME NEW d \in Cpus \ {bsp} PROVE Serial(d)'
    <3>1. Serial(d) /\ d \in Nat /\ start.c \in Nat BY <1>1, <1>2 DEF BInv, Stage
    <3>2. CASE d = start.c
      BY <1>3, <1>4, <3>1, <3>2 DEF Serial, BspAlone, Launching, Starting, Up
    <3>3. CASE d # start.c
      BY <1>3, <1>4, <3>1, <3>3 DEF Serial, BspAlone, Launching, Starting, Up
    <3> QED BY <3>2, <3>3
  <2> QED BY <1>2, <1>3, <2>1 DEF Stage
<1>8. Table' BY <1>3, <1>4 DEF BInv, Table
<1>9. Own' BY DEF BInv, Own
<1>10. Maps'
  <2>1. \A d \in Cpus : pc'[d] = "mapped" <=> pc[d] = "mapped"
    BY <1>2, <1>3 DEF Launching
  <2> QED BY <2>1 DEF BInv, Maps
<1> QED BY <1>5, <1>6, <1>7, <1>8, <1>9, <1>10 DEF BInv

LEMMA SendInitStep == ASSUME BInv, NEW c \in Cpus, SendInit(c) PROVE BInv'
<1>1. c = bsp BY WhoIs DEF SendInit
<1>2. /\ pc[bsp] = "init" /\ pc' = [pc EXCEPT ![bsp] = "startup", ![start.c] = "reset"]
      /\ machine' = machine /\ ram' = ram /\ start' = start /\ mmio' = mmio /\ cpus' = cpus
  BY <1>1 DEF SendInit
<1>3. /\ start.c \in Cpus \ {bsp} /\ bsp \in Cpus /\ Cpus \subseteq Nat
  BY <1>2, Numbers DEF BInv, Types, Stage
<1>4. pc[start.c] = "off"
  <2>1. PICK d \in Cpus \ {bsp} : d = start.c BY <1>3
  <2>2. Serial(d) /\ d >= d BY <1>3 DEF BInv, Stage
  <2> QED BY <1>2, <2>1, <2>2 DEF Serial
<1>5. "reset" \in Labels /\ "startup" \in Launching BY DEF Labels, Starting, Launching
<1> QED BY <1>2, <1>4, <1>5, BothMove

LEMMA StartupStep == ASSUME BInv, NEW c \in Cpus, Startup(c) PROVE BInv'
<1>1. c = bsp BY WhoIs DEF Startup, Launching
<1>2. /\ pc[bsp] = "startup"
      /\ machine' = machine /\ ram' = ram /\ start' = start /\ mmio' = mmio /\ cpus' = cpus
      /\ \/ pc' = [pc EXCEPT ![bsp] = "startup_again", ![start.c] = "mpentry"]
         \/ pc' = [pc EXCEPT ![bsp] = "startup_again"]
  BY <1>1 DEF Startup
<1>3. start.c \in Cpus \ {bsp} /\ bsp \in Cpus
  BY <1>2, Numbers DEF BInv, Types, Stage, Launching
<1>4. pc[start.c] = "reset" BY <1>2, <1>3 DEF BInv, Stage, Serial
<1>5. /\ "reset" \in Labels /\ "mpentry" \in Labels
      /\ "startup" \in {"init"} \cup Launching /\ "startup_again" \in Launching
  BY DEF Labels, Starting, Launching
<1>6. CASE pc' = [pc EXCEPT ![bsp] = "startup_again", ![start.c] = "mpentry"]
  BY <1>2, <1>4, <1>5, <1>6, BothMove
<1>7. CASE pc' = [pc EXCEPT ![bsp] = "startup_again"]
  <2>1. pc' = [pc EXCEPT ![bsp] = "startup_again", ![start.c] = "reset"]
    BY <1>3, <1>4, <1>7 DEF BInv, Types
  <2> QED BY <1>2, <1>4, <1>5, <2>1, BothMove
<1> QED BY <1>2, <1>6, <1>7

LEMMA StartupAgainStep == ASSUME BInv, NEW c \in Cpus, StartupAgain(c) PROVE BInv'
<1>1. c = bsp BY WhoIs DEF StartupAgain, Launching
<1>2. PICK x : x = IF pc[start.c] = "reset" THEN "mpentry" ELSE pc[start.c] OBVIOUS
<1>3. pc[bsp] = "startup_again" BY <1>1 DEF StartupAgain
<1>4. start.c \in Cpus \ {bsp} /\ bsp \in Cpus
  BY <1>3, Numbers DEF BInv, Types, Stage, Launching
<1>5. /\ pc' = [pc EXCEPT ![bsp] = "wait", ![start.c] = x]
      /\ machine' = machine /\ ram' = ram /\ start' = start /\ mmio' = mmio /\ cpus' = cpus
  BY <1>1, <1>2, <1>4 DEF StartupAgain, BInv, Types
<1>6. {"wait", "startup_again"} \subseteq Launching /\ "mpentry" \in Labels
  BY DEF Labels, Starting, Launching
<1>7. x \in Labels /\ (x = pc[start.c] \/ (x = "mpentry" /\ pc[start.c] = "reset"))
  BY <1>2, <1>4, <1>6 DEF BInv, Types
<1> QED BY <1>3, <1>5, <1>6, <1>7, BothMove

(* The processor waited for is up: the turn is with the next one. *)
LEMMA WaitStartedStep == ASSUME BInv, NEW c \in Cpus, WaitStarted(c) PROVE BInv'
<1>1. c = bsp /\ bsp \in Cpus /\ Cpus \subseteq Nat /\ bsp = 0
  BY WhoIs DEF WaitStarted, Launching
<1>2. /\ pc[bsp] = "wait" /\ pc' = [pc EXCEPT ![bsp] = "next"]
      /\ cpus[start.c].status = "STARTED"
      /\ machine' = machine /\ ram' = ram /\ mmio' = mmio /\ cpus' = cpus
      /\ start' = [start EXCEPT !.c = @ + 1]
  BY <1>1 DEF WaitStarted, Goto
<1>3. /\ pc'[bsp] = "next" /\ \A d \in Cpus \ {bsp} : pc'[d] = pc[d]
      /\ start'.ncpu = start.ncpu /\ start'.ismp = start.ismp
      /\ start'.c = start.c + 1 /\ start.c \in Nat
      /\ start' \in [ncpu : Nat, ismp : BOOLEAN, c : Nat, kstack : Nat \cup {None}]
  BY <1>1, <1>2 DEF BInv, Types
<1>4. start.c \in Cpus \ {bsp} BY <1>2 DEF BInv, Stage, Launching
<1>5. pc[start.c] \notin Starting \cup {"off"} BY <1>2, <1>4 DEF BInv, Stage, Serial
<1>6. Types' BY <1>2, <1>3 DEF BInv, Types, Labels
<1>7. Memory' BY <1>2, <1>3 DEF BInv, Memory
<1>8. Stage'
  <2>1. ASSUME NEW d \in Cpus \ {bsp} PROVE Serial(d)'
    <3>1. Serial(d) /\ d \in Nat BY <1>1 DEF BInv, Stage
    <3>2. pc[d] \notin Starting BY <1>5, <3>1 DEF Serial
    <3> QED BY <1>2, <1>3, <3>1, <3>2 DEF Serial, BspAlone, Launching
  <2> QED BY <1>3, <2>1 DEF Stage, Launching
<1>9. Table' BY <1>2, <1>3 DEF BInv, Table
<1>10. Own' BY <1>2 DEF BInv, Own
<1>11. Maps' BY <1>1, <1>2, <1>3 DEF BInv, Maps
<1> QED BY <1>6, <1>7, <1>8, <1>9, <1>10, <1>11 DEF BInv

(* mpentry_kstack is still that of the processor that reads it. *)
LEMMA MpEntryStep == ASSUME BInv, NEW c \in Cpus, MpEntry(c) PROVE BInv'
<1>1. /\ bsp \in Cpus /\ Cpus \subseteq Nat /\ bsp = 0 /\ c # bsp /\ Serial(c)
  BY WhoIs DEF MpEntry
<1>2. /\ pc[c] = "mpentry" /\ pc' = [pc EXCEPT ![c] = "lapic_init"]
      /\ machine' = machine /\ ram' = ram /\ start' = start /\ mmio' = mmio
      /\ cpus' = [cpus EXCEPT ![c].esp = start.kstack]
  BY DEF MpEntry, Goto
<1>3. pc[bsp] \in Launching /\ start.c = c BY <1>1, <1>2 DEF Serial, Starting
<1>4. start.kstack = c BY <1>3 DEF BInv, Stage
<1>5. /\ cpus'[c].status = cpus[c].status /\ cpus'[c].esp = c
      /\ cpus'[c].esp0 = cpus[c].esp0 /\ cpus'[c].ltr = cpus[c].ltr
      /\ cpus'[c].map = cpus[c].map
      /\ \A d \in Cpus \ {c} : cpus'[d] = cpus[d]
      /\ cpus' \in [Cpus -> CpuInfo]
  BY <1>1, <1>2, <1>4 DEF BInv, Types, CpuInfo
<1>6. pc'[c] = "lapic_init" /\ \A d \in Cpus \ {c} : pc'[d] = pc[d]
  BY <1>2 DEF BInv, Types
<1>7. Types' BY <1>2, <1>5 DEF BInv, Types, Labels, Starting
<1>8. Memory' BY <1>1, <1>2, <1>6 DEF BInv, Memory
<1>9. Stage'
  <2>1. ASSUME NEW d \in Cpus \ {bsp} PROVE Serial(d)'
    <3>1. Serial(d) BY DEF BInv, Stage
    <3> QED BY <1>1, <1>2, <1>3, <1>5, <1>6, <3>1
            DEF Serial, BspAlone, Launching, Starting
  <2> QED BY <1>1, <1>2, <1>6, <2>1 DEF BInv, Stage
<1>10. Table' BY <1>1, <1>2, <1>6 DEF BInv, Table
<1>11. Own' BY <1>5 DEF BInv, Own
<1>12. Maps'
  <2>1. \A d \in Cpus : pc'[d] = "mapped" <=> pc[d] = "mapped" BY <1>2, <1>6
  <2>2. \A d \in Cpus : cpus'[d].map = cpus[d].map BY <1>5
  <2> QED BY <1>2, <2>1, <2>2 DEF BInv, Maps
<1> QED BY <1>7, <1>8, <1>9, <1>10, <1>11, <1>12 DEF BInv

(* From here on a processor changes only its status. *)
LEMMA StatusStep ==
  ASSUME BInv, NEW c \in Cpus, NEW s \in {"STARTED", "HALTED"}, NEW to,
         pc' = [pc EXCEPT ![c] = to],
         machine' = machine, ram' = ram, start' = start, mmio' = mmio,
         cpus' = cpus \/ cpus' = [cpus EXCEPT ![c].status = s],
         \/ c # bsp /\ pc[c] \in {"started"} \cup Up /\ to \in Up
         \/ c = bsp /\ pc[c] \in BspAfter /\ to \in BspAfter
  PROVE  BInv'
<1>1. bsp \in Cpus /\ Cpus \subseteq Nat /\ bsp = 0 /\ (c # bsp => Serial(c)) BY WhoIs
<1>2. /\ cpus'[c].esp = cpus[c].esp /\ cpus'[c].esp0 = cpus[c].esp0
      /\ cpus'[c].ltr = cpus[c].ltr /\ cpus'[c].map = cpus[c].map
      /\ \A d \in Cpus \ {c} : cpus'[d] = cpus[d]
      /\ cpus' \in [Cpus -> CpuInfo]
  <2>1. CASE cpus' = cpus BY <2>1 DEF BInv, Types, CpuInfo
  <2>2. CASE cpus' = [cpus EXCEPT ![c].status = s] BY <2>2 DEF BInv, Types, CpuInfo
  <2> QED BY <2>1, <2>2
<1>3. pc'[c] = to /\ \A d \in Cpus \ {c} : pc'[d] = pc[d] BY DEF BInv, Types
<1>4. Types' BY <1>2 DEF BInv, Types, Labels
<1>5. Memory' BY <1>1, <1>3 DEF BInv, Memory, BspAfter
<1>6. Stage'
  <2>1. ASSUME NEW d \in Cpus \ {bsp} PROVE Serial(d)'
    <3>1. Serial(d) BY DEF BInv, Stage
    <3>2. CASE c = bsp
      BY <1>1, <1>2, <1>3, <3>1, <3>2 DEF Serial, BspAlone, Launching, BspAfter, Starting
    <3>3. CASE c # bsp /\ c # d BY <1>1, <1>2, <1>3, <3>1, <3>3 DEF Serial
    <3>4. CASE c # bsp /\ c = d
      <4>1. pc[d] \in {"started"} \cup Up /\ pc'[d] \in Up /\ pc'[bsp] = pc[bsp]
        BY <1>1, <1>3, <3>4
      <4> QED BY <1>1, <1>3, <3>1, <4>1 DEF Serial, BspAlone, Starting, Up
    <3> QED BY <3>2, <3>3, <3>4
  <2>2. CASE c = bsp BY <1>1, <1>3, <2>1, <2>2 DEF Stage, BspAfter, Launching
  <2>3. CASE c # bsp BY <1>1, <1>3, <2>1, <2>3 DEF BInv, Stage
  <2> QED BY <2>2, <2>3
<1>7. Table' BY <1>1, <1>3 DEF BInv, Table, BspAfter
<1>8. Own' BY <1>2 DEF BInv, Own
<1>9. Maps'
  <2>1. \A d \in Cpus : pc'[d] = "mapped" <=> pc[d] = "mapped" BY <1>3 DEF Up, BspAfter
  <2>2. \A d \in Cpus : cpus'[d].map = cpus[d].map BY <1>2
  <2> QED BY <2>1, <2>2 DEF BInv, Maps
<1> QED BY <1>4, <1>5, <1>6, <1>7, <1>8, <1>9 DEF BInv

LEMMA StartedStep == ASSUME BInv, NEW c \in Cpus, Started(c) PROVE BInv'
<1>1. c # bsp /\ Serial(c) BY WhoIs DEF Started
<1>2. mmio.lapic # None BY <1>1 DEF Started, Serial
<1>3. cpunum(c) = c BY <1>2, Knows
<1>4. /\ pc[c] = "started" /\ pc' = [pc EXCEPT ![c] = "lock"]
      /\ machine' = machine /\ ram' = ram /\ start' = start /\ mmio' = mmio
      /\ cpus' = [cpus EXCEPT ![c].status = "STARTED"]
  BY <1>3 DEF Started, Goto
<1>5. "lock" \in Up BY DEF Up
<1> QED BY <1>1, <1>4, <1>5, StatusStep

LEMMA LockKernelStep == ASSUME BInv, NEW c \in Cpus, LockKernel(c) PROVE BInv'
<1>1. c # bsp BY WhoIs DEF LockKernel
<1>2. /\ pc[c] = "lock" /\ pc' = [pc EXCEPT ![c] = "sched_yield"]
      /\ machine' = machine /\ ram' = ram /\ start' = start /\ mmio' = mmio /\ cpus' = cpus
  BY DEF LockKernel, Goto
<1>3. {"lock", "sched_yield"} \subseteq Up BY DEF Up
<1> QED BY <1>1, <1>2, <1>3, StatusStep

LEMMA EnvCreateStep == ASSUME BInv, NEW c \in Cpus, EnvCreate(c) PROVE BInv'
<1>1. c = bsp /\ bsp \in Cpus /\ Cpus \subseteq Nat /\ bsp = 0 BY WhoIs DEF EnvCreate
<1>2. PICK to \in {"panic", "create", "sched_yield"} : pc' = [pc EXCEPT ![bsp] = to]
  BY <1>1 DEF EnvCreate, Goto
<1>3. /\ pc[bsp] = "create" /\ ram' = page_alloc(ram, 3 + ProgramSize + 1, "program")
      /\ machine' = machine /\ start' = start /\ mmio' = mmio /\ cpus' = cpus
  BY <1>1 DEF EnvCreate
<1>4. pc'[bsp] = to /\ \A d \in Cpus \ {bsp} : pc'[d] = pc[d]
  BY <1>1, <1>2 DEF BInv, Types
<1>5. to \in BspAfter /\ "create" \in BspAfter BY DEF BspAfter
<1>6. Types' BY <1>2, <1>3, <1>5 DEF BInv, Types, Labels
<1>7. Memory'
  <2>1. "program" \in Uses \ {"free", "entry"} BY DEF Uses
  <2>2. Tidy(ram') BY <1>3, <2>1, PagesAllocated DEF BInv, Memory
  <2> QED BY <1>2, <1>4, <2>2 DEF Memory
<1>8. Stage'
  BY <1>1, <1>3, <1>4, <1>5
     DEF BInv, Types, Stage, Serial, BspAlone, BspAfter, Launching, Starting, Up
<1>9. Table' BY <1>3, <1>4 DEF BInv, Table
<1>10. Own' BY <1>3 DEF BInv, Own
<1>11. Maps' BY <1>2, <1>3, <1>4 DEF BInv, Maps
<1> QED BY <1>6, <1>7, <1>8, <1>9, <1>10, <1>11 DEF BInv

LEMMA SchedYieldStep == ASSUME BInv, NEW c \in Cpus, SchedYield(c) PROVE BInv'
<1>1. c = bsp \/ mmio.lapic # None
  <2>1. SUFFICES ASSUME c # bsp PROVE mmio.lapic # None OBVIOUS
  <2>2. Serial(c) /\ pc[c] = "sched_yield" BY <2>1, WhoIs DEF SchedYield
  <2> QED BY <2>2 DEF Serial
<1>2. cpunum(c) = c BY <1>1, Knows
<1>3. PICK to \in {"user", "halt", "monitor"} :
        /\ pc[c] = "sched_yield" /\ pc' = [pc EXCEPT ![c] = to]
        /\ machine' = machine /\ ram' = ram /\ start' = start /\ mmio' = mmio
        /\ cpus' = cpus \/ cpus' = [cpus EXCEPT ![c].status = "HALTED"]
  BY <1>2 DEF SchedYield, Goto
<1>4. {"sched_yield"} \cup {"user", "halt", "monitor"} \subseteq Up \cap BspAfter
  BY DEF Up, BspAfter
<1> QED BY <1>3, <1>4, StatusStep

LEMMA BInvStarts == Init => BInv
<1> SUFFICES ASSUME Init PROVE BInv
  OBVIOUS
<1>1. /\ bsp \in Cpus /\ Cpus \subseteq Nat /\ bsp = 0 /\ None = -1 BY Numbers DEF Init
<1>2. Types BY <1>1 DEF Init, Types, Labels, BspAlone, CpuInfo
<1>3. Memory BY FirmwareEarly DEF Init, Memory, Early
<1>4. Stage BY <1>1 DEF Init, Stage, Serial, BspAlone, Launching, Starting
<1>5. Table BY <1>1 DEF Init, Table
<1>6. Own BY DEF Init, Own
<1>7. Maps BY <1>1 DEF Init, Maps
<1> QED BY <1>2, <1>3, <1>4, <1>5, <1>6, <1>7 DEF BInv

LEMMA BInvKept == BInv /\ [Next]_vars => BInv'
<1>1. ASSUME BInv, NEW c \in Cpus, Step(c) PROVE BInv'
  BY <1>1, MemInitStep, TrapInitPercpuStep, MpInitStep, LapicInitStep, LapicMappedStep,
     LockBootStep, CopyEntryStep, NextCpuStep, SendInitStep, StartupStep,
     StartupAgainStep, WaitStartedStep, MpEntryStep, StartedStep, LockKernelStep,
     EnvCreateStep, SchedYieldStep
     DEF Step
<1>2. ASSUME BInv, UNCHANGED vars PROVE BInv'
  BY <1>2 DEF vars, BInv, Types, Memory, Stage, Serial, Table, Own, Maps
<1> QED BY <1>1, <1>2 DEF Next

-----------------------------------------------------------------------------
(* From one stack to the one below it there is a whole stack and its gap.  *)
LEMMA StacksApart ==
  ASSUME NEW c \in Nat, NEW d \in Nat, c # d
  PROVE  StackTop(c) - KSTKSIZE - 1 \notin Stack(d)
<1> DEFINE w == KSTKSIZE + KSTKGAP
<1>1. w \in Nat /\ KSTKSIZE \in Nat \ {0} /\ KSTKGAP \in Nat \ {0} /\ KSTACKTOP \in Nat
      /\ w = KSTKSIZE + KSTKGAP
  BY Layout
<1>2. StackTop(c) = KSTACKTOP - c * w /\ StackTop(d) = KSTACKTOP - d * w BY DEF StackTop
<1> HIDE DEF w
<1>3. c * w \in Nat /\ d * w \in Nat BY <1>1
<1>4. CASE c < d
  <2>1. PICK k \in Nat : d = c + 1 + k
    <3>1. d - c - 1 \in Nat /\ d = c + 1 + (d - c - 1) BY <1>4
    <3> QED BY <3>1
  <2>2. k * w \in Nat BY <1>1
  <2>3. d * w = c * w + w + k * w BY <1>1, <2>1
  <2>4. StackTop(d) + KSTKSIZE + KSTKGAP <= StackTop(c)
    BY <1>1, <1>2, <1>3, <2>2, <2>3
  <2> QED BY <1>1, <1>2, <1>3, <2>4 DEF Stack
<1>5. CASE d < c
  <2>1. PICK k \in Nat : c = d + 1 + k
    <3>1. c - d - 1 \in Nat /\ c = d + 1 + (c - d - 1) BY <1>5
    <3> QED BY <3>1
  <2>2. k * w \in Nat BY <1>1
  <2>3. c * w = d * w + w + k * w BY <1>1, <2>1
  <2>4. StackTop(c) + KSTKSIZE + KSTKGAP <= StackTop(d)
    BY <1>1, <1>2, <1>3, <2>2, <2>3
  <2> QED BY <1>1, <1>2, <1>3, <2>4 DEF Stack
<1> QED BY <1>4, <1>5

LEMMA SharesNothing == BInv => NothingShared
<1> SUFFICES ASSUME BInv PROVE NothingShared
  OBVIOUS
<1>1. NothingTwice BY DEF BInv, Memory, Tidy, Maps, NothingTwice
<1>2. Cpus \subseteq Nat /\ None = -1 BY Numbers
<1>3. OwnStack
  <2>1. ASSUME NEW c \in Cpus, cpus[c].esp0 # None
        PROVE  /\ cpus[c].esp0 - 1 \in Stack(c)
               /\ \A d \in Cpus \ {c} : /\ cpus[d].ltr # cpus[c].ltr
                                        /\ cpus[c].esp0 - KSTKSIZE - 1 \notin Stack(d)
    <3>1. c \in Nat /\ c # None BY <1>2
    <3>2. cpus[c].esp0 = StackTop(c) /\ cpus[c].ltr = c BY <2>1 DEF BInv, Own
    <3>3. StackTop(c) \in Int BY <3>1, Layout DEF StackTop
    <3>4. StackTop(c) - 1 \in Stack(c)
      <4>1. PICK top \in Int : top = StackTop(c) BY <3>3
      <4> QED BY <4>1, Layout DEF Stack
    <3>5. \A d \in Cpus \ {c} : cpus[d].ltr \in {None, d} BY DEF BInv, Own
    <3>6. \A d \in Cpus \ {c} : StackTop(c) - KSTKSIZE - 1 \notin Stack(d)
      BY <1>2, <3>1, StacksApart
    <3> QED BY <3>1, <3>2, <3>4, <3>5, <3>6
  <2>2. \A c \in Cpus : cpus[c].esp \in {None, c} BY DEF BInv, Own
  <2> QED BY <2>1, <2>2 DEF OwnStack
<1> QED BY <1>1, <1>3 DEF NothingShared

(* What the processors are given while they start, the pages, the stacks,  *)
(* the task registers and the windows on their local APICs, they are given *)
(* once, although neither allocator, nor mpentry_kstack, nor the pointer   *)
(* to the local APIC has a lock (init.c:105-119, pmap.c:588-621).          *)
THEOREM NothingSharedHolds == Spec => []NothingShared
<1>1. BInv /\ [Next]_vars => BInv' BY BInvKept
<1> QED BY BInvStarts, <1>1, SharesNothing, PTL DEF Spec
=============================================================================
