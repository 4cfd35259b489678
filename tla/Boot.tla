-------------------------------- MODULE Boot --------------------------------
(***************************************************************************)
(* The start of the machine of 3-sched: physical memory (kern/pmap.c), the *)
(* table of processors (kern/mpconfig.c), the start of the others by the   *)
(* boot processor (kern/init.c, kern/lapic.c, kern/mpentry.S), up to the   *)
(* point where every processor has been through the scheduler once.  What  *)
(* happens from there on is the subject of Kernel.                         *)
(*                                                                         *)
(* No lock protects the page tables, the MMIO region, the pointer to the   *)
(* local APIC and mpentry_kstack while processors start; it is the         *)
(* hand-shake of boot_aps and mp_main that does, and the kernel lock that  *)
(* keeps those started away from the scheduler.                            *)
(***************************************************************************)
EXTENDS Integers, Sequences, FiniteSets

CONSTANTS
  Machines,      \* the machines considered, see below
  NCPU,          \* how many processors the kernel can hold
  MPENTRY, IOPHYSMEM, EXTPHYSMEM,   \* physical page numbers (inc/memlayout.h)
  KernelEnd,     \* the first page behind the kernel's image
  PagesSize, EnvsSize,              \* the arrays `pages` and `envs`, in pages
  KernelTables,  \* page tables that map physical memory at KERNBASE
  ProgramSize,   \* pages of a program that env_create loads
  KSTACKTOP, KSTKSIZE, KSTKGAP      \* in pages

(***************************************************************************)
(* A machine: its pages of memory; whether it has a valid configuration    *)
(* table, and the entries of it; and how many environments i386_init is    *)
(* built to create.  The processors are numbered by their local APICs in   *)
(* the order of the table, the boot processor first, as in the emulator    *)
(* of the makefile.                                                        *)
(***************************************************************************)
Processors(table) == {i \in DOMAIN table : table[i] \in {"boot", "cpu"}}

ASSUME BootAssumption ==
  /\ NCPU \in Nat \ {0}
  /\ \A m \in Machines :
       /\ m.npages \in Nat /\ m.npages > KernelEnd
       /\ m.conf \in BOOLEAN
       /\ m.table \in Seq({"boot", "cpu", "bus", "unknown"})
       /\ m.nenvs \in Nat \ {0}
       /\ Processors(m.table) # {}
       /\ \A i \in Processors(m.table) :
            m.table[i] = "boot" <=> \A j \in Processors(m.table) : i <= j
  /\ {MPENTRY, IOPHYSMEM, EXTPHYSMEM, KernelEnd, KSTACKTOP} \subseteq Nat
  /\ 0 < MPENTRY /\ MPENTRY < IOPHYSMEM /\ IOPHYSMEM < EXTPHYSMEM
  /\ EXTPHYSMEM < KernelEnd
  /\ {PagesSize, EnvsSize, KernelTables, ProgramSize, KSTKSIZE, KSTKGAP} \subseteq Nat \ {0}

Cpus == UNION {0 .. Cardinality(Processors(m.table)) - 1 : m \in Machines}
bsp == 0
NoCpu == -1
None == -1

VARIABLES
  machine,
  ram,      \* what each physical page is used for, and boot_alloc's nextfree
  pc,       \* where each processor is
  cpus,     \* struct CpuInfo, and the stacks and the mapping a processor took
  start,    \* ncpu, and where boot_aps is: the processor, mpentry_kstack
  mmio,     \* mmio_map_region's base, and the pointer to the local APIC
  lock,     \* who has the kernel lock
  envs      \* how many environments are RUNNABLE, and RUNNING

vars == <<machine, ram, pc, cpus, start, mmio, lock, envs>>

-----------------------------------------------------------------------------
(* kern/pmap.c: from a memory to the next one; `stuck` when there is too   *)
(* little of it, a panic or a fault while there are no gates yet.          *)

Firmware(n) ==
  [npages |-> n, nextfree |-> KernelEnd, stuck |-> FALSE,
   use |-> [bios |-> {0}, io |-> IOPHYSMEM .. (EXTPHYSMEM - 1),
            kernel |-> EXTPHYSMEM .. (KernelEnd - 1), pgdir |-> {}, pages |-> {},
            envs |-> {}, free |-> {}, table |-> {}, entry |-> {}, program |-> {}]]

boot_alloc(r, n, user) ==
  LET last == r.nextfree + n
  IN  IF last >= r.npages
      THEN [r EXCEPT !.stuck = TRUE]
      ELSE [r EXCEPT !.nextfree = last,
                     !.use[user] = @ \cup (r.nextfree .. (last - 1))]

page_init(r) ==
  [r EXCEPT !.use.free =
     {i \in 1 .. (r.npages - 1) :
        /\ i # MPENTRY
        /\ i \notin IOPHYSMEM .. (EXTPHYSMEM - 1)
        /\ i \notin EXTPHYSMEM .. (r.nextfree - 1)}]

(* n times page_alloc.  The list starts with the highest page, of the      *)
(* first four megabytes once check_page_free_list has sorted it; a memory  *)
(* here is no larger.                                                      *)
page_alloc(r, n, user) ==
  LET taken == {p \in r.use.free : Cardinality({q \in r.use.free : q > p}) < n}
  IN  IF Cardinality(taken) < n
      THEN [r EXCEPT !.stuck = TRUE]
      ELSE [r EXCEPT !.use.free = @ \ taken, !.use[user] = @ \cup taken]

(* The page tables that boot_map_region asks for: one for each of UPAGES,  *)
(* UENVS, the stacks, and those at KERNBASE; before that check_page has    *)
(* left the one of the MMIO region.                                        *)
mem_init(r) ==
  LET pgdir == boot_alloc(r, 1, "pgdir")
      pages == boot_alloc(pgdir, PagesSize, "pages")
      listed == page_init(boot_alloc(pages, EnvsSize, "envs"))
  IN  page_alloc(listed, 4 + KernelTables, "table")

(* mem_init_mp: where the stack of a processor is mapped. *)
StackTop(i) == KSTACKTOP - i * (KSTKSIZE + KSTKGAP)
Stack(i) == (StackTop(i) - KSTKSIZE) .. (StackTop(i) - 1)

-----------------------------------------------------------------------------
(* kern/mpconfig.c: mp_init, of a table that mpconfig accepts or not.      *)
Fits(n) == IF n < NCPU THEN n ELSE NCPU

(* It stops at an entry it does not know, and counts the processors until  *)
(* cpus[] is full.                                                         *)
mp_init(conf, table) ==
  LET read == {i \in Processors(table) : \A j \in 1 .. i : table[j] # "unknown"}
      boot == {i \in read : table[i] = "boot"}
      last == CHOOSE i \in boot : \A j \in boot : j <= i
      ismp == conf /\ \A i \in DOMAIN table : table[i] # "unknown"
  IN  [ncpu |-> IF ismp THEN Fits(Cardinality(read)) ELSE IF conf THEN 1 ELSE 0,
       bootcpu |-> IF boot = {} THEN 0 ELSE Fits(Cardinality({i \in read : i < last})),
       ismp |-> ismp]

-----------------------------------------------------------------------------
Init ==
  /\ machine \in Machines
  /\ ram = Firmware(machine.npages)
  /\ pc = [c \in Cpus |-> IF c = bsp THEN "mem_init" ELSE "off"]
  /\ cpus = [c \in Cpus |-> [status |-> "UNUSED", esp |-> None, esp0 |-> None,
                             ltr |-> None, map |-> None]]
  /\ start = [ncpu |-> 0, ismp |-> FALSE, c |-> 0, kstack |-> None]
  /\ mmio = [base |-> 3, lapic |-> None]
  /\ lock = NoCpu
  /\ envs = [runnable |-> 0, running |-> 0]

Goto(c, label) == pc' = [pc EXCEPT ![c] = label]

(* Before there is a mapping of the local APIC everybody is processor 0.   *)
cpunum(c) == IF mmio.lapic # None THEN c ELSE 0

(* The boot processor alone: memory, then env_init and trap_init, then the *)
(* table of processors.                                                    *)
MemInit(c) ==
  /\ pc[c] = "mem_init"
  /\ ram' = mem_init(ram)
  /\ Goto(c, IF ram'.stuck THEN "panic" ELSE "percpu")
  /\ UNCHANGED <<machine, cpus, start, mmio, lock, envs>>

(* trap_init_percpu: the stack for traps and the task register. *)
TrapInitPercpu(c) ==
  /\ pc[c] = "percpu"
  /\ LET id == cpunum(c)
     IN  cpus' = [cpus EXCEPT ![c].esp0 = StackTop(id), ![c].ltr = id]
  /\ Goto(c, IF c = bsp THEN "mp_init" ELSE "started")
  /\ UNCHANGED <<machine, ram, start, mmio, lock, envs>>

MpInit(c) ==
  /\ pc[c] = "mp_init"
  /\ LET mp == mp_init(machine.conf, machine.table)
     IN  /\ start' = [start EXCEPT !.ncpu = mp.ncpu, !.ismp = mp.ismp]
         /\ cpus' = IF machine.conf THEN [cpus EXCEPT ![mp.bootcpu].status = "STARTED"]
                    ELSE cpus
  /\ Goto(c, "lapic_init")
  /\ UNCHANGED <<machine, ram, mmio, lock, envs>>

(* lapic_init: mmio_map_region maps what base says, then advances it. *)
AfterLapic(c) == IF c = bsp THEN "lock_boot" ELSE "percpu"

LapicInit(c) ==
  /\ pc[c] = "lapic_init"
  /\ IF start.ismp
     THEN /\ cpus' = [cpus EXCEPT ![c].map = mmio.base]
          /\ Goto(c, "mapped")
     ELSE Goto(c, AfterLapic(c)) /\ UNCHANGED cpus
  /\ UNCHANGED <<machine, ram, start, mmio, lock, envs>>

LapicMapped(c) ==
  /\ pc[c] = "mapped"
  /\ mmio' = [base |-> mmio.base + 1, lapic |-> mmio.base]
  /\ Goto(c, AfterLapic(c))
  /\ UNCHANGED <<machine, ram, cpus, start, lock, envs>>

(* Mutant: the lock is left to those that start. *)
LockBootSkipped(c) ==
  /\ pc[c] = "lock_boot"
  /\ Goto(c, "copy")
  /\ UNCHANGED <<machine, ram, cpus, start, mmio, lock, envs>>

LockBoot(c) ==
  /\ pc[c] = "lock_boot" /\ lock = NoCpu
  /\ lock' = c
  /\ Goto(c, "copy")
  /\ UNCHANGED <<machine, ram, cpus, start, mmio, envs>>

-----------------------------------------------------------------------------
(* boot_aps *)

CopyEntry(c) ==
  /\ pc[c] = "copy"
  /\ ram' = [ram EXCEPT !.use.entry = {MPENTRY}]
  /\ Goto(c, "next")
  /\ UNCHANGED <<machine, cpus, start, mmio, lock, envs>>

NextCpu(c) ==
  /\ pc[c] = "next"
  /\ \/ /\ start.c >= start.ncpu
        /\ Goto(c, "create")
        /\ UNCHANGED start
     \/ /\ start.c < start.ncpu /\ start.c = cpunum(c)
        /\ start' = [start EXCEPT !.c = @ + 1]
        /\ UNCHANGED pc
     \/ /\ start.c < start.ncpu /\ start.c # cpunum(c)
        /\ start' = [start EXCEPT !.kstack = start.c]
        /\ Goto(c, "init")
  /\ UNCHANGED <<machine, ram, cpus, mmio, lock, envs>>

(* lapic_startap: an INIT, then twice a STARTUP.  The delays between them  *)
(* are empty, so that the first STARTUP may come too early; a processor    *)
(* that has started ignores the second.                                    *)
SendInit(c) ==
  /\ pc[c] = "init"
  /\ pc' = [pc EXCEPT ![c] = "startup", ![start.c] = "reset"]
  /\ UNCHANGED <<machine, ram, cpus, start, mmio, lock, envs>>

Startup(c) ==
  /\ pc[c] = "startup"
  /\ \/ pc' = [pc EXCEPT ![c] = "startup_again", ![start.c] = "mpentry"]
     \/ pc' = [pc EXCEPT ![c] = "startup_again"]
  /\ UNCHANGED <<machine, ram, cpus, start, mmio, lock, envs>>

StartupAgain(c) ==
  /\ pc[c] = "startup_again"
  /\ pc' = [pc EXCEPT ![c] = "wait",
                      ![start.c] = IF @ = "reset" THEN "mpentry" ELSE @]
  /\ UNCHANGED <<machine, ram, cpus, start, mmio, lock, envs>>

(* Mutant: the boot processor does not wait. *)
WaitStartedNot(c) ==
  /\ pc[c] = "wait"
  /\ start' = [start EXCEPT !.c = @ + 1]
  /\ Goto(c, "next")
  /\ UNCHANGED <<machine, ram, cpus, mmio, lock, envs>>

WaitStarted(c) ==
  /\ pc[c] = "wait"
  /\ cpus[start.c].status = "STARTED"
  /\ start' = [start EXCEPT !.c = @ + 1]
  /\ Goto(c, "next")
  /\ UNCHANGED <<machine, ram, cpus, mmio, lock, envs>>

-----------------------------------------------------------------------------
(* mpentry.S and mp_main *)

(* Up to the switch to the stack that the boot processor has left in       *)
(* mpentry_kstack, on the page tables of entrypgdir.c; then to kern_pgdir. *)
MpEntry(c) ==
  /\ pc[c] = "mpentry"
  /\ cpus' = [cpus EXCEPT ![c].esp = start.kstack]
  /\ Goto(c, "lapic_init")
  /\ UNCHANGED <<machine, ram, start, mmio, lock, envs>>

Started(c) ==
  /\ pc[c] = "started"
  /\ cpus' = [cpus EXCEPT ![cpunum(c)].status = "STARTED"]
  /\ Goto(c, "lock")
  /\ UNCHANGED <<machine, ram, start, mmio, lock, envs>>

LockKernel(c) ==
  /\ pc[c] = "lock" /\ lock = NoCpu
  /\ lock' = c
  /\ Goto(c, "sched_yield")
  /\ UNCHANGED <<machine, ram, cpus, start, mmio, envs>>

-----------------------------------------------------------------------------
(* ENV_CREATE: a page directory, a table for the program and one for the   *)
(* stack, the program and the stack.                                       *)
EnvCreate(c) ==
  /\ pc[c] = "create"
  /\ ram' = page_alloc(ram, 3 + ProgramSize + 1, "program")
  /\ envs' = [envs EXCEPT !.runnable = @ + (IF ram'.stuck THEN 0 ELSE 1)]
  /\ Goto(c, IF ram'.stuck THEN "panic"
             ELSE IF envs'.runnable < machine.nenvs THEN "create" ELSE "sched_yield")
  /\ UNCHANGED <<machine, cpus, start, mmio, lock>>

(* sched_yield: an environment runs here, or the processor halts, or, when *)
(* there are none at all, it stays in the monitor with the lock.           *)
SchedYield(c) ==
  /\ pc[c] = "sched_yield"
  /\ \/ /\ envs.runnable > 0
        /\ envs' = [runnable |-> envs.runnable - 1, running |-> envs.running + 1]
        /\ lock' = NoCpu
        /\ Goto(c, "user")
        /\ UNCHANGED cpus
     \/ /\ envs.runnable = 0 /\ envs.running > 0
        /\ cpus' = [cpus EXCEPT ![cpunum(c)].status = "HALTED"]
        /\ lock' = NoCpu
        /\ Goto(c, "halt")
        /\ UNCHANGED envs
     \/ /\ envs.runnable = 0 /\ envs.running = 0
        /\ Goto(c, "monitor")
        /\ UNCHANGED <<cpus, lock, envs>>
  /\ UNCHANGED <<machine, ram, start, mmio>>

Step(c) ==
  \/ MemInit(c) \/ TrapInitPercpu(c) \/ MpInit(c) \/ LapicInit(c) \/ LapicMapped(c)
  \/ LockBoot(c) \/ CopyEntry(c) \/ NextCpu(c) \/ SendInit(c) \/ Startup(c)
  \/ StartupAgain(c) \/ WaitStarted(c) \/ MpEntry(c) \/ Started(c) \/ LockKernel(c)
  \/ EnvCreate(c) \/ SchedYield(c)

Next == \E c \in Cpus : Step(c)

Spec == Init /\ [][Next]_vars /\ \A c \in Cpus : WF_vars(Step(c))

-----------------------------------------------------------------------------
(* No physical page is put to two uses, the page of the entry code among   *)
(* them from the moment it is written, and no two processors map their     *)
(* local APIC at one address (pmap.c:292-332, 588-621, init.c:105).        *)
NothingTwice ==
  /\ \A u, v \in DOMAIN ram.use : u # v => ram.use[u] \cap ram.use[v] = {}
  /\ \A c, d \in Cpus : c # d /\ cpus[c].map # None => cpus[c].map # cpus[d].map

(* A processor starts on the stack that is its own and traps to the same,  *)
(* loads a task register nobody else has loaded, and what lies below its   *)
(* stack is no other's (init.c:114, mpentry.S:79, trap.c:129-143,          *)
(* pmap.c:251-277).                                                        *)
OwnStack ==
  \A c \in Cpus :
    /\ cpus[c].esp \in {None, c}
    /\ cpus[c].esp0 # None =>
         /\ cpus[c].esp0 - 1 \in Stack(c)
         /\ \A d \in Cpus \ {c} :
              /\ cpus[d].ltr # cpus[c].ltr
              /\ cpus[c].esp0 - KSTKSIZE - 1 \notin Stack(d)

(* Processors start without a lock on either allocator, on the stack       *)
(* pointer, or on the pointer to the local APIC that tells them who they   *)
(* are; still they share nothing by accident (init.c:105-119).             *)
NothingShared == NothingTwice /\ OwnStack

(* Every processor that mp_init has counted, and the boot processor, comes *)
(* through the scheduler once, whatever the order in which they start,     *)
(* unless the memory does not suffice to start at all: boot_aps never      *)
(* waits for one that has halted already, and nobody finds the machine     *)
(* without environments (init.c:51-55, init.c:118, sched.c:168-182).       *)
EveryCpuSchedules ==
  <>(\/ pc[bsp] = "panic"
     \/ /\ pc[bsp] \in {"user", "halt"}
        /\ \A c \in Cpus : c < start.ncpu => pc[c] \in {"user", "halt"})

=============================================================================
