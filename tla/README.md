# A verification project for Sistemas-Operativos-FIUBA

TLA+ modules, TLC configurations and TLAPS proofs about the programs of this
repository: four course projects, the JOS kernel (`3-sched`), the FUSE file
system (`4-fs`), a shell (`2-shell`) and small programs that fork (`1-fork`).

Run a configuration with `tlc -config X.cfg M.tla` (M is the module of the
table under *Runs*), check the proofs of a module with `tlapm M.tla`, where M is
`SmpProofs`, `KernelProofs`, `SchedPriorityProofs`, `IpcProofs`,
`FisopfsProofs`, `AddressSpaceProofs`, `ForkProofs` or `UnixProofs`.

## The system

### 3-sched: the JOS kernel

| component | state it keeps | operations | works with |
|---|---|---|---|
| big kernel lock, `kern/spinlock.c` | `locked`, the debugging record `cpu` | `spin_lock`, `spin_unlock`, `holding` | every entry into and exit from the kernel |
| environments, `kern/env.c` | `envs[]` (status, id, parent, IPC fields), `env_free_list`, the `cpu_env` of each CPU | `envid2env`, `env_alloc`, `env_free`, `env_destroy`, `env_run` | called by system calls, traps, scheduler |
| scheduler, `kern/sched.c` | `sched_stats`, `env_priority` | `sched_yield` (round robin or priorities, chosen when building), `sched_halt`, `boost_all_envs` | ends in `env_run`, in `hlt` or in the monitor |
| traps, `kern/trap.c` | `cpu_status`, `panicstr` | `trap`, `trap_dispatch`, `page_fault_handler` | takes the lock, collects zombies, dispatches |
| system calls, `kern/syscall.c` | the table | exofork, env_set_status, env_destroy, yield, ipc_recv, ipc_try_send, page calls, priorities | `env.c`, `pmap.c`, `sched.c` |
| memory, `kern/pmap.c` | page reference counts, free pages, page tables | page_alloc, page_insert, page_remove, ... | system calls, `env.c` |
| boot, `kern/init.c` | `cpus[]`, `mpentry_kstack`, `panicstr` | `i386_init`, `boot_aps`, `mp_main`, `_panic` | starts everything with the lock taken |
| devices | PIC mask, console buffer, APIC timer | interrupts | `trap` |
| user library, `lib/` | an environment's address space | `fork`, `ipc_send`, `ipc_recv`, page fault handler | system calls |

What is hard: several CPUs run the kernel under one lock, but a CPU enters and
leaves it outside the lock, so an environment can be destroyed while it is on
its way; interrupts wake halted CPUs; the death of a running environment is
deferred (zombies); ids are reused; the scheduler's statistics are written
outside their arrays. What makes it correct: an environment is on one CPU at
most and the table says so; the free list is exact; a blocked receiver is woken
by a message only; the kernel gives up only when there is nothing to run;
zombies are freed; nobody starves.

### 4-fs: fisopfs

A superblock of 64 inodes, each with its path, its parent's path, 100 bytes of
content and a link count (`def.h`), found by linear search (`fs_utils.c`),
changed by the FUSE handlers (`fisopfs.c`), read at mount and written at unmount
as one binary image. libfuse calls the handlers on several threads and nothing
locks the superblock; the kernel's VFS looks names up first and locks
directories. What is hard: sizes at the boundary of `file_content`, hard links
kept as copies, free slots claimed by two threads, an image torn by a crash.
What makes it correct: the superblock is a tree, in memory and on disk; a file
keeps its slot; files with one link change by their own operations only.

### 2-shell: the shell

| component | state it keeps | operations | works with |
|---|---|---|---|
| prompt, `sh.c`, `runcmd.c` | the status of the last command | `run_shell`, `run_cmd`, `sigchld_handler` | forks a process for every command and waits |
| execution, `exec.c` | the parsed command, descriptors | `exec_cmd`: redirections, a pipe with a process for each side | `execvp` |
| parsing, `parsing.c`, `createcmd.c`, `utils.c` | the line, split in place | `parse_line` and below | called before the fork |
| built-ins, expansion, `builtin.c`, `parsing.c` | directory, environment | `cd`, `pwd`, `exit`, `$VAR` | run by the shell itself |

What is hard: a handler that reaps children beside the waits that want them, one
signal for several children, process groups inherited across forks, and pipe
ends that some process forgot to close. What makes it correct: every wait finds
its own child, nothing is left over of a command that succeeded, zombies are
taken, the prompt comes back.

### 1-fork: primes, xargs, timeout, ps

`primes.c` is a chain of processes and pipes that must drain and end, and prints
through buffers that a fork copies. `xargs.c` batches lines and runs a child for
each batch; a child that cannot run its command goes on in its parent's code.
`timeout.c` races a timer's signal handler with the end of the command, both
waiting for the same child. `ps.c` lists `/proc`.

## The modules

| module | models | lines of the code |
|---|---|---|
| `Mutex` | the atomic lock the kernel's users see (abstract specification) | `spinlock.h` |
| `SpinLock` | the spin lock, one action per access to shared memory, with store buffers | `spinlock.c`, `xchg` |
| `Kernel` | environments, round robin, traps, system calls, several CPUs | `env.c`, `sched.c`, `trap.c`, `syscall.c`, `init.c` |
| `SchedPriority` | the priority scheduler and its statistics | `sched.c` with `USE_PR=1` |
| `AddressSpace`, `MCAddressSpace` | pages, page tables, TLBs, page faults, both forks, the page of a message; workloads for the runs | `pmap.c`, `env.c`, `syscall.c`, `trap.c`, `lib/fork.c`, `lib/pgfault.c` |
| `Boot`, `MCBoot` | memory at boot and the start of the processors; machines for the run | `init.c`, `pmap.c`, `mpconfig.c`, `lapic.c`, `mpentry.S` |
| `Rendezvous` | what `ipc_send` and `ipc_recv` promise (abstract specification) | `lib/ipc.c` |
| `Ipc` | those calls and the programs `pingpong`, `primes`, `fairness` | `lib/ipc.c`, `user/*.c`, `syscall.c` |
| `Fisopfs`, `MCFisopfs` | the file system, its image and its crashes; sets of paths for the runs | `fisopfs.c`, `fs_utils.c`, `def.h` |
| `Unix` | processes, groups, descriptors, pipes, waiting, SIGCHLD: the system under the next five (external) | |
| `ShellParse`, `Shell`, `MCShell` | the parser, on tokens; the shell at work; lines and programs for the run | `parsing.c`, `sh.c`, `runcmd.c`, `exec.c` |
| `Primes`, `Xargs`, `Timeout`, `MCForkPrograms` | the programs of 1-fork; the choice of one | `primes.c`, `xargs.c`, `timeout.c` |
| `KernelProofs`, `SchedPriorityProofs`, `AddressSpaceProofs`, `IpcProofs`, `FisopfsProofs` | theorems about the module each is named after, with their proofs | |
| `SmpProofs` | theorems about `SpinLock` and `Boot`, with their proofs | |
| `UnixProofs` | theorems about `Shell`, `Timeout`, `Xargs` and `Primes`, with their proofs | |
| `ForkProofs` | theorems about the page faults of `AddressSpace`, what its forks hand on and the memory they keep private, with their proofs | |

A definition marked *Mutant* stands before the one it is a faulty
version of and is used by no specification: it is the mistake that the property
named beside it in `PROJECT.json` catches.

**SpinLock → Mutex → Kernel.** `SpinLock` implements `Mutex` under the mapping
*owner = the CPU between its successful xchg and its releasing xchg*. `Kernel`
takes that lock as atomic: what a CPU does between `lock_kernel` and
`unlock_kernel` is one step, and its variable `kernel_lock` names only a CPU that
keeps the lock across steps (at boot, in the monitor, after a panic). What a CPU
does without the lock, taking a trap (`UserTrap`, `TimerTrap`, `WakeTrap`,
`KeyTrap`) and the end of `env_run` after it has unlocked (`Resume`), is a step
of its own, so that every other CPU may come in between.

**Kernel.** Each handler is one action from its trap to the return to user mode:
`SysExofork`, `SysEnvSetStatus`, `SysEnvDestroy`, `SysIpcRecv`, `SysIpcTrySend`,
`SysYield`, `Timer`, `CollectZombie`, `Wake`, `Boot`, `UnexpectedTrap`, and
`OtherSyscall` for the calls that fail or touch nothing modelled. `EnvRun`,
`SchedYield`, `SchedHalt` and `Return` are operators over *statuses the handler
has reached so far* (`st`) and the `curenv` it leaves (`cur`), which is how the
code calls them one from the other. Ids keep their generation, bounded by
`MaxGen`, and wrap as in `env_alloc`. Programs are those of the repository: the
constant `Liberties` names what they never do (mark a running child, receive at
a bad address, kill a child twice); the runs allow none of them (see
*Disagreements*). Left out:
`env_priority` (in `SchedPriority`), `env_cpunum`, `env_runs`, `env_tf`, the
value, sender and page of a message, address spaces, the monitor entered by a
breakpoint.

**SchedPriority.** One action per visit to the kernel. The two accesses outside
their arrays are modelled by what they do: whether the chosen environment is
degraded depends on a word that counts nothing (`Degrade` may or may not), and
the history of `NENV` entries runs on over `scheduler_calls`, the counts and its
own index (`AddCounts`, with both orders C leaves open for
`history[history_index++]` at the index itself). Past the struct the model stops
counting; an `env_id` so large that its count is not mapped is not modelled.

**AddressSpace.** The state is the page allocator with page tables and contents
(`mem`), what `struct Env` keeps (`env`), where each program is (`usr`), the
translations a CPU holds while in user mode (`tlb`), and what each environment
wrote last (`seen`, a history). A system call is one step, from the trap to the
return, and page tables cost pages: `PageInsert` and the calls over it fail
where the code does when there is none left, in the order of the code. `fork`
and `fork_v0` are the sequences of calls of `lib/fork.c`: between two of them
others run, and the program's own writes to its stack fault (`WriteMemory`,
`PageFault`, then the four steps of `pgfault`). Five addresses stand for
UTEMP/PFTEMP, data, the page a message carries, the stack and the exception
stack; three page tables cover them. The free list is a set, since nothing
depends on its order, and no machine has fewer than the five pages the first
environment takes. The contents of a page are one bit, enough
to tell a write seen from one not seen. Programs keep the discipline of the
repository's: they change another address space only while they build it.

`IpcTrySend` is `sys_ipc_try_send` with a page, asked for with either
permission, whether the sender has the page (`SendPage`) or not (`SendNothing`).
For a page that is not mapped `page_lookup` stores nothing in `srcpte`, and the
kernel follows what the stack happens to hold. That is a choice between three
outcomes: the entry found there refuses the send, the access panics the kernel
(`kernel_panic`, after which the model stops), or the entry is empty or present
and lets the send pass; then the receiver gets a new page and the mapping fails.
In `ipc_send` every failure is a panic of the sender; `send_panic` tells the one
that deserves it, for what it asked, from the panics of a memory that ran out.

**Boot.** One step per piece of code between two things another processor can
notice. Memory is the set of pages in each use (`ram`), every page given out
once or the machine is stuck; the stack of a processor is an interval of pages
under KSTACKTOP. `boot_aps` is `CopyEntry`, `NextCpu`, `SendInit`, `Startup`,
`StartupAgain` and `WaitStarted`; a started processor takes `mpentry_kstack`,
maps its APIC in two steps (`LapicInit`, `LapicMapped`, since the base it bumps
and the pointer it sets are shared), loads its task register, and asks for the
kernel lock. `Kernel` goes on where `Boot` ends.

**Rendezvous → Ipc.** In `Ipc` a step is a system call, or one read of the
environment's own `struct Env` after `sys_ipc_recv`: sender and value are read
apart, when the environment is RUNNABLE again and others retry their sends.
`Doing` maps it to `Rendezvous`, where a send and a receive end at one moment
(`Deliver`) and the receiver has that message and no other until it returns it
(`Take`). The three programs run over it unchanged.

**Fisopfs.** An inode is a record, a slot `FREE` or a record. A handler that
makes a name searches for a free slot (`Create`, `Symlink`, `Link`) and fills it
(`Store`): two steps, between which another thread may do the same. The other
changes are one step; handlers that fail change nothing and are left out. The
readers are operators (`Getattr`, `Readdir`, `Read`, `Readlink`): the VFS looks
names up with the first, and the properties see the file system through the
others. Times, modes, owners and lengths of paths are abstract, so the names too
long for their buffers and the requests of other users are not in the model.
What the VFS guarantees (`MayMake`, `MayChange`, `MayRemove`) is external: a new
name does not exist yet, its directory does, and directories and files in use
are locked. Because of it the branch of `set_inode_in_superblock` that finds the
same name already there (lines 82-90) is never taken. `Unmount` empties the
file, `Saved` completes it, `Crash` may come at any time.

**Unix → Shell, Primes, Xargs, Timeout.** `Unix` says what fork, pipe, close,
read, write, exit and wait do to processes and pipes; it is written from how
these programs use them. A process has a place in its program (`at`), a memory
that fork copies (`mem`) and descriptors (`os`). In `Shell`, `ReadLine` and the
`RunCmd` actions are the shell's own process; `ExecCommand`, `ExecPipe`,
`ForkRight`, `LeftChild`, `RightChild`, `ClosePipe`, `WaitLeft` and `WaitRight`
are `exec_cmd` in the children; `sigchld_handler` may interrupt any process that
has not yet executed a program. Lines are sequences of tokens, and `ShellParse`
cuts them as `parse_line` does. `Primes`, `Xargs` and `Timeout` have an action
for every stretch between two system calls; `Expire` is the timer's signal, which
interrupts the parent anywhere between the setting and the deletion of the timer.

## Runs

| run | module, cfg | shows | bounds | states |
|---|---|---|---|---|
| `spinlock` | SpinLock | safety, refinement and progress of the lock | 3 CPUs | 296 |
| `kernel_safety` | Kernel, KernelSafety | safety of table and scheduler | 2 CPUs, 3 slots, 2 generations | 1.46 M |
| `kernel_live` | Kernel, KernelLive | zombies, starvation and panics under fairness | 2 CPUs, 3 slots, 1 generation, a keyboard | 74 265 |
| `sched_priority` | SchedPriority | choice, boost and progress of the priority scheduler | 1 CPU, 3 slots, priorities 0..4, boost after 3 | 65 360 |
| `address_spaces` | MCAddressSpace, AddressSpace | reference counts, privacy of memory after fork, TLBs, exhaustion | 3 environments, 2 CPUs, 5 to 24 pages | 469 831 |
| `boot` | MCBoot, Boot | every processor starts on what is its own, and schedules | 1 to 4 processors (3 fit), 8 to 40 pages | 840 |
| `ipc` | Ipc | rendezvous, and what three programs promise | 5 environments, 5 balls | 27 800 |
| `fisopfs` | MCFisopfs, Fisopfs | tree and contents with remounts and crashes | 3 paths, 3 slots, 2 bytes | 544 966 |
| `shell` | MCShell, Shell | wiring, waiting, reaping, and the return of the prompt | 2 of 7 lines, 7 processes, 2 pipes of 1 item | 27 732 |
| `fork_programs` | MCForkPrograms, ForkPrograms | the promises of primes, xargs and timeout | numbers to 11, 6 lines by 2, 4 kinds of command | 4 612 |

Two runs show a disagreement between the code and a comment or a document:

| run | the code | what was said |
|---|---|---|
| `address_spaces_leak` | a page that is allocated but cannot be mapped, for want of a page table, is lost | syscall.c:233: "If page_insert() fails, remember to free the page you allocated!" |
| `fisopfs_full` | a write that fills the content zeroes `file_parent[0]`: the file vanishes from its directory, which can then be removed | fisopfs.md:13 and 64 |

**Disagreements** that no run shows. The modules contain them; where a property is
named, TLC refutes it in the configuration of its module, once the property is
listed there and the constant, if one is given, is changed:

- a key pressed while the boot processor is halted panics the kernel
  (`console.c:571` unmasks a line for which `trap.c` has no gate): `NoPanic` of
  `Kernel` with `Keyboard = TRUE`;
- a failed `sys_ipc_recv` leaves `env_ipc_recving` set, so that a send succeeds to
  an environment that never blocked (`syscall.c:415` against the comment at 321):
  `ReceiverBlocked` with `Liberties = {"bad_dstva"}`;
- a parent that goes on with a child others run (`Liberties` `any_status` and
  `kill_zombie`) can put it on two CPUs: `OneCpuPerEnv` with two CPUs;
- a send of a page that the sender has not mapped follows an unset `srcpte`
  (`syscall.c:374`) and may pass the check; then the receiver's page is replaced
  (383) before the mapping fails (385), against "The ipc only happens when no
  errors occur." (338): `ReceiverUndisturbed` of `AddressSpace`. What the run
  checks is `ReceiverKeepsMemory`: that page is all the receiver can lose, and it
  gets another for it;
- the boost adds one level where `sched.md:42-43` says that everybody is back at
  the maximum: `BoostRestoresMaximum` of `SchedPriority`. What the run checks
  of the boost, `OnlyBoostRaises`, does not say how far it goes;
- two requests on two threads find one free slot and a file is lost
  (`fisopfs.c:92`; `fisopfs.md:79` mounts without `-s`): `NoLostFile` of
  `Fisopfs` with `Threads = {t1, t2}`. With a second directory, in which a file
  is being made while its slot is taken, `Tree` goes too. The run serves one
  request at a time and does not claim `NoLostFile`;
- `fisopfs_unlink` leaves the count of the other names as it was
  (`fisopfs.c:350`), so that the last name of a file may say it has two links, and
  a write to a file with one link then changes it too (lines 308-318, against
  `fisopfs.md:16`): `SingleLinkWrites` of `Fisopfs`;
- the shell does not wait for the left process of a pipe whose second fork fails
  (`exec.c:206`): `SuccessMeansOver` with `FailingForks = {"pid_r"}`.

**Bounds.** `Kernel`: three slots are enough for an environment, its child and a third
that waits, or for a zombie, the CPU's next environment and the reuse of a slot;
two generations make an id stale and make it wrap; two CPUs give every
interleaving of one handler with what another CPU does outside the lock (all
handlers are atomic under the lock), and the theorems below hold for any number.
`SpinLock`: three CPUs let two race for a lock a third holds. In
`SchedPriority` two environments are needed to keep a third waiting (on one CPU: with as many
CPUs as these two, everybody would run without a boost); 5 levels tell a
choice that is one level off from a right one and a boost by one level from one
to the maximum, a boost after 3 calls lets priorities fall before it, and a
history of 3 entries overruns at once. In `Fisopfs`, three paths and slots allow a
directory with a file in it, a full superblock, and two files side by side;
requests are served by one thread; `MAX_CONTENT` is 2 and writes end at `MaxEnd` = 1, except in `fisopfs_full`, where they reach
`MAX_CONTENT`. Writes beyond it, over further fields, are not
modelled. In `AddressSpace` a third environment lets a child fork while its
parent goes on, two CPUs let one die while another runs it, and a workload says
how much memory there is: ample, or any number of pages from what the first
environment needs to what a fork uses, so that memory runs out once at each
allocation. `Boot` runs with more processors than `NCPU`, tables with entries
that are skipped or end the search, no table, and every size of memory around
the least that suffices. `Ipc` with five environments
has a chain of four primes, in which 4 and 6 are dropped at the first and 5 and
7 go through two and three, and two senders for one receiver. In
`Shell` seven processes are the shell and two lines of pipes side by side, one
of them in the background; a pipe holds one item and `seq` writes two, so that
writers block. `Primes` to 11 has five filters, the last with nobody behind it;
`Xargs` covers empty, partial and exact batches.

**Deadlock** is not checked where the system really stops: the kernel in its
monitor when nothing is left to run, the start of the processors when it is over,
programs that end. That nobody waits for ever is stated by the liveness
properties instead (`PromptReturns`, `SievePromise`, `TimeoutPromise`,
`IpcPromise`, `EveryCpuSchedules`).

**Fairness.** `SpinLock`: a CPU that has begun runs on and its stores reach
memory (weak); no fairness between the CPUs that spin. `Kernel`: a CPU in the
middle of `env_run` reaches user mode and a halted one is woken (weak); the
local APIC timer is periodic and interrupts are on in user mode, so a CPU that
keeps returning to user mode is interrupted (strong on `TimerTrap`); a CPU that
spins gets a lock that keeps becoming free (strong on `Handle`): the xchg does
not promise this, but the `pause` of `unlock_kernel` is there because without it
"this CPU is likely to reacquire the lock before another CPU has even been given
a chance to acquire it" (`spinlock.h:42-44`).
`SchedPriority`: every CPU's timer ticks (weak). `Boot`: every processor goes on
(weak); who gets the kernel lock first does not matter, since each asks once.
`Ipc`: every RUNNABLE environment runs in the end (weak on each), which is
`NoStarvation` of `Kernel`. `Shell` and the programs of 1-fork: the system goes on
with every process that can go on and delivers signals in the end (weak on
each); the user of the shell need not type. `AddressSpace` and `Fisopfs` have
safety properties only. `NoStarvation` excepts
behaviours that create environments for ever: the circular search starts at the
last environment's own slot, and a slot freed and made anew comes first again.

## Proofs

`SmpProofs`, of `SpinLock`, for every set of CPUs: type correctness, mutual exclusion, no
false panic, and the refinement of `Mutex`. Mutual exclusion alone is not
inductive; the invariant adds that an owner has `locked = 1`, what the store
buffer of a CPU may hold at each location (`BufferOK`), and that memory names a
CPU in `cpu` only between its own two stores (`CpuRecorded`). The definitions of
`SpinLock` have names of their own (`LockSpec`, `at`), so that this module can
extend it and `Boot`.

`KernelProofs`, for every number of CPUs, slots and generations and every set of
system calls, under `Liberties = {}`: type correctness, `OneCpuPerEnv`,
`FreeListExact`, `ReceiverBlocked`, `MonitorOnlyWhenIdle`, and `NoPanic` when
`Keyboard = FALSE`. The invariant `IInv` is the conjunction of these with: slots
in use have an id that is not 0 (so that a stale id, or the id of a slot never
used, is refused), the lock is kept only at boot, in the monitor or in a panic
(`LockOK`), and a CPU that runs nothing has `curenv = NULL` (`UnusedOK`). The
argument has one lemma about what holds *inside* the kernel between two
statements of a handler (`Settled`): from such a point `env_run`, `sched_yield`,
`sched_halt` and the end of `trap` all restore the invariant. Each handler then
only has to reach such a point.

The two action properties follow from `IInv` and a description of every step by
who may change what: a handler that runs on a CPU changes the status of its own
environment, of the one it calls on, and of those the scheduler picks
(`HandlersAllow`); `ZombieFreedByItsTrap` and `WokenBySend` are read off it.

`SchedPriorityProofs`, for any slots, CPUs, priorities, boost period and length
of the history: the types, that a CPU changes only to an environment that no CPU
runs and to which none that waits is preferred, by their priorities after the
boost if it is due, and halts only if nobody waits (`MostImportantChosen`), and
that nothing but the boost raises a priority (`OnlyBoostRaises`). That the chosen
one is on no other CPU needs the invariant that what a CPU runs is RUNNING and
on that CPU only (`Owned`). The types are inductive although the
history overruns: what `AddCounts` may leave in the fields behind it is bounded.
The rest is the circular search, described by what it returns (`Visits`). The
run has one CPU; what a second one adds to these two properties is proved.

`AddressSpaceProofs`, for any number of environments, CPUs and pages, any
workloads, and whatever liberties the programs take: `RefsCounted` and
`FreePagesExact`. The first half is about the operators of `pmap.c`. Each is
shown to keep a memory `Sound` (what is free is not referenced, no page has
fewer references than pointers to it, nothing is mapped where there is no page
table) and to keep, for each page, the difference between `pp_ref` and the
number of its pointers (`SameExtra`): that difference, not the count, is what
survives the middle of `page_insert`, where a reference is counted before its
pointer is written. The pages that are not referenced stay on the free list
but for those an operator holds (`NoneLost`). The second half shows that every
step of the kernel and the library uses them as they must be used. The invariant
`IInv` adds that an environment has a page directory exactly while its slot is in
use (`Slots`), that the child a parent is building is still its own and stays
blocked (`Children`), and that `pgfault` has an address to work on (`Handling`):
without them, `sys_exofork` could overwrite a directory, and `env_free` give one
back twice. For the programs of the repository (`Liberties = {}`),
`TlbCoherent` and `ReceiverKeepsMemory` follow: `NextChanges` says whose mappings
a step may change, those of the caller, which loads them when it returns, or
those of an environment that is not in user mode; if it goes on receiving, the
step is a send that failed, and then all it changes is the page at `MSG`, for
another one, because the sender had none (`Sending`).

`ForkProofs`, for any number of environments, CPUs and pages and the programs
of the repository (`Liberties = {}`): `FaultResolved`. `pgfault` works on page
tables that `sys_exofork`, `sys_page_map` and `sys_env_destroy` of others may
reach between any two of its steps. `Faults` says what it has done so far: the
page that faulted has a page table, `PFTEMP` is mapped writable from
`sys_page_alloc` to `sys_page_map`, and after that the page is. A fault arises
only on a page that is mapped: the library's own writes are to `DATA`, and
`HasData` says that whoever may run has it mapped, which the first environment
gets from `env_create` and a child from its parent before `sys_env_set_status`
lets it run. Every other environment's step is shown to be that of a
`Bystander`: it leaves the page tables of one that may run as they are, or frees it.

From the same assumptions, in the same module: `DiesOfExhaustion`. `EInv` is that
memory or environments have run out, which is so for good, or that everybody is
fit (`Arms`); it also has the invariants above and
`TlbCoherent`, since a program faults by what its TLB says. A program is `Fit`
when it is `Armed` (an upcall, and an exception stack it can write) before it
needs to be: as soon as it has a handler, a copy-on-write page or a copy-on-write
fork under way; `fork_v0` never makes a page copy-on-write. `ChildFit` says what
the builder of a child has given it at each stage, so that the child is armed
before `sys_env_set_status` lets it run. That no call of the library fails rests
on smaller facts in `Fit`: the page the loop works on is still mapped as it was
(a stack, whose copy-on-write fault `pgfault` may resolve in between, is mapped
throughout), and `PFTEMP` is mapped only while it is used, so that no fork
copies it.

And `PrivateMemory`, from the same assumptions. `PInv` adds to the invariants
above what `Private` says of the contents of pages. `Aliases` lists the mappings
that may be of one page: those at one address, of which one that can be written
is shared only between the two system calls of `duppage` (or for ever, if the
second could not be made and the library panicked), and `PFTEMP`, with the page
that `pgfault` or `fork_v0` copies through it. `Tidy` says which permissions and
places of a program go together, `CopyTarget` that the page `fork_v0` copies to is
of nobody else. Given these, a write reaches nobody else's memory, but for one of
the parent between the two system calls, which also changes what the child has.
So what a child inherits is settled only then, and `Gave` follows it: the child has
at each place of the loop its parent has passed what it is said to inherit, so
that `Finds` holds of it when `sys_env_set_status` lets it run. No step that takes or gives
back pages changes one that stays mapped (`Contents`): here the counts of
`AddressSpaceProofs` are needed, a page that is mapped is never on
`page_free_list`. The theorem does not assume that memory suffices, nor that a
system call succeeds.

`IpcProofs`, for any number of environments, balls and programs: `Ipc` implements
`Rendezvous`, each step of which is one or none of the abstract one. The
invariant says what a program counter implies for the status of its environment
(`StatusOK`), which message is in `struct Env` while it is read apart
(`MessageOK`), and that a child's id is its parent's to use (`ChildOK`). On top
of it, `NothingLost`, the safety of `IpcPromise`, for any number of environments and balls. For `primes` the
invariant `Sieving` says that the environments are a chain in the order of their
slots (`Chain`, `ChainOK`), that the one in slot n has the n-th prime printed
(`PrintedOK`), and that of the numbers an environment has dealt with (`Done`)
those that no prime up to its own divides, and only those, have gone through, the
one it still sends included (`Numbers`, `Covered`): a send that is retried, and a
message half read, count as not dealt with (`Busy`). For `pingpong`, `Playing`:
one of the two has the ball, in its hand, in `struct Env` or on its way
(`BallAt`), while the other listens, or has ended after the last ball. For
`fairness`, `Served`: the receiver stays.

`FisopfsProofs`: for any number of threads, the types and `PrivateContents`, that
a write or a truncation changes no other file with a single link, also when the
file written has several; for requests served one at a time (`OneThread`) and
writes that end before `MAX_CONTENT` (`ShortWrites`), `Tree`, in memory and on
disk, through remounts and crashes, for any set of paths, slots and bytes. With
two threads or longer writes the code breaks it, as *Disagreements* and the run
`fisopfs_full` show. `Tree` needs that the slot a request has found stays free
and its directory stays there until it fills the slot (`PendingOK`).

`SmpProofs`, of `Boot`, for any machines, memory layout, stack sizes and number of
processors, the boot processor being the first of the table (`BootAssumption`)
and a processor's APIC id its place in it, as in the model: `NothingShared`. The invariant `BInv` says
that the processors start one at a time (`Stage`, `Serial`): whoever is between
its reset and its own `started` is the processor that `boot_aps` waits for, so
that `mpentry_kstack` is still its own when it reads it, nobody else is between
the two halves of `mmio_map_region`, and from its first step on there is a
local APIC to ask who it is. Of memory it says that pages have one use
(`Tidy`): `boot_alloc` stays above all that is in use, and `page_init` leaves
out the page of the entry code before anybody writes it.

`UnixProofs`, of `Shell`, for any number of processes and pipes, any lines and
programs, and whichever forks fail. Every action is first reduced to what it does
to the processes: one makes a child, takes zombies, ends, or changes only itself;
the invariants are shown of these effects, and of the interrupts of the SIGCHLD
handler between any two of them. `Household` is what every theorem rests on: the
types, the tree of processes (`Family`: nobody is its own ancestor, a parent
runs), and the command in the foreground (`Command`: while the shell waits for it,
it is the shell's child, in a group of its own or on the way to it). From it
follows `ForegroundReapedByWait`: the handler takes the shell's group only.

`SuccessMeansOver` needs that in the group of a command every process but the
first is waited for by its parent (`Attended`), so that the first ends last
(`Over`). It is proved under `[][RightForks]_vars`: no fork of the right process
fails in a process that another pipe waits for. When one does, `exec_cmd` ends
without waiting for its left process (`exec.c:204-211`), and the processes to its
left may report success before it; the hazard is listed. No step of the run
violates `RightForks`, as TLC has checked.

`PipesWired` is proved for the lines that are `ParsedInOrder`: their words give
each program its place. `parse_line` computes such trees by recursion, which the
provers cannot follow; an assumption of `MCShell`, which TLC evaluates, says that
the lines of the run are such. Which ends a process holds depends on where it is
between `pipe` and its last `close` (`Descriptors`); no two processes that are, or
will become, programs have one end for their input or for their output
(`OneOwner`); and in a group the one that may still split is the last, so that
neighbours in the line are connected whoever is made first (`InLine`).

Of the programs of 1-fork, which are instances over the same processes:

- `Timeout`, for any command: `NoCommandLeft`. `CommandKnown` says that there
  is nobody but the process in `pid` for the timer's handler to kill, and that it
  has ended when the timer is deleted.
- `Xargs`, for any input, any `NARGS` and forks that fail, when the command
  exists: `BatchesExact`. `OneCommand` says that there is one child at most,
  and `Batches` which lines are in each command that has run, in the child's
  copy of the array, and in the parent's, and that the rest of the input follows.
- `Primes`, for any limit, number and size of pipes, speed of the filters and
  forks that fail: `PrimesInOrder`. `PipesApart` says that a pipe has one
  reader and one writer that use it. `Streams` says that the numbers in a pipe
  are, with none missing, those without a divisor up to the prime of the filter
  that writes them (`Bound`), and that what the writer has still to write comes
  next. So the first number that a new filter reads is the next prime
  (`NextIsPrime`): a number without divisors up to the prime before it, and the
  least such, has none at all. On a terminal only one process is
  about to print, the last of the chain, and its parent's prime is what was printed last
  (`Prints`); elsewhere what has been read waits in the buffers of stdio, and
  `fork` copies it, so that only the first half of the property is claimed.

The theorems use the assumptions on the constants stated in the modules, which
every run evaluates, and `Liberties`, `OneThread`, `ShortWrites`, `RightForks` and
`ParsedInOrder` where they are named. TLC has checked the inductive invariants on
the runs of the module before they were proved.

Only model-checked: all liveness, which is out of the prover's reach, as is
ENABLED: `LockIsTaken`, `ZombiesAreFreed`, `NoStarvation`, `PanicHaltsTheOthers`,
`EveryCpuSchedules`, `PromptReturns`, `ZombiesReaped`, and the halves of
`IpcPromise`, `XargsPromise`, `TimeoutPromise` and `SievePromise` that say what
must happen in the end; the safety halves of these are what is proved. Also only
evaluated by TLC: what the recursive parser of `ShellParse` gives.

## Plan

1. `Mutex`, `SpinLock` and proofs; `Kernel` and proofs; `SchedPriority`;
   `Fisopfs`: done.
2. `AddressSpace` (page counts, copy-on-write fork, the page of a message),
   `Boot`, `Rendezvous` and `Ipc`, `Unix` with `Shell` and the programs of 1-fork:
   done.
3. Proofs of the action properties of `Kernel`, the safety of `SchedPriority` and
   `Fisopfs`, the counts, free list, TLBs, page faults, forks and private memory of
   `AddressSpace`, what `Boot` hands out, and the refinement of `Rendezvous`: done.
4. Proofs of the safety of `Shell`, `Timeout`, `Xargs`, `Primes` and the programs
   of `Ipc`: done.
5. `EnvLife`, an abstract life of an environment that `Kernel` implements, and
   `SuccessMeansOver` without `RightForks`, for lines of one pipe.

## Not modelled

Formatting, strings, symbols, the monitor's commands, the registers of devices
and the console (`printfmt.c`, `string.c`, `kdebug.c`, `console.c`, `monitor.c`):
sequential handling of text, or input and output. `entrypgdir.c` is a table
written out. The `check_*` functions of `pmap.c` and the small programs of
`user/` are tests. Of the shell, expansion of variables, the built-ins and the
freeing of commands; `ps.c`; the graders. Trap frames, permissions `check_perm`
refuses, user ids, lengths of paths and times are abstracted away in the modules
that would have them.
