----------------------------- MODULE AddressSpace -----------------------------
(***************************************************************************)
(* Physical pages and address spaces of the JOS kernel of 3-sched, and the *)
(* programs that work on them from user mode: the page allocator and the   *)
(* page tables (kern/pmap.c), the address space an environment is born     *)
(* with and loses (kern/env.c), the system calls on pages and the page an  *)
(* IPC carries (kern/syscall.c), the delivery of a page fault to user mode *)
(* (kern/trap.c), and the copy-on-write fork and the fork by copying of    *)
(* the user library (lib/fork.c, lib/pgfault.c).                           *)
(*                                                                         *)
(* A system call is one step, since it runs under the big kernel lock; the *)
(* library is a sequence of steps between which other environments run and *)
(* the environment itself writes to its stack.  What user mode may touch   *)
(* is what its CPU has in the TLB, which is loaded on each return to user  *)
(* mode (env_run does an lcr3) and which no other CPU can invalidate.      *)
(***************************************************************************)
EXTENDS Naturals, Sequences, FiniteSets

CONSTANTS
  Envs,          \* the slots of envs[]
  First,         \* the one i386_init creates
  NoEnv,
  NCPU,          \* the number of CPUs
  Workloads,     \* the machines and programs considered, see below
  Liberties      \* what the programs do that those of the repository do not

(***************************************************************************)
(* The programs of the repository kill a child at most once (user/spin.c)  *)
(* and change the address space of another environment only while they     *)
(* build it (lib/fork.c, user/dumbfork.c).  A liberty lifts one of these.  *)
(***************************************************************************)
AllLiberties == {"kill_zombie", "unmap_running"}

(***************************************************************************)
(* A workload: the pages free at boot, which of the two forks the programs *)
(* use, how often they fork, and how many writes to their memory and other *)
(* system calls they make besides.  The first environment takes five pages.*)
(***************************************************************************)
ASSUME AddressSpaceAssumption ==
  /\ IsFiniteSet(Envs) /\ First \in Envs
  /\ NoEnv \notin Envs
  /\ NCPU \in Nat \ {0}
  /\ Workloads \subseteq [npages : Nat, fork : {"fork", "fork_v0"}, forks : Nat, acts : Nat]
  /\ \A w \in Workloads : w.npages >= 5
  /\ Liberties \subseteq AllLiberties

Pages == UNION {1 .. w.npages : w \in Workloads}
NULL == 0                       \* no page

(* The user addresses the programs use, in ascending order: the temporary  *)
(* one of the library (UTEMP, PFTEMP), the program's text and data, the    *)
(* page sendpage exchanges, the stack and the exception stack.             *)
VaOrder == <<"TEMP", "DATA", "MSG", "STACK", "XSTACK">>
Vas == {VaOrder[i] : i \in 1 .. Len(VaOrder)}

(* The page directory entry that covers an address (inc/memlayout.h).      *)
PDX(va) == CASE va = "TEMP" -> 1 [] va \in {"DATA", "MSG"} -> 2 [] OTHER -> 3
Tables == 1 .. 3

Perms == {"none", "ro", "cow", "rw"}
Pte(p, perm) == [page |-> p, perm |-> perm]
Unmapped == Pte(NULL, "none")
NoVas == [va \in Vas |-> Unmapped]

VARIABLES
  mem,      \* the page allocator, the page tables, the contents of the pages
  env,      \* what struct Env keeps of an environment
  usr,      \* where the program of an environment is
  tlb,      \* the translations its CPU holds, while it is in user mode
  seen,     \* what an environment wrote last, or inherited, in its pages
  program   \* the workload, with what is left of its bounds

vars == <<mem, env, usr, tlb, seen, program>>

-----------------------------------------------------------------------------
(* kern/pmap.c: operators from a memory to the next one *)

(* The pages of page_free_list, and the one that page_alloc takes: the     *)
(* order of the list is of no interest.                                    *)
PageInit(n) == 1 .. n
Top(free) == CHOOSE p \in free : TRUE

(* page_alloc, of a memory whose free list is not empty.                   *)
PageAlloc(m) == [m EXCEPT !.free = @ \ {Top(m.free)}, !.data[Top(m.free)] = 0]
Exhausted(m) == [m EXCEPT !.exhausted = TRUE]

(* page_free panics when the page is in use or (unless it is the last of   *)
(* the list) is free already; what a page contained is lost.               *)
PageFree(m, p) ==
  IF m.ref[p] # 0 \/ p \in m.free
  THEN [m EXCEPT !.panic = TRUE]
  ELSE [m EXCEPT !.free = @ \cup {p}, !.data[p] = 0]

(* Mutant: a page is freed when one reference is left. *)
PageDecrefEarly(m, p) ==
  LET d == [m EXCEPT !.ref[p] = @ - 1]
  IN  IF d.ref[p] \in {0, 1} THEN PageFree([d EXCEPT !.ref[p] = 0], p) ELSE d

PageDecref(m, p) ==
  LET d == [m EXCEPT !.ref[p] = @ - 1]
  IN  IF d.ref[p] = 0 THEN PageFree(d, p) ELSE d

(* pgdir_walk with create: the table that covers va, if memory allows it.  *)
PgdirWalk(m, e, va) ==
  IF m.table[e][PDX(va)] # NULL THEN m
  ELSE IF m.free = {} THEN Exhausted(m)
  ELSE LET p == Top(m.free)
       IN  [PageAlloc(m) EXCEPT !.ref[p] = @ + 1, !.table[e][PDX(va)] = p]

(* page_lookup and page_remove test only that the entry is not zero.       *)
PageRemove(m, e, va) ==
  IF m.pte[e][va] = Unmapped THEN m
  ELSE [PageDecref(m, m.pte[e][va].page) EXCEPT !.pte[e][va] = Unmapped]

(* page_insert counts the new reference before it removes the mapping that *)
(* was there, which may be of the same page.                               *)
PageInsert(m, e, p, va, perm) ==
  LET w == PgdirWalk(m, e, va)
  IN  IF w.table[e][PDX(va)] = NULL THEN w
      ELSE LET r == PageRemove([w EXCEPT !.ref[p] = @ + 1], e, va)
           IN  [r EXCEPT !.pte[e][va] = Pte(p, perm)]

(* user_mem_assert lets the range pass.                                    *)
UserMemCheck(m, e, va, perm) == m.pte[e][va].perm = perm

-----------------------------------------------------------------------------
(* kern/syscall.c, kern/env.c: the same for an environment *)

(* Whether inserting at va in e succeeds: there is a table or memory for it *)
TableFits(m, e, va) == m.table[e][PDX(va)] # NULL \/ m.free # {}

(* env_page_alloc: a page that page_insert does not take is not given back. *)
EnvPageAlloc(m, e, va, perm) ==
  IF m.free = {} THEN Exhausted(m)
  ELSE PageInsert(PageAlloc(m), e, Top(m.free), va, perm)

EnvPageAllocOK(m, e, va) ==
  m.free # {} /\ TableFits(PageAlloc(m), e, va)

(* env_page_map: no page, or a writable mapping of one that is not.        *)
EnvPageMapOK(m, src, srcva, dst, dstva, perm) ==
  /\ m.pte[src][srcva] # Unmapped
  /\ perm = "rw" => m.pte[src][srcva].perm = "rw"
  /\ TableFits(m, dst, dstva)

EnvPageMap(m, src, srcva, dst, dstva, perm) ==
  IF m.pte[src][srcva] = Unmapped \/ (perm = "rw" /\ m.pte[src][srcva].perm # "rw")
  THEN m
  ELSE PageInsert(m, dst, m.pte[src][srcva].page, dstva, perm)

(* env_setup_vm: the directory is a copy of the kernel's, empty below UTOP. *)
EnvSetupVm(m, e) ==
  LET p == Top(m.free)
  IN  [PageAlloc(m) EXCEPT !.ref[p] = @ + 1, !.dir[e] = p]

(* env_free empties the table of each directory entry in turn, then gives  *)
(* back the table.                                                         *)
Emptied(m, e, pdeno) ==
  CASE pdeno = 1 -> PageRemove(m, e, "TEMP")
    [] pdeno = 2 -> PageRemove(PageRemove(m, e, "DATA"), e, "MSG")
    [] pdeno = 3 -> PageRemove(PageRemove(m, e, "STACK"), e, "XSTACK")

FreeTable(m, e, pdeno) ==
  IF m.table[e][pdeno] = NULL THEN m
  ELSE PageDecref([Emptied(m, e, pdeno) EXCEPT !.table[e][pdeno] = NULL], m.table[e][pdeno])

(* Mutant: the page directory is not given back. *)
EnvFreePagesKeepDir(m, e) ==
  [FreeTable(FreeTable(FreeTable(m, e, 1), e, 2), e, 3) EXCEPT !.dir[e] = NULL]

EnvFreePages(m, e) ==
  LET f == FreeTable(FreeTable(FreeTable(m, e, 1), e, 2), e, 3)
  IN  PageDecref([f EXCEPT !.dir[e] = NULL], m.dir[e])

-----------------------------------------------------------------------------
(* Struct Env and the processor *)

NoEnvAt == [status |-> "FREE", parent |-> NoEnv, upcall |-> FALSE,
            recving |-> FALSE]
Start(pc) == [pc |-> pc, handler |-> FALSE, child |-> NoEnv, at |-> 1,
              perm |-> "none", fault |-> "none", step |-> "none"]

(* env_create at boot: env_alloc, then load_icode with region_alloc.       *)
Boot(n) ==
  LET empty == [free  |-> PageInit(n),
                ref   |-> [p \in Pages |-> 0],
                dir   |-> [e \in Envs |-> NULL],
                table |-> [e \in Envs |-> [t \in Tables |-> NULL]],
                pte   |-> [e \in Envs |-> NoVas],
                data  |-> [p \in Pages |-> 0],
                exhausted |-> FALSE,
                panic |-> FALSE]
      text == EnvPageAlloc(EnvSetupVm(empty, First), First, "DATA", "rw")
  IN  EnvPageAlloc(text, First, "STACK", "rw")

Init ==
  /\ program \in Workloads
  /\ mem = Boot(program.npages)
  /\ env = [e \in Envs |-> IF e = First THEN [NoEnvAt EXCEPT !.status = "RUNNABLE"]
                           ELSE NoEnvAt]
  /\ usr = [e \in Envs |-> Start(IF e = First THEN "user" ELSE "none")]
  /\ tlb = [e \in Envs |-> NoVas]
  /\ seen = [e \in Envs |-> [va \in Vas |-> 0]]

Running == {e \in Envs : env[e].status \in {"RUNNING", "DYING"}}

(* e comes back to user mode: env_run loads its page directory.            *)
Resume(e) == tlb' = [tlb EXCEPT ![e] = mem'.pte[e]]
LeaveCPU(e) == tlb' = [tlb EXCEPT ![e] = NoVas]

(* What env_free(d) does to the table of environments; the generation of   *)
(* ids makes what d was the parent of nobody's child.                      *)
EnvFree(table, d) ==
  [e \in Envs |-> IF e = d THEN NoEnvAt
                  ELSE IF table[e].parent = d THEN [table[e] EXCEPT !.parent = NoEnv]
                  ELSE table[e]]

(* env_destroy(curenv), with pc as the reason for it.                      *)
DestroySelf(e, pc) ==
  /\ mem' = EnvFreePages(mem, e)
  /\ env' = EnvFree(env, e)
  /\ usr' = [usr EXCEPT ![e] = Start(pc)]
  /\ LeaveCPU(e)

(* sched_yield picks e; which environment it picks is SchedPriority's.     *)
Run(e) ==
  /\ env[e].status = "RUNNABLE"
  /\ Cardinality(Running) < NCPU
  /\ env' = [env EXCEPT ![e].status = "RUNNING"]
  /\ UNCHANGED <<mem, usr, seen, program>>
  /\ Resume(e)

(* The timer preempts e, or it yields.                                     *)
Preempt(e) ==
  /\ env[e].status = "RUNNING"
  /\ env' = [env EXCEPT ![e].status = "RUNNABLE"]
  /\ LeaveCPU(e)
  /\ UNCHANGED <<mem, usr, seen, program>>

(* Any trap of a zombie frees it.                                          *)
TrapOfZombie(e) ==
  /\ env[e].status = "DYING"
  /\ DestroySelf(e, "none")
  /\ UNCHANGED <<seen, program>>

-----------------------------------------------------------------------------
(* Accesses of user mode, and what a fault starts *)

(* page_fault_handler: to the upcall if there is one and the exception     *)
(* stack can be written.                                                   *)
PageFault(e, va) ==
  /\ env[e].status = "RUNNING"
  /\ IF env[e].upcall /\ UserMemCheck(mem, e, "XSTACK", "rw")
     THEN /\ usr' = [usr EXCEPT ![e].fault = va, ![e].step = "alloc"]
          /\ UNCHANGED <<mem, env>>
          /\ Resume(e)
     ELSE DestroySelf(e, "killed")
  /\ UNCHANGED <<seen, program>>

(* e stores in a page its CPU lets it write. *)
Store(e, va) ==
  /\ tlb[e][va].perm = "rw"
  /\ mem' = [mem EXCEPT !.data[tlb[e][va].page] = 1 - @]
  /\ seen' = [seen EXCEPT ![e][va] = 1 - @]
  /\ UNCHANGED <<env, tlb>>

At(e, pc) == usr[e].pc = pc /\ usr[e].fault = "none"
Goto(e, pc) == usr' = [usr EXCEPT ![e].pc = pc]

(* A program writes to its memory, and to its stack also in mid-fork. *)
WriteMemory(e, va) ==
  /\ e \in Running
  /\ usr[e].fault = "none"
  /\ usr[e].pc \notin {"none", "killed", "panic", "send_panic", "child"}
  /\ va = "STACK" \/ (usr[e].pc = "user" /\ va \in {"DATA", "MSG"})
  /\ mem.pte[e][va].perm \in {"rw", "cow"}
  /\ program.acts > 0
  /\ \/ /\ Store(e, va)
        /\ program' = [program EXCEPT !.acts = @ - 1]
        /\ UNCHANGED usr
     \/ tlb[e][va].perm # "rw" /\ PageFault(e, va)

(* e makes a system call at pc: had it been killed, TrapOfZombie.          *)
Calls(e, pc) == env[e].status = "RUNNING" /\ At(e, pc)

(* The system call leaves the memory m, and the program goes on at pc.     *)
Returns(e, m, pc) ==
  /\ mem' = m
  /\ Goto(e, pc)
  /\ Resume(e)

(* What a failed system call makes the library do. *)
Panics(e, m) == Returns(e, m, "panic") /\ UNCHANGED <<env, seen, program>>

-----------------------------------------------------------------------------
(* pgfault of lib/fork.c, run by _pgfault_upcall on the exception stack;   *)
(* its test for a copy-on-write page never fails (& for &&).               *)

InHandler(e, step) == env[e].status = "RUNNING" /\ usr[e].step = step
Handles(e, m, step) ==
  /\ mem' = m
  /\ usr' = [usr EXCEPT ![e].step = step]
  /\ Resume(e)
  /\ UNCHANGED <<env, seen, program>>

PgfaultAlloc(e) ==
  /\ InHandler(e, "alloc")
  /\ LET m == EnvPageAlloc(mem, e, "TEMP", "rw")
     IN  IF EnvPageAllocOK(mem, e, "TEMP")
         THEN Handles(e, m, "copy")
         ELSE /\ usr' = [usr EXCEPT ![e].pc = "panic", ![e].fault = "none",
                                    ![e].step = "none"]
              /\ mem' = m
              /\ Resume(e)
              /\ UNCHANGED <<env, seen, program>>

PgfaultCopy(e) ==
  /\ e \in Running
  /\ usr[e].step = "copy"
  /\ mem' = [mem EXCEPT !.data[tlb[e]["TEMP"].page] =
                          mem.data[tlb[e][usr[e].fault].page]]
  /\ usr' = [usr EXCEPT ![e].step = "map"]
  /\ UNCHANGED <<env, tlb, seen, program>>

(* Mutant: the copy is mapped copy-on-write again. *)
PgfaultMapCow(e) ==
  /\ InHandler(e, "map")
  /\ Handles(e, EnvPageMap(mem, e, "TEMP", e, usr[e].fault, "cow"), "unmap")

PgfaultMap(e) ==
  /\ InHandler(e, "map")
  /\ Handles(e, EnvPageMap(mem, e, "TEMP", e, usr[e].fault, "rw"), "unmap")

(* ... and _pgfault_upcall returns to the access that faulted. *)
PgfaultUnmap(e) ==
  /\ InHandler(e, "unmap")
  /\ mem' = PageRemove(mem, e, "TEMP")
  /\ usr' = [usr EXCEPT ![e].step = "none", ![e].fault = "none"]
  /\ Resume(e)
  /\ UNCHANGED <<env, seen, program>>

-----------------------------------------------------------------------------
(* fork and fork_v0 of lib/fork.c *)

Fork(e) ==
  /\ Calls(e, "user")
  /\ program.forks > 0
  /\ program' = [program EXCEPT !.forks = @ - 1]
  /\ Goto(e, IF program.fork = "fork_v0" THEN "exofork"
             ELSE IF usr[e].handler THEN "save" ELSE "handler")
  /\ UNCHANGED <<mem, env, tlb, seen>>

(* set_pgfault_handler gives up in silence when there is no memory. *)
SetPgfaultHandler(e) ==
  /\ Calls(e, "handler")
  /\ Returns(e, EnvPageAlloc(mem, e, "XSTACK", "rw"),
             IF EnvPageAllocOK(mem, e, "XSTACK") THEN "upcall" ELSE "exofork")
  /\ UNCHANGED <<env, seen, program>>

SetPgfaultUpcall(e) ==
  /\ Calls(e, "upcall")
  /\ env' = [env EXCEPT ![e].upcall = TRUE]
  /\ Returns(e, mem, "save")
  /\ UNCHANGED <<seen, program>>

(* _pgfault_handler is a variable of the program. *)
SaveHandler(e) ==
  /\ e \in Running
  /\ At(e, "save")
  /\ \/ /\ Store(e, "DATA")
        /\ usr' = [usr EXCEPT ![e].pc = "exofork", ![e].handler = TRUE]
        /\ UNCHANGED program
     \/ tlb[e]["DATA"].perm # "rw" /\ PageFault(e, "DATA")

FreeEnvs == {d \in Envs : env[d].status = "FREE"}

Exofork(e) ==
  /\ Calls(e, "exofork")
  /\ \/ /\ FreeEnvs = {} \/ mem.free = {}
        /\ Panics(e, Exhausted(mem))
     \/ /\ FreeEnvs # {} /\ mem.free # {}
        /\ LET d == CHOOSE f \in FreeEnvs : TRUE
           IN  /\ mem' = EnvSetupVm(mem, d)
               /\ env' = [env EXCEPT ![d] = [NoEnvAt EXCEPT !.status = "NOT_RUNNABLE",
                                                            !.parent = e]]
               /\ usr' = [usr EXCEPT ![d] = Start("child"), ![e].pc = "dup",
                                     ![e].child = d, ![e].at = 1]
        /\ Resume(e)
        /\ UNCHANGED <<seen, program>>

(* The loop over the pages below UTOP: the next that is mapped, but for    *)
(* the exception stack in fork, with what uvpt says of it.                 *)
NextPage(e, i) ==
  {j \in i .. Len(VaOrder) :
     /\ mem.pte[e][VaOrder[j]] # Unmapped
     /\ program.fork = "fork" => VaOrder[j] # "XSTACK"}

Dup(e) ==
  /\ e \in Running
  /\ At(e, "dup")
  /\ LET todo == NextPage(e, usr[e].at)
         j == CHOOSE k \in todo : \A l \in todo : k <= l
         perm == mem.pte[e][VaOrder[j]].perm
     IN  IF todo = {}
         THEN Goto(e, IF program.fork = "fork" THEN "xstack" ELSE "status")
         ELSE usr' = [usr EXCEPT ![e].at = j, ![e].perm = perm,
                        ![e].pc = IF program.fork = "fork" \/ perm # "rw"
                                  THEN "dup_child" ELSE "copy_alloc"]
  /\ UNCHANGED <<mem, env, tlb, seen, program>>

Va(e) == VaOrder[usr[e].at]
Shared(perm) == IF perm \in {"rw", "cow"} THEN "cow" ELSE "ro"
Advance(e) == usr' = [usr EXCEPT ![e].pc = "dup", ![e].at = @ + 1]

(* The child inherits the page as it is when the two no longer write to    *)
(* the same one: until duppage has changed the mapping of the parent, what *)
(* this writes to its stack is also written to the child's.                *)
Inherit(e) ==
  seen' = [seen EXCEPT ![usr[e].child][Va(e)] = seen[e][Va(e)]]

(* duppage, first the child's mapping ... *)
DupChild(e) ==
  /\ Calls(e, "dup_child")
  /\ LET d == usr[e].child
         perm == Shared(usr[e].perm)
         m == EnvPageMap(mem, e, Va(e), d, Va(e), perm)
     IN  IF ~EnvPageMapOK(mem, e, Va(e), d, Va(e), perm) THEN Panics(e, m)
         ELSE /\ mem' = m
              /\ IF perm = "cow" THEN Goto(e, "dup_own") ELSE Advance(e)
              /\ Inherit(e)
              /\ Resume(e)
              /\ UNCHANGED <<env, program>>

(* Mutant: the mapping of the parent stays as it is. *)
DupOwnSkipped(e) ==
  /\ Calls(e, "dup_own")
  /\ Advance(e)
  /\ UNCHANGED <<mem, env, seen, program>>
  /\ Resume(e)

(* ... then its own. *)
DupOwn(e) ==
  /\ Calls(e, "dup_own")
  /\ mem' = EnvPageMap(mem, e, Va(e), e, Va(e), "cow")
  /\ Advance(e)
  /\ IF mem.pte[usr[e].child][Va(e)].page = mem.pte[e][Va(e)].page
     THEN Inherit(e) ELSE UNCHANGED seen
  /\ Resume(e)
  /\ UNCHANGED <<env, program>>

(* Mutant: the child has no exception stack. *)
ChildXstackNone(e) ==
  /\ Calls(e, "xstack")
  /\ Returns(e, mem, "child_upcall")
  /\ UNCHANGED <<env, seen, program>>

ChildXstack(e) ==
  /\ Calls(e, "xstack")
  /\ LET d == usr[e].child
         m == EnvPageAlloc(mem, d, "XSTACK", "rw")
     IN  Returns(e, m, IF EnvPageAllocOK(mem, d, "XSTACK") THEN "child_upcall"
                       ELSE "panic")
  /\ UNCHANGED <<env, seen, program>>

(* user_mem_assert of a null upcall destroys the child. *)
ChildUpcall(e) ==
  /\ Calls(e, "child_upcall")
  /\ LET d == usr[e].child
     IN  IF env[e].upcall
         THEN /\ env' = [env EXCEPT ![d].upcall = TRUE]
              /\ Returns(e, mem, "status")
         ELSE /\ mem' = EnvFreePages(mem, d)
              /\ env' = EnvFree(env, d)
              /\ usr' = [usr EXCEPT ![d] = Start("none"), ![e].pc = "status"]
              /\ Resume(e)
  /\ UNCHANGED <<seen, program>>

(* dup_or_share of fork_v0 copies a page through UTEMP. *)
CopyAlloc(e) ==
  /\ Calls(e, "copy_alloc")
  /\ LET d == usr[e].child
         m == EnvPageAlloc(mem, d, Va(e), "rw")
     IN  Returns(e, m, IF EnvPageAllocOK(mem, d, Va(e)) THEN "copy_map" ELSE "panic")
  /\ UNCHANGED <<env, seen, program>>

CopyMap(e) ==
  /\ Calls(e, "copy_map")
  /\ LET d == usr[e].child
         m == EnvPageMap(mem, d, Va(e), e, "TEMP", "rw")
     IN  Returns(e, m, IF EnvPageMapOK(mem, d, Va(e), e, "TEMP", "rw") THEN "copy"
                       ELSE "panic")
  /\ UNCHANGED <<env, seen, program>>

Copy(e) ==
  /\ e \in Running
  /\ At(e, "copy")
  /\ mem' = [mem EXCEPT !.data[tlb[e]["TEMP"].page] = mem.data[tlb[e][Va(e)].page]]
  /\ Inherit(e)
  /\ Goto(e, "copy_unmap")
  /\ UNCHANGED <<env, tlb, program>>

CopyUnmap(e) ==
  /\ Calls(e, "copy_unmap")
  /\ mem' = PageRemove(mem, e, "TEMP")
  /\ Advance(e)
  /\ Resume(e)
  /\ UNCHANGED <<env, seen, program>>

(* sys_env_set_status(child, ENV_RUNNABLE): the child has a copy of the    *)
(* library's variables.                                                    *)
SetStatus(e) ==
  /\ Calls(e, "status")
  /\ LET d == usr[e].child
     IN  IF env[d].parent # e THEN Panics(e, mem)
         ELSE /\ env' = [env EXCEPT ![d].status = "RUNNABLE"]
              /\ usr' = [usr EXCEPT ![d].handler = usr[e].handler, ![e].pc = "user",
                                    ![e].child = NoEnv]
              /\ UNCHANGED <<mem, seen, program>>
              /\ Resume(e)

(* The child corrects its thisenv first. *)
SetThisenv(d) ==
  /\ d \in Running
  /\ At(d, "child")
  /\ \/ Store(d, "DATA") /\ Goto(d, "user") /\ UNCHANGED program
     \/ tlb[d]["DATA"].perm # "rw" /\ PageFault(d, "DATA")

-----------------------------------------------------------------------------
(* The other system calls of a program *)

(* A program makes one more of a bounded number of system calls.           *)
Acts(e) ==
  /\ Calls(e, "user")
  /\ program.acts > 0
  /\ program' = [program EXCEPT !.acts = @ - 1]

AllocMsg(e, perm) ==
  /\ Acts(e)
  /\ Returns(e, EnvPageAlloc(mem, e, "MSG", perm), "user")
  /\ UNCHANGED <<env, seen>>

(* sys_page_unmap, in the caller or, if it takes the liberty, in a child.  *)
UnmapMsg(e, d) ==
  /\ d = e \/ (env[d].parent = e /\ "unmap_running" \in Liberties)
  /\ Acts(e)
  /\ Returns(e, PageRemove(mem, d, "MSG"), "user")
  /\ UNCHANGED <<env, seen>>

(* sys_ipc_recv with an address below UTOP. *)
IpcRecv(e) ==
  /\ Acts(e)
  /\ env' = [env EXCEPT ![e].status = "NOT_RUNNABLE", ![e].recving = TRUE]
  /\ LeaveCPU(e)
  /\ UNCHANGED <<mem, usr, seen>>

(* The send succeeds: the receiver goes on, with the page if it has one.   *)
Received(e, d, m) ==
  /\ Returns(e, m, "user")
  /\ env' = [env EXCEPT ![d].recving = FALSE, ![d].status = "RUNNABLE"]
  /\ UNCHANGED <<seen, program>>

(* ipc_send panics: it was asked for what the sender cannot give.          *)
Refused(e, m) == Returns(e, m, "send_panic") /\ UNCHANGED <<env, seen, program>>

(* The sender has nothing at MSG.  page_lookup leaves srcpte as it is, and *)
(* sys_ipc_try_send follows it wherever it points (lines 374-378): to an   *)
(* entry that refuses the send, to an address the kernel may not read, or  *)
(* to an entry that lets it pass.  Then env_page_alloc gives the receiver  *)
(* another page, and env_page_map finds that there is none to map.         *)
SendNothing(e, d, perm) ==
  LET fresh == EnvPageAlloc(mem, d, "MSG", perm)
  IN \/ Refused(e, mem)
     \/ Returns(e, mem, "kernel_panic") /\ UNCHANGED <<env, seen, program>>
     \/ IF EnvPageAllocOK(mem, d, "MSG") THEN Refused(e, fresh) ELSE Panics(e, fresh)

(* Mutant: the receiver's page is unmapped before there is another. *)
SendPageUnmaps(e, d, perm) ==
  LET gone == PageRemove(mem, d, "MSG")
      fresh == EnvPageAlloc(gone, d, "MSG", perm)
  IN  IF EnvPageAllocOK(gone, d, "MSG")
      THEN Received(e, d, EnvPageMap(fresh, e, "MSG", d, "MSG", perm))
      ELSE Panics(e, fresh)

(* The page the sender has takes the place of another, new one. *)
SendPage(e, d, perm) ==
  LET fresh == EnvPageAlloc(mem, d, "MSG", perm)
  IN  IF EnvPageAllocOK(mem, d, "MSG")
      THEN Received(e, d, EnvPageMap(fresh, e, "MSG", d, "MSG", perm))
      ELSE Panics(e, fresh)

(* sys_ipc_try_send of the page at MSG; anything but a success or a        *)
(* receiver that does not receive makes ipc_send panic.                    *)
IpcTrySend(e, d) ==
  LET page == mem.pte[e]["MSG"]
  IN /\ Calls(e, "user")
     /\ env[d].recving
     /\ \E perm \in {"ro", "rw"} :
          \/ page = Unmapped /\ SendNothing(e, d, perm)
          \/ page # Unmapped /\ perm = "rw" /\ page.perm # "rw" /\ Refused(e, mem)
          \/ page # Unmapped /\ perm \in {"ro", page.perm} /\ SendPage(e, d, perm)

Exit(e) ==
  /\ Calls(e, "user")
  /\ DestroySelf(e, "none")
  /\ UNCHANGED <<seen, program>>

(* Mutant: the pages of a child that runs on another CPU are freed at once. *)
KillNow(e, d) ==
  /\ Calls(e, "user")
  /\ d # e /\ env[d].parent = e
  /\ env[d].status = "DYING" => "kill_zombie" \in Liberties
  /\ mem' = EnvFreePages(mem, d)
  /\ IF env[d].status = "RUNNING"
     THEN env' = [env EXCEPT ![d].status = "DYING"] /\ UNCHANGED usr
     ELSE env' = EnvFree(env, d) /\ usr' = [usr EXCEPT ![d] = Start("none")]
  /\ Resume(e)
  /\ UNCHANGED <<seen, program>>

(* sys_env_destroy of a child: one that runs on another CPU becomes a      *)
(* zombie, any other is freed, a zombie among them.                        *)
Kill(e, d) ==
  /\ Calls(e, "user")
  /\ d # e /\ env[d].parent = e
  /\ env[d].status = "DYING" => "kill_zombie" \in Liberties
  /\ IF env[d].status = "RUNNING"
     THEN /\ env' = [env EXCEPT ![d].status = "DYING"]
          /\ Returns(e, mem, "user")
     ELSE /\ mem' = EnvFreePages(mem, d)
          /\ env' = EnvFree(env, d)
          /\ usr' = [usr EXCEPT ![d] = Start("none")]
          /\ Resume(e)
  /\ UNCHANGED <<seen, program>>

-----------------------------------------------------------------------------
Library(e) ==
  \/ PgfaultAlloc(e) \/ PgfaultCopy(e) \/ PgfaultMap(e) \/ PgfaultUnmap(e)
  \/ SetPgfaultHandler(e) \/ SetPgfaultUpcall(e) \/ SaveHandler(e) \/ Exofork(e)
  \/ Dup(e) \/ DupChild(e) \/ DupOwn(e) \/ ChildXstack(e) \/ ChildUpcall(e)
  \/ CopyAlloc(e) \/ CopyMap(e) \/ Copy(e) \/ CopyUnmap(e)
  \/ SetStatus(e) \/ SetThisenv(e)

Program(e) ==
  \/ \E va \in {"DATA", "STACK", "MSG"} : WriteMemory(e, va)
  \/ Fork(e) \/ Exit(e) \/ IpcRecv(e)
  \/ \E perm \in {"ro", "rw"} : AllocMsg(e, perm)
  \/ \E d \in Envs : IpcTrySend(e, d) \/ Kill(e, d) \/ UnmapMsg(e, d)

(* A system call that made the kernel panic keeps the big kernel lock: what *)
(* the other CPUs do until their next trap is no more than they did before. *)
KernelPanicked == \E e \in Envs : usr[e].pc = "kernel_panic"

Next ==
  /\ ~KernelPanicked
  /\ \E e \in Envs : Run(e) \/ Preempt(e) \/ TrapOfZombie(e) \/ Library(e) \/ Program(e)

Spec == Init /\ [][Next]_vars

-----------------------------------------------------------------------------
(* The types of the memory and the statuses of environments. *)
TypeOK ==
  /\ mem.free \subseteq Pages
  /\ mem.ref \in [Pages -> Nat]
  /\ mem.dir \in [Envs -> Pages \cup {NULL}]
  /\ mem.table \in [Envs -> [Tables -> Pages \cup {NULL}]]
  /\ mem.pte \in [Envs -> [Vas -> [page : Pages \cup {NULL}, perm : Perms]]]
  /\ mem.data \in [Pages -> {0, 1}]
  /\ \A e \in Envs :
       env[e].status \in {"FREE", "DYING", "RUNNABLE", "RUNNING", "NOT_RUNNABLE"}

References(p) ==
  Cardinality({e \in Envs : mem.dir[e] = p})
  + Cardinality({x \in Envs \X Tables : mem.table[x[1]][x[2]] = p})
  + Cardinality({x \in Envs \X Vas : mem.pte[x[1]][x[2]].page = p})

(* Between two system calls pp_ref is the number of page directories, page *)
(* tables and mappings a page serves as (page_insert, page_remove,         *)
(* pgdir_walk, env_setup_vm and env_free together), whatever fork shared   *)
(* and whoever died in the middle of one.                                  *)
RefsCounted == \A p \in Pages : mem.ref[p] = References(p)

(* page_free is never called of a page in use or already free, and a page  *)
(* is on page_free_list exactly when nobody uses it, as long as memory has *)
(* sufficed: env_page_alloc loses a page when there is none for its table. *)
FreePagesExact ==
  /\ ~mem.panic
  /\ \A p \in mem.free : mem.ref[p] = 0
  /\ mem.exhausted \/ \A p \in 1 .. program.npages : mem.ref[p] = 0 => p \in mem.free

(* No page is lost, whether memory suffices or not: the hint of            *)
(* sys_page_alloc (kern/syscall.c:233).                                    *)
NoPageLost == \A p \in 1 .. program.npages : mem.ref[p] = 0 => p \in mem.free

Alive(e) == env[e].status \in {"RUNNABLE", "RUNNING"}

(* After fork or fork_v0 an environment finds in its data and on its stack *)
(* what it wrote there itself, or inherited, whatever its parent and its   *)
(* children write and however their faults interleave.                     *)
PrivateMemory ==
  \A e \in Envs : Alive(e) =>
    \A va \in {"DATA", "STACK"} : mem.data[mem.pte[e][va].page] = seen[e][va]

(* What the CPU of an environment may still access is what the kernel says *)
(* it may: tlb_invalidate flushes on the calling CPU only, so that nobody  *)
(* may change or free the address space of an environment on another.      *)
TlbCoherent == \A e \in Running : tlb[e] = mem.pte[e]

(* A write to its own memory kills an environment, and the library panics, *)
(* only if pages or environments have run out: fork hands on a handler, an *)
(* exception stack and mappings that always resolve the fault.  Only a     *)
(* program that sends what it has not got is refused ("send_panic").       *)
DiesOfExhaustion ==
  \A e \in Envs : usr[e].pc \in {"killed", "panic"} => mem.exhausted

(* When pgfault returns to the access that faulted, this can succeed.      *)
FaultResolved ==
  [][\A e \in Envs :
       usr[e].step = "unmap" /\ usr'[e].step = "none" /\ env'[e].status # "FREE"
         => tlb'[e][usr[e].fault].perm = "rw"]_vars

(* A blocked environment that a send tried to reach goes on waiting.       *)
StillWaits(d) == env[d].recving /\ env'[d].recving

(* "The ipc only happens when no errors occur" (kern/syscall.c:338): one   *)
(* that fails leaves no trace in the environment that waits for it.  The   *)
(* code breaks this when it is sent a page that is not mapped              *)
(* (SendNothing); ReceiverKeepsMemory is what remains.                     *)
ReceiverUndisturbed ==
  [][\A d \in Envs : StillWaits(d) => mem'.pte[d] = mem.pte[d]]_vars

(* Whatever fails of a send, an environment blocked in sys_ipc_recv keeps  *)
(* its memory, and a page where it receives if it had one: that page is    *)
(* given up only once there is another, and changes without the send's     *)
(* success only by the panic of a sender that had nothing to send.         *)
ReceiverKeepsMemory ==
  [][\A d \in Envs, va \in Vas :
       StillWaits(d) /\ mem'.pte[d][va] # mem.pte[d][va] =>
         /\ va = "MSG" /\ mem'.pte[d][va] # Unmapped
         /\ \E e \in Envs : /\ mem.pte[e]["MSG"] = Unmapped
                            /\ usr[e].pc = "user" /\ usr'[e].pc = "send_panic"]_vars

===============================================================================
