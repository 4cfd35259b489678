------------------------------- MODULE ForkProofs -------------------------------
(***************************************************************************)
(* Proofs about lib/fork.c in AddressSpace, for any number of              *)
(* environments, CPUs and pages and the programs of the repository.  The   *)
(* page-fault handler has what it needs at each of its steps, whatever the *)
(* others do meanwhile, and resolves the fault.  What the forks hand on    *)
(* lets no environment die of a page fault, and the library never panics,  *)
(* while memory suffices.  And everybody keeps its data and its stack to   *)
(* itself: which mappings share a page, and who may write to it then.      *)
(***************************************************************************)
EXTENDS AddressSpaceProofs

-----------------------------------------------------------------------------
(* Page faults *)

Live(e) == env[e].status \in {"RUNNING", "RUNNABLE", "DYING"}
Up(e) == Live(e) \/ env[e].recving

(* What pgfault has done so far for the fault of e. *)
FaultOf(e) ==
  /\ usr[e].step = "none" <=> usr[e].fault = "none"
  /\ usr[e].step # "none" => /\ Live(e)
                             /\ usr[e].fault \in {"DATA", "STACK", "MSG"}
                             /\ mem.table[e][PDX(usr[e].fault)] # NULL
  /\ usr[e].step \in {"copy", "map"} => mem.pte[e]["TEMP"].perm = "rw"
  /\ usr[e].step = "unmap" => mem.pte[e][usr[e].fault].perm = "rw"

Faults == \A e \in Envs : FaultOf(e)

(* When the child e is building has got the page with the data. *)
Given(e) ==
  \/ usr[e].pc \in {"dup"} \cup AtPage /\ usr[e].at > 2
  \/ usr[e].pc \in {"dup_own", "copy_map", "copy", "copy_unmap"} /\ usr[e].at = 2
  \/ usr[e].pc \in {"xstack", "child_upcall"}
  \/ usr[e].pc = "status" /\ env[usr[e].child].parent = e

(* Whoever lives has the page with its data, which the library writes to   *)
(* before anything else.                                                   *)
HasData ==
  \A e \in Envs :
    /\ Up(e) => mem.pte[e]["DATA"] # Unmapped
    /\ Given(e) => mem.pte[usr[e].child]["DATA"] # Unmapped

FInv == IInv /\ Faults /\ HasData

-----------------------------------------------------------------------------
(* What a step may do to the fault of an environment that does not make it. *)
Bystander(f) ==
  \/ /\ mem'.pte[f] = mem.pte[f] /\ mem'.table[f] = mem.table[f]
     /\ usr'[f].step = usr[f].step /\ usr'[f].fault = usr[f].fault
     /\ Live(f) => Live(f)'
  \/ ~Live(f) /\ usr'[f].step = usr[f].step /\ usr'[f].fault = usr[f].fault
  \/ /\ usr'[f].step = "none" /\ usr'[f].fault = "none"
     /\ ~Live(f) \/ env'[f].status = "FREE"

(* The access that faulted can succeed when pgfault returns to it. *)
Resolves(f) ==
  usr[f].step = "unmap" /\ usr'[f].step = "none" /\ env'[f].status # "FREE"
    => tlb'[f][usr[f].fault].perm = "rw"

LEMMA BystanderFault ==
  ASSUME Faults, NEW f \in Envs, Bystander(f)
  PROVE  FaultOf(f)' /\ Resolves(f)
<1>1. FaultOf(f) BY DEF Faults
<1>2. CASE /\ mem'.pte[f] = mem.pte[f] /\ mem'.table[f] = mem.table[f]
           /\ usr'[f].step = usr[f].step /\ usr'[f].fault = usr[f].fault
           /\ Live(f) => Live(f)'
  BY <1>1, <1>2 DEF FaultOf, Resolves
<1>3. CASE ~Live(f) /\ usr'[f].step = usr[f].step /\ usr'[f].fault = usr[f].fault
  BY <1>1, <1>3 DEF FaultOf, Resolves
<1>4. CASE /\ usr'[f].step = "none" /\ usr'[f].fault = "none"
           /\ ~Live(f) \/ env'[f].status = "FREE"
  BY <1>1, <1>4 DEF FaultOf, Resolves
<1> QED BY <1>2, <1>3, <1>4 DEF Bystander

(* What a step of e does to the data of everybody, to the children that    *)
(* others build, and to those that come to life.                           *)
DataStays == \A f \in Envs : mem.pte[f]["DATA"] # Unmapped =>
               mem'.pte[f]["DATA"] # Unmapped \/ env'[f].status = "FREE"
BuildsOn(f) ==
  \/ usr'[f].pc \notin Building \cup {"status"}
  \/ usr'[f].pc = usr[f].pc /\ usr'[f].child = usr[f].child /\ usr'[f].at = usr[f].at
ChildrenStay(e) ==
  \A f \in Envs \ {e}, c \in Envs : env'[c].parent = f => env[c].parent = f
UpWithData == \A f \in Envs : Up(f)' => Up(f) \/ mem'.pte[f]["DATA"] # Unmapped
Gives(e) == Given(e)' => \/ mem'.pte[usr'[e].child]["DATA"] # Unmapped
                         \/ Given(e) /\ usr'[e].child = usr[e].child

LEMMA DataKept ==
  ASSUME IInv, IInv', HasData, NEW e \in Envs, DataStays,
         \A f \in Envs \ {e} : BuildsOn(f),
         ChildrenStay(e), UpWithData, Gives(e)
  PROVE  HasData'
<1>1. \A f \in Envs : Given(f)' =>
        /\ usr'[f].pc \in Building \cup {"status"}
        /\ usr'[f].child \in Envs /\ env'[usr'[f].child].parent = f
        /\ env'[usr'[f].child].status # "FREE"
  <2>1. SUFFICES ASSUME NEW f \in Envs, Given(f)'
                 PROVE  /\ usr'[f].pc \in Building \cup {"status"}
                        /\ usr'[f].child \in Envs /\ env'[usr'[f].child].parent = f
                        /\ env'[usr'[f].child].status # "FREE"
    OBVIOUS
  <2>2. usr'[f].pc \in Building \/ (usr'[f].pc = "status" /\ env'[usr'[f].child].parent = f)
    BY <2>1 DEF Given, Building, AtPage
  <2>3. usr'[f].child \in Envs /\ env'[usr'[f].child].parent = f
    BY <2>2 DEF IInv, Children
  <2>4. NoEnv \notin Envs BY AddressSpaceAssumption
  <2> QED BY <2>2, <2>3, <2>4 DEF IInv, Slots
<1>2. ASSUME NEW f \in Envs, Up(f)' PROVE mem'.pte[f]["DATA"] # Unmapped
  <2>1. env'[f].status # "FREE" BY <1>2 DEF Up, Live, IInv, Slots
  <2>2. Up(f) => mem.pte[f]["DATA"] # Unmapped BY DEF HasData
  <2> QED BY <1>2, <2>1, <2>2 DEF DataStays, UpWithData
<1>3. ASSUME NEW f \in Envs, Given(f)' PROVE mem'.pte[usr'[f].child]["DATA"] # Unmapped
  <2>1. CASE Given(f) /\ usr'[f].child = usr[f].child
    <3>1. mem.pte[usr[f].child]["DATA"] # Unmapped BY <2>1 DEF HasData
    <3> QED BY <1>1, <1>3, <2>1, <3>1 DEF DataStays
  <2>2. CASE f # e
    <3>1. /\ usr'[f].pc = usr[f].pc /\ usr'[f].child = usr[f].child /\ usr'[f].at = usr[f].at
          /\ usr'[f].child \in Envs /\ env'[usr'[f].child].parent = f
      BY <1>1, <1>3, <2>2 DEF BuildsOn
    <3>2. env[usr[f].child].parent = f BY <2>2, <3>1 DEF ChildrenStay
    <3>3. Given(f) BY <1>3, <3>1, <3>2 DEF Given
    <3> QED BY <2>1, <3>1, <3>3
  <2> QED BY <1>3, <2>1, <2>2 DEF Gives
<1> QED BY <1>2, <1>3 DEF HasData

(* Mapping a page, or not being able to, unmaps nothing. *)
LEMMA MappedUnmapsNothing ==
  ASSUME NEW m, NEW r, NEW src \in Envs, NEW srcva \in Vas, NEW x \in Envs, NEW va \in Vas,
         NEW perm \in Perms, Sound(m),
         Fine(m, r, x), OthersKept(m, r, x, va), Mapped(m, r, src, srcva, x, va, perm)
  PROVE  \A f \in Envs, v \in Vas : m.pte[f][v] # Unmapped => r.pte[f][v] # Unmapped
<1>1. CASE EnvPageMapOK(m, src, srcva, x, va, perm)
  <2>1. m.pte[src][srcva] # Unmapped BY <1>1 DEF EnvPageMapOK
  <2>2. m.pte[src][srcva].page \in Pages BY <2>1, PteKinds DEF Sound
  <2>3. r.pte[x][va] = Pte(m.pte[src][srcva].page, perm) BY <1>1 DEF Mapped
  <2>4. r.pte[x][va] # Unmapped BY <2>2, <2>3, PteKinds
  <2> QED BY <2>4 DEF Fine, OthersKept
<1>2. CASE ~EnvPageMapOK(m, src, srcva, x, va, perm) BY <1>2 DEF Mapped
<1> QED BY <1>1, <1>2

LEMMA DataIs == "DATA" \in Vas /\ "TEMP" \in Vas /\ "MSG" \in Vas /\ "STACK" \in Vas
                /\ "XSTACK" \in Vas
  BY Addresses

(* A step after which the faults go on, or are resolved. *)
FaultsGoOn == FInv' /\ \A f \in Envs : Resolves(f)

LEMMA GoOn ==
  ASSUME FInv, IInv', NEW e \in Envs, DataStays,
         \A f \in Envs \ {e} : Bystander(f) /\ BuildsOn(f),
         ChildrenStay(e), UpWithData, Gives(e),
         FaultOf(e)', Resolves(e)
  PROVE  FaultsGoOn
<1>1. HasData' BY DataKept DEF FInv
<1>2. \A f \in Envs : FaultOf(f)' /\ Resolves(f)
  <2>1. Faults BY DEF FInv
  <2>2. ASSUME NEW f \in Envs \ {e} PROVE FaultOf(f)' /\ Resolves(f)
    BY <2>1, BystanderFault
  <2> QED BY <2>2
<1>3. Faults' BY <1>2 DEF Faults
<1> QED BY <1>1, <1>2, <1>3 DEF FInv, FaultsGoOn

(* A step of e, outside of pgfault or within it, that changes no           *)
(* environment, and the mappings of e or of one that does not run.         *)
LEMMA Alone ==
  ASSUME FInv, IInv', NEW e \in Envs, NEW x \in Envs, x = e \/ ~Live(x),
         Fine(mem, mem', x), env' = env,
         \A f \in Envs \ {e} : usr'[f] = usr[f],
         mem.pte[x]["DATA"] # Unmapped => mem'.pte[x]["DATA"] # Unmapped,
         Gives(e), FaultOf(e)', Resolves(e)
  PROVE  FaultsGoOn
<1>1. \A f \in Envs \ {x} : mem'.pte[f] = mem.pte[f] /\ mem'.table[f] = mem.table[f]
  BY DEF Fine
<1>2. DataStays BY <1>1 DEF DataStays
<1>3. UpWithData BY DEF UpWithData, Up, Live
<1>4. ASSUME NEW f \in Envs \ {e} PROVE Bystander(f)
  <2>1. usr'[f].step = usr[f].step /\ usr'[f].fault = usr[f].fault OBVIOUS
  <2>2. Live(f)' <=> Live(f) BY DEF Live
  <2> QED BY <1>1, <2>1, <2>2 DEF Bystander
<1>5. \A f \in Envs \ {e} : BuildsOn(f) BY DEF BuildsOn
<1>6. ChildrenStay(e) BY DEF ChildrenStay
<1> QED BY <1>2, <1>3, <1>4, <1>5, <1>6, GoOn

(* A program that is not in pgfault, before and after. *)
LEMMA NoFault ==
  ASSUME FInv, NEW e \in Envs, usr[e].fault = "none",
         usr'[e].step = usr[e].step, usr'[e].fault = usr[e].fault
  PROVE  FaultOf(e)' /\ Resolves(e)
<1>1. usr[e].step = "none" BY DEF FInv, Faults, FaultOf
<1> QED BY <1>1 DEF FaultOf, Resolves

(* A system call that the library makes outside of pgfault. *)
LEMMA CallAlone ==
  ASSUME FInv, IInv', NEW e \in Envs, NEW x \in Envs, x = e \/ ~Live(x),
         Fine(mem, mem', x), env' = env, NEW pc \in Counter, Goto(e, pc),
         usr[e].fault = "none",
         mem.pte[x]["DATA"] # Unmapped => mem'.pte[x]["DATA"] # Unmapped,
         Given(e)' => mem'.pte[usr'[e].child]["DATA"] # Unmapped \/ Given(e)
  PROVE  FaultsGoOn
<1>1. /\ \A f \in Envs \ {e} : usr'[f] = usr[f]
      /\ usr'[e].step = usr[e].step /\ usr'[e].fault = usr[e].fault
      /\ usr'[e].child = usr[e].child
  BY Went DEF FInv
<1>2. FaultOf(e)' /\ Resolves(e) BY <1>1, NoFault
<1>3. Gives(e) BY <1>1 DEF Gives
<1> QED BY <1>1, <1>2, <1>3, Alone

(* e goes on where nothing is said of a child. *)
LEMMA NotGiven ==
  ASSUME NEW e \in Envs,
         usr'[e].pc \in {"none", "killed", "panic", "send_panic", "kernel_panic", "child",
                         "user", "handler", "upcall", "save", "exofork"}
  PROVE  ~Given(e)' /\ Gives(e)
  BY DEF Given, AtPage, Gives

(* e goes on building the child it builds. *)
LEMMA StillGiven ==
  ASSUME NEW e \in Envs, env' = env, usr'[e].pc = usr[e].pc, usr'[e].at = usr[e].at,
         usr'[e].child = usr[e].child
  PROVE  Gives(e)
  BY DEF Given, Gives

LEMMA DestroyedFaults ==
  ASSUME FInv, IInv', NEW e \in Envs, NEW d \in Envs, Gone(mem, mem', d),
         env' = EnvFree(env, d),
         \A f \in Envs \ {e, d} : usr'[f] = usr[f],
         usr'[d].step = "none" /\ usr'[d].fault = "none" /\ usr'[d].pc \in {"none", "killed"},
         e # d => FaultOf(e)' /\ Resolves(e) /\ ~Given(e)'
  PROVE  FaultsGoOn
<1>1. /\ env'[d].status = "FREE" /\ env'[d].recving = FALSE /\ env'[d].parent = NoEnv
      /\ \A f \in Envs \ {d} : /\ env'[f].status = env[f].status
                               /\ env'[f].recving = env[f].recving
                               /\ env'[f].parent \in {env[f].parent, NoEnv}
  BY DEF FInv, IInv, Typed, EnvTypes, EnvFree, NoEnvAt
<1>2. \A f \in Envs \ {d} : mem'.pte[f] = mem.pte[f] /\ mem'.table[f] = mem.table[f]
  BY DEF Gone
<1>3. DataStays BY <1>1, <1>2 DEF DataStays
<1>4. UpWithData BY <1>1 DEF UpWithData, Up, Live
<1>5. NoEnv \notin Envs BY AddressSpaceAssumption
<1>6. ChildrenStay(e) BY <1>1, <1>5 DEF ChildrenStay
<1>7. ~Given(d)' BY NotGiven
<1>8. usr'[d].pc \notin Building \cup {"status"} BY Counters
<1>9. Gives(e) BY <1>7 DEF Gives
<1>10. FaultOf(d)' /\ Resolves(d) BY <1>1 DEF FaultOf, Resolves
<1>11. FaultOf(e)' /\ Resolves(e) BY <1>10
<1>12. ASSUME NEW f \in Envs \ {e} PROVE Bystander(f) /\ BuildsOn(f)
  <2>1. CASE f = d BY <1>1, <1>8, <2>1 DEF Bystander, BuildsOn
  <2>2. CASE f # d
    <3>1. usr'[f] = usr[f] BY <2>2
    <3>2. Live(f)' <=> Live(f) BY <1>1, <2>2 DEF Live
    <3> QED BY <1>2, <2>2, <3>1, <3>2 DEF Bystander, BuildsOn
  <2> QED BY <2>1, <2>2
<1> QED BY <1>3, <1>4, <1>6, <1>9, <1>11, <1>12, GoOn

-----------------------------------------------------------------------------
(* The steps of the system *)

LEMMA RunGoesOn ==
  ASSUME FInv, NEW e \in Envs, Run(e)
  PROVE  FaultsGoOn
<1>1. /\ mem' = mem /\ usr' = usr /\ env[e].status = "RUNNABLE"
      /\ env' = [env EXCEPT ![e].status = "RUNNING"]
  BY DEF Run
<1>2. IInv' BY RunKeeps DEF FInv
<1>3. /\ env'[e].status = "RUNNING" /\ env'[e].recving = env[e].recving
      /\ env'[e].parent = env[e].parent
      /\ \A f \in Envs \ {e} : env'[f] = env[f]
  BY <1>1 DEF FInv, IInv, Typed, EnvTypes
<1>4. \A f \in Envs : /\ Live(f)' <=> Live(f)
                      /\ env'[f].parent = env[f].parent /\ env'[f].recving = env[f].recving
  BY <1>1, <1>3 DEF Live
<1>5. \A f \in Envs : Bystander(f) /\ BuildsOn(f) BY <1>1, <1>4 DEF Bystander, BuildsOn
<1>6. DataStays BY <1>1 DEF DataStays
<1>7. ChildrenStay(e) BY <1>4 DEF ChildrenStay
<1>8. UpWithData BY <1>4 DEF UpWithData, Up
<1>9. Gives(e)
  <2>1. usr[e].pc = "status" => usr[e].child \in Envs BY DEF FInv, IInv, Children
  <2>2. Given(e)' => Given(e) BY <1>1, <1>4, <2>1 DEF Given
  <2> QED BY <1>1, <2>2 DEF Gives
<1>10. FaultOf(e)' /\ Resolves(e) BY <1>5, BystanderFault DEF FInv
<1> QED BY <1>2, <1>5, <1>6, <1>7, <1>8, <1>9, <1>10, GoOn

LEMMA PreemptGoesOn ==
  ASSUME FInv, NEW e \in Envs, Preempt(e)
  PROVE  FaultsGoOn
<1>1. /\ mem' = mem /\ usr' = usr /\ env[e].status = "RUNNING"
      /\ env' = [env EXCEPT ![e].status = "RUNNABLE"]
  BY DEF Preempt
<1>2. IInv' BY PreemptKeeps DEF FInv
<1>3. /\ env'[e].status = "RUNNABLE" /\ env'[e].recving = env[e].recving
      /\ env'[e].parent = env[e].parent
      /\ \A f \in Envs \ {e} : env'[f] = env[f]
  BY <1>1 DEF FInv, IInv, Typed, EnvTypes
<1>4. \A f \in Envs : /\ Live(f)' <=> Live(f)
                      /\ env'[f].parent = env[f].parent /\ env'[f].recving = env[f].recving
  BY <1>1, <1>3 DEF Live
<1>5. \A f \in Envs : Bystander(f) /\ BuildsOn(f) BY <1>1, <1>4 DEF Bystander, BuildsOn
<1>6. DataStays BY <1>1 DEF DataStays
<1>7. ChildrenStay(e) BY <1>4 DEF ChildrenStay
<1>8. UpWithData BY <1>4 DEF UpWithData, Up
<1>9. Gives(e)
  <2>1. usr[e].pc = "status" => usr[e].child \in Envs BY DEF FInv, IInv, Children
  <2>2. Given(e)' => Given(e) BY <1>1, <1>4, <2>1 DEF Given
  <2> QED BY <1>1, <2>2 DEF Gives
<1>10. FaultOf(e)' /\ Resolves(e) BY <1>5, BystanderFault DEF FInv
<1> QED BY <1>2, <1>5, <1>6, <1>7, <1>8, <1>9, <1>10, GoOn

LEMMA DestroySelfGoesOn ==
  ASSUME FInv, NEW e \in Envs, NEW pc \in {"none", "killed"}, DestroySelf(e, pc),
         program' = program, env[e].status \in {"RUNNING", "DYING"}
  PROVE  FaultsGoOn
<1>1. program' \in ProgramTypes /\ program'.npages = program.npages
  BY DEF FInv, IInv, Typed
<1>2. IInv' /\ Gone(mem, mem', e) BY <1>1, DestroySelfKeeps DEF FInv
<1>3. env' = EnvFree(env, e) /\ usr' = [usr EXCEPT ![e] = Start(pc)] BY DEF DestroySelf
<1>4. /\ usr'[e] = Start(pc) /\ \A f \in Envs \ {e} : usr'[f] = usr[f]
  BY <1>3 DEF FInv, IInv, Typed, UsrTypes
<1>5. usr'[e].step = "none" /\ usr'[e].fault = "none" /\ usr'[e].pc \in {"none", "killed"}
  BY <1>4 DEF Start
<1> QED BY <1>2, <1>3, <1>4, <1>5, DestroyedFaults

(* An access to a page that is mapped faults. *)
LEMMA PageFaultGoesOn ==
  ASSUME FInv, NEW e \in Envs, NEW va \in {"DATA", "STACK", "MSG"},
         mem.pte[e][va] # Unmapped, PageFault(e, va), usr[e].fault = "none"
  PROVE  FaultsGoOn
<1>0. program' = program /\ env[e].status = "RUNNING" BY DEF PageFault
<1>1. CASE env[e].upcall /\ UserMemCheck(mem, e, "XSTACK", "rw")
  <2>1. /\ usr' = [usr EXCEPT ![e].fault = va, ![e].step = "alloc"]
        /\ mem' = mem /\ env' = env
    BY <1>1 DEF PageFault
  <2>2. va \in Vas /\ program' \in ProgramTypes /\ program'.npages = program.npages
    BY <1>0, Addresses DEF FInv, IInv, Typed
  <2>3. IInv' BY <2>2, PageFaultKeeps DEF FInv
  <2>4. /\ \A f \in Envs \ {e} : usr'[f] = usr[f]
        /\ usr'[e].pc = usr[e].pc /\ usr'[e].child = usr[e].child /\ usr'[e].at = usr[e].at
        /\ usr'[e].fault = va /\ usr'[e].step = "alloc"
    BY <2>1 DEF FInv, IInv, Typed, UsrTypes
  <2>5. Fine(mem, mem', e) BY <2>1, SameMemory DEF FInv, IInv, Counted
  <2>6. mem.table[e][PDX(va)] # NULL BY <2>2 DEF FInv, IInv, Counted, Sound
  <2>7. Live(e)' BY <1>0, <2>1 DEF Live
  <2>8. FaultOf(e)' BY <2>1, <2>4, <2>6, <2>7 DEF FaultOf
  <2>9. Resolves(e) BY <2>4 DEF Resolves
  <2>10. Gives(e) BY <2>1, <2>4, StillGiven
  <2> QED BY <2>1, <2>3, <2>4, <2>5, <2>8, <2>9, <2>10, Alone
<1>2. CASE ~(env[e].upcall /\ UserMemCheck(mem, e, "XSTACK", "rw"))
  <2>1. DestroySelf(e, "killed") BY <1>2 DEF PageFault
  <2> QED BY <1>0, <2>1, DestroySelfGoesOn
<1> QED BY <1>1, <1>2

LEMMA StoreGoesOn ==
  ASSUME FInv, IInv', NEW e \in Envs, NEW va, Store(e, va),
         usr[e].fault = "none",
         \A f \in Envs \ {e} : usr'[f] = usr[f],
         usr'[e].step = usr[e].step /\ usr'[e].fault = usr[e].fault,
         Gives(e)
  PROVE  FaultsGoOn
<1>1. \E f : mem' = [mem EXCEPT !.data = f]
  BY DEF Store, FInv, IInv, Counted, Sound, Fields
<1>2. Fine(mem, mem', e) /\ mem'.pte = mem.pte
  BY <1>1, ContentsOnly, Addresses DEF FInv, IInv, Counted
<1>3. env' = env BY DEF Store
<1>4. FaultOf(e)' /\ Resolves(e) BY NoFault
<1> QED BY <1>2, <1>3, <1>4, Alone

LEMMA WriteMemoryGoesOn ==
  ASSUME FInv, NEW e \in Envs, NEW va \in {"DATA", "STACK", "MSG"}, WriteMemory(e, va)
  PROVE  FaultsGoOn
<1>1. usr[e].fault = "none" /\ mem.pte[e][va] # Unmapped
  BY DEF WriteMemory, Unmapped, Pte
<1>2. IInv' BY WriteMemoryKeeps DEF FInv
<1>3. CASE PageFault(e, va) BY <1>1, <1>3, PageFaultGoesOn
<1>4. CASE Store(e, va) /\ usr' = usr
  <2>1. env' = env BY <1>4 DEF Store
  <2>2. Gives(e) BY <1>4, <2>1, StillGiven
  <2> QED BY <1>1, <1>2, <1>4, <2>2, StoreGoesOn
<1> QED BY <1>3, <1>4 DEF WriteMemory

(* The library writes to the data of the program, which is mapped. *)
LEMMA DataMapped ==
  ASSUME FInv, NEW e \in Envs, env[e].status = "RUNNING"
  PROVE  mem.pte[e]["DATA"] # Unmapped /\ "DATA" \in {"DATA", "STACK", "MSG"}
  BY DEF FInv, HasData, Up, Live

LEMMA SaveHandlerGoesOn ==
  ASSUME FInv, NEW e \in Envs, SaveHandler(e)
  PROVE  FaultsGoOn
<1>1. usr[e].fault = "none" BY DEF SaveHandler, At
<1>2. IInv' BY SaveHandlerKeeps DEF FInv
<1>3. CASE PageFault(e, "DATA")
  <2>1. env[e].status = "RUNNING" BY <1>3 DEF PageFault
  <2> QED BY <1>1, <1>3, <2>1, DataMapped, PageFaultGoesOn
<1>4. CASE Store(e, "DATA") /\ usr' = [usr EXCEPT ![e].pc = "exofork", ![e].handler = TRUE]
  <2>1. /\ \A f \in Envs \ {e} : usr'[f] = usr[f]
        /\ usr'[e].pc = "exofork" /\ usr'[e].step = usr[e].step
        /\ usr'[e].fault = usr[e].fault
    BY <1>4 DEF FInv, IInv, Typed, UsrTypes
  <2>2. Gives(e) BY <2>1, NotGiven
  <2> QED BY <1>1, <1>2, <1>4, <2>1, <2>2, StoreGoesOn
<1> QED BY <1>3, <1>4 DEF SaveHandler

LEMMA SetThisenvGoesOn ==
  ASSUME FInv, NEW e \in Envs, SetThisenv(e)
  PROVE  FaultsGoOn
<1>1. usr[e].fault = "none" BY DEF SetThisenv, At
<1>2. IInv' BY SetThisenvKeeps DEF FInv
<1>3. CASE PageFault(e, "DATA")
  <2>1. env[e].status = "RUNNING" BY <1>3 DEF PageFault
  <2> QED BY <1>1, <1>3, <2>1, DataMapped, PageFaultGoesOn
<1>4. CASE Store(e, "DATA") /\ Goto(e, "user")
  <2>1. /\ \A f \in Envs \ {e} : usr'[f] = usr[f]
        /\ usr'[e].pc = "user" /\ usr'[e].step = usr[e].step
        /\ usr'[e].fault = usr[e].fault
    BY <1>4, Went, Counters DEF FInv
  <2>2. Gives(e) BY <2>1, NotGiven
  <2> QED BY <1>1, <1>2, <1>4, <2>1, <2>2, StoreGoesOn
<1> QED BY <1>3, <1>4 DEF SetThisenv

LEMMA TrapOfZombieGoesOn ==
  ASSUME FInv, NEW e \in Envs, TrapOfZombie(e)
  PROVE  FaultsGoOn
<1>1. DestroySelf(e, "none") /\ program' = program /\ env[e].status = "DYING"
  BY DEF TrapOfZombie
<1> QED BY <1>1, DestroySelfGoesOn

-----------------------------------------------------------------------------
(* pgfault *)

LEMMA PgfaultAllocGoesOn ==
  ASSUME FInv, NEW e \in Envs, PgfaultAlloc(e)
  PROVE  FaultsGoOn
<1>1. /\ IInv' /\ Fine(mem, mem', e) /\ OthersKept(mem, mem', e, "TEMP")
      /\ usr'[e].step = "copy" => mem'.pte[e]["TEMP"].perm = "rw"
  BY PgfaultAllocKeeps DEF FInv
<1>2. env' = env /\ usr[e].step = "alloc" BY DEF PgfaultAlloc, Handles, InHandler
<1>3. mem.pte[e]["DATA"] # Unmapped => mem'.pte[e]["DATA"] # Unmapped
  BY <1>1, DataIs DEF OthersKept
<1>4. FaultOf(e) BY DEF FInv, Faults
<1>5. CASE usr' = [usr EXCEPT ![e].step = "copy"]
  <2>1. /\ \A f \in Envs \ {e} : usr'[f] = usr[f]
        /\ usr'[e].pc = usr[e].pc /\ usr'[e].child = usr[e].child /\ usr'[e].at = usr[e].at
        /\ usr'[e].fault = usr[e].fault /\ usr'[e].step = "copy"
    BY <1>5 DEF FInv, IInv, Typed, UsrTypes
  <2>2. mem.table[e][PDX(usr[e].fault)] # NULL /\ usr[e].fault \in Vas
    BY <1>2, <1>4, DataIs DEF FaultOf
  <2>3. mem'.table[e][PDX(usr[e].fault)] # NULL
    BY <1>1, <2>2, TableOfAddress DEF OthersKept
  <2>4. Live(e)' BY <1>2, <1>4 DEF FaultOf, Live
  <2>5. FaultOf(e)' BY <1>1, <1>2, <1>4, <2>1, <2>3, <2>4 DEF FaultOf
  <2>6. Resolves(e) BY <2>1 DEF Resolves
  <2>7. Gives(e) BY <1>2, <2>1, StillGiven
  <2> QED BY <1>1, <1>2, <1>3, <2>1, <2>5, <2>6, <2>7, Alone
<1>6. CASE usr' = [usr EXCEPT ![e].pc = "panic", ![e].fault = "none", ![e].step = "none"]
  <2>1. /\ \A f \in Envs \ {e} : usr'[f] = usr[f]
        /\ usr'[e].pc = "panic" /\ usr'[e].fault = "none" /\ usr'[e].step = "none"
    BY <1>6 DEF FInv, IInv, Typed, UsrTypes
  <2>2. FaultOf(e)' BY <2>1 DEF FaultOf
  <2>3. Resolves(e) BY <1>2 DEF Resolves
  <2>4. Gives(e) BY <2>1, NotGiven
  <2> QED BY <1>1, <1>2, <1>3, <2>1, <2>2, <2>3, <2>4, Alone
<1> QED BY <1>5, <1>6 DEF PgfaultAlloc, Handles

LEMMA PgfaultCopyGoesOn ==
  ASSUME FInv, NEW e \in Envs, PgfaultCopy(e)
  PROVE  FaultsGoOn
<1>1. IInv' /\ mem'.pte = mem.pte /\ mem'.table = mem.table BY PgfaultCopyKeeps DEF FInv
<1>2. \E f : mem' = [mem EXCEPT !.data = f]
  BY DEF PgfaultCopy, FInv, IInv, Counted, Sound, Fields
<1>3. Fine(mem, mem', e) BY <1>2, ContentsOnly, Addresses DEF FInv, IInv, Counted
<1>4. /\ env' = env /\ usr[e].step = "copy" /\ usr' = [usr EXCEPT ![e].step = "map"]
  BY DEF PgfaultCopy
<1>5. /\ \A f \in Envs \ {e} : usr'[f] = usr[f]
      /\ usr'[e].pc = usr[e].pc /\ usr'[e].child = usr[e].child /\ usr'[e].at = usr[e].at
      /\ usr'[e].fault = usr[e].fault /\ usr'[e].step = "map"
  BY <1>4 DEF FInv, IInv, Typed, UsrTypes
<1>6. FaultOf(e) BY DEF FInv, Faults
<1>7. Live(e)' <=> Live(e) BY <1>4 DEF Live
<1>8. FaultOf(e)' BY <1>1, <1>4, <1>5, <1>6, <1>7 DEF FaultOf
<1>9. Resolves(e) BY <1>5 DEF Resolves
<1>10. Gives(e) BY <1>4, <1>5, StillGiven
<1> QED BY <1>1, <1>3, <1>4, <1>5, <1>8, <1>9, <1>10, Alone

LEMMA PgfaultMapGoesOn ==
  ASSUME FInv, NEW e \in Envs, PgfaultMap(e)
  PROVE  FaultsGoOn
<1>1. /\ IInv' /\ Fine(mem, mem', e) /\ OthersKept(mem, mem', e, usr[e].fault)
      /\ usr[e].fault \in Vas
      /\ mem.pte[e]["TEMP"].perm = "rw" /\ mem.table[e][PDX(usr[e].fault)] # NULL
           => mem'.pte[e][usr[e].fault].perm = "rw"
  BY PgfaultMapKeeps DEF FInv
<1>2. /\ env' = env /\ usr[e].step = "map" /\ usr' = [usr EXCEPT ![e].step = "unmap"]
  BY DEF PgfaultMap, Handles, InHandler
<1>3. /\ \A f \in Envs \ {e} : usr'[f] = usr[f]
      /\ usr'[e].pc = usr[e].pc /\ usr'[e].child = usr[e].child /\ usr'[e].at = usr[e].at
      /\ usr'[e].fault = usr[e].fault /\ usr'[e].step = "unmap"
  BY <1>2 DEF FInv, IInv, Typed, UsrTypes
<1>4. FaultOf(e) BY DEF FInv, Faults
<1>5. mem.pte[e]["TEMP"].perm = "rw" /\ mem.table[e][PDX(usr[e].fault)] # NULL
  BY <1>2, <1>4 DEF FaultOf
<1>6. mem'.pte[e][usr[e].fault].perm = "rw" BY <1>1, <1>5
<1>7. mem'.table[e][PDX(usr[e].fault)] # NULL
  BY <1>1, <1>5, TableOfAddress DEF OthersKept
<1>8. Live(e)' <=> Live(e) BY <1>2 DEF Live
<1>9. FaultOf(e)' BY <1>2, <1>3, <1>4, <1>6, <1>7, <1>8 DEF FaultOf
<1>10. Resolves(e) BY <1>3 DEF Resolves
<1>11. Gives(e) BY <1>2, <1>3, StillGiven
<1>12. mem.pte[e]["DATA"] # Unmapped => mem'.pte[e]["DATA"] # Unmapped
  <2>1. CASE usr[e].fault = "DATA" BY <1>6, <2>1 DEF Unmapped, Pte
  <2>2. CASE usr[e].fault # "DATA" BY <1>1, <2>2, DataIs DEF OthersKept
  <2> QED BY <2>1, <2>2
<1> QED BY <1>1, <1>2, <1>3, <1>9, <1>10, <1>11, <1>12, Alone

(* The page that faulted is not the temporary one, so that it stays mapped. *)
LEMMA PgfaultUnmapGoesOn ==
  ASSUME FInv, NEW e \in Envs, PgfaultUnmap(e)
  PROVE  FaultsGoOn
<1>1. IInv' /\ Fine(mem, mem', e) /\ OthersKept(mem, mem', e, "TEMP")
  BY PgfaultUnmapKeeps DEF FInv
<1>2. /\ env' = env /\ usr[e].step = "unmap" /\ Resume(e)
      /\ usr' = [usr EXCEPT ![e].step = "none", ![e].fault = "none"]
  BY DEF PgfaultUnmap, InHandler
<1>3. /\ \A f \in Envs \ {e} : usr'[f] = usr[f]
      /\ usr'[e].pc = usr[e].pc /\ usr'[e].child = usr[e].child /\ usr'[e].at = usr[e].at
      /\ usr'[e].fault = "none" /\ usr'[e].step = "none"
  BY <1>2 DEF FInv, IInv, Typed, UsrTypes
<1>4. FaultOf(e) BY DEF FInv, Faults
<1>5. FaultOf(e)' BY <1>3 DEF FaultOf
<1>6. usr[e].fault \in Vas \ {"TEMP"} /\ mem.pte[e][usr[e].fault].perm = "rw"
  BY <1>2, <1>4, DataIs DEF FaultOf
<1>7. mem'.pte[e][usr[e].fault].perm = "rw" BY <1>1, <1>6 DEF OthersKept
<1>8. tlb'[e] = mem'.pte[e] BY <1>2 DEF Resume, FInv, IInv, Typed, TlbTypes
<1>9. Resolves(e) BY <1>7, <1>8 DEF Resolves
<1>10. Gives(e) BY <1>2, <1>3, StillGiven
<1>11. mem.pte[e]["DATA"] # Unmapped => mem'.pte[e]["DATA"] # Unmapped
  BY <1>1, DataIs DEF OthersKept
<1> QED BY <1>1, <1>2, <1>3, <1>5, <1>9, <1>10, <1>11, Alone

-----------------------------------------------------------------------------
(* The two forks *)

LEMMA ForkGoesOn ==
  ASSUME FInv, NEW e \in Envs, Fork(e)
  PROVE  FaultsGoOn
<1>1. IInv' /\ mem' = mem /\ env' = env /\ Goto(e, ForkTo(e)) BY ForkKeeps DEF FInv
<1>2. ForkTo(e) \in {"exofork", "save", "handler"} BY DEF ForkTo
<1>3. ForkTo(e) \in Counter BY <1>2, Counters
<1>4. usr[e].fault = "none" BY DEF Fork, Calls, At
<1>5. usr'[e].pc = ForkTo(e) BY <1>1, <1>3, Went DEF FInv
<1>6. ~Given(e)' BY <1>2, <1>5, NotGiven
<1>7. Fine(mem, mem', e) BY <1>1, SameMemory DEF FInv, IInv, Counted
<1> QED BY <1>1, <1>3, <1>4, <1>6, <1>7, CallAlone

LEMMA SetPgfaultHandlerGoesOn ==
  ASSUME FInv, NEW e \in Envs, SetPgfaultHandler(e)
  PROVE  FaultsGoOn
<1>1. /\ IInv' /\ Fine(mem, mem', e) /\ OthersKept(mem, mem', e, "XSTACK")
      /\ Goto(e, "upcall") \/ Goto(e, "exofork")
  BY SetPgfaultHandlerKeeps DEF FInv
<1>2. env' = env /\ usr[e].fault = "none" BY DEF SetPgfaultHandler, Calls, At
<1>3. "upcall" \in Counter /\ "exofork" \in Counter BY Counters
<1>4. usr'[e].pc \in {"upcall", "exofork"} BY <1>1, <1>3, Went DEF FInv
<1>5. ~Given(e)' BY <1>4, NotGiven
<1>6. mem.pte[e]["DATA"] # Unmapped => mem'.pte[e]["DATA"] # Unmapped
  BY <1>1, DataIs DEF OthersKept
<1> QED BY <1>1, <1>2, <1>3, <1>5, <1>6, CallAlone

LEMMA SetPgfaultUpcallGoesOn ==
  ASSUME FInv, NEW e \in Envs, SetPgfaultUpcall(e)
  PROVE  FaultsGoOn
<1>1. /\ IInv' /\ mem' = mem /\ env'[e] = [env[e] EXCEPT !.upcall = TRUE]
      /\ \A f \in Envs \ {e} : env'[f] = env[f]
      /\ Goto(e, "save")
  BY SetPgfaultUpcallKeeps DEF FInv
<1>2. usr[e].fault = "none" /\ "save" \in Counter BY Counters DEF SetPgfaultUpcall, Calls, At
<1>3. /\ \A f \in Envs \ {e} : usr'[f] = usr[f]
      /\ usr'[e].pc = "save" /\ usr'[e].step = usr[e].step /\ usr'[e].fault = usr[e].fault
  BY <1>1, <1>2, Went DEF FInv
<1>4. env[e] \in [status : Statuses, parent : Envs \cup {NoEnv}, upcall : BOOLEAN,
                  recving : BOOLEAN]
  BY DEF FInv, IInv, Typed, EnvTypes
<1>5. \A f \in Envs : /\ env'[f].status = env[f].status /\ env'[f].parent = env[f].parent
                      /\ env'[f].recving = env[f].recving
  BY <1>1, <1>4
<1>6. \A f \in Envs \ {e} : Bystander(f) /\ BuildsOn(f)
  BY <1>1, <1>3, <1>5 DEF Bystander, BuildsOn, Live
<1>7. DataStays BY <1>1 DEF DataStays
<1>8. ChildrenStay(e) BY <1>5 DEF ChildrenStay
<1>9. UpWithData BY <1>5 DEF UpWithData, Up, Live
<1>10. Gives(e) BY <1>3, NotGiven
<1>11. FaultOf(e)' /\ Resolves(e) BY <1>2, <1>3, NoFault
<1> QED BY <1>1, <1>6, <1>7, <1>8, <1>9, <1>10, <1>11, GoOn

(* The child has an empty address space and is not up. *)
LEMMA ExoforkGoesOn ==
  ASSUME FInv, NEW e \in Envs, Exofork(e)
  PROVE  FaultsGoOn
<1>0. usr[e].fault = "none" BY DEF Exofork, Calls, At
<1>1. /\ IInv'
      /\ \/ /\ mem'.pte = mem.pte /\ mem'.table = mem.table
            /\ env' = env /\ Goto(e, "panic")
         \/ \E d \in Envs \ {e} :
              /\ env[d].status = "FREE"
              /\ mem'.pte = mem.pte /\ mem'.table = mem.table
              /\ env' = [env EXCEPT ![d] = [NoEnvAt EXCEPT !.status = "NOT_RUNNABLE",
                                                           !.parent = e]]
              /\ usr' = [usr EXCEPT ![d] = Start("child"), ![e].pc = "dup",
                                    ![e].child = d, ![e].at = 1]
  BY ExoforkKeeps DEF FInv
<1>2. CASE /\ mem'.pte = mem.pte /\ mem'.table = mem.table
           /\ env' = env /\ Goto(e, "panic")
  <2>1. "panic" \in Counter BY Counters
  <2>2. /\ \A f \in Envs \ {e} : usr'[f] = usr[f]
        /\ usr'[e].pc = "panic" /\ usr'[e].step = usr[e].step /\ usr'[e].fault = usr[e].fault
    BY <1>2, <2>1, Went DEF FInv
  <2>3. \A f \in Envs \ {e} : Bystander(f) /\ BuildsOn(f)
    BY <1>2, <2>2 DEF Bystander, BuildsOn, Live
  <2>4. DataStays /\ ChildrenStay(e) BY <1>2 DEF DataStays, ChildrenStay
  <2>5. UpWithData BY <1>2 DEF UpWithData, Up, Live
  <2>6. Gives(e) BY <2>2, NotGiven
  <2>7. FaultOf(e)' /\ Resolves(e) BY <1>0, <2>2, NoFault
  <2> QED BY <1>1, <2>3, <2>4, <2>5, <2>6, <2>7, GoOn
<1>3. ASSUME NEW d \in Envs \ {e}, env[d].status = "FREE",
             mem'.pte = mem.pte, mem'.table = mem.table,
             env' = [env EXCEPT ![d] = [NoEnvAt EXCEPT !.status = "NOT_RUNNABLE",
                                                       !.parent = e]],
             usr' = [usr EXCEPT ![d] = Start("child"), ![e].pc = "dup",
                                ![e].child = d, ![e].at = 1]
      PROVE  FaultsGoOn
  <2>1. /\ env'[d].status = "NOT_RUNNABLE" /\ env'[d].parent = e /\ env'[d].recving = FALSE
        /\ \A f \in Envs \ {d} : env'[f] = env[f]
    BY <1>3 DEF FInv, IInv, Typed, EnvTypes, NoEnvAt
  <2> DEFINE k == [usr EXCEPT ![d] = Start("child")]
  <2>2. /\ DOMAIN k = Envs /\ k[d] = Start("child") /\ \A f \in Envs \ {d} : k[f] = usr[f]
    BY DEF FInv, IInv, Typed, UsrTypes
  <2>3. usr' = [k EXCEPT ![e].pc = "dup", ![e].child = d, ![e].at = 1] BY <1>3
  <2> HIDE DEF k
  <2>4. usr[e] \in [pc : Counter, handler : BOOLEAN, child : Envs \cup {NoEnv}, at : 1 .. 6,
                    perm : Perms, fault : Vas \cup {"none"}, step : Steps]
    BY DEF FInv, IInv, Typed, UsrTypes
  <2>5. /\ usr'[d] = Start("child") /\ \A f \in Envs \ {d, e} : usr'[f] = usr[f]
    BY <2>2, <2>3
  <2>6. /\ usr'[e].pc = "dup" /\ usr'[e].at = 1 /\ usr'[e].child = d
        /\ usr'[e].step = usr[e].step /\ usr'[e].fault = usr[e].fault
    BY <2>2, <2>3, <2>4
  <2>7. /\ usr'[d].pc = "child" /\ usr'[d].step = "none" /\ usr'[d].fault = "none"
    BY <2>5 DEF Start
  <2>8. ~Live(d) BY <1>3 DEF Live
  <2>9. ASSUME NEW f \in Envs \ {e} PROVE Bystander(f) /\ BuildsOn(f)
    <3>1. CASE f = d BY <2>7, <2>8, <3>1, Counters DEF Bystander, BuildsOn
    <3>2. CASE f # d BY <1>3, <2>1, <2>5, <3>2 DEF Bystander, BuildsOn, Live
    <3> QED BY <3>1, <3>2
  <2>10. DataStays BY <1>3 DEF DataStays
  <2>11. ChildrenStay(e) BY <2>1 DEF ChildrenStay
  <2>12. UpWithData BY <2>1 DEF UpWithData, Up, Live
  <2>13. ~Given(e)' BY <2>6 DEF Given, AtPage
  <2>14. Gives(e) BY <2>13 DEF Gives
  <2>15. FaultOf(e)' /\ Resolves(e) BY <1>0, <2>6, NoFault
  <2> QED BY <1>1, <2>9, <2>10, <2>11, <2>12, <2>14, <2>15, GoOn
<1> QED BY <1>1, <1>2, <1>3

LEMMA SecondPage ==
  ASSUME NEW e \in Envs
  PROVE  VaOrder[2] = "DATA" /\ 2 \in 1 .. Len(VaOrder) /\ (usr[e].at = 2 => Va(e) = "DATA")
<1>1. Len(VaOrder) = 5 /\ VaOrder[2] = "DATA" BY DEF VaOrder
<1> QED BY <1>1 DEF Va

(* The loop does not pass over the page with the data. *)
LEMMA DupGoesOn ==
  ASSUME FInv, NEW e \in Envs, Dup(e)
  PROVE  FaultsGoOn
<1>1. /\ IInv' /\ mem' = mem /\ env' = env
      /\ \A f \in Envs \ {e} : usr'[f] = usr[f]
      /\ usr'[e].child = usr[e].child /\ usr'[e].step = usr[e].step
      /\ usr'[e].fault = usr[e].fault
  BY DupKeeps DEF FInv
<1>2. \/ /\ NextPage(e, usr[e].at) = {}
         /\ usr'[e].pc = IF program.fork = "fork" THEN "xstack" ELSE "status"
      \/ /\ \A l \in NextPage(e, usr[e].at) : usr'[e].at <= l
         /\ usr'[e].pc = IF program.fork = "fork" \/ usr'[e].perm # "rw"
                         THEN "dup_child" ELSE "copy_alloc"
  BY DupKeeps DEF FInv
<1>3. usr[e].fault = "none" /\ usr[e].pc = "dup" /\ e \in Running BY DEF Dup, At
<1>4. mem.pte[e]["DATA"] # Unmapped
  BY <1>3 DEF FInv, HasData, Up, Live, Running
<1>5. usr[e].at \in 1 .. 6 /\ usr'[e].at \in 1 .. 6 BY <1>1 DEF FInv, IInv, Typed, UsrTypes
<1>6. usr[e].at <= 2 => 2 \in NextPage(e, usr[e].at)
  <2>1. Len(VaOrder) = 5 BY DEF VaOrder
  <2> QED BY <1>4, <1>5, <2>1, SecondPage DEF NextPage
<1>7. Given(e)' => usr[e].at > 2
  <2>1. CASE NextPage(e, usr[e].at) = {} BY <1>5, <1>6, <2>1
  <2>2. CASE /\ \A l \in NextPage(e, usr[e].at) : usr'[e].at <= l
             /\ usr'[e].pc \in {"dup_child", "copy_alloc"}
    <3>1. Given(e)' => usr'[e].at > 2 BY <2>2 DEF Given
    <3>2. usr[e].at <= 2 => usr'[e].at <= 2 BY <1>6, <2>2
    <3> QED BY <1>5, <3>1, <3>2
  <2> QED BY <1>2, <2>1, <2>2
<1>8. Gives(e) BY <1>1, <1>3, <1>7 DEF Given, Gives
<1>9. FaultOf(e)' /\ Resolves(e) BY <1>1, <1>3, NoFault
<1>10. Fine(mem, mem', e) BY <1>1, SameMemory DEF FInv, IInv, Counted
<1> QED BY <1>1, <1>8, <1>9, <1>10, Alone

LEMMA AdvanceAlone ==
  ASSUME FInv, IInv', NEW e \in Envs, NEW x \in Envs, x = e \/ ~Live(x),
         Fine(mem, mem', x), env' = env, usr[e].pc \in AtPage, Advance(e),
         usr[e].fault = "none",
         mem.pte[x]["DATA"] # Unmapped => mem'.pte[x]["DATA"] # Unmapped,
         usr[e].at = 2 => mem'.pte[usr[e].child]["DATA"] # Unmapped
  PROVE  FaultsGoOn
<1>1. /\ \A f \in Envs \ {e} : usr'[f] = usr[f]
      /\ usr'[e].pc = "dup" /\ usr'[e].at = usr[e].at + 1
      /\ usr'[e].child = usr[e].child /\ usr'[e].step = usr[e].step
      /\ usr'[e].fault = usr[e].fault
  BY Advanced DEF FInv
<1>2. usr[e].at \in 1 .. 5 BY DEF FInv, IInv, Children
<1>3. FaultOf(e)' /\ Resolves(e) BY <1>1, NoFault
<1>4. Given(e)' => usr[e].at = 2 \/ usr[e].at > 2 BY <1>1, <1>2 DEF Given, AtPage
<1>5. Gives(e) BY <1>1, <1>4 DEF Given, Gives
<1> QED BY <1>1, <1>3, <1>5, Alone

(* The child e is building does not run. *)
LEMMA ChildIsNotUp ==
  ASSUME FInv, NEW e \in Envs, usr[e].pc \in Building
  PROVE  usr[e].child \in Envs \ {e} /\ ~Live(usr[e].child)
  BY ChildOfBuilder DEF FInv, Live

LEMMA DupChildGoesOn ==
  ASSUME FInv, NEW e \in Envs, DupChild(e)
  PROVE  FaultsGoOn
<1> DEFINE d == usr[e].child
           perm == Shared(usr[e].perm)
           ok == EnvPageMapOK(mem, e, Va(e), d, Va(e), perm)
<1>1. /\ IInv' /\ Fine(mem, mem', d) /\ OthersKept(mem, mem', d, Va(e))
      /\ Mapped(mem, mem', e, Va(e), d, Va(e), perm)
      /\ \/ Goto(e, "panic")
         \/ ok /\ Goto(e, "dup_own")
         \/ ok /\ Advance(e)
  BY DupChildKeeps DEF FInv
<1>2. /\ usr[e].fault = "none" /\ usr[e].pc = "dup_child" /\ env' = env
  BY DEF DupChild, Calls, At, Panics
<1>3. usr[e].pc \in AtPage /\ usr[e].pc \in Building BY <1>2, Counters DEF AtPage
<1>4. d \in Envs \ {e} /\ ~Live(d) BY <1>3, ChildIsNotUp
<1>5. Va(e) \in Vas BY <1>3, PageOfLoop DEF FInv
<1>6. perm \in Perms BY DEF Shared, Perms
<1>7. Sound(mem) /\ usr[e].at \in 1 .. 5 BY <1>3 DEF FInv, IInv, Counted, Children
<1>d. d = usr[e].child OBVIOUS
<1> HIDE DEF d, perm
<1>8. /\ \A f \in Envs, v \in Vas : mem.pte[f][v] # Unmapped => mem'.pte[f][v] # Unmapped
      /\ ok => mem'.pte[d][Va(e)] # Unmapped
  <2> DEFINE va == Va(e)
             r == mem'
  <2>1. Fine(mem, r, d) /\ OthersKept(mem, r, d, va) /\ d \in Envs /\ va \in Vas
    BY <1>1, <1>4, <1>5
  <2>2. Mapped(mem, r, e, va, d, va, perm) BY <1>1
  <2>3. ok <=> EnvPageMapOK(mem, e, va, d, va, perm) OBVIOUS
  <2> HIDE DEF ok, va, r
  <2>4. EnvPageMapOK(mem, e, va, d, va, perm) => r.pte[d][va] # Unmapped
    <3>1. EnvPageMapOK(mem, e, va, d, va, perm) => mem.pte[e][va].page \in Pages
      BY <1>7, <2>1, PteKinds DEF EnvPageMapOK, Sound
    <3> QED BY <1>6, <2>2, <3>1, PteKinds DEF Mapped
  <2>5. ~EnvPageMapOK(mem, e, va, d, va, perm) => r.pte = mem.pte BY <2>2 DEF Mapped
  <2>6. \A f \in Envs, v \in Vas : mem.pte[f][v] # Unmapped => r.pte[f][v] # Unmapped
    BY <2>1, <2>4, <2>5 DEF Fine, OthersKept
  <2> QED BY <2>3, <2>4, <2>6 DEF va, r
<1>9. mem.pte[d]["DATA"] # Unmapped => mem'.pte[d]["DATA"] # Unmapped
  BY <1>4, <1>8, DataIs
<1>10. ok /\ usr[e].at = 2 => mem'.pte[d]["DATA"] # Unmapped BY <1>8, SecondPage
<1> HIDE DEF ok
<1>11. CASE Goto(e, "panic")
  <2>1. "panic" \in Counter BY Counters
  <2>2. usr'[e].pc = "panic" BY <1>11, <2>1, Went DEF FInv
  <2>3. ~Given(e)' BY <2>2, NotGiven
  <2> QED BY <1>1, <1>2, <1>4, <1>9, <1>11, <2>1, <2>3, CallAlone
<1>12. CASE ok /\ Goto(e, "dup_own")
  <2>1. "dup_own" \in Counter BY DEF AtPage, Building, Counter
  <2>2. usr'[e].pc = "dup_own" /\ usr'[e].at = usr[e].at /\ usr'[e].child = d
    BY <1>12, <1>d, <2>1, Went DEF FInv
  <2>3. Given(e)' => mem'.pte[usr'[e].child]["DATA"] # Unmapped \/ Given(e)
    BY <1>3, <1>10, <1>12, <2>2 DEF Given
  <2> QED BY <1>1, <1>2, <1>4, <1>9, <1>12, <2>1, <2>3, CallAlone
<1>13. CASE ok /\ Advance(e)
  BY <1>1, <1>2, <1>3, <1>4, <1>9, <1>10, <1>13, <1>d, AdvanceAlone
<1> QED BY <1>1, <1>11, <1>12, <1>13

LEMMA DupOwnGoesOn ==
  ASSUME FInv, NEW e \in Envs, DupOwn(e)
  PROVE  FaultsGoOn
<1>1. /\ IInv' /\ Fine(mem, mem', e) /\ OthersKept(mem, mem', e, Va(e))
      /\ Mapped(mem, mem', e, Va(e), e, Va(e), "cow")
      /\ Advance(e) /\ Va(e) \in Vas
  BY DupOwnKeeps DEF FInv
<1>2. usr[e].fault = "none" /\ usr[e].pc = "dup_own" /\ env' = env
  BY DEF DupOwn, Calls, At
<1>3. usr[e].pc \in AtPage /\ usr[e].pc \in Building BY <1>2, Counters DEF AtPage
<1>4. usr[e].child \in Envs \ {e} BY <1>3, ChildIsNotUp
<1>5. "cow" \in Perms /\ Sound(mem) BY DEF Perms, FInv, IInv, Counted
<1>6. \A f \in Envs, v \in Vas : mem.pte[f][v] # Unmapped => mem'.pte[f][v] # Unmapped
  BY <1>1, <1>5, MappedUnmapsNothing
<1>7. mem.pte[e]["DATA"] # Unmapped => mem'.pte[e]["DATA"] # Unmapped BY <1>6, DataIs
<1>8. usr[e].at = 2 => mem'.pte[usr[e].child]["DATA"] # Unmapped
  <2>1. usr[e].at = 2 => Given(e) BY <1>2 DEF Given
  <2> QED BY <1>4, <1>6, <2>1, DataIs DEF FInv, HasData
<1> QED BY <1>1, <1>2, <1>3, <1>7, <1>8, AdvanceAlone

LEMMA ChildXstackGoesOn ==
  ASSUME FInv, NEW e \in Envs, ChildXstack(e)
  PROVE  FaultsGoOn
<1>1. /\ IInv' /\ Fine(mem, mem', usr[e].child)
      /\ OthersKept(mem, mem', usr[e].child, "XSTACK")
      /\ Goto(e, "child_upcall") \/ Goto(e, "panic")
  BY ChildXstackKeeps DEF FInv
<1>2. usr[e].fault = "none" /\ usr[e].pc = "xstack" /\ env' = env
  BY DEF ChildXstack, Calls, At
<1>3. usr[e].child \in Envs \ {e} /\ ~Live(usr[e].child) BY <1>2, Counters, ChildIsNotUp
<1>4. "child_upcall" \in Counter /\ "panic" \in Counter BY Counters
<1>5. mem.pte[usr[e].child]["DATA"] # Unmapped => mem'.pte[usr[e].child]["DATA"] # Unmapped
  BY <1>1, DataIs DEF OthersKept
<1>6. Given(e) BY <1>2 DEF Given
<1> QED BY <1>1, <1>2, <1>3, <1>4, <1>5, <1>6, CallAlone

LEMMA ChildUpcallGoesOn ==
  ASSUME FInv, NEW e \in Envs, ChildUpcall(e)
  PROVE  FaultsGoOn
<1> DEFINE d == usr[e].child
<1>1. /\ IInv' /\ d \in Envs \ {e}
      /\ \/ /\ env[e].upcall /\ mem' = mem /\ Goto(e, "status")
            /\ env' = [env EXCEPT ![d].upcall = TRUE]
         \/ ~env[e].upcall /\ Gone(mem, mem', d)
  BY ChildUpcallKeeps DEF FInv
<1>2. usr[e].fault = "none" /\ usr[e].pc = "child_upcall" BY DEF ChildUpcall, Calls, At
<1>d. d = usr[e].child OBVIOUS
<1>3. CASE env[e].upcall
  <2>1. mem' = mem /\ Goto(e, "status") /\ env' = [env EXCEPT ![d].upcall = TRUE]
    BY <1>1, <1>3
  <2> HIDE DEF d
  <2>2. \A f \in Envs : /\ env'[f].status = env[f].status /\ env'[f].parent = env[f].parent
                        /\ env'[f].recving = env[f].recving
    BY <1>1, <2>1 DEF FInv, IInv, Typed, EnvTypes
  <2>3. /\ \A f \in Envs \ {e} : usr'[f] = usr[f]
        /\ usr'[e].step = usr[e].step /\ usr'[e].fault = usr[e].fault
        /\ usr'[e].child = usr[e].child
    BY <2>1, Went, Counters DEF FInv
  <2>4. \A f \in Envs \ {e} : Bystander(f) /\ BuildsOn(f)
    BY <2>1, <2>2, <2>3 DEF Bystander, BuildsOn, Live
  <2>5. DataStays BY <2>1 DEF DataStays
  <2>6. ChildrenStay(e) BY <2>2 DEF ChildrenStay
  <2>7. UpWithData BY <2>2 DEF UpWithData, Up, Live
  <2>8. Gives(e) BY <1>2, <2>3 DEF Given, Gives
  <2>9. FaultOf(e)' /\ Resolves(e) BY <1>2, <2>3, NoFault
  <2> QED BY <1>1, <2>4, <2>5, <2>6, <2>7, <2>8, <2>9, GoOn
<1>4. CASE ~env[e].upcall
  <2>1. Gone(mem, mem', d) BY <1>1, <1>4
  <2>2. env' = EnvFree(env, d) /\ usr' = [usr EXCEPT ![d] = Start("none"), ![e].pc = "status"]
    BY <1>4 DEF ChildUpcall
  <2> HIDE DEF d
  <2>3. /\ \A f \in Envs \ {e, d} : usr'[f] = usr[f]
        /\ usr'[d] = Start("none") /\ usr'[e].pc = "status" /\ usr'[e].child = d
        /\ usr'[e].step = usr[e].step /\ usr'[e].fault = usr[e].fault
    BY <1>1, <1>d, <2>2 DEF FInv, IInv, Typed, UsrTypes
  <2>4. usr'[d].step = "none" /\ usr'[d].fault = "none" /\ usr'[d].pc \in {"none", "killed"}
    BY <2>3 DEF Start
  <2>5. env'[d].parent = NoEnv /\ NoEnv # e
    BY <1>1, <2>2, AddressSpaceAssumption DEF EnvFree, NoEnvAt
  <2>6. ~Given(e)' BY <2>3, <2>5 DEF Given, AtPage
  <2>7. FaultOf(e)' /\ Resolves(e) BY <1>2, <2>3, NoFault
  <2> QED BY <1>1, <2>1, <2>2, <2>3, <2>4, <2>6, <2>7, DestroyedFaults
<1> QED BY <1>3, <1>4

LEMMA CopyAllocGoesOn ==
  ASSUME FInv, NEW e \in Envs, CopyAlloc(e)
  PROVE  FaultsGoOn
<1>1. /\ IInv' /\ Fine(mem, mem', usr[e].child)
      /\ OthersKept(mem, mem', usr[e].child, Va(e))
      /\ \/ /\ \E p \in Pages : mem'.pte[usr[e].child][Va(e)] = Pte(p, "rw")
            /\ Goto(e, "copy_map")
         \/ /\ mem'.pte = mem.pte
            /\ Goto(e, "panic")
  BY CopyAllocKeeps DEF FInv
<1>2. /\ usr[e].fault = "none" /\ usr[e].pc = "copy_alloc" /\ env' = env
  BY DEF CopyAlloc, Calls, At
<1>3. usr[e].pc \in AtPage /\ usr[e].pc \in Building BY <1>2, Counters DEF AtPage
<1>4. usr[e].child \in Envs \ {e} /\ ~Live(usr[e].child) BY <1>3, ChildIsNotUp
<1>5. CASE mem'.pte = mem.pte /\ Goto(e, "panic")
  <2>1. "panic" \in Counter BY Counters
  <2>2. usr'[e].pc = "panic" BY <1>5, <2>1, Went DEF FInv
  <2>3. ~Given(e)' BY <2>2, NotGiven
  <2> QED BY <1>1, <1>2, <1>4, <1>5, <2>1, <2>3, CallAlone
<1>6. ASSUME NEW p \in Pages, mem'.pte[usr[e].child][Va(e)] = Pte(p, "rw"),
             Goto(e, "copy_map")
      PROVE  FaultsGoOn
  <2>1. "copy_map" \in Counter BY DEF AtPage, Building, Counter
  <2>2. usr'[e].pc = "copy_map" /\ usr'[e].at = usr[e].at /\ usr'[e].child = usr[e].child
    BY <1>6, <2>1, Went DEF FInv
  <2>3. mem'.pte[usr[e].child][Va(e)] # Unmapped
    <3>1. "rw" \in Perms BY DEF Perms
    <3> QED BY <1>6, <3>1, PteKinds
  <2>4. Given(e)' => mem'.pte[usr'[e].child]["DATA"] # Unmapped \/ Given(e)
    BY <1>3, <2>2, <2>3, SecondPage DEF Given
  <2>5. mem.pte[usr[e].child]["DATA"] # Unmapped
          => mem'.pte[usr[e].child]["DATA"] # Unmapped
    <3>1. CASE Va(e) = "DATA" BY <2>3, <3>1
    <3>2. CASE Va(e) # "DATA" BY <1>1, <3>2, DataIs DEF OthersKept
    <3> QED BY <3>1, <3>2
  <2> QED BY <1>1, <1>2, <1>4, <1>6, <2>1, <2>4, <2>5, CallAlone
<1> QED BY <1>1, <1>5, <1>6

LEMMA CopyMapGoesOn ==
  ASSUME FInv, NEW e \in Envs, CopyMap(e)
  PROVE  FaultsGoOn
<1>1. /\ IInv' /\ Fine(mem, mem', e) /\ OthersKept(mem, mem', e, "TEMP")
      /\ Goto(e, "copy") \/ Goto(e, "panic")
  BY CopyMapKeeps DEF FInv
<1>2. /\ usr[e].fault = "none" /\ usr[e].pc = "copy_map" /\ env' = env
  BY DEF CopyMap, Calls, At
<1>3. mem.pte[e]["DATA"] # Unmapped => mem'.pte[e]["DATA"] # Unmapped
  BY <1>1, DataIs DEF OthersKept
<1>4. "copy" \in Counter /\ "panic" \in Counter BY Counters DEF AtPage, Building, Counter
<1>5. usr'[e].pc \in {"copy", "panic"} /\ usr'[e].at = usr[e].at
  BY <1>1, <1>4, Went DEF FInv
<1>6. Given(e)' => Given(e) BY <1>2, <1>5 DEF Given, AtPage
<1> QED BY <1>1, <1>2, <1>3, <1>4, <1>6, CallAlone

LEMMA CopyGoesOn ==
  ASSUME FInv, NEW e \in Envs, Copy(e)
  PROVE  FaultsGoOn
<1>1. IInv' /\ mem'.pte = mem.pte BY CopyKeeps DEF FInv
<1>2. \E f : mem' = [mem EXCEPT !.data = f]
  BY DEF Copy, FInv, IInv, Counted, Sound, Fields
<1>3. Fine(mem, mem', e) BY <1>2, ContentsOnly, Addresses DEF FInv, IInv, Counted
<1>4. /\ usr[e].fault = "none" /\ usr[e].pc = "copy" /\ env' = env /\ Goto(e, "copy_unmap")
  BY DEF Copy, At
<1>5. "copy_unmap" \in Counter BY DEF AtPage, Building, Counter
<1>6. usr'[e].pc = "copy_unmap" /\ usr'[e].at = usr[e].at BY <1>4, <1>5, Went DEF FInv
<1>7. Given(e)' => Given(e) BY <1>4, <1>6 DEF Given, AtPage
<1> QED BY <1>1, <1>3, <1>4, <1>5, <1>7, CallAlone

LEMMA CopyUnmapGoesOn ==
  ASSUME FInv, NEW e \in Envs, CopyUnmap(e)
  PROVE  FaultsGoOn
<1>1. /\ IInv' /\ Fine(mem, mem', e)
      /\ \A v \in Vas \ {"TEMP"} : mem'.pte[e][v] = mem.pte[e][v]
      /\ Advance(e)
  BY CopyUnmapKeeps DEF FInv
<1>2. usr[e].fault = "none" /\ usr[e].pc = "copy_unmap" /\ env' = env
  BY DEF CopyUnmap, Calls, At
<1>3. usr[e].pc \in AtPage /\ usr[e].pc \in Building BY <1>2, Counters DEF AtPage
<1>4. usr[e].child \in Envs \ {e} BY <1>3, ChildIsNotUp
<1>5. mem.pte[e]["DATA"] # Unmapped => mem'.pte[e]["DATA"] # Unmapped BY <1>1, DataIs
<1>6. usr[e].at = 2 => mem'.pte[usr[e].child]["DATA"] # Unmapped
  <2>1. usr[e].at = 2 => Given(e) BY <1>2 DEF Given
  <2>2. mem'.pte[usr[e].child] = mem.pte[usr[e].child] BY <1>1, <1>4 DEF Fine
  <2> QED BY <2>1, <2>2 DEF FInv, HasData
<1> QED BY <1>1, <1>2, <1>3, <1>5, <1>6, AdvanceAlone

(* The child that becomes runnable has its data. *)
LEMMA SetStatusGoesOn ==
  ASSUME FInv, NEW e \in Envs, SetStatus(e)
  PROVE  FaultsGoOn
<1> DEFINE d == usr[e].child
<1>1. /\ IInv' /\ mem' = mem /\ d \in Envs \ {e}
      /\ \/ env' = env /\ Goto(e, "panic")
         \/ /\ env[d].parent = e /\ Blocked(env, d)
            /\ env' = [env EXCEPT ![d].status = "RUNNABLE"]
            /\ \A f \in Envs \ {e} : /\ usr'[f].pc = usr[f].pc /\ usr'[f].child = usr[f].child
                                     /\ usr'[f].at = usr[f].at /\ usr'[f].step = usr[f].step
                                     /\ usr'[f].fault = usr[f].fault
            /\ usr'[e].pc = "user" /\ usr'[e].step = usr[e].step
            /\ usr'[e].fault = usr[e].fault
  BY SetStatusKeeps DEF FInv
<1>2. usr[e].fault = "none" /\ usr[e].pc = "status" BY DEF SetStatus, Calls, At
<1>3. CASE env' = env /\ Goto(e, "panic")
  <2>1. "panic" \in Counter BY Counters
  <2>2. usr'[e].pc = "panic" BY <1>3, <2>1, Went DEF FInv
  <2>3. ~Given(e)' BY <2>2, NotGiven
  <2>4. Fine(mem, mem', e) BY <1>1, SameMemory DEF FInv, IInv, Counted
  <2> QED BY <1>1, <1>2, <1>3, <2>1, <2>3, <2>4, CallAlone
<1>4. CASE /\ env[d].parent = e /\ Blocked(env, d)
           /\ env' = [env EXCEPT ![d].status = "RUNNABLE"]
           /\ \A f \in Envs \ {e} : /\ usr'[f].pc = usr[f].pc /\ usr'[f].child = usr[f].child
                                    /\ usr'[f].at = usr[f].at /\ usr'[f].step = usr[f].step
                                    /\ usr'[f].fault = usr[f].fault
           /\ usr'[e].pc = "user" /\ usr'[e].step = usr[e].step
           /\ usr'[e].fault = usr[e].fault
  <2>1. mem.pte[d]["DATA"] # Unmapped BY <1>2, <1>4 DEF Given, FInv, HasData
  <2> HIDE DEF d
  <2>2. /\ \A f \in Envs : /\ env'[f].parent = env[f].parent
                           /\ env'[f].recving = env[f].recving
        /\ \A f \in Envs \ {d} : env'[f].status = env[f].status
    BY <1>1, <1>4 DEF FInv, IInv, Typed, EnvTypes
  <2>3. ~Live(d) BY <1>4 DEF Live, Blocked
  <2>4. ASSUME NEW f \in Envs \ {e} PROVE Bystander(f) /\ BuildsOn(f)
    <3>1. CASE f = d BY <1>4, <2>3, <3>1 DEF Bystander, BuildsOn
    <3>2. CASE f # d BY <1>1, <1>4, <2>2, <3>2 DEF Bystander, BuildsOn, Live
    <3> QED BY <3>1, <3>2
  <2>5. DataStays BY <1>1 DEF DataStays
  <2>6. ChildrenStay(e) BY <2>2 DEF ChildrenStay
  <2>7. UpWithData BY <1>1, <2>1, <2>2 DEF UpWithData, Up, Live
  <2>8. Gives(e) BY <1>4, NotGiven
  <2>9. FaultOf(e)' /\ Resolves(e) BY <1>2, <1>4, NoFault
  <2> QED BY <1>1, <2>4, <2>5, <2>6, <2>7, <2>8, <2>9, GoOn
<1> QED BY <1>1, <1>3, <1>4

-----------------------------------------------------------------------------
(* The other system calls of a program *)

LEMMA AllocMsgGoesOn ==
  ASSUME FInv, NEW e \in Envs, NEW perm \in {"ro", "rw"}, AllocMsg(e, perm)
  PROVE  FaultsGoOn
<1>1. /\ IInv' /\ Fine(mem, mem', e) /\ OthersKept(mem, mem', e, "MSG") /\ Goto(e, "user")
  BY AllocMsgKeeps DEF FInv
<1>2. usr[e].fault = "none" /\ env' = env BY Acted DEF AllocMsg, FInv
<1>3. "user" \in Counter BY Counters
<1>4. usr'[e].pc = "user" BY <1>1, <1>3, Went DEF FInv
<1>5. ~Given(e)' BY <1>4, NotGiven
<1>6. mem.pte[e]["DATA"] # Unmapped => mem'.pte[e]["DATA"] # Unmapped
  BY <1>1, DataIs DEF OthersKept
<1> QED BY <1>1, <1>2, <1>3, <1>5, <1>6, CallAlone

LEMMA UnmapMsgGoesOn ==
  ASSUME FInv, Liberties = {}, NEW e \in Envs, NEW d \in Envs, UnmapMsg(e, d)
  PROVE  FaultsGoOn
<1>0. d = e BY DEF UnmapMsg
<1>1. /\ IInv' /\ Fine(mem, mem', e) /\ Goto(e, "user")
      /\ \A v \in Vas \ {"MSG"} : mem'.pte[e][v] = mem.pte[e][v]
  BY <1>0, UnmapMsgKeeps DEF FInv
<1>2. usr[e].fault = "none" /\ env' = env BY Acted DEF UnmapMsg, FInv
<1>3. "user" \in Counter BY Counters
<1>4. usr'[e].pc = "user" BY <1>1, <1>3, Went DEF FInv
<1>5. ~Given(e)' BY <1>4, NotGiven
<1>6. mem.pte[e]["DATA"] # Unmapped => mem'.pte[e]["DATA"] # Unmapped BY <1>1, DataIs
<1> QED BY <1>1, <1>2, <1>3, <1>5, <1>6, CallAlone

LEMMA IpcRecvGoesOn ==
  ASSUME FInv, NEW e \in Envs, IpcRecv(e)
  PROVE  FaultsGoOn
<1>1. IInv' /\ mem' = mem /\ usr' = usr BY IpcRecvKeeps DEF FInv
<1>2. /\ env' = [env EXCEPT ![e].status = "NOT_RUNNABLE", ![e].recving = TRUE]
      /\ env[e].status = "RUNNING" /\ usr[e].pc = "user" /\ usr[e].fault = "none"
  BY Acted DEF IpcRecv, FInv
<1>3. /\ env'[e].parent = env[e].parent
      /\ \A f \in Envs \ {e} : env'[f] = env[f]
  BY <1>2 DEF FInv, IInv, Typed, EnvTypes
<1>4. \A f \in Envs \ {e} : Bystander(f) /\ BuildsOn(f)
  BY <1>1, <1>3 DEF Bystander, BuildsOn, Live
<1>5. DataStays BY <1>1 DEF DataStays
<1>6. ChildrenStay(e) BY <1>3 DEF ChildrenStay
<1>7. UpWithData BY <1>2, <1>3 DEF UpWithData, Up, Live
<1>8. Gives(e) BY <1>1, <1>2, NotGiven
<1>9. FaultOf(e)' /\ Resolves(e) BY <1>1, <1>2, NoFault
<1> QED BY <1>1, <1>4, <1>5, <1>6, <1>7, <1>8, <1>9, GoOn

LEMMA IpcTrySendGoesOn ==
  ASSUME FInv, NEW e \in Envs, NEW d \in Envs, IpcTrySend(e, d)
  PROVE  FaultsGoOn
<1>1. /\ IInv' /\ Fine(mem, mem', d) /\ d # e
      /\ \A v \in Vas \ {"MSG"} : mem'.pte[d][v] = mem.pte[d][v]
      /\ \/ /\ env' = env
            /\ \E pc \in {"panic", "send_panic", "kernel_panic"} : Goto(e, pc)
         \/ /\ Goto(e, "user")
            /\ env' = [env EXCEPT ![d].recving = FALSE, ![d].status = "RUNNABLE"]
  BY IpcTrySendKeeps DEF FInv
<1>2. usr[e].fault = "none" /\ env[d].recving BY DEF IpcTrySend, Calls, At
<1>3. ~Live(d) BY <1>2 DEF FInv, IInv, Slots, Live
<1>4. ASSUME env' = env, NEW pc \in {"panic", "send_panic", "kernel_panic"}, Goto(e, pc)
      PROVE  FaultsGoOn
  <2>1. pc \in Counter BY Counters
  <2>2. usr'[e].pc = pc BY <1>4, <2>1, Went DEF FInv
  <2>3. ~Given(e)' BY <2>2, NotGiven
  <2>4. mem'.pte[d]["DATA"] = mem.pte[d]["DATA"] BY <1>1, DataIs
  <2> QED BY <1>1, <1>2, <1>3, <1>4, <2>1, <2>3, <2>4, CallAlone
<1>5. CASE /\ Goto(e, "user")
           /\ env' = [env EXCEPT ![d].recving = FALSE, ![d].status = "RUNNABLE"]
  <2>1. /\ \A f \in Envs \ {e} : usr'[f] = usr[f]
        /\ usr'[e].pc = "user" /\ usr'[e].step = usr[e].step /\ usr'[e].fault = usr[e].fault
    BY <1>5, Went, Counters DEF FInv
  <2>2. /\ env'[d].parent = env[d].parent
        /\ \A f \in Envs \ {d} : env'[f] = env[f]
    BY <1>5 DEF FInv, IInv, Typed, EnvTypes
  <2>3. \A f \in Envs \ {d} : mem'.pte[f] = mem.pte[f] /\ mem'.table[f] = mem.table[f]
    BY <1>1 DEF Fine
  <2>4. ASSUME NEW f \in Envs \ {e} PROVE Bystander(f) /\ BuildsOn(f)
    <3>1. CASE f = d BY <1>3, <2>1, <3>1 DEF Bystander, BuildsOn
    <3>2. CASE f # d BY <2>1, <2>2, <2>3, <3>2 DEF Bystander, BuildsOn, Live
    <3> QED BY <3>1, <3>2
  <2>5. DataStays BY <1>1, <2>3, DataIs DEF DataStays
  <2>6. ChildrenStay(e) BY <2>2 DEF ChildrenStay
  <2>7. UpWithData BY <1>2, <2>2 DEF UpWithData, Up, Live
  <2>8. Gives(e) BY <2>1, NotGiven
  <2>9. FaultOf(e)' /\ Resolves(e) BY <1>2, <2>1, NoFault
  <2> QED BY <1>1, <2>4, <2>5, <2>6, <2>7, <2>8, <2>9, GoOn
<1> QED BY <1>1, <1>4, <1>5

LEMMA ExitGoesOn ==
  ASSUME FInv, NEW e \in Envs, Exit(e)
  PROVE  FaultsGoOn
<1>1. DestroySelf(e, "none") /\ program' = program /\ env[e].status = "RUNNING"
  BY DEF Exit, Calls
<1> QED BY <1>1, DestroySelfGoesOn

(* A child that runs on another CPU goes on with the fault it may be in. *)
LEMMA KillGoesOn ==
  ASSUME FInv, NEW e \in Envs, NEW d \in Envs, Kill(e, d)
  PROVE  FaultsGoOn
<1>1. /\ IInv' /\ d # e
      /\ \/ /\ env[d].status = "RUNNING" /\ mem' = mem /\ Goto(e, "user")
            /\ env' = [env EXCEPT ![d].status = "DYING"]
         \/ /\ Gone(mem, mem', d) /\ env' = EnvFree(env, d)
            /\ usr' = [usr EXCEPT ![d] = Start("none")]
  BY KillKeeps DEF FInv
<1>2. usr[e].fault = "none" /\ usr[e].pc = "user" BY DEF Kill, Calls, At
<1>3. CASE /\ env[d].status = "RUNNING" /\ mem' = mem /\ Goto(e, "user")
           /\ env' = [env EXCEPT ![d].status = "DYING"]
  <2>1. /\ \A f \in Envs \ {e} : usr'[f] = usr[f]
        /\ usr'[e].pc = "user" /\ usr'[e].step = usr[e].step /\ usr'[e].fault = usr[e].fault
    BY <1>3, Went, Counters DEF FInv
  <2>2. /\ env'[d].status = "DYING" /\ env'[d].parent = env[d].parent
        /\ env'[d].recving = env[d].recving
        /\ \A f \in Envs \ {d} : env'[f] = env[f]
    BY <1>3 DEF FInv, IInv, Typed, EnvTypes
  <2>3. \A f \in Envs : /\ Live(f)' <=> Live(f)
                        /\ env'[f].parent = env[f].parent /\ env'[f].recving = env[f].recving
    BY <1>3, <2>2 DEF Live
  <2>4. \A f \in Envs \ {e} : Bystander(f) /\ BuildsOn(f)
    BY <1>3, <2>1, <2>3 DEF Bystander, BuildsOn
  <2>5. DataStays BY <1>3 DEF DataStays
  <2>6. ChildrenStay(e) BY <2>3 DEF ChildrenStay
  <2>7. UpWithData BY <2>3 DEF UpWithData, Up
  <2>8. Gives(e) BY <2>1, NotGiven
  <2>9. FaultOf(e)' /\ Resolves(e) BY <1>2, <2>1, NoFault
  <2> QED BY <1>1, <2>4, <2>5, <2>6, <2>7, <2>8, <2>9, GoOn
<1>4. CASE /\ Gone(mem, mem', d) /\ env' = EnvFree(env, d)
           /\ usr' = [usr EXCEPT ![d] = Start("none")]
  <2>1. usr'[d] = Start("none") /\ \A f \in Envs \ {d} : usr'[f] = usr[f]
    BY <1>4 DEF FInv, IInv, Typed, UsrTypes
  <2>2. usr'[d].step = "none" /\ usr'[d].fault = "none" /\ usr'[d].pc \in {"none", "killed"}
    BY <2>1 DEF Start
  <2>3. usr'[e] = usr[e] BY <1>1, <2>1
  <2>4. FaultOf(e)' /\ Resolves(e) /\ ~Given(e)' BY <1>2, <2>3, NoFault, NotGiven
  <2> QED BY <1>1, <1>4, <2>1, <2>2, <2>4, DestroyedFaults
<1> QED BY <1>1, <1>3, <1>4

-----------------------------------------------------------------------------
(* Five pages are enough for the first environment to have its data. *)
LEMMA BootData ==
  ASSUME NEW n \in Nat, n >= 5, 1 .. n \subseteq Pages
  PROVE  Boot(n).pte[First]["DATA"] # Unmapped
<1> DEFINE m == Empty(n)
           s == EnvSetupVm(m, First)
           t == EnvPageAlloc(s, First, "DATA", "rw")
           b == EnvPageAlloc(t, First, "STACK", "rw")
           p == Top(m.free)
           q == Top(s.free)
<1>1. b = Boot(n) BY DEF Boot, Empty
<1>2. Sound(m) BY EmptySound
<1>3. m.free = 1 .. n /\ m.free # {} /\ \A e \in Envs : m.dir[e] = NULL
  <2>1. 1 \in 1 .. n OBVIOUS
  <2> QED BY <2>1 DEF Empty, PageInit
<1>4. First \in Envs /\ "DATA" \in Vas /\ "STACK" \in Vas /\ "rw" \in Perms
  BY AddressSpaceAssumption, Addresses DEF Perms
<1>5. s.free = m.free \ {p} BY DEF EnvSetupVm, PageAlloc, Empty
<1> HIDE DEF m, p
<1>6. Born(m, s, First) BY <1>2, <1>3, <1>4, VmSetUp DEF Born
<1> HIDE DEF s
<1>7. Sound(s) BY <1>6 DEF Born
<1>8. EnvPageAllocOK(s, First, "DATA")
  <2>1. \E x \in 1 .. n : x # p /\ x # q
    <3>1. 1 \in 1 .. n /\ 2 \in 1 .. n /\ 3 \in 1 .. n OBVIOUS
    <3>2. (1 # p /\ 1 # q) \/ (2 # p /\ 2 # q) \/ (3 # p /\ 3 # q) OBVIOUS
    <3> QED BY <3>1, <3>2
  <2>2. s.free # {} BY <1>3, <1>5, <2>1
  <2>3. PageAlloc(s).free = s.free \ {q} BY <1>7, <2>2, Allocated
  <2>4. PageAlloc(s).free # {} BY <1>3, <1>5, <2>1, <2>3
  <2> QED BY <2>2, <2>4 DEF EnvPageAllocOK, TableFits
<1>9. Fine(s, t, First) /\ \E x \in Pages : t.pte[First]["DATA"] = Pte(x, "rw")
  BY <1>4, <1>7, <1>8, PageAllocated
<1> HIDE DEF t
<1>10. t.pte[First]["DATA"] # Unmapped BY <1>4, <1>9, PteKinds
<1>11. Sound(t) BY <1>9 DEF Fine
<1>12. OthersKept(t, b, First, "STACK") BY <1>4, <1>11, PageAllocated
<1> HIDE DEF b
<1>13. b.pte[First]["DATA"] = t.pte[First]["DATA"] BY <1>4, <1>12 DEF OthersKept
<1> QED BY <1>1, <1>10, <1>13

LEMMA InitFInv == Init => FInv
<1> SUFFICES ASSUME Init PROVE FInv
  OBVIOUS
<1>1. IInv BY InitIInv
<1>2. \A e \in Envs : usr[e] = Start("user") \/ usr[e] = Start("none") BY DEF Init
<1>3. /\ Start("user").pc = "user" /\ Start("user").step = "none"
      /\ Start("user").fault = "none"
      /\ Start("none").pc = "none" /\ Start("none").step = "none"
      /\ Start("none").fault = "none"
  BY DEF Start
<1>4. \A e \in Envs : /\ usr[e].pc \in {"user", "none"}
                      /\ usr[e].step = "none" /\ usr[e].fault = "none"
  BY <1>2, <1>3
<1>5. Faults BY <1>4 DEF Faults, FaultOf
<1>6. program.npages \in Nat /\ program.npages >= 5 /\ 1 .. program.npages \subseteq Pages
  BY AddressSpaceAssumption DEF Init, Pages
<1>7. mem.pte[First]["DATA"] # Unmapped BY <1>6, BootData DEF Init
<1>8. \A e \in Envs : Up(e) => e = First BY DEF Init, NoEnvAt, Up, Live
<1>9. \A e \in Envs : ~Given(e) BY <1>4 DEF Given, AtPage
<1>10. HasData BY <1>7, <1>8, <1>9 DEF HasData
<1> QED BY <1>1, <1>5, <1>10 DEF FInv

LEMMA NextGoesOn ==
  ASSUME FInv, Liberties = {}, Next
  PROVE  FaultsGoOn
<1>1. PICK e \in Envs : Run(e) \/ Preempt(e) \/ TrapOfZombie(e) \/ Library(e) \/ Program(e)
  BY DEF Next
<1>2. CASE Library(e)
  BY <1>2, PgfaultAllocGoesOn, PgfaultCopyGoesOn, PgfaultMapGoesOn, PgfaultUnmapGoesOn,
     SetPgfaultHandlerGoesOn, SetPgfaultUpcallGoesOn, SaveHandlerGoesOn, ExoforkGoesOn,
     DupGoesOn, DupChildGoesOn, DupOwnGoesOn, ChildXstackGoesOn, ChildUpcallGoesOn,
     CopyAllocGoesOn, CopyMapGoesOn, CopyGoesOn, CopyUnmapGoesOn, SetStatusGoesOn,
     SetThisenvGoesOn
     DEF Library
<1>3. CASE Program(e)
  BY <1>3, WriteMemoryGoesOn, ForkGoesOn, ExitGoesOn, IpcRecvGoesOn, AllocMsgGoesOn,
     IpcTrySendGoesOn, KillGoesOn, UnmapMsgGoesOn
     DEF Program
<1> QED BY <1>1, <1>2, <1>3, RunGoesOn, PreemptGoesOn, TrapOfZombieGoesOn

LEMMA StepFInv == ASSUME Liberties = {} PROVE FInv /\ [Next]_vars => FInv'
<1> SUFFICES ASSUME FInv, [Next]_vars PROVE FInv'
  OBVIOUS
<1>1. CASE Next BY <1>1, NextGoesOn DEF FaultsGoOn
<1>2. CASE UNCHANGED vars
  <2>1. IInv' BY <1>2, NextIInv DEF FInv
  <2>2. Faults' BY <1>2 DEF FInv, Faults, FaultOf, Live, vars
  <2>3. HasData' BY <1>2 DEF FInv, HasData, Up, Live, Given, vars
  <2> QED BY <2>1, <2>2, <2>3 DEF FInv
<1> QED BY <1>1, <1>2

(* When pgfault of lib/fork.c returns to the access that faulted, the      *)
(* access can succeed: the copy that sys_page_alloc and sys_page_map made  *)
(* is mapped writable and its CPU knows it, whatever the parent, the       *)
(* children and the senders of the program did between the steps of the    *)
(* handler.                                                                *)
THEOREM FaultResolvedHolds ==
  ASSUME Liberties = {}
  PROVE  Spec => FaultResolved
<1>1. Init => FInv BY InitFInv
<1>2. FInv /\ [Next]_vars => FInv' BY StepFInv
<1>3. FInv /\ [Next]_vars
        => [\A e \in Envs : usr[e].step = "unmap" /\ usr'[e].step = "none"
                            /\ env'[e].status # "FREE"
                              => tlb'[e][usr[e].fault].perm = "rw"]_vars
  BY NextGoesOn DEF FaultsGoOn, Resolves
<1> QED BY <1>1, <1>2, <1>3, PTL DEF Spec, FaultResolved

-----------------------------------------------------------------------------
(* What a fork hands on *)

(* An environment that runs or will, and one whose faults are handled.     *)
Lives(n) == n.status \in {"RUNNING", "RUNNABLE", "DYING"} \/ n.recving
Armed(n, p) == n.upcall /\ p["XSTACK"].perm = "rw"
HasCow(p) == \E va \in Vas : p[va].perm = "cow"

Forking == Building \cup {"save", "exofork", "child", "status"}
Copying == {"copy_alloc", "copy_map", "copy", "copy_unmap"}
ForkOnly == {"handler", "upcall", "save", "dup_own", "xstack", "child_upcall"}

(* A program at u of an environment n with the mappings p has what it      *)
(* needs to go on, if fork is the fork it uses.                            *)
Fit(fork, u, n, p) ==
  /\ u.pc \notin {"killed", "panic"}
  /\ Lives(n) /\ (u.handler \/ HasCow(p) \/ (fork = "fork" /\ u.pc \in Forking))
       => Armed(n, p)
  /\ fork = "fork" => u.pc \notin Copying
  /\ fork # "fork" => /\ ~HasCow(p) /\ ~u.handler /\ u.pc \notin ForkOnly
                      /\ p["DATA"] = Unmapped \/ p["DATA"].perm = "rw"
  /\ u.pc = "upcall" => p["XSTACK"].perm = "rw"
  /\ u.pc \in AtPage => /\ VaOrder[u.at] # "TEMP"
                        /\ fork = "fork" => VaOrder[u.at] # "XSTACK"
  /\ u.pc = "dup_child" => /\ p[VaOrder[u.at]] # Unmapped
                           /\ fork # "fork" => /\ u.perm \notin {"rw", "cow"}
                                               /\ VaOrder[u.at] # "DATA"
  /\ p["TEMP"] # Unmapped =>
       u.step \in {"copy", "map", "unmap"} \/ u.pc \in {"copy", "copy_unmap"}
  /\ n.status = "FREE" => \A va \in Vas : p[va] = Unmapped

FitOf(e) == Fit(program.fork, usr[e], env[e], mem.pte[e])

(* What e has given the child it builds. *)
ChildFit(e) ==
  LET d == usr[e].child
  IN  /\ usr[e].pc = "child_upcall" => mem.pte[d]["XSTACK"].perm = "rw"
      /\ usr[e].pc = "status" => /\ env[d].parent = e
                                 /\ program.fork = "fork" => Armed(env[d], mem.pte[d])
      /\ usr[e].pc = "copy_map" => mem.pte[d][Va(e)].perm = "rw"

Arms == \A e \in Envs : FitOf(e) /\ ChildFit(e)

(* Memory has run out, or nobody lacks anything. *)
EInv == FInv /\ TlbCoherent /\ (mem.exhausted \/ Arms)

-----------------------------------------------------------------------------
(* What a change of its mappings leaves fit *)

(* u stays at its place, though pgfault may be at another step. *)
SamePlace(u, v) ==
  v.pc = u.pc /\ v.handler = u.handler /\ v.at = u.at /\ v.perm = u.perm

(* w is no more alive than n. *)
SameLife(n, w) == (Lives(w) => Lives(n)) /\ w.upcall = n.upcall

(* The page at va is exchanged by one with a permission that does no harm. *)
Replaces(fork, u, n, p, q, va) ==
  /\ \A v \in Vas \ {va} : q[v] = p[v]
  /\ q[va].perm = "cow" => fork = "fork" /\ (Lives(n) => Armed(n, p))
  /\ va = "XSTACK" /\ fork = "fork" => q[va].perm = "rw"
  /\ va = "DATA" /\ fork # "fork" => q[va].perm = "rw"
  /\ u.pc = "dup_child" /\ va # "TEMP" => q[va] # Unmapped

LEMMA FitAsIs ==
  ASSUME NEW fork, NEW u, NEW v, NEW n, NEW w, NEW p,
         Fit(fork, u, n, p), SamePlace(u, v), SameLife(n, w),
         w.status = "FREE" => n.status = "FREE",
         u.step \in {"copy", "map", "unmap"} => v.step \in {"copy", "map", "unmap"}
  PROVE  Fit(fork, v, w, p)
BY DEF Fit, SamePlace, SameLife, Armed

LEMMA FitRemapped ==
  ASSUME NEW fork, NEW u, NEW v, NEW n, NEW w, NEW p, NEW q, NEW va \in Vas,
         Fit(fork, u, n, p), SamePlace(u, v), SameLife(n, w), w.status # "FREE",
         Replaces(fork, u, n, p, q, va),
         u.pc \in AtPage => VaOrder[u.at] \in Vas,
         q["TEMP"] # Unmapped =>
           v.step \in {"copy", "map", "unmap"} \/ v.pc \in {"copy", "copy_unmap"}
  PROVE  Fit(fork, v, w, q)
<1>1. HasCow(q) => HasCow(p) \/ q[va].perm = "cow" BY DEF HasCow, Replaces
<1>2. fork = "fork" /\ p["XSTACK"].perm = "rw" => q["XSTACK"].perm = "rw"
  BY DataIs DEF Replaces
<1>3. fork # "fork" => q["DATA"] = p["DATA"] \/ q["DATA"].perm = "rw"
  BY DataIs DEF Replaces
<1>4. /\ v.pc \notin {"killed", "panic"}
      /\ fork = "fork" => v.pc \notin Copying
      /\ fork # "fork" => ~HasCow(q) /\ ~v.handler /\ v.pc \notin ForkOnly
      /\ v.pc \in AtPage => /\ VaOrder[v.at] # "TEMP"
                            /\ fork = "fork" => VaOrder[v.at] # "XSTACK"
  BY <1>1 DEF Fit, SamePlace, Replaces
<1>5. fork # "fork" => q["DATA"] = Unmapped \/ q["DATA"].perm = "rw"
  BY <1>3 DEF Fit
<1>6. Lives(w) /\ (v.handler \/ HasCow(q) \/ (fork = "fork" /\ v.pc \in Forking))
        => Armed(w, q)
  <2>1. CASE fork = "fork"
    <3>1. Lives(w) /\ (v.handler \/ HasCow(q) \/ v.pc \in Forking) => Armed(n, p)
      BY <1>1, <2>1 DEF Fit, SamePlace, SameLife, Replaces
    <3> QED BY <1>2, <2>1, <3>1 DEF Armed, SameLife
  <2>2. CASE fork # "fork" BY <1>4, <2>2
  <2> QED BY <2>1, <2>2
<1>7. v.pc = "upcall" => q["XSTACK"].perm = "rw"
  BY <1>2, <1>4 DEF Fit, SamePlace, ForkOnly
<1>8. v.pc = "dup_child" =>
        /\ q[VaOrder[v.at]] # Unmapped
        /\ fork # "fork" => v.perm \notin {"rw", "cow"} /\ VaOrder[v.at] # "DATA"
  <2>1. SUFFICES ASSUME v.pc = "dup_child"
                 PROVE  /\ q[VaOrder[v.at]] # Unmapped
                        /\ fork # "fork" => v.perm \notin {"rw", "cow"} /\ VaOrder[v.at] # "DATA"
    OBVIOUS
  <2>2. u.pc = "dup_child" /\ VaOrder[u.at] \in Vas BY <2>1 DEF SamePlace, AtPage
  <2>3. VaOrder[u.at] # "TEMP" BY <2>2 DEF Fit, AtPage
  <2> QED BY <2>2, <2>3 DEF Fit, SamePlace, Replaces
<1> QED BY <1>4, <1>5, <1>6, <1>7, <1>8 DEF Fit

-----------------------------------------------------------------------------
(* What a step of one environment leaves to the others *)

(* The step leaves c as its parent f left it. *)
Undisturbed(c) ==
  mem'.pte[c] = mem.pte[c] /\ env'[c].upcall = env[c].upcall /\ env'[c].parent = env[c].parent

(* The step leaves alone what f gives the child it builds. *)
BuildsUndisturbed(f) ==
  \/ usr'[f].pc \notin {"child_upcall", "status", "copy_map"}
  \/ /\ usr'[f].pc = usr[f].pc /\ usr'[f].child = usr[f].child /\ usr'[f].at = usr[f].at
     /\ \A c \in Envs : Blocked(env, c) /\ env[c].parent = f => Undisturbed(c)

LEMMA ChildStaysFit ==
  ASSUME IInv, NEW f \in Envs, ChildFit(f), program'.fork = program.fork,
         BuildsUndisturbed(f)
  PROVE  ChildFit(f)'
<1>1. CASE usr'[f].pc \notin {"child_upcall", "status", "copy_map"}
  BY <1>1 DEF ChildFit
<1>2. CASE /\ usr'[f].pc \in {"child_upcall", "status", "copy_map"}
           /\ usr'[f].pc = usr[f].pc /\ usr'[f].child = usr[f].child /\ usr'[f].at = usr[f].at
           /\ \A c \in Envs : Blocked(env, c) /\ env[c].parent = f => Undisturbed(c)
  <2>1. usr[f].child \in Envs /\ env[usr[f].child].parent = f /\ Blocked(env, usr[f].child)
    BY <1>2 DEF IInv, Children, Building, AtPage, ChildFit
  <2>2. Undisturbed(usr[f].child) BY <1>2, <2>1
  <2>3. Va(f)' = Va(f) BY <1>2 DEF Va
  <2> QED BY <1>2, <2>2, <2>3 DEF ChildFit, Undisturbed, Armed
<1> QED BY <1>1, <1>2 DEF BuildsUndisturbed

LEMMA ArmsGoOn ==
  ASSUME IInv, Arms, NEW e \in Envs, program'.fork = program.fork,
         \A f \in Envs \ {e} : FitOf(f)' /\ BuildsUndisturbed(f),
         FitOf(e)', ChildFit(e)'
  PROVE  Arms'
<1>1. \A f \in Envs : ChildFit(f) BY DEF Arms
<1>2. ASSUME NEW f \in Envs \ {e} PROVE FitOf(f)' /\ ChildFit(f)'
  BY <1>1, ChildStaysFit
<1> QED BY <1>2 DEF Arms

(* A step that changes no more than who runs. *)
LEMMA SchedulingArms ==
  ASSUME IInv, Arms, program'.fork = program.fork, mem'.pte = mem.pte,
         \A f \in Envs : /\ SamePlace(usr[f], usr'[f]) /\ usr'[f].child = usr[f].child
                         /\ usr'[f].step = usr[f].step
                         /\ SameLife(env[f], env'[f]) /\ env'[f].parent = env[f].parent
                         /\ env'[f].status = "FREE" => env[f].status = "FREE"
  PROVE  Arms'
<1>1. ASSUME NEW f \in Envs PROVE FitOf(f)'
  <2>1. FitOf(f) BY DEF Arms
  <2> QED BY <2>1, FitAsIs DEF FitOf
<1>2. ASSUME NEW f \in Envs PROVE ChildFit(f)'
  <2>1. BuildsUndisturbed(f) BY DEF BuildsUndisturbed, Undisturbed, SamePlace, SameLife
  <2>2. ChildFit(f) BY DEF Arms
  <2> QED BY <2>1, <2>2, ChildStaysFit
<1> QED BY <1>1, <1>2 DEF Arms

(* A step of e that changes no environment but its own place, and the      *)
(* mappings of x, which is e or the child it builds.                       *)
LEMMA AloneArms ==
  ASSUME IInv, Arms, NEW e \in Envs, NEW x \in Envs,
         x = e \/ env[x].parent = e \/ env[x].recving,
         Fine(mem, mem', x), env' = env, program'.fork = program.fork,
         e \in Running,
         \A f \in Envs \ {e} : usr'[f] = usr[f],
         FitOf(x)', FitOf(e)', ChildFit(e)'
  PROVE  Arms'
<1>1. \A f \in Envs \ {x} : mem'.pte[f] = mem.pte[f] BY DEF Fine
<1>2. ASSUME NEW f \in Envs \ {e} PROVE FitOf(f)'
  <2>1. CASE f = x BY <2>1
  <2>2. CASE f # x
    <3>1. FitOf(f) BY DEF Arms
    <3> QED BY <1>1, <2>2, <3>1 DEF FitOf
  <2> QED BY <2>1, <2>2
<1>3. ASSUME NEW f \in Envs \ {e} PROVE BuildsUndisturbed(f)
  <2>1. \A c \in Envs : Blocked(env, c) /\ env[c].parent = f => c # x
    BY DEF Blocked, Running
  <2> QED BY <1>1, <2>1 DEF BuildsUndisturbed, Undisturbed
<1> QED BY <1>2, <1>3, ArmsGoOn

(* An environment is freed: it is the one that makes the step, or a child  *)
(* of it that it does not build any more.                                  *)
LEMMA DestroyedArms ==
  ASSUME IInv, Arms, NEW d \in Envs, Gone(mem, mem', d), env' = EnvFree(env, d),
         usr'[d] = Start("none"), program'.fork = program.fork,
         \A f \in Envs \ {d} : usr'[f] = usr[f],
         \A f \in Envs \ {d} : Blocked(env, d) /\ env[d].parent = f =>
           usr[f].pc \notin {"child_upcall", "status", "copy_map"}
  PROVE  Arms'
<1>1. /\ env'[d] = NoEnvAt
      /\ \A f \in Envs \ {d} : /\ env'[f].status = env[f].status
                               /\ env'[f].recving = env[f].recving
                               /\ env'[f].upcall = env[f].upcall
                               /\ env[f].parent # d => env'[f].parent = env[f].parent
  BY DEF IInv, Typed, EnvTypes, EnvFree
<1>2. \A f \in Envs \ {d} : mem'.pte[f] = mem.pte[f] BY DEF Gone
<1>3. \A v \in Vas : mem'.pte[d][v] = Unmapped BY DEF Gone
<1>4. FitOf(d)'
  <2>1. /\ usr'[d].pc = "none" /\ usr'[d].handler = FALSE /\ usr'[d].step = "none"
        /\ env'[d].status = "FREE" /\ env'[d].recving = FALSE
    BY <1>1 DEF Start, NoEnvAt
  <2>2. ~HasCow(mem'.pte[d]) BY <1>3 DEF HasCow, Unmapped, Pte
  <2>3. ~Lives(env'[d]) BY <2>1 DEF Lives
  <2> QED BY <1>3, <2>1, <2>2, <2>3, DataIs
        DEF FitOf, Fit, AtPage, Copying, ForkOnly
<1>5. ChildFit(d)' BY DEF ChildFit, Start
<1>6. ASSUME NEW f \in Envs \ {d} PROVE FitOf(f)'
  <2>1. FitOf(f) BY DEF Arms
  <2>2. SameLife(env[f], env'[f]) BY <1>1 DEF SameLife, Lives
  <2>3. SamePlace(usr[f], usr'[f]) /\ usr'[f] = usr[f] BY DEF SamePlace
  <2>4. env'[f].status = "FREE" => env[f].status = "FREE" BY <1>1
  <2> QED BY <1>2, <2>1, <2>2, <2>3, <2>4, FitAsIs DEF FitOf
<1>7. ASSUME NEW f \in Envs \ {d} PROVE BuildsUndisturbed(f)
  <2>1. \A c \in Envs \ {d} : env[c].parent = f => Undisturbed(c)
    BY <1>1, <1>2 DEF Undisturbed
  <2> QED BY <2>1 DEF BuildsUndisturbed
<1> QED BY <1>4, <1>5, <1>6, <1>7, ArmsGoOn

-----------------------------------------------------------------------------
(* The steps of the system *)

(* So it is as long as memory suffices. *)
Suffices == FInv /\ TlbCoherent /\ Arms

LEMMA RunArms ==
  ASSUME Suffices, NEW e \in Envs, Run(e)
  PROVE  Arms'
<1>1. /\ mem' = mem /\ usr' = usr /\ program' = program /\ env[e].status = "RUNNABLE"
      /\ env' = [env EXCEPT ![e].status = "RUNNING"]
  BY DEF Run
<1>2. /\ env'[e].status = "RUNNING" /\ env'[e].recving = env[e].recving
      /\ env'[e].parent = env[e].parent /\ env'[e].upcall = env[e].upcall
      /\ \A f \in Envs \ {e} : env'[f] = env[f]
  BY <1>1 DEF Suffices, FInv, IInv, Typed, EnvTypes
<1>3. \A f \in Envs : /\ SameLife(env[f], env'[f]) /\ env'[f].parent = env[f].parent
                      /\ env'[f].status = "FREE" => env[f].status = "FREE"
  BY <1>1, <1>2 DEF SameLife, Lives
<1>4. \A f \in Envs : SamePlace(usr[f], usr'[f]) BY <1>1 DEF SamePlace
<1> QED BY <1>1, <1>3, <1>4, SchedulingArms DEF Suffices, FInv

LEMMA PreemptArms ==
  ASSUME Suffices, NEW e \in Envs, Preempt(e)
  PROVE  Arms'
<1>1. /\ mem' = mem /\ usr' = usr /\ program' = program /\ env[e].status = "RUNNING"
      /\ env' = [env EXCEPT ![e].status = "RUNNABLE"]
  BY DEF Preempt
<1>2. /\ env'[e].status = "RUNNABLE" /\ env'[e].recving = env[e].recving
      /\ env'[e].parent = env[e].parent /\ env'[e].upcall = env[e].upcall
      /\ \A f \in Envs \ {e} : env'[f] = env[f]
  BY <1>1 DEF Suffices, FInv, IInv, Typed, EnvTypes
<1>3. \A f \in Envs : /\ SameLife(env[f], env'[f]) /\ env'[f].parent = env[f].parent
                      /\ env'[f].status = "FREE" => env[f].status = "FREE"
  BY <1>1, <1>2 DEF SameLife, Lives
<1>4. \A f \in Envs : SamePlace(usr[f], usr'[f]) BY <1>1 DEF SamePlace
<1> QED BY <1>1, <1>3, <1>4, SchedulingArms DEF Suffices, FInv

LEMMA IpcRecvArms ==
  ASSUME Suffices, NEW e \in Envs, IpcRecv(e)
  PROVE  Arms'
<1>1. mem' = mem /\ usr' = usr BY DEF IpcRecv
<1>2. /\ env' = [env EXCEPT ![e].status = "NOT_RUNNABLE", ![e].recving = TRUE]
      /\ env[e].status = "RUNNING" /\ program'.fork = program.fork
  BY Acted DEF IpcRecv, Suffices, FInv
<1>3. /\ env'[e].status = "NOT_RUNNABLE" /\ env'[e].recving = TRUE
      /\ env'[e].parent = env[e].parent /\ env'[e].upcall = env[e].upcall
      /\ \A f \in Envs \ {e} : env'[f] = env[f]
  BY <1>2 DEF Suffices, FInv, IInv, Typed, EnvTypes
<1>4. \A f \in Envs : /\ SameLife(env[f], env'[f]) /\ env'[f].parent = env[f].parent
                      /\ env'[f].status = "FREE" => env[f].status = "FREE"
  BY <1>2, <1>3 DEF SameLife, Lives
<1>5. \A f \in Envs : SamePlace(usr[f], usr'[f]) BY <1>1 DEF SamePlace
<1> QED BY <1>1, <1>2, <1>4, <1>5, SchedulingArms DEF Suffices, FInv

LEMMA DestroySelfArms ==
  ASSUME Suffices, NEW e \in Envs, DestroySelf(e, "none"), program' = program,
         env[e].status \in {"RUNNING", "DYING"}
  PROVE  Arms'
<1>1. Gone(mem, mem', e)
  BY DestroySelfKeeps DEF Suffices, FInv, IInv, Typed
<1>2. env' = EnvFree(env, e) /\ usr' = [usr EXCEPT ![e] = Start("none")] BY DEF DestroySelf
<1>3. usr'[e] = Start("none") /\ \A f \in Envs \ {e} : usr'[f] = usr[f]
  BY <1>2 DEF Suffices, FInv, IInv, Typed, UsrTypes
<1>4. ~Blocked(env, e) BY DEF Blocked
<1> QED BY <1>1, <1>2, <1>3, <1>4, DestroyedArms DEF Suffices, FInv

LEMMA TrapOfZombieArms ==
  ASSUME Suffices, NEW e \in Envs, TrapOfZombie(e)
  PROVE  Arms'
BY DestroySelfArms DEF TrapOfZombie

LEMMA ExitArms ==
  ASSUME Suffices, NEW e \in Envs, Exit(e)
  PROVE  Arms'
BY DestroySelfArms DEF Exit, Calls

LEMMA KillArms ==
  ASSUME Suffices, NEW e \in Envs, NEW d \in Envs, Kill(e, d)
  PROVE  Arms'
<1>1. /\ d # e
      /\ \/ /\ env[d].status = "RUNNING" /\ mem' = mem /\ Goto(e, "user")
            /\ env' = [env EXCEPT ![d].status = "DYING"]
         \/ /\ Gone(mem, mem', d) /\ env' = EnvFree(env, d)
            /\ usr' = [usr EXCEPT ![d] = Start("none")]
  BY KillKeeps DEF Suffices, FInv
<1>2. usr[e].pc = "user" /\ env[d].parent = e /\ program' = program BY DEF Kill, Calls, At
<1>3. CASE /\ env[d].status = "RUNNING" /\ mem' = mem /\ Goto(e, "user")
           /\ env' = [env EXCEPT ![d].status = "DYING"]
  <2>1. \A f \in Envs : SamePlace(usr[f], usr'[f]) /\ usr'[f].child = usr[f].child
                        /\ usr'[f].step = usr[f].step
    BY <1>2, <1>3, Went, Counters DEF Suffices, FInv, SamePlace
  <2>2. /\ env'[d].status = "DYING" /\ env'[d].recving = env[d].recving
        /\ env'[d].parent = env[d].parent /\ env'[d].upcall = env[d].upcall
        /\ \A f \in Envs \ {d} : env'[f] = env[f]
    BY <1>3 DEF Suffices, FInv, IInv, Typed, EnvTypes
  <2>3. \A f \in Envs : /\ SameLife(env[f], env'[f]) /\ env'[f].parent = env[f].parent
                        /\ env'[f].status = "FREE" => env[f].status = "FREE"
    BY <1>3, <2>2 DEF SameLife, Lives
  <2> QED BY <1>2, <1>3, <2>1, <2>3, SchedulingArms DEF Suffices, FInv
<1>4. CASE /\ Gone(mem, mem', d) /\ env' = EnvFree(env, d)
           /\ usr' = [usr EXCEPT ![d] = Start("none")]
  <2>1. usr'[d] = Start("none") /\ \A f \in Envs \ {d} : usr'[f] = usr[f]
    BY <1>4 DEF Suffices, FInv, IInv, Typed, UsrTypes
  <2>2. \A f \in Envs \ {d} : Blocked(env, d) /\ env[d].parent = f =>
           usr[f].pc \notin {"child_upcall", "status", "copy_map"}
    BY <1>2
  <2> QED BY <1>2, <1>4, <2>1, <2>2, DestroyedArms DEF Suffices, FInv
<1> QED BY <1>1, <1>3, <1>4

-----------------------------------------------------------------------------
(* Writes, and the faults they start *)

(* A fault of an environment that is armed goes to pgfault. *)
LEMMA PageFaultArms ==
  ASSUME Suffices, NEW e \in Envs, NEW va, PageFault(e, va),
         Armed(env[e], mem.pte[e]), program'.fork = program.fork, usr[e].fault = "none"
  PROVE  Arms'
<1>1. /\ usr' = [usr EXCEPT ![e].fault = va, ![e].step = "alloc"]
      /\ mem' = mem /\ env' = env /\ env[e].status = "RUNNING"
  BY DEF PageFault, Armed, UserMemCheck
<1>2. /\ \A f \in Envs \ {e} : usr'[f] = usr[f]
      /\ SamePlace(usr[e], usr'[e]) /\ usr'[e].child = usr[e].child
  BY <1>1 DEF Suffices, FInv, IInv, Typed, UsrTypes, SamePlace
<1>3. usr[e].step = "none" BY DEF Suffices, FInv, Faults, FaultOf
<1>4. FitOf(e) /\ ChildFit(e) BY DEF Suffices, Arms
<1>5. SameLife(env[e], env'[e]) BY <1>1 DEF SameLife
<1>6. FitOf(e)' BY <1>1, <1>2, <1>3, <1>4, <1>5, FitAsIs DEF FitOf
<1>7. Va(e)' = Va(e) BY <1>2 DEF Va, SamePlace
<1>8. ChildFit(e)' BY <1>1, <1>2, <1>4, <1>7 DEF ChildFit, SamePlace
<1>9. Fine(mem, mem', e) BY <1>1, SameMemory DEF Suffices, FInv, IInv, Counted
<1> QED BY <1>1, <1>2, <1>6, <1>8, <1>9, AloneArms DEF Suffices, FInv, Running

(* A page of fork_v0 that may be written to is writable at once. *)
LEMMA FaultsArmed ==
  ASSUME Suffices, NEW e \in Envs, env[e].status = "RUNNING", NEW va \in Vas,
         tlb[e][va].perm # "rw",
         \/ mem.pte[e][va].perm \in {"rw", "cow"}
         \/ va = "DATA" /\ usr[e].pc \in Forking
  PROVE  Armed(env[e], mem.pte[e])
<1>1. mem.pte[e][va].perm # "rw" BY DEF Suffices, TlbCoherent, Running
<1>2. FitOf(e) /\ Lives(env[e]) BY DEF Suffices, Arms, Lives
<1>3. CASE mem.pte[e][va].perm = "cow" BY <1>2, <1>3 DEF FitOf, Fit, HasCow
<1>4. CASE va = "DATA" /\ usr[e].pc \in Forking
  <2>1. mem.pte[e]["DATA"] # Unmapped BY DataMapped DEF Suffices
  <2> QED BY <1>1, <1>2, <1>4, <2>1 DEF FitOf, Fit
<1> QED BY <1>1, <1>3, <1>4

LEMMA WriteMemoryArms ==
  ASSUME Suffices, NEW e \in Envs, NEW va \in {"DATA", "STACK", "MSG"}, WriteMemory(e, va)
  PROVE  Arms'
<1>1. /\ usr[e].fault = "none" /\ va \in Vas /\ mem.pte[e][va].perm \in {"rw", "cow"}
      /\ e \in Running
  BY Addresses DEF WriteMemory
<1>2. CASE Store(e, va) /\ usr' = usr /\ program' = [program EXCEPT !.acts = @ - 1]
  <2>1. mem'.pte = mem.pte BY <1>2 DEF Store, Suffices, FInv, IInv, Counted, Sound, Fields
  <2>2. env' = env BY <1>2 DEF Store
  <2>3. program'.fork = program.fork BY <1>2 DEF Suffices, FInv, IInv, Typed, ProgramTypes
  <2>4. \A f \in Envs : SamePlace(usr[f], usr'[f]) /\ SameLife(env[f], env'[f])
    BY <1>2, <2>2 DEF SamePlace, SameLife
  <2> QED BY <1>2, <2>1, <2>2, <2>3, <2>4, SchedulingArms DEF Suffices, FInv
<1>3. CASE tlb[e][va].perm # "rw" /\ PageFault(e, va)
  <2>1. program' = program /\ env[e].status = "RUNNING" BY <1>3 DEF PageFault
  <2> QED BY <1>1, <1>3, <2>1, FaultsArmed, PageFaultArms
<1> QED BY <1>2, <1>3 DEF WriteMemory

(* Only the contents of a page and the place of e change. *)
LEMMA StoreArms ==
  ASSUME Suffices, NEW e \in Envs, NEW va, Store(e, va), program'.fork = program.fork,
         e \in Running, \A f \in Envs \ {e} : usr'[f] = usr[f],
         Fit(program.fork, usr'[e], env[e], mem.pte[e]),
         usr'[e].pc \notin {"child_upcall", "status", "copy_map"}
  PROVE  Arms'
<1>1. mem'.pte = mem.pte /\ env' = env
  BY DEF Store, Suffices, FInv, IInv, Counted, Sound, Fields
<1>2. \E f : mem' = [mem EXCEPT !.data = f]
  BY DEF Store, Suffices, FInv, IInv, Counted, Sound, Fields
<1>3. Fine(mem, mem', e) BY <1>2, ContentsOnly, Addresses DEF Suffices, FInv, IInv, Counted
<1>4. FitOf(e)' BY <1>1 DEF FitOf
<1>5. ChildFit(e)' BY DEF ChildFit
<1> QED BY <1>1, <1>3, <1>4, <1>5, AloneArms DEF Suffices, FInv

LEMMA SaveHandlerArms ==
  ASSUME Suffices, NEW e \in Envs, SaveHandler(e)
  PROVE  Arms'
<1>1. usr[e].fault = "none" /\ usr[e].pc = "save" /\ e \in Running BY DEF SaveHandler, At
<1>2. FitOf(e) /\ Lives(env[e]) BY <1>1 DEF Suffices, Arms, Lives, Running
<1>3. CASE /\ Store(e, "DATA") /\ UNCHANGED program
           /\ usr' = [usr EXCEPT ![e].pc = "exofork", ![e].handler = TRUE]
  <2>1. program' = program BY <1>3
  <2>2. /\ \A f \in Envs \ {e} : usr'[f] = usr[f]
        /\ usr'[e].pc = "exofork" /\ usr'[e].step = usr[e].step
    BY <1>3 DEF Suffices, FInv, IInv, Typed, UsrTypes
  <2>3. Armed(env[e], mem.pte[e]) /\ program.fork = "fork"
    BY <1>1, <1>2 DEF FitOf, Fit, Forking, ForkOnly
  <2>4. Fit(program.fork, usr'[e], env[e], mem.pte[e])
    BY <1>1, <1>2, <2>2, <2>3 DEF FitOf, Fit, AtPage, Copying
  <2> QED BY <1>1, <1>3, <2>1, <2>2, <2>4, StoreArms
<1>4. CASE tlb[e]["DATA"].perm # "rw" /\ PageFault(e, "DATA")
  <2>1. program' = program /\ env[e].status = "RUNNING" BY <1>4 DEF PageFault
  <2>2. usr[e].pc \in Forking BY <1>1 DEF Forking
  <2> QED BY <1>1, <1>4, <2>1, <2>2, DataIs, FaultsArmed, PageFaultArms
<1> QED BY <1>3, <1>4 DEF SaveHandler

LEMMA SetThisenvArms ==
  ASSUME Suffices, NEW e \in Envs, SetThisenv(e)
  PROVE  Arms'
<1>1. usr[e].fault = "none" /\ usr[e].pc = "child" /\ e \in Running BY DEF SetThisenv, At
<1>2. FitOf(e) BY DEF Suffices, Arms
<1>3. CASE Store(e, "DATA") /\ Goto(e, "user") /\ UNCHANGED program
  <2>1. /\ \A f \in Envs \ {e} : usr'[f] = usr[f]
        /\ usr'[e].pc = "user" /\ usr'[e].step = usr[e].step
        /\ usr'[e].handler = usr[e].handler
    BY <1>3, Went, Counters DEF Suffices, FInv
  <2>2. Fit(program.fork, usr'[e], env[e], mem.pte[e])
    BY <1>1, <1>2, <2>1 DEF FitOf, Fit, Forking, Building, AtPage, Copying, ForkOnly
  <2> QED BY <1>1, <1>3, <2>1, <2>2, StoreArms
<1>4. CASE tlb[e]["DATA"].perm # "rw" /\ PageFault(e, "DATA")
  <2>1. program' = program /\ env[e].status = "RUNNING" BY <1>4 DEF PageFault
  <2>2. usr[e].pc \in Forking BY <1>1 DEF Forking
  <2> QED BY <1>1, <1>4, <2>1, <2>2, DataIs, FaultsArmed, PageFaultArms
<1> QED BY <1>3, <1>4 DEF SetThisenv

-----------------------------------------------------------------------------
(* pgfault *)

(* A step of pgfault that exchanges a page of its environment. *)
LEMMA HandlerArms ==
  ASSUME Suffices, NEW e \in Envs, NEW va \in Vas, e \in Running,
         Fine(mem, mem', e), env' = env, program' = program,
         \A f \in Envs \ {e} : usr'[f] = usr[f],
         SamePlace(usr[e], usr'[e]), usr'[e].child = usr[e].child,
         Replaces(program.fork, usr[e], env[e], mem.pte[e], mem'.pte[e], va),
         mem'.pte[e]["TEMP"] # Unmapped =>
           usr'[e].step \in {"copy", "map", "unmap"} \/ usr'[e].pc \in {"copy", "copy_unmap"}
  PROVE  Arms'
<1>1. FitOf(e) /\ ChildFit(e) BY DEF Suffices, Arms
<1>2. SameLife(env[e], env'[e]) /\ env'[e].status # "FREE" BY DEF SameLife, Running
<1>3. usr[e].pc \in AtPage => VaOrder[usr[e].at] \in Vas
  BY PageOfLoop DEF Suffices, FInv, Va
<1>4. FitOf(e)' BY <1>1, <1>2, <1>3, FitRemapped DEF FitOf
<1>5. ChildFit(e)'
  <2>1. BuildsUndisturbed(e)
    <3>1. \A c \in Envs : Blocked(env, c) => c # e BY DEF Blocked, Running
    <3> QED BY <3>1 DEF BuildsUndisturbed, Undisturbed, SamePlace, Fine
  <2> QED BY <1>1, <2>1, ChildStaysFit DEF Suffices, FInv
<1> QED BY <1>4, <1>5, AloneArms DEF Suffices, FInv

LEMMA PgfaultAllocArms ==
  ASSUME Suffices, ~mem'.exhausted, NEW e \in Envs, PgfaultAlloc(e)
  PROVE  Arms'
<1>1. /\ Fine(mem, mem', e) /\ OthersKept(mem, mem', e, "TEMP")
      /\ usr'[e].step = "copy" => mem'.pte[e]["TEMP"].perm = "rw"
      /\ usr'[e].step # "copy" => mem'.exhausted = TRUE
  BY PgfaultAllocKeeps DEF Suffices, FInv
<1>2. env' = env /\ program' = program /\ env[e].status = "RUNNING" /\ usr'[e].step = "copy"
  BY <1>1 DEF PgfaultAlloc, Handles, InHandler
<1>3. usr' = [usr EXCEPT ![e].step = "copy"]
  <2>1. usr' = [usr EXCEPT ![e].pc = "panic", ![e].fault = "none", ![e].step = "none"]
          => usr'[e].step = "none"
    BY DEF Suffices, FInv, IInv, Typed, UsrTypes
  <2> QED BY <1>2, <2>1 DEF PgfaultAlloc, Handles
<1>4. /\ \A f \in Envs \ {e} : usr'[f] = usr[f]
      /\ SamePlace(usr[e], usr'[e]) /\ usr'[e].child = usr[e].child
  BY <1>3 DEF Suffices, FInv, IInv, Typed, UsrTypes, SamePlace
<1>5. Replaces(program.fork, usr[e], env[e], mem.pte[e], mem'.pte[e], "TEMP")
  BY <1>1, <1>2 DEF Replaces, OthersKept
<1> QED BY <1>1, <1>2, <1>4, <1>5, DataIs, HandlerArms DEF Running

LEMMA PgfaultCopyArms ==
  ASSUME Suffices, NEW e \in Envs, PgfaultCopy(e)
  PROVE  Arms'
<1>1. mem'.pte = mem.pte BY PgfaultCopyKeeps DEF Suffices, FInv
<1>2. /\ e \in Running /\ env' = env /\ program' = program /\ usr[e].step = "copy"
      /\ usr' = [usr EXCEPT ![e].step = "map"]
  BY DEF PgfaultCopy
<1>3. /\ \A f \in Envs \ {e} : usr'[f] = usr[f]
      /\ SamePlace(usr[e], usr'[e]) /\ usr'[e].child = usr[e].child /\ usr'[e].step = "map"
  BY <1>2 DEF Suffices, FInv, IInv, Typed, UsrTypes, SamePlace
<1>4. \E f : mem' = [mem EXCEPT !.data = f]
  BY DEF PgfaultCopy, Suffices, FInv, IInv, Counted, Sound, Fields
<1>5. Fine(mem, mem', e) BY <1>4, ContentsOnly, Addresses DEF Suffices, FInv, IInv, Counted
<1>6. mem.pte[e]["TEMP"].perm = "rw" BY <1>2 DEF Suffices, FInv, Faults, FaultOf
<1>7. Replaces(program.fork, usr[e], env[e], mem.pte[e], mem'.pte[e], "TEMP")
  BY <1>1, <1>6 DEF Replaces
<1> QED BY <1>2, <1>3, <1>5, <1>7, DataIs, HandlerArms

LEMMA PgfaultMapArms ==
  ASSUME Suffices, NEW e \in Envs, PgfaultMap(e)
  PROVE  Arms'
<1>1. /\ Fine(mem, mem', e) /\ OthersKept(mem, mem', e, usr[e].fault)
      /\ usr[e].fault \in Vas
      /\ mem.pte[e]["TEMP"].perm = "rw" /\ mem.table[e][PDX(usr[e].fault)] # NULL
           => mem'.pte[e][usr[e].fault].perm = "rw"
  BY PgfaultMapKeeps DEF Suffices, FInv
<1>2. /\ env' = env /\ program' = program /\ env[e].status = "RUNNING" /\ usr[e].step = "map"
      /\ usr' = [usr EXCEPT ![e].step = "unmap"]
  BY DEF PgfaultMap, Handles, InHandler
<1>3. /\ \A f \in Envs \ {e} : usr'[f] = usr[f]
      /\ SamePlace(usr[e], usr'[e]) /\ usr'[e].child = usr[e].child /\ usr'[e].step = "unmap"
  BY <1>2 DEF Suffices, FInv, IInv, Typed, UsrTypes, SamePlace
<1>4. mem'.pte[e][usr[e].fault].perm = "rw"
  BY <1>1, <1>2 DEF Suffices, FInv, Faults, FaultOf
<1>5. mem'.pte[e][usr[e].fault] # Unmapped BY <1>4 DEF Unmapped, Pte
<1>6. Replaces(program.fork, usr[e], env[e], mem.pte[e], mem'.pte[e], usr[e].fault)
  BY <1>1, <1>4, <1>5 DEF Replaces, OthersKept
<1> QED BY <1>1, <1>2, <1>3, <1>6, HandlerArms DEF Running

LEMMA PgfaultUnmapArms ==
  ASSUME Suffices, NEW e \in Envs, PgfaultUnmap(e)
  PROVE  Arms'
<1>1. /\ Fine(mem, mem', e) /\ OthersKept(mem, mem', e, "TEMP")
      /\ mem'.pte[e]["TEMP"] = Unmapped
  BY PgfaultUnmapKeeps DEF Suffices, FInv
<1>2. /\ env' = env /\ program' = program /\ env[e].status = "RUNNING"
      /\ usr' = [usr EXCEPT ![e].step = "none", ![e].fault = "none"]
  BY DEF PgfaultUnmap, InHandler
<1>3. /\ \A f \in Envs \ {e} : usr'[f] = usr[f]
      /\ SamePlace(usr[e], usr'[e]) /\ usr'[e].child = usr[e].child
  BY <1>2 DEF Suffices, FInv, IInv, Typed, UsrTypes, SamePlace
<1>4. Replaces(program.fork, usr[e], env[e], mem.pte[e], mem'.pte[e], "TEMP")
  BY <1>1 DEF Replaces, OthersKept, Unmapped, Pte
<1> QED BY <1>1, <1>2, <1>3, <1>4, DataIs, HandlerArms DEF Running

-----------------------------------------------------------------------------
(* The two forks *)

(* A system call that the library makes at its own place: the environment  *)
(* goes on at pc, and the mappings of e or of the child it builds change.  *)
LEMMA CallArms ==
  ASSUME Suffices, NEW e \in Envs, NEW x \in Envs, NEW pc \in Counter,
         e \in Running, x = e \/ env[x].parent = e \/ env[x].recving,
         Fine(mem, mem', x), env' = env, program' = program, Goto(e, pc),
         FitOf(x)', FitOf(e)', ChildFit(e)'
  PROVE  Arms'
<1>1. \A f \in Envs \ {e} : usr'[f] = usr[f] BY Went DEF Suffices, FInv
<1> QED BY <1>1, AloneArms DEF Suffices, FInv

LEMMA ForkArms ==
  ASSUME Suffices, NEW e \in Envs, Fork(e)
  PROVE  Arms'
<1>1. /\ mem' = mem /\ env' = env /\ program'.fork = program.fork /\ Goto(e, ForkTo(e))
  BY ForkKeeps DEF Suffices, FInv
<1>2. ForkTo(e) \in {"exofork", "save", "handler"} BY DEF ForkTo
<1>3. ForkTo(e) \in Counter BY <1>2, Counters
<1>4. /\ \A f \in Envs \ {e} : usr'[f] = usr[f]
      /\ usr'[e].pc = ForkTo(e) /\ usr'[e].step = usr[e].step
      /\ usr'[e].handler = usr[e].handler
  BY <1>1, <1>3, Went DEF Suffices, FInv
<1>5. e \in Running /\ usr[e].pc = "user" BY DEF Fork, Calls, At, Running
<1>6. FitOf(e) BY DEF Suffices, Arms
<1>7. program.fork \in {"fork", "fork_v0"} BY DEF Suffices, FInv, IInv, Typed, ProgramTypes
<1>8. FitOf(e)'
  <2>1. CASE program.fork = "fork_v0"
    <3>0. ~usr[e].handler BY <1>6, <2>1 DEF FitOf, Fit
    <3>1. usr'[e].pc = "exofork" BY <1>4, <2>1, <3>0 DEF ForkTo
    <3> QED BY <1>1, <1>4, <1>5, <1>6, <2>1, <3>1 DEF FitOf, Fit, AtPage, ForkOnly
  <2>2. CASE program.fork = "fork" /\ usr[e].handler
    <3>1. usr'[e].pc = "save" BY <1>4, <2>2 DEF ForkTo
    <3> QED BY <1>1, <1>4, <1>5, <1>6, <2>2, <3>1 DEF FitOf, Fit, AtPage, Copying
  <2>3. CASE program.fork = "fork" /\ ~usr[e].handler
    <3>1. usr'[e].pc = "handler" BY <1>4, <2>3 DEF ForkTo
    <3> QED BY <1>1, <1>4, <1>5, <1>6, <2>3, <3>1
          DEF FitOf, Fit, AtPage, Copying, Forking, Building
  <2> QED BY <1>7, <2>1, <2>2, <2>3
<1>9. ChildFit(e)' BY <1>2, <1>4 DEF ChildFit
<1>10. Fine(mem, mem', e) BY <1>1, SameMemory DEF Suffices, FInv, IInv, Counted
<1> QED BY <1>1, <1>4, <1>5, <1>8, <1>9, <1>10, AloneArms DEF Suffices, FInv

LEMMA SetPgfaultHandlerArms ==
  ASSUME Suffices, ~mem'.exhausted, NEW e \in Envs, SetPgfaultHandler(e)
  PROVE  Arms'
<1>1. /\ Fine(mem, mem', e) /\ OthersKept(mem, mem', e, "XSTACK")
      /\ \/ /\ \E p \in Pages : mem'.pte[e]["XSTACK"] = Pte(p, "rw")
            /\ Goto(e, "upcall")
         \/ mem'.exhausted = TRUE
  BY SetPgfaultHandlerKeeps DEF Suffices, FInv
<1>2. /\ e \in Running /\ usr[e].pc = "handler" /\ env' = env /\ program' = program
      /\ env[e].status = "RUNNING"
  BY DEF SetPgfaultHandler, Calls, At, Running
<1>3. mem'.pte[e]["XSTACK"].perm = "rw" /\ Goto(e, "upcall")
  <2>1. PICK p \in Pages : mem'.pte[e]["XSTACK"] = Pte(p, "rw") BY <1>1
  <2> QED BY <1>1, <2>1 DEF Pte
<1>4. /\ usr'[e].pc = "upcall" /\ usr'[e].step = usr[e].step
      /\ usr'[e].handler = usr[e].handler
  BY <1>3, Went, Counters DEF Suffices, FInv
<1>5. FitOf(e) BY DEF Suffices, Arms
<1>6. program.fork = "fork" BY <1>2, <1>5 DEF FitOf, Fit, ForkOnly
<1>7. /\ mem'.pte[e]["TEMP"] = mem.pte[e]["TEMP"]
      /\ HasCow(mem'.pte[e]) => HasCow(mem.pte[e])
  BY <1>1, <1>3, DataIs DEF OthersKept, HasCow
<1>8. FitOf(e)'
  BY <1>2, <1>3, <1>4, <1>5, <1>6, <1>7
     DEF FitOf, Fit, AtPage, Copying, Forking, Building, Armed
<1>9. ChildFit(e)' BY <1>4 DEF ChildFit
<1> QED BY <1>1, <1>2, <1>3, <1>8, <1>9, Counters, CallArms

LEMMA SetPgfaultUpcallArms ==
  ASSUME Suffices, NEW e \in Envs, SetPgfaultUpcall(e)
  PROVE  Arms'
<1>1. /\ mem' = mem /\ env'[e] = [env[e] EXCEPT !.upcall = TRUE]
      /\ \A f \in Envs \ {e} : env'[f] = env[f]
      /\ Goto(e, "save")
  BY SetPgfaultUpcallKeeps DEF Suffices, FInv
<1>2. /\ env[e].status = "RUNNING" /\ usr[e].pc = "upcall" /\ program' = program
  BY DEF SetPgfaultUpcall, Calls, At
<1>3. /\ \A f \in Envs \ {e} : usr'[f] = usr[f]
      /\ usr'[e].pc = "save" /\ usr'[e].step = usr[e].step
  BY <1>1, Went, Counters DEF Suffices, FInv
<1>4. /\ env'[e].upcall = TRUE /\ env'[e].status = env[e].status
      /\ env'[e].recving = env[e].recving /\ env'[e].parent = env[e].parent
  BY <1>1 DEF Suffices, FInv, IInv, Typed, EnvTypes
<1>5. FitOf(e) BY DEF Suffices, Arms
<1>6. program.fork = "fork" /\ mem.pte[e]["XSTACK"].perm = "rw"
  BY <1>2, <1>5 DEF FitOf, Fit, ForkOnly
<1>7. FitOf(e)'
  BY <1>1, <1>2, <1>3, <1>4, <1>5, <1>6 DEF FitOf, Fit, AtPage, Copying, Armed
<1>8. ChildFit(e)' BY <1>3 DEF ChildFit
<1>9. ASSUME NEW f \in Envs \ {e} PROVE FitOf(f)' /\ BuildsUndisturbed(f)
  <2>1. FitOf(f) BY DEF Suffices, Arms
  <2>2. FitOf(f)' BY <1>1, <1>2, <1>3, <2>1 DEF FitOf
  <2>3. \A c \in Envs : Blocked(env, c) => c # e BY <1>2 DEF Blocked
  <2>4. BuildsUndisturbed(f) BY <1>1, <1>3, <2>3 DEF BuildsUndisturbed, Undisturbed
  <2> QED BY <2>2, <2>4
<1> QED BY <1>2, <1>7, <1>8, <1>9, ArmsGoOn DEF Suffices, FInv

(* The child is born with no mappings. *)
LEMMA ExoforkArms ==
  ASSUME Suffices, ~mem'.exhausted, NEW e \in Envs, Exofork(e)
  PROVE  Arms'
<1>1. \/ mem'.exhausted = TRUE
      \/ \E d \in Envs \ {e} :
           /\ env[d].status = "FREE" /\ mem'.pte = mem.pte
           /\ env' = [env EXCEPT ![d] = [NoEnvAt EXCEPT !.status = "NOT_RUNNABLE",
                                                        !.parent = e]]
           /\ usr' = [usr EXCEPT ![d] = Start("child"), ![e].pc = "dup",
                                 ![e].child = d, ![e].at = 1]
  BY ExoforkKeeps DEF Suffices, FInv
<1>2. PICK d \in Envs \ {e} :
        /\ env[d].status = "FREE" /\ mem'.pte = mem.pte
        /\ env' = [env EXCEPT ![d] = [NoEnvAt EXCEPT !.status = "NOT_RUNNABLE",
                                                     !.parent = e]]
        /\ usr' = [usr EXCEPT ![d] = Start("child"), ![e].pc = "dup",
                              ![e].child = d, ![e].at = 1]
  BY <1>1
<1>3. /\ usr[e].fault = "none" /\ usr[e].pc = "exofork" /\ env[e].status = "RUNNING"
      /\ program' = program
  BY DEF Exofork, Calls, At, Panics
<1>4. /\ env'[d].status = "NOT_RUNNABLE" /\ env'[d].recving = FALSE
      /\ \A f \in Envs \ {d} : env'[f] = env[f]
  BY <1>2 DEF Suffices, FInv, IInv, Typed, EnvTypes, NoEnvAt
<1> DEFINE k == [usr EXCEPT ![d] = Start("child")]
<1>5. /\ DOMAIN k = Envs /\ k[d] = Start("child") /\ \A f \in Envs \ {d} : k[f] = usr[f]
  BY DEF Suffices, FInv, IInv, Typed, UsrTypes
<1>6. usr' = [k EXCEPT ![e].pc = "dup", ![e].child = d, ![e].at = 1] BY <1>2
<1> HIDE DEF k
<1>7. usr[e] \in [pc : Counter, handler : BOOLEAN, child : Envs \cup {NoEnv}, at : 1 .. 6,
                  perm : Perms, fault : Vas \cup {"none"}, step : Steps]
  BY DEF Suffices, FInv, IInv, Typed, UsrTypes
<1>8. usr'[d] = Start("child") /\ \A f \in Envs \ {d, e} : usr'[f] = usr[f]
  BY <1>5, <1>6
<1>9. /\ usr'[e].pc = "dup" /\ usr'[e].handler = usr[e].handler /\ usr'[e].step = usr[e].step
  BY <1>5, <1>6, <1>7
<1>10. FitOf(e) /\ FitOf(d) BY DEF Suffices, Arms
<1>11. usr[e].step = "none" BY <1>3 DEF Suffices, FInv, Faults, FaultOf
<1>12. FitOf(e)'
  <2>1. env'[e] = env[e] /\ mem'.pte[e] = mem.pte[e] BY <1>2, <1>4
  <2>2. mem.pte[e]["TEMP"] = Unmapped BY <1>3, <1>10, <1>11 DEF FitOf, Fit
  <2>3. "exofork" \in Forking /\ "dup" \notin AtPage \cup Copying \cup ForkOnly
    BY DEF Forking, AtPage, Copying, ForkOnly
  <2> QED BY <1>3, <1>9, <1>10, <2>1, <2>2, <2>3 DEF FitOf, Fit
<1>13. FitOf(d)'
  <2>1. \A v \in Vas : mem'.pte[d][v] = Unmapped BY <1>2, <1>10 DEF FitOf, Fit
  <2>2. ~HasCow(mem'.pte[d]) BY <2>1 DEF HasCow, Unmapped, Pte
  <2>3. ~Lives(env'[d]) BY <1>4 DEF Lives
  <2>4. usr'[d].pc = "child" /\ usr'[d].handler = FALSE BY <1>8 DEF Start
  <2> QED BY <1>4, <2>1, <2>2, <2>3, <2>4, DataIs
        DEF FitOf, Fit, AtPage, Copying, ForkOnly
<1>14. ChildFit(e)' BY <1>9 DEF ChildFit
<1>15. ASSUME NEW f \in Envs \ {e} PROVE FitOf(f)' /\ BuildsUndisturbed(f)
  <2>1. CASE f = d
    <3>1. usr'[d].pc = "child" BY <1>8 DEF Start
    <3> QED BY <1>13, <2>1, <3>1 DEF BuildsUndisturbed
  <2>2. CASE f # d
    <3>1. FitOf(f) BY DEF Suffices, Arms
    <3>2. FitOf(f)' BY <1>2, <1>3, <1>4, <1>8, <2>2, <3>1 DEF FitOf
    <3>3. \A c \in Envs : Blocked(env, c) => c # d BY <1>2 DEF Blocked
    <3>4. BuildsUndisturbed(f)
      BY <1>2, <1>4, <1>8, <2>2, <3>3 DEF BuildsUndisturbed, Undisturbed
    <3> QED BY <3>2, <3>4
  <2> QED BY <2>1, <2>2
<1> QED BY <1>3, <1>12, <1>14, <1>15, ArmsGoOn DEF Suffices, FInv

(* The loop finds pages that are mapped, none of them temporary. *)
LEMMA DupArms ==
  ASSUME Suffices, NEW e \in Envs, Dup(e)
  PROVE  Arms'
<1>1. /\ mem' = mem /\ env' = env /\ program' = program
      /\ \A f \in Envs \ {e} : usr'[f] = usr[f]
      /\ usr'[e].child = usr[e].child /\ usr'[e].step = usr[e].step
      /\ usr'[e].handler = usr[e].handler
      /\ \/ usr'[e].pc = IF program.fork = "fork" THEN "xstack" ELSE "status"
         \/ /\ usr'[e].at \in NextPage(e, usr[e].at)
            /\ usr'[e].perm = mem.pte[e][VaOrder[usr'[e].at]].perm
            /\ usr'[e].pc = IF program.fork = "fork" \/ usr'[e].perm # "rw"
                            THEN "dup_child" ELSE "copy_alloc"
  BY DupKeeps DEF Suffices, FInv
<1>2. usr[e].fault = "none" /\ usr[e].pc = "dup" /\ e \in Running BY DEF Dup, At
<1>3. FitOf(e) BY DEF Suffices, Arms
<1>4. usr[e].step = "none" BY <1>2 DEF Suffices, FInv, Faults, FaultOf
<1>5. mem.pte[e]["TEMP"] = Unmapped BY <1>2, <1>3, <1>4 DEF FitOf, Fit
<1>6. /\ {"dup", "xstack", "status", "dup_child", "copy_alloc"} \subseteq Forking
      /\ "xstack" \notin AtPage \cup Copying /\ "status" \notin AtPage \cup Copying \cup ForkOnly
      /\ "dup_child" \notin Copying \cup ForkOnly /\ "copy_alloc" \notin ForkOnly
      /\ "copy_alloc" # "dup_child" /\ "xstack" # "dup_child" /\ "status" # "dup_child"
  BY DEF Forking, Building, AtPage, Copying, ForkOnly
<1>7. usr[e].child \in Envs /\ env[usr[e].child].parent = e
  BY <1>2, ChildOfBuilder, Counters DEF Suffices, FInv
<1>8. CASE usr'[e].pc = IF program.fork = "fork" THEN "xstack" ELSE "status"
  <2>1. FitOf(e)' BY <1>1, <1>2, <1>3, <1>5, <1>6, <1>8 DEF FitOf, Fit
  <2>2. ChildFit(e)' BY <1>1, <1>7, <1>8 DEF ChildFit
  <2>3. Fine(mem, mem', e) BY <1>1, SameMemory DEF Suffices, FInv, IInv, Counted
  <2> QED BY <1>1, <1>2, <2>1, <2>2, <2>3, AloneArms DEF Suffices, FInv
<1>9. CASE /\ usr'[e].at \in NextPage(e, usr[e].at)
           /\ usr'[e].perm = mem.pte[e][VaOrder[usr'[e].at]].perm
           /\ usr'[e].pc = IF program.fork = "fork" \/ usr'[e].perm # "rw"
                           THEN "dup_child" ELSE "copy_alloc"
  <2> DEFINE va == VaOrder[usr'[e].at]
  <2>1. /\ mem.pte[e][va] # Unmapped /\ va # "TEMP"
        /\ program.fork = "fork" => va # "XSTACK"
    BY <1>5, <1>9 DEF NextPage
  <2>2. va \in Vas
    <3>1. Len(VaOrder) = 5 BY DEF VaOrder
    <3>2. usr'[e].at \in 1 .. Len(VaOrder)
      BY <1>9, <3>1 DEF NextPage, Suffices, FInv, IInv, Typed, UsrTypes
    <3> QED BY <3>2 DEF Vas
  <2>3. program.fork # "fork" => usr'[e].perm # "cow" BY <1>3, <1>9, <2>2 DEF FitOf, Fit, HasCow
  <2>4. program.fork # "fork" /\ usr'[e].perm # "rw" => va # "DATA"
    BY <1>3, <1>9, <2>1 DEF FitOf, Fit
  <2>5. FitOf(e)'
    BY <1>1, <1>2, <1>3, <1>5, <1>6, <1>9, <2>1, <2>3, <2>4 DEF FitOf, Fit
  <2>6. ChildFit(e)' BY <1>1, <1>9 DEF ChildFit
  <2>7. Fine(mem, mem', e) BY <1>1, SameMemory DEF Suffices, FInv, IInv, Counted
  <2> QED BY <1>1, <1>2, <2>5, <2>6, <2>7, AloneArms DEF Suffices, FInv
<1> QED BY <1>1, <1>8, <1>9

(* A page the child d that e builds may be given. *)
LEMMA ChildGiven ==
  ASSUME Suffices, NEW e \in Envs, usr[e].pc \in Building, NEW d, d = usr[e].child,
         NEW va \in Vas, va # "TEMP",
         env' = env, program' = program, usr'[d] = usr[d],
         OthersKept(mem, mem', d, va), mem'.pte[d][va] # Unmapped,
         mem'.pte[d][va].perm = "cow" => program.fork = "fork",
         va = "XSTACK" /\ program.fork = "fork" => mem'.pte[d][va].perm = "rw",
         va = "DATA" /\ program.fork # "fork" => mem'.pte[d][va].perm = "rw"
  PROVE  FitOf(d)'
<1>1. /\ d \in Envs \ {e} /\ env[d].parent = e
      /\ env[d].status = "NOT_RUNNABLE" /\ ~env[d].recving
  BY ChildOfBuilder DEF Suffices, FInv
<1>2. ~Lives(env[d]) BY <1>1 DEF Lives
<1>3. Replaces(program.fork, usr[d], env[d], mem.pte[d], mem'.pte[d], va)
  BY <1>2 DEF Replaces, OthersKept
<1>4. FitOf(d) BY <1>1 DEF Suffices, Arms
<1>5. mem'.pte[d]["TEMP"] = mem.pte[d]["TEMP"] BY DataIs DEF OthersKept
<1>6. usr[d].pc \in AtPage => VaOrder[usr[d].at] \in Vas
  BY <1>1, PageOfLoop DEF Suffices, FInv, Va
<1>7. SamePlace(usr[d], usr'[d]) /\ SameLife(env[d], env'[d]) /\ env'[d].status # "FREE"
  BY <1>1 DEF SamePlace, SameLife
<1>8. mem'.pte[d]["TEMP"] # Unmapped =>
        usr'[d].step \in {"copy", "map", "unmap"} \/ usr'[d].pc \in {"copy", "copy_unmap"}
  BY <1>4, <1>5 DEF FitOf, Fit
<1> QED BY <1>3, <1>4, <1>6, <1>7, <1>8, FitRemapped DEF FitOf

(* The loop goes on: nothing is required of its start but what was before. *)
LEMMA AdvancedFit ==
  ASSUME Suffices, NEW e \in Envs, usr[e].pc \in AtPage, Advance(e), env' = env,
         program' = program, env[e].status = "RUNNING",
         mem'.pte[e]["TEMP"] = Unmapped \/ (mem'.pte[e] = mem.pte[e] /\ usr[e].pc = "dup_child"),
         \A v \in Vas \ {"TEMP"} : mem'.pte[e][v] = mem.pte[e][v]
  PROVE  FitOf(e)' /\ ChildFit(e)'
<1>1. /\ usr'[e].pc = "dup" /\ usr'[e].handler = usr[e].handler
      /\ usr'[e].step = usr[e].step
  BY Advanced DEF Suffices, FInv
<1>2. FitOf(e) BY DEF Suffices, Arms
<1>3. HasCow(mem'.pte[e]) => HasCow(mem.pte[e])
  BY DEF HasCow, Unmapped, Pte
<1>4. /\ mem'.pte[e]["XSTACK"] = mem.pte[e]["XSTACK"]
      /\ mem'.pte[e]["DATA"] = mem.pte[e]["DATA"]
  BY DataIs
<1>5. "dup" \notin AtPage \cup Copying \cup ForkOnly /\ AtPage \subseteq Forking
  BY DEF Forking, Building, AtPage, Copying, ForkOnly
<1>6. FitOf(e)' BY <1>1, <1>2, <1>3, <1>4, <1>5 DEF FitOf, Fit, Armed
<1>7. ChildFit(e)' BY <1>1 DEF ChildFit
<1> QED BY <1>6, <1>7

LEMMA BuilderAndChild ==
  ASSUME Suffices, NEW e \in Envs, usr[e].pc \in Building
  PROVE  \E d \in Envs \ {e} : d = usr[e].child /\ env[d].parent = e
BY ChildOfBuilder DEF Suffices, FInv

(* The page the child gets has a permission that does it no harm. *)
LEMMA DupChildArms ==
  ASSUME Suffices, ~mem'.exhausted, NEW e \in Envs, DupChild(e)
  PROVE  Arms'
<1>1. /\ env[e].status = "RUNNING" /\ e \in Running /\ usr[e].pc = "dup_child"
      /\ env' = env /\ program' = program
  BY DEF DupChild, Calls, At, Panics, Running
<1>2. usr[e].pc \in AtPage /\ usr[e].pc \in Building BY <1>1, Counters DEF AtPage
<1>3. PICK d \in Envs \ {e} : d = usr[e].child /\ env[d].parent = e
  BY <1>2, BuilderAndChild
<1>4. PICK va \in Vas : va = Va(e) BY <1>2, PageOfLoop DEF Suffices, FInv
<1>5. PICK perm : perm = Shared(usr[e].perm) OBVIOUS
<1>6. /\ Fine(mem, mem', d) /\ OthersKept(mem, mem', d, va)
      /\ Mapped(mem, mem', e, va, d, va, perm)
      /\ \/ ~EnvPageMapOK(mem, e, va, d, va, perm)
         \/ /\ EnvPageMapOK(mem, e, va, d, va, perm)
            /\ perm = "cow" /\ Goto(e, "dup_own")
         \/ /\ EnvPageMapOK(mem, e, va, d, va, perm)
            /\ perm # "cow" /\ Advance(e)
  BY <1>3, <1>4, <1>5, DupChildKeeps DEF Suffices, FInv
<1>7. FitOf(e) BY DEF Suffices, Arms
<1>8. /\ mem.pte[e][va] # Unmapped /\ va # "TEMP"
      /\ program.fork = "fork" => va # "XSTACK"
      /\ program.fork # "fork" => usr[e].perm \notin {"rw", "cow"} /\ va # "DATA"
  BY <1>1, <1>2, <1>4, <1>7 DEF FitOf, Fit, Va
<1>9. perm \in {"cow", "ro"} /\ (perm = "cow" => program.fork = "fork")
  BY <1>5, <1>8 DEF Shared
<1>10. EnvPageMapOK(mem, e, va, d, va, perm) BY <1>6, <1>8, <1>9 DEF Mapped
<1>11. mem.pte[e][va].page \in Pages
  BY <1>8, PteKinds DEF Suffices, FInv, IInv, Counted, Sound
<1>12. mem'.pte[d][va] = Pte(mem.pte[e][va].page, perm) BY <1>6, <1>10 DEF Mapped
<1>13. perm \in Perms BY <1>9 DEF Perms
<1>14. mem'.pte[d][va] # Unmapped /\ mem'.pte[d][va].perm = perm
  BY <1>11, <1>12, <1>13, PteKinds
<1>15. "dup_own" \in Counter BY DEF Counter, Building, AtPage
<1>16. \A f \in Envs \ {e} : usr'[f] = usr[f]
  BY <1>2, <1>6, <1>10, <1>15, Went, Advanced DEF Suffices, FInv
<1>17. FitOf(d)'
  BY <1>1, <1>2, <1>3, <1>6, <1>8, <1>9, <1>14, <1>16, ChildGiven
<1>18. mem'.pte[e] = mem.pte[e] BY <1>3, <1>6 DEF Fine
<1>19. FitOf(e)' /\ ChildFit(e)'
  <2>1. CASE perm = "cow" /\ Goto(e, "dup_own")
    <3>1. /\ usr'[e].pc = "dup_own" /\ usr'[e].at = usr[e].at /\ usr'[e].step = usr[e].step
          /\ usr'[e].handler = usr[e].handler
      BY <1>15, <2>1, Went DEF Suffices, FInv
    <3>2. program.fork = "fork" BY <1>9, <2>1
    <3>3. "dup_own" \in Forking /\ "dup_own" \notin Copying /\ "dup_child" \in Forking
      BY DEF Forking, Building, AtPage, Copying
    <3>4. FitOf(e)'
      BY <1>1, <1>2, <1>7, <1>18, <3>1, <3>2, <3>3 DEF FitOf, Fit
    <3> QED BY <3>1, <3>4 DEF ChildFit
  <2>2. CASE Advance(e)
    BY <1>1, <1>2, <1>18, <2>2, AdvancedFit
  <2> QED BY <1>6, <1>10, <2>1, <2>2
<1> QED BY <1>1, <1>3, <1>6, <1>16, <1>17, <1>19, AloneArms DEF Suffices, FInv

LEMMA DupOwnArms ==
  ASSUME Suffices, NEW e \in Envs, DupOwn(e)
  PROVE  Arms'
<1>1. /\ env[e].status = "RUNNING" /\ e \in Running /\ usr[e].pc = "dup_own"
      /\ env' = env /\ program' = program
  BY DEF DupOwn, Calls, At, Running
<1>2. usr[e].pc \in AtPage /\ usr[e].pc \in Building BY <1>1, Counters DEF AtPage
<1>3. PICK va \in Vas : va = Va(e) BY <1>2, PageOfLoop DEF Suffices, FInv
<1>4. /\ Fine(mem, mem', e) /\ OthersKept(mem, mem', e, va)
      /\ Mapped(mem, mem', e, va, e, va, "cow") /\ Advance(e)
  BY <1>3, DupOwnKeeps DEF Suffices, FInv
<1>5. /\ usr'[e].pc = "dup" /\ usr'[e].handler = usr[e].handler
      /\ usr'[e].step = usr[e].step
      /\ \A f \in Envs \ {e} : usr'[f] = usr[f]
  BY <1>2, <1>4, Advanced DEF Suffices, FInv
<1>6. FitOf(e) /\ Lives(env[e]) BY <1>1 DEF Suffices, Arms, Lives
<1>7. program.fork = "fork" BY <1>1, <1>6 DEF FitOf, Fit, ForkOnly
<1>8. va # "TEMP" /\ va # "XSTACK" BY <1>2, <1>3, <1>6, <1>7 DEF FitOf, Fit, Va
<1>9. Armed(env[e], mem.pte[e]) BY <1>2, <1>6, <1>7 DEF FitOf, Fit, Forking
<1>10. /\ mem'.pte[e]["XSTACK"] = mem.pte[e]["XSTACK"]
       /\ mem'.pte[e]["TEMP"] = mem.pte[e]["TEMP"]
  BY <1>4, <1>8, DataIs DEF OthersKept
<1>11. Armed(env[e], mem'.pte[e]) BY <1>9, <1>10 DEF Armed
<1>12. "dup" \notin AtPage \cup Copying BY DEF AtPage, Copying
<1>13. FitOf(e)'
  BY <1>1, <1>5, <1>6, <1>7, <1>10, <1>11, <1>12 DEF FitOf, Fit
<1>14. ChildFit(e)' BY <1>5 DEF ChildFit
<1> QED BY <1>1, <1>4, <1>5, <1>13, <1>14, AloneArms DEF Suffices, FInv

(* The child has an exception stack of its own. *)
LEMMA ChildXstackArms ==
  ASSUME Suffices, ~mem'.exhausted, NEW e \in Envs, ChildXstack(e)
  PROVE  Arms'
<1>1. /\ env[e].status = "RUNNING" /\ e \in Running /\ usr[e].pc = "xstack"
      /\ env' = env /\ program' = program
  BY DEF ChildXstack, Calls, At, Running
<1>2. usr[e].pc \in Building BY <1>1, Counters
<1>3. PICK d \in Envs \ {e} : d = usr[e].child /\ env[d].parent = e
  BY <1>2, BuilderAndChild
<1>4. /\ Fine(mem, mem', d) /\ OthersKept(mem, mem', d, "XSTACK")
      /\ \/ /\ \E p \in Pages : mem'.pte[d]["XSTACK"] = Pte(p, "rw")
            /\ Goto(e, "child_upcall")
         \/ mem'.exhausted = TRUE
  BY <1>3, ChildXstackKeeps DEF Suffices, FInv
<1>5. /\ mem'.pte[d]["XSTACK"].perm = "rw" /\ mem'.pte[d]["XSTACK"] # Unmapped
      /\ Goto(e, "child_upcall")
  <2>1. PICK p \in Pages : mem'.pte[d]["XSTACK"] = Pte(p, "rw") BY <1>4
  <2>2. "rw" \in Perms BY DEF Perms
  <2> QED BY <1>4, <2>1, <2>2, PteKinds
<1>6. /\ usr'[e].pc = "child_upcall" /\ usr'[e].child = d /\ usr'[e].step = usr[e].step
      /\ usr'[e].handler = usr[e].handler /\ \A f \in Envs \ {e} : usr'[f] = usr[f]
  BY <1>3, <1>5, Went, Counters DEF Suffices, FInv
<1>7. FitOf(d)' BY <1>1, <1>2, <1>3, <1>4, <1>5, <1>6, DataIs, ChildGiven
<1>8. FitOf(e) BY DEF Suffices, Arms
<1>9. mem'.pte[e] = mem.pte[e] BY <1>3, <1>4 DEF Fine
<1>10. "child_upcall" \notin AtPage \cup Copying BY DEF AtPage, Copying
<1>11. program.fork = "fork" BY <1>1, <1>8 DEF FitOf, Fit, ForkOnly
<1>12. FitOf(e)'
  BY <1>1, <1>2, <1>6, <1>8, <1>9, <1>10, <1>11 DEF FitOf, Fit, Forking
<1>13. ChildFit(e)' BY <1>5, <1>6 DEF ChildFit
<1> QED BY <1>1, <1>3, <1>4, <1>6, <1>7, <1>12, <1>13, AloneArms DEF Suffices, FInv

(* The parent has a handler to hand on, so that the child is armed. *)
LEMMA ChildUpcallArms ==
  ASSUME Suffices, NEW e \in Envs, ChildUpcall(e)
  PROVE  Arms'
<1>1. /\ env[e].status = "RUNNING" /\ e \in Running /\ usr[e].pc = "child_upcall"
      /\ program' = program
  BY DEF ChildUpcall, Calls, At, Running
<1>2. usr[e].pc \in Building BY <1>1, Counters
<1>3. PICK d \in Envs \ {e} : d = usr[e].child /\ env[d].parent = e
  BY <1>2, BuilderAndChild
<1>4. FitOf(e) /\ ChildFit(e) /\ Lives(env[e]) BY <1>1 DEF Suffices, Arms, Lives
<1>5. program.fork = "fork" BY <1>1, <1>4 DEF FitOf, Fit, ForkOnly
<1>6. Armed(env[e], mem.pte[e]) BY <1>2, <1>4, <1>5 DEF FitOf, Fit, Forking
<1>7. /\ mem' = mem /\ Goto(e, "status") /\ env' = [env EXCEPT ![d].upcall = TRUE]
  BY <1>3, <1>6, ChildUpcallKeeps DEF Suffices, FInv, Armed
<1>8. /\ env'[d].upcall = TRUE /\ env'[d].status = env[d].status
      /\ env'[d].parent = e /\ env'[d].recving = env[d].recving
      /\ \A f \in Envs \ {d} : env'[f] = env[f]
  BY <1>3, <1>7 DEF Suffices, FInv, IInv, Typed, EnvTypes
<1>9. /\ usr'[e].pc = "status" /\ usr'[e].child = d /\ usr'[e].step = usr[e].step
      /\ usr'[e].handler = usr[e].handler /\ \A f \in Envs \ {e} : usr'[f] = usr[f]
  BY <1>3, <1>7, Went, Counters DEF Suffices, FInv
<1>10. env[d].status = "NOT_RUNNABLE" /\ ~env[d].recving
  BY <1>2, <1>3, ChildOfBuilder DEF Suffices, FInv
<1>11. "status" \notin AtPage \cup Copying BY DEF AtPage, Copying
<1>12. FitOf(e)'
  BY <1>1, <1>4, <1>5, <1>6, <1>7, <1>8, <1>9, <1>11 DEF FitOf, Fit
<1>13. ChildFit(e)'
  <2>1. mem'.pte[d]["XSTACK"].perm = "rw" BY <1>1, <1>3, <1>4, <1>7 DEF ChildFit
  <2> QED BY <1>8, <1>9, <2>1 DEF ChildFit, Armed
<1>14. FitOf(d)'
  <2>1. FitOf(d) BY DEF Suffices, Arms
  <2>2. ~Lives(env'[d]) /\ env'[d].status # "FREE" BY <1>8, <1>10 DEF Lives
  <2>3. usr'[d] = usr[d] BY <1>9
  <2> QED BY <1>1, <1>7, <2>1, <2>2, <2>3 DEF FitOf, Fit
<1>15. ASSUME NEW f \in Envs \ {e} PROVE FitOf(f)' /\ BuildsUndisturbed(f)
  <2>1. FitOf(f)'
    <3>1. CASE f = d BY <1>14, <3>1
    <3>2. CASE f # d
      <4>1. FitOf(f) BY DEF Suffices, Arms
      <4> QED BY <1>1, <1>7, <1>8, <1>9, <3>2, <4>1 DEF FitOf
    <3> QED BY <3>1, <3>2
  <2>2. \A c \in Envs : env[c].parent = f => c # d BY <1>3
  <2>3. BuildsUndisturbed(f)
    BY <1>7, <1>8, <1>9, <2>2 DEF BuildsUndisturbed, Undisturbed
  <2> QED BY <2>1, <2>3
<1> QED BY <1>1, <1>12, <1>13, <1>15, ArmsGoOn DEF Suffices, FInv

(* fork_v0 gives the child a writable page of its own. *)
LEMMA CopyAllocArms ==
  ASSUME Suffices, ~mem'.exhausted, NEW e \in Envs, CopyAlloc(e)
  PROVE  Arms'
<1>1. /\ env[e].status = "RUNNING" /\ e \in Running /\ usr[e].pc = "copy_alloc"
      /\ env' = env /\ program' = program
  BY DEF CopyAlloc, Calls, At, Running
<1>2. usr[e].pc \in AtPage /\ usr[e].pc \in Building BY <1>1, Counters DEF AtPage
<1>3. PICK d \in Envs \ {e} : d = usr[e].child /\ env[d].parent = e
  BY <1>2, BuilderAndChild
<1>4. PICK va \in Vas : va = Va(e) BY <1>2, PageOfLoop DEF Suffices, FInv
<1>5. /\ Fine(mem, mem', d) /\ OthersKept(mem, mem', d, va)
      /\ \/ /\ \E p \in Pages : mem'.pte[d][va] = Pte(p, "rw")
            /\ Goto(e, "copy_map")
         \/ mem'.exhausted = TRUE
  BY <1>3, <1>4, CopyAllocKeeps DEF Suffices, FInv
<1>6. /\ mem'.pte[d][va].perm = "rw" /\ mem'.pte[d][va] # Unmapped
      /\ Goto(e, "copy_map")
  <2>1. PICK p \in Pages : mem'.pte[d][va] = Pte(p, "rw") BY <1>5
  <2>2. "rw" \in Perms BY DEF Perms
  <2> QED BY <1>5, <2>1, <2>2, PteKinds
<1>7. "copy_map" \in Counter BY DEF Counter, Building, AtPage
<1>8. /\ usr'[e].pc = "copy_map" /\ usr'[e].child = d /\ usr'[e].step = usr[e].step
      /\ usr'[e].handler = usr[e].handler /\ usr'[e].at = usr[e].at
      /\ \A f \in Envs \ {e} : usr'[f] = usr[f]
  BY <1>3, <1>6, <1>7, Went DEF Suffices, FInv
<1>9. FitOf(e) BY DEF Suffices, Arms
<1>10. va # "TEMP" BY <1>2, <1>4, <1>9 DEF FitOf, Fit, Va
<1>11. FitOf(d)' BY <1>1, <1>2, <1>3, <1>5, <1>6, <1>8, <1>10, ChildGiven
<1>12. mem'.pte[e] = mem.pte[e] BY <1>3, <1>5 DEF Fine
<1>13. program.fork # "fork" BY <1>1, <1>9 DEF FitOf, Fit, Copying
<1>14. FitOf(e)'
  BY <1>1, <1>2, <1>8, <1>9, <1>12, <1>13 DEF FitOf, Fit, ForkOnly
<1>15. Va(e)' = va BY <1>4, <1>8 DEF Va
<1>16. ChildFit(e)' BY <1>6, <1>8, <1>15 DEF ChildFit
<1> QED BY <1>1, <1>3, <1>5, <1>8, <1>11, <1>14, <1>16, AloneArms DEF Suffices, FInv

LEMMA CopyMapArms ==
  ASSUME Suffices, ~mem'.exhausted, NEW e \in Envs, CopyMap(e)
  PROVE  Arms'
<1>1. /\ env[e].status = "RUNNING" /\ e \in Running /\ usr[e].pc = "copy_map"
      /\ env' = env /\ program' = program
  BY DEF CopyMap, Calls, At, Running
<1>2. usr[e].pc \in AtPage /\ usr[e].pc \in Building BY <1>1, Counters DEF AtPage
<1>3. PICK d \in Envs \ {e} : d = usr[e].child /\ env[d].parent = e
  BY <1>2, BuilderAndChild
<1>4. PICK va \in Vas : va = Va(e) BY <1>2, PageOfLoop DEF Suffices, FInv
<1>5. FitOf(e) /\ ChildFit(e) BY DEF Suffices, Arms
<1>6. mem.pte[d][va].perm = "rw" /\ mem.pte[d][va] # Unmapped
  BY <1>1, <1>3, <1>4, <1>5 DEF ChildFit, Unmapped, Pte
<1>7. /\ Fine(mem, mem', e) /\ OthersKept(mem, mem', e, "TEMP")
      /\ Mapped(mem, mem', d, va, e, "TEMP", "rw")
      /\ Goto(e, IF EnvPageMapOK(mem, d, va, e, "TEMP", "rw") THEN "copy" ELSE "panic")
  BY <1>3, <1>4, CopyMapKeeps DEF Suffices, FInv
<1>8. EnvPageMapOK(mem, d, va, e, "TEMP", "rw") BY <1>6, <1>7 DEF Mapped
<1>9. Goto(e, "copy") /\ mem'.pte[e]["TEMP"] = Pte(mem.pte[d][va].page, "rw")
  BY <1>7, <1>8 DEF Mapped
<1>10. "copy" \in Counter BY DEF Counter, Building, AtPage
<1>11. /\ usr'[e].pc = "copy" /\ usr'[e].step = usr[e].step /\ usr'[e].at = usr[e].at
       /\ usr'[e].handler = usr[e].handler
  BY <1>9, <1>10, Went DEF Suffices, FInv
<1>12. program.fork # "fork" BY <1>1, <1>5 DEF FitOf, Fit, Copying
<1>13. ~HasCow(mem'.pte[e]) /\ mem'.pte[e]["DATA"] = mem.pte[e]["DATA"]
  <2>1. ~HasCow(mem.pte[e]) BY <1>5, <1>12 DEF FitOf, Fit
  <2>2. mem'.pte[e]["TEMP"].perm # "cow" BY <1>9 DEF Pte
  <2> QED BY <1>7, <2>1, <2>2, DataIs DEF OthersKept, HasCow
<1>14. FitOf(e)'
  BY <1>1, <1>2, <1>5, <1>11, <1>12, <1>13 DEF FitOf, Fit, ForkOnly
<1>15. ChildFit(e)' BY <1>11 DEF ChildFit
<1> QED BY <1>1, <1>7, <1>9, <1>10, <1>14, <1>15, CallArms

LEMMA CopyArms ==
  ASSUME Suffices, NEW e \in Envs, Copy(e)
  PROVE  Arms'
<1>1. mem'.pte = mem.pte BY CopyKeeps DEF Suffices, FInv
<1>2. \E f : mem' = [mem EXCEPT !.data = f]
  BY DEF Copy, Suffices, FInv, IInv, Counted, Sound, Fields
<1>3. Fine(mem, mem', e) BY <1>2, ContentsOnly, Addresses DEF Suffices, FInv, IInv, Counted
<1>4. /\ e \in Running /\ usr[e].pc = "copy" /\ env' = env /\ program' = program
      /\ Goto(e, "copy_unmap")
  BY DEF Copy, At
<1>5. "copy_unmap" \in Counter BY DEF AtPage, Building, Counter
<1>6. /\ usr'[e].pc = "copy_unmap" /\ usr'[e].at = usr[e].at /\ usr'[e].step = usr[e].step
      /\ usr'[e].handler = usr[e].handler
  BY <1>4, <1>5, Went DEF Suffices, FInv
<1>7. FitOf(e) BY DEF Suffices, Arms
<1>8. program.fork # "fork" BY <1>4, <1>7 DEF FitOf, Fit, Copying
<1>9. FitOf(e)'
  BY <1>1, <1>4, <1>6, <1>7, <1>8 DEF FitOf, Fit, AtPage, ForkOnly
<1>10. ChildFit(e)' BY <1>6 DEF ChildFit
<1> QED BY <1>3, <1>4, <1>5, <1>9, <1>10, CallArms

LEMMA CopyUnmapArms ==
  ASSUME Suffices, NEW e \in Envs, CopyUnmap(e)
  PROVE  Arms'
<1>1. /\ Fine(mem, mem', e) /\ mem'.pte[e]["TEMP"] = Unmapped
      /\ \A v \in Vas \ {"TEMP"} : mem'.pte[e][v] = mem.pte[e][v]
      /\ Advance(e)
  BY CopyUnmapKeeps DEF Suffices, FInv
<1>2. /\ env[e].status = "RUNNING" /\ e \in Running /\ usr[e].pc = "copy_unmap"
      /\ env' = env /\ program' = program
  BY DEF CopyUnmap, Calls, At, Running
<1>3. usr[e].pc \in AtPage BY <1>2 DEF AtPage
<1>4. FitOf(e)' /\ ChildFit(e)' BY <1>1, <1>2, <1>3, AdvancedFit
<1>5. \A f \in Envs \ {e} : usr'[f] = usr[f] BY <1>1, <1>3, Advanced DEF Suffices, FInv
<1> QED BY <1>1, <1>2, <1>4, <1>5, AloneArms DEF Suffices, FInv

(* The child that begins to live is armed if its memory is copied on write *)
(* or if it has inherited a handler.                                       *)
LEMMA SetStatusArms ==
  ASSUME Suffices, NEW e \in Envs, SetStatus(e)
  PROVE  Arms'
<1>1. /\ env[e].status = "RUNNING" /\ e \in Running /\ usr[e].pc = "status"
      /\ program' = program
  BY DEF SetStatus, Calls, At, Panics, Running
<1>2. FitOf(e) /\ ChildFit(e) /\ Lives(env[e]) BY <1>1 DEF Suffices, Arms, Lives
<1>3. env[usr[e].child].parent = e BY <1>1, <1>2 DEF ChildFit
<1>4. usr[e].child \in Envs \ {e} BY SetStatusKeeps DEF Suffices, FInv
<1>5. PICK d \in Envs \ {e} : d = usr[e].child /\ env[d].parent = e BY <1>3, <1>4
<1>6. /\ mem' = mem /\ env' = [env EXCEPT ![d].status = "RUNNABLE"]
      /\ \A f \in Envs \ {e} : /\ usr'[f].pc = usr[f].pc /\ usr'[f].at = usr[f].at
                               /\ usr'[f].step = usr[f].step /\ usr'[f].perm = usr[f].perm
      /\ \A f \in Envs \ {e, d} : usr'[f] = usr[f]
      /\ usr'[d].handler = usr[e].handler
      /\ usr'[e].pc = "user" /\ usr'[e].step = usr[e].step
      /\ usr'[e].handler = usr[e].handler
      /\ Blocked(env, d)
  BY <1>5, SetStatusKeeps DEF Suffices, FInv
<1>7. /\ env'[d].status = "RUNNABLE" /\ env'[d].upcall = env[d].upcall
      /\ env'[d].parent = e
      /\ \A f \in Envs \ {d} : env'[f] = env[f]
  BY <1>5, <1>6 DEF Suffices, FInv, IInv, Typed, EnvTypes
<1>8. "user" \notin AtPage \cup Copying \cup ForkOnly \cup Forking
  BY DEF AtPage, Building, Copying, ForkOnly, Forking
<1>9. FitOf(e)'
  BY <1>1, <1>2, <1>5, <1>6, <1>7, <1>8 DEF FitOf, Fit
<1>10. ChildFit(e)' BY <1>6 DEF ChildFit
<1>11. FitOf(d)'
  <2>1. FitOf(d) BY DEF Suffices, Arms
  <2>2. program.fork = "fork" => Armed(env'[d], mem'.pte[d])
    BY <1>1, <1>2, <1>5, <1>6, <1>7 DEF ChildFit, Armed
  <2>3. program.fork # "fork" => ~usr[e].handler BY <1>2 DEF FitOf, Fit
  <2>4. Fit(program.fork, usr'[d], env'[d], mem.pte[d])
    BY <1>5, <1>6, <1>7, <2>1, <2>2, <2>3 DEF FitOf, Fit
  <2> QED BY <1>1, <1>6, <2>4 DEF FitOf
<1>12. ASSUME NEW f \in Envs \ {e} PROVE FitOf(f)' /\ BuildsUndisturbed(f)
  <2>1. \A c \in Envs : env[c].parent = f => c # d BY <1>5
  <2>2. CASE f = d
    <3>1. usr'[d].child = usr[d].child BY <1>5, SetStatusKeeps, <1>3 DEF Suffices, FInv
    <3>2. BuildsUndisturbed(d)
      BY <1>5, <1>6, <1>7, <2>1, <2>2, <3>1 DEF BuildsUndisturbed, Undisturbed
    <3> QED BY <1>11, <2>2, <3>2
  <2>3. CASE f # d
    <3>1. FitOf(f) BY DEF Suffices, Arms
    <3>2. FitOf(f)' BY <1>1, <1>6, <1>7, <2>3, <3>1 DEF FitOf
    <3>3. BuildsUndisturbed(f)
      BY <1>6, <1>7, <2>1, <2>3 DEF BuildsUndisturbed, Undisturbed
    <3> QED BY <3>2, <3>3
  <2> QED BY <2>2, <2>3
<1> QED BY <1>1, <1>9, <1>10, <1>12, ArmsGoOn DEF Suffices, FInv

-----------------------------------------------------------------------------
(* The other system calls of a program *)

(* A system call of the program itself, on its own page. *)
LEMMA ActArms ==
  ASSUME Suffices, NEW e \in Envs, Fine(mem, mem', e), env' = env, Goto(e, "user"),
         usr[e].pc = "user", env[e].status = "RUNNING", program'.fork = program.fork,
         \A v \in Vas \ {"MSG"} : mem'.pte[e][v] = mem.pte[e][v],
         mem'.pte[e]["MSG"].perm # "cow" \/ mem'.pte[e]["MSG"] = mem.pte[e]["MSG"]
  PROVE  Arms'
<1>1. /\ usr'[e].pc = "user" /\ usr'[e].step = usr[e].step
      /\ usr'[e].handler = usr[e].handler /\ \A f \in Envs \ {e} : usr'[f] = usr[f]
  BY Went, Counters DEF Suffices, FInv
<1>2. FitOf(e) BY DEF Suffices, Arms
<1>3. HasCow(mem'.pte[e]) => HasCow(mem.pte[e]) BY DEF HasCow
<1>4. /\ mem'.pte[e]["XSTACK"] = mem.pte[e]["XSTACK"]
      /\ mem'.pte[e]["DATA"] = mem.pte[e]["DATA"]
      /\ mem'.pte[e]["TEMP"] = mem.pte[e]["TEMP"]
  BY DataIs
<1>5. "user" \notin AtPage BY DEF AtPage
<1>6. FitOf(e)' BY <1>1, <1>2, <1>3, <1>4, <1>5 DEF FitOf, Fit, Armed
<1>7. ChildFit(e)' BY <1>1 DEF ChildFit
<1>8. e \in Running BY DEF Running
<1> QED BY <1>1, <1>6, <1>7, <1>8, AloneArms DEF Suffices, FInv

LEMMA AllocMsgArms ==
  ASSUME Suffices, NEW e \in Envs, NEW perm \in {"ro", "rw"}, AllocMsg(e, perm)
  PROVE  Arms'
<1>1. /\ Fine(mem, mem', e) /\ OthersKept(mem, mem', e, "MSG")
      /\ (\E p \in Pages : mem'.pte[e]["MSG"] = Pte(p, perm)) \/ mem'.pte = mem.pte
      /\ Goto(e, "user")
  BY AllocMsgKeeps DEF Suffices, FInv
<1>2. env' = env /\ usr[e].pc = "user" /\ env[e].status = "RUNNING"
      /\ program'.fork = program.fork
  BY Acted DEF AllocMsg, Suffices, FInv
<1>3. mem'.pte[e]["MSG"].perm # "cow" \/ mem'.pte[e]["MSG"] = mem.pte[e]["MSG"]
  <2>1. CASE mem'.pte = mem.pte BY <2>1
  <2>2. CASE \E p \in Pages : mem'.pte[e]["MSG"] = Pte(p, perm)
    <3>1. PICK p \in Pages : mem'.pte[e]["MSG"] = Pte(p, perm) BY <2>2
    <3> QED BY <3>1 DEF Pte
  <2> QED BY <1>1, <2>1, <2>2
<1> QED BY <1>1, <1>2, <1>3, ActArms DEF OthersKept

LEMMA UnmapMsgArms ==
  ASSUME Suffices, Liberties = {}, NEW e \in Envs, NEW d \in Envs, UnmapMsg(e, d)
  PROVE  Arms'
<1>1. d = e BY DEF UnmapMsg
<1>2. /\ Fine(mem, mem', e) /\ mem'.pte[e]["MSG"] = Unmapped
      /\ \A v \in Vas \ {"MSG"} : mem'.pte[e][v] = mem.pte[e][v]
      /\ Goto(e, "user")
  BY <1>1, UnmapMsgKeeps DEF Suffices, FInv
<1>3. env' = env /\ usr[e].pc = "user" /\ env[e].status = "RUNNING"
      /\ program'.fork = program.fork
  BY Acted DEF UnmapMsg, Suffices, FInv
<1>4. mem'.pte[e]["MSG"].perm # "cow" BY <1>2 DEF Unmapped, Pte
<1> QED BY <1>2, <1>3, <1>4, ActArms

(* The receiver of a page may touch it as the sender may, never more.      *)
LEMMA SentPerm ==
  ASSUME FInv, NEW e \in Envs, NEW d \in Envs, IpcTrySend(e, d)
  PROVE  \/ mem'.exhausted = TRUE
         \/ mem' = mem /\ env' = env
         \/ mem'.pte[d]["MSG"].perm \in {"ro", "rw"}
<1>1. PICK perm \in {"ro", "rw"} :
        NotSent(e) \/ NoMemory(e, d, perm) \/ OnlyReplaced(e, d, perm) \/ Sent(e, d, perm)
  BY Sending
<1> DEFINE fresh == EnvPageAlloc(mem, d, "MSG", perm)
           m == EnvPageMap(fresh, e, "MSG", d, "MSG", perm)
<1>2. Sound(mem) /\ "MSG" \in Vas /\ perm \in Perms
  <2>1. perm \in Perms BY DEF Perms
  <2> QED BY <2>1, DataIs DEF FInv, IInv, Counted
<1>3. \/ mem' = mem /\ env' = env
      \/ mem' = fresh
      \/ mem' = m /\ EnvPageAllocOK(mem, d, "MSG")
  BY <1>1 DEF NotSent, NoMemory, OnlyReplaced, Sent
<1>4. /\ Fine(mem, fresh, d)
      /\ IF EnvPageAllocOK(mem, d, "MSG")
         THEN \E p \in Pages : fresh.pte[d]["MSG"] = Pte(p, perm)
         ELSE fresh.pte = mem.pte /\ fresh.exhausted = TRUE
  BY <1>2, PageAllocated
<1> HIDE DEF fresh
<1>5. Mapped(fresh, m, e, "MSG", d, "MSG", perm) BY <1>2, <1>4, PageMapped DEF Fine
<1> HIDE DEF m
<1>6. ASSUME EnvPageAllocOK(mem, d, "MSG") PROVE fresh.pte[d]["MSG"].perm = perm
  <2>1. PICK p \in Pages : fresh.pte[d]["MSG"] = Pte(p, perm) BY <1>4, <1>6
  <2> QED BY <2>1 DEF Pte
<1>7. CASE mem' = fresh BY <1>4, <1>6, <1>7
<1>8. CASE mem' = m /\ EnvPageAllocOK(mem, d, "MSG")
  <2>1. m.pte[d]["MSG"].perm = perm BY <1>5, <1>6, <1>8 DEF Mapped, Pte
  <2> QED BY <1>8, <2>1
<1> QED BY <1>3, <1>7, <1>8

LEMMA IpcTrySendArms ==
  ASSUME Suffices, ~mem'.exhausted, NEW e \in Envs, NEW d \in Envs, IpcTrySend(e, d)
  PROVE  Arms'
<1>1. /\ env[e].status = "RUNNING" /\ usr[e].pc = "user" /\ env[d].recving
      /\ program' = program
  BY Sending DEF Calls, At
<1>2. /\ Fine(mem, mem', d) /\ d # e
      /\ \A v \in Vas \ {"MSG"} : mem'.pte[d][v] = mem.pte[d][v]
      /\ \/ env' = env /\ \E pc \in {"send_panic", "kernel_panic"} : Goto(e, pc)
         \/ /\ Goto(e, "user")
            /\ env' = [env EXCEPT ![d].recving = FALSE, ![d].status = "RUNNABLE"]
  BY IpcTrySendKeeps DEF Suffices, FInv
<1>3. \/ mem' = mem /\ env' = env
      \/ mem'.pte[d]["MSG"].perm \in {"ro", "rw"} /\ mem'.pte[d]["MSG"] # Unmapped
  <2>1. \/ mem' = mem /\ env' = env
        \/ mem'.pte[d]["MSG"].perm \in {"ro", "rw"}
    BY SentPerm DEF Suffices
  <2> QED BY <2>1 DEF Unmapped, Pte
<1>4. /\ env'[d].status \in {"RUNNABLE", "NOT_RUNNABLE"} /\ env'[d].upcall = env[d].upcall
      /\ \A f \in Envs \ {d} : env'[f] = env[f]
  BY <1>1, <1>2 DEF Suffices, FInv, IInv, Typed, EnvTypes, Slots
<1>5. /\ usr'[e].pc \in {"user", "send_panic", "kernel_panic"}
      /\ usr'[e].handler = usr[e].handler /\ usr'[e].at = usr[e].at
      /\ usr'[e].step = usr[e].step /\ \A f \in Envs \ {e} : usr'[f] = usr[f]
  BY <1>2, Went, Counters DEF Suffices, FInv
<1>6. \A f \in Envs \ {d} : mem'.pte[f] = mem.pte[f] BY <1>2 DEF Fine
<1>7. FitOf(d) /\ FitOf(e) BY DEF Suffices, Arms
<1>8. FitOf(d)'
  <2>1. SameLife(env[d], env'[d]) /\ env'[d].status # "FREE"
    BY <1>1, <1>4 DEF SameLife, Lives
  <2>2. usr'[d] = usr[d] /\ SamePlace(usr[d], usr'[d]) BY <1>2, <1>5 DEF SamePlace
  <2>m. CASE mem' = mem /\ env' = env BY <1>1, <1>7, <2>2, <2>m DEF FitOf
  <2>n. SUFFICES ASSUME /\ mem'.pte[d]["MSG"].perm \in {"ro", "rw"}
                        /\ mem'.pte[d]["MSG"] # Unmapped
                 PROVE  FitOf(d)'
    BY <1>3, <2>m
  <2>3. Replaces(program.fork, usr[d], env[d], mem.pte[d], mem'.pte[d], "MSG")
    BY <1>2, <2>n DEF Replaces
  <2>4. usr[d].pc \in AtPage => VaOrder[usr[d].at] \in Vas
    BY PageOfLoop DEF Suffices, FInv, Va
  <2>5. mem'.pte[d]["TEMP"] # Unmapped =>
          usr'[d].step \in {"copy", "map", "unmap"} \/ usr'[d].pc \in {"copy", "copy_unmap"}
    BY <1>2, <1>7, <2>2, DataIs DEF FitOf, Fit
  <2> QED BY <1>1, <1>7, <2>1, <2>2, <2>3, <2>4, <2>5, DataIs, FitRemapped DEF FitOf
<1>9. FitOf(e)'
  <2>1. env'[e] = env[e] /\ mem'.pte[e] = mem.pte[e] BY <1>2, <1>4, <1>6
  <2>2. usr'[e].pc \notin AtPage BY <1>5 DEF AtPage
  <2>3. usr'[e].pc \notin Forking \cup Copying \cup ForkOnly \cup {"killed", "panic"}
    BY <1>5 DEF Forking, Building, AtPage, Copying, ForkOnly
  <2> QED BY <1>1, <1>5, <1>7, <2>1, <2>2, <2>3 DEF FitOf, Fit
<1>10. ChildFit(e)' BY <1>5 DEF ChildFit
<1>11. \A c \in Envs : Blocked(env, c) => Undisturbed(c)
  BY <1>1, <1>4, <1>6 DEF Blocked, Undisturbed
<1>12. ASSUME NEW f \in Envs \ {e} PROVE FitOf(f)' /\ BuildsUndisturbed(f)
  <2>1. BuildsUndisturbed(f) BY <1>5, <1>11 DEF BuildsUndisturbed
  <2>2. CASE f = d BY <1>8, <2>1, <2>2
  <2>3. CASE f # d
    <3>1. FitOf(f) BY DEF Suffices, Arms
    <3>2. FitOf(f)' BY <1>1, <1>4, <1>5, <1>6, <2>3, <3>1 DEF FitOf
    <3> QED BY <2>1, <3>2
  <2> QED BY <2>2, <2>3
<1> QED BY <1>1, <1>9, <1>10, <1>12, ArmsGoOn DEF Suffices, FInv

-----------------------------------------------------------------------------
(* Memory that has run out once: the invariant says no more for good *)

StaysExhausted == mem.exhausted => mem'.exhausted

LEMMA StoreExhausted ==
  ASSUME FInv, NEW e \in Envs, NEW va, Store(e, va)
  PROVE  StaysExhausted
<1>1. \E f : mem' = [mem EXCEPT !.data = f]
  BY DEF Store, FInv, IInv, Counted, Sound, Fields
<1> QED BY <1>1, ContentsOnly DEF FInv, IInv, Counted, StaysExhausted

LEMMA DestroySelfExhausted ==
  ASSUME FInv, NEW e \in Envs, NEW pc, DestroySelf(e, pc),
         env[e].status \in {"RUNNING", "DYING"}
  PROVE  StaysExhausted
<1>1. Sound(mem) /\ mem.dir[e] \in Pages
  BY DEF FInv, IInv, Counted, Slots, Sound
<1> QED BY <1>1, PagesFreed DEF DestroySelf, Gone, StaysExhausted

LEMMA PageFaultExhausted ==
  ASSUME FInv, NEW e \in Envs, NEW va, PageFault(e, va)
  PROVE  StaysExhausted
<1>1. env[e].status = "RUNNING" /\ (mem' = mem \/ DestroySelf(e, "killed"))
  BY DEF PageFault
<1> QED BY <1>1, DestroySelfExhausted DEF StaysExhausted

(* The handler and the library of the user. *)
LEMMA LibraryExhausted ==
  ASSUME FInv, NEW e \in Envs, Library(e)
  PROVE  StaysExhausted
<1> USE DEF FInv
<1>1. CASE PgfaultAlloc(e) BY <1>1, PgfaultAllocKeeps DEF Fine, StaysExhausted
<1>2. CASE PgfaultCopy(e) BY <1>2, PgfaultCopyKeeps DEF StaysExhausted
<1>3. CASE PgfaultMap(e) BY <1>3, PgfaultMapKeeps DEF Fine, StaysExhausted
<1>4. CASE PgfaultUnmap(e) BY <1>4, PgfaultUnmapKeeps DEF Fine, StaysExhausted
<1>5. CASE SetPgfaultHandler(e)
  BY <1>5, SetPgfaultHandlerKeeps DEF Fine, StaysExhausted
<1>6. CASE SetPgfaultUpcall(e) BY <1>6, SetPgfaultUpcallKeeps DEF StaysExhausted
<1>7. CASE SaveHandler(e)
  BY <1>7, StoreExhausted, PageFaultExhausted DEF SaveHandler
<1>8. CASE Exofork(e) BY <1>8, ExoforkKeeps DEF StaysExhausted
<1>9. CASE Dup(e) BY <1>9 DEF Dup, StaysExhausted
<1>10. CASE DupChild(e) BY <1>10, DupChildKeeps DEF Fine, StaysExhausted
<1>11. CASE DupOwn(e) BY <1>11, DupOwnKeeps DEF Fine, StaysExhausted
<1>12. CASE ChildXstack(e) BY <1>12, ChildXstackKeeps DEF Fine, StaysExhausted
<1>13. CASE ChildUpcall(e) BY <1>13, ChildUpcallKeeps DEF Gone, StaysExhausted
<1>14. CASE CopyAlloc(e) BY <1>14, CopyAllocKeeps DEF Fine, StaysExhausted
<1>15. CASE CopyMap(e) BY <1>15, CopyMapKeeps DEF Fine, StaysExhausted
<1>16. CASE Copy(e) BY <1>16, CopyKeeps DEF StaysExhausted
<1>17. CASE CopyUnmap(e) BY <1>17, CopyUnmapKeeps DEF Fine, StaysExhausted
<1>18. CASE SetStatus(e) BY <1>18, SetStatusKeeps DEF StaysExhausted
<1>19. CASE SetThisenv(e)
  BY <1>19, StoreExhausted, PageFaultExhausted DEF SetThisenv
<1> QED BY <1>1, <1>2, <1>3, <1>4, <1>5, <1>6, <1>7, <1>8, <1>9, <1>10, <1>11, <1>12,
           <1>13, <1>14, <1>15, <1>16, <1>17, <1>18, <1>19 DEF Library

LEMMA ProgramExhausted ==
  ASSUME FInv, NEW e \in Envs, Program(e)
  PROVE  StaysExhausted
<1> USE DEF FInv
<1>1. ASSUME NEW va \in {"DATA", "STACK", "MSG"}, WriteMemory(e, va) PROVE StaysExhausted
  BY <1>1, StoreExhausted, PageFaultExhausted DEF WriteMemory
<1>2. CASE Fork(e) BY <1>2 DEF Fork, StaysExhausted
<1>3. CASE Exit(e) BY <1>3, DestroySelfExhausted DEF Exit, Calls
<1>4. CASE IpcRecv(e) BY <1>4 DEF IpcRecv, StaysExhausted
<1>5. ASSUME NEW perm \in {"ro", "rw"}, AllocMsg(e, perm) PROVE StaysExhausted
  BY <1>5, AllocMsgKeeps DEF Fine, StaysExhausted
<1>6. ASSUME NEW d \in Envs, IpcTrySend(e, d) PROVE StaysExhausted
  BY <1>6, IpcTrySendKeeps DEF Fine, StaysExhausted
<1>7. ASSUME NEW d \in Envs, Kill(e, d) PROVE StaysExhausted
  BY <1>7, KillKeeps DEF Gone, StaysExhausted
<1>8. ASSUME NEW d \in Envs, UnmapMsg(e, d) PROVE StaysExhausted
  BY <1>8, UnmapMsgKeeps DEF Fine, StaysExhausted
<1> QED BY <1>1, <1>2, <1>3, <1>4, <1>5, <1>6, <1>7, <1>8 DEF Program

LEMMA NextExhausted == ASSUME FInv, Next PROVE StaysExhausted
<1>1. PICK e \in Envs : Run(e) \/ Preempt(e) \/ TrapOfZombie(e) \/ Library(e) \/ Program(e)
  BY DEF Next
<1>2. CASE Run(e) \/ Preempt(e) BY <1>2 DEF Run, Preempt, StaysExhausted
<1>3. CASE TrapOfZombie(e) BY <1>3, DestroySelfExhausted DEF TrapOfZombie
<1> QED BY <1>1, <1>2, <1>3, LibraryExhausted, ProgramExhausted

-----------------------------------------------------------------------------
(* The theorem *)

(* Memory suffices as long as it has sufficed up to the step. *)
LEMMA NextArms ==
  ASSUME Suffices, ~mem'.exhausted, Liberties = {}, Next
  PROVE  Arms'
<1>1. PICK e \in Envs : Run(e) \/ Preempt(e) \/ TrapOfZombie(e) \/ Library(e) \/ Program(e)
  BY DEF Next
<1>2. CASE Library(e)
  BY <1>2, PgfaultAllocArms, PgfaultCopyArms, PgfaultMapArms, PgfaultUnmapArms,
     SetPgfaultHandlerArms, SetPgfaultUpcallArms, SaveHandlerArms, ExoforkArms,
     DupArms, DupChildArms, DupOwnArms, ChildXstackArms, ChildUpcallArms,
     CopyAllocArms, CopyMapArms, CopyArms, CopyUnmapArms, SetStatusArms,
     SetThisenvArms
     DEF Library
<1>3. CASE Program(e)
  BY <1>3, WriteMemoryArms, ForkArms, ExitArms, IpcRecvArms, AllocMsgArms,
     IpcTrySendArms, KillArms, UnmapMsgArms
     DEF Program
<1> QED BY <1>1, <1>2, <1>3, RunArms, PreemptArms, TrapOfZombieArms

LEMMA StepEInv == ASSUME Liberties = {} PROVE EInv /\ [Next]_vars => EInv'
<1> SUFFICES ASSUME EInv, [Next]_vars PROVE EInv'
  OBVIOUS
<1>1. FInv' BY StepFInv DEF EInv
<1>2. TlbCoherent' BY CoherentStep DEF EInv, FInv
<1>3. CASE UNCHANGED vars
  <2>1. Arms => Arms' BY <1>3 DEF Arms, FitOf, ChildFit, Va, vars
  <2>2. mem' = mem BY <1>3 DEF vars
  <2> QED BY <1>1, <1>2, <2>1, <2>2 DEF EInv
<1>4. CASE Next
  <2>1. CASE mem'.exhausted BY <1>1, <1>2, <2>1 DEF EInv
  <2>2. CASE ~mem'.exhausted
    <3>1. ~mem.exhausted BY <1>4, <2>2, NextExhausted DEF EInv, StaysExhausted
    <3>2. Arms' BY <1>4, <2>2, <3>1, NextArms DEF EInv, Suffices
    <3> QED BY <1>1, <1>2, <3>2 DEF EInv
  <2> QED BY <2>1, <2>2
<1> QED BY <1>3, <1>4

(* What the first environment is born with can be written.                 *)
LEMMA BootPerms ==
  ASSUME NEW n \in Nat, n >= 5, 1 .. n \subseteq Pages
  PROVE  /\ \A e \in Envs \ {First}, va \in Vas : Boot(n).pte[e][va] = Unmapped
         /\ \A va \in Vas : Boot(n).pte[First][va] = Unmapped
                              \/ Boot(n).pte[First][va].perm = "rw"
         /\ Boot(n).pte[First]["TEMP"] = Unmapped
<1> DEFINE m == Empty(n)
           s == EnvSetupVm(m, First)
           t == EnvPageAlloc(s, First, "DATA", "rw")
           b == EnvPageAlloc(t, First, "STACK", "rw")
<1>1. b = Boot(n) BY DEF Boot, Empty
<1>2. Sound(m) BY EmptySound
<1>3. m.free # {} /\ \A e \in Envs : m.dir[e] = NULL
  <2>1. 1 \in 1 .. n OBVIOUS
  <2> QED BY <2>1 DEF Empty, PageInit
<1>4. \A e \in Envs, va \in Vas : m.pte[e][va] = Unmapped BY DEF Empty, NoVas
<1>5. First \in Envs /\ "rw" \in Perms BY AddressSpaceAssumption DEF Perms
<1> HIDE DEF m
<1>6. Sound(s) /\ s.pte = m.pte BY <1>2, <1>3, <1>5, VmSetUp
<1> HIDE DEF s
<1>7. /\ Fine(s, t, First) /\ OthersKept(s, t, First, "DATA")
      /\ \/ \E p \in Pages : t.pte[First]["DATA"] = Pte(p, "rw")
         \/ t.pte = s.pte
  BY <1>5, <1>6, DataIs, PageAllocated
<1> HIDE DEF t
<1>8. /\ Fine(t, b, First) /\ OthersKept(t, b, First, "STACK")
      /\ \/ \E p \in Pages : b.pte[First]["STACK"] = Pte(p, "rw")
         \/ b.pte = t.pte
  <2>1. Sound(t) BY <1>7 DEF Fine
  <2> QED BY <1>5, <2>1, DataIs, PageAllocated
<1> HIDE DEF b
<1>9. \A e \in Envs \ {First} : b.pte[e] = m.pte[e] BY <1>6, <1>7, <1>8 DEF Fine
<1>10. \A va \in Vas \ {"DATA", "STACK"} : b.pte[First][va] = m.pte[First][va]
  BY <1>6, <1>7, <1>8 DEF OthersKept
<1>11. t.pte[First]["DATA"].perm = "rw" \/ t.pte[First]["DATA"] = Unmapped
  <2>1. CASE \E p \in Pages : t.pte[First]["DATA"] = Pte(p, "rw") BY <2>1 DEF Pte
  <2>2. CASE t.pte = s.pte BY <1>4, <1>5, <1>6, <2>2, DataIs
  <2> QED BY <1>7, <2>1, <2>2
<1>12. b.pte[First]["DATA"] = t.pte[First]["DATA"] BY <1>8, DataIs DEF OthersKept
<1>13. b.pte[First]["STACK"].perm = "rw" \/ b.pte[First]["STACK"] = Unmapped
  <2>1. CASE \E p \in Pages : b.pte[First]["STACK"] = Pte(p, "rw") BY <2>1 DEF Pte
  <2>2. CASE b.pte = t.pte
    <3>1. t.pte[First]["STACK"] = s.pte[First]["STACK"] BY <1>7, DataIs DEF OthersKept
    <3> QED BY <1>4, <1>5, <1>6, <2>2, <3>1, DataIs
  <2> QED BY <1>8, <2>1, <2>2
<1>14. \A va \in Vas : b.pte[First][va] = Unmapped \/ b.pte[First][va].perm = "rw"
  BY <1>4, <1>5, <1>10, <1>11, <1>12, <1>13
<1>15. \A e \in Envs \ {First}, va \in Vas : b.pte[e][va] = Unmapped BY <1>4, <1>9
<1>16. b.pte[First]["TEMP"] = Unmapped BY <1>4, <1>5, <1>10, DataIs
<1> QED BY <1>1, <1>14, <1>15, <1>16

LEMMA InitEInv == Init => EInv
<1> SUFFICES ASSUME Init PROVE EInv
  OBVIOUS
<1>1. FInv BY InitFInv
<1>2. \A e \in Envs : /\ env[e].status \in {"RUNNABLE", "FREE"} /\ ~env[e].recving
                      /\ env[e].status = "RUNNABLE" <=> e = First
  BY DEF Init, NoEnvAt
<1>3. TlbCoherent BY <1>2 DEF TlbCoherent, Running
<1>4. program.npages \in Nat /\ program.npages >= 5 /\ 1 .. program.npages \subseteq Pages
  BY AddressSpaceAssumption DEF Init, Pages
<1>5. /\ \A e \in Envs \ {First}, va \in Vas : mem.pte[e][va] = Unmapped
      /\ \A va \in Vas : mem.pte[First][va] = Unmapped \/ mem.pte[First][va].perm = "rw"
      /\ mem.pte[First]["TEMP"] = Unmapped
  BY <1>4, BootPerms DEF Init
<1>6. \A e \in Envs : ~HasCow(mem.pte[e])
  BY <1>5 DEF HasCow, Unmapped, Pte
<1>7. \A e \in Envs : usr[e].pc \in {"user", "none"} /\ usr[e].handler = FALSE
  <2>1. \A e \in Envs : usr[e] = Start("user") \/ usr[e] = Start("none") BY DEF Init
  <2>2. /\ Start("user").pc = "user" /\ Start("user").handler = FALSE
        /\ Start("none").pc = "none" /\ Start("none").handler = FALSE
    BY DEF Start
  <2> QED BY <2>1, <2>2
<1>8. {"user", "none"} \cap (Forking \cup Copying \cup ForkOnly \cup AtPage) = {}
  BY DEF Forking, Copying, ForkOnly, AtPage, Building
<1>9. ASSUME NEW e \in Envs PROVE FitOf(e) /\ ChildFit(e)
  <2>1. mem.pte[e]["TEMP"] = Unmapped BY <1>5, DataIs
  <2>2. mem.pte[e]["DATA"] = Unmapped \/ mem.pte[e]["DATA"].perm = "rw" BY <1>5, DataIs
  <2>3. env[e].status = "FREE" => \A va \in Vas : mem.pte[e][va] = Unmapped BY <1>2, <1>5
  <2>4. FitOf(e) BY <1>6, <1>7, <1>8, <2>1, <2>2, <2>3 DEF FitOf, Fit
  <2> QED BY <1>7, <2>4 DEF ChildFit
<1> QED BY <1>1, <1>3, <1>9 DEF EInv, Arms

(* A page fault of an environment is always delivered to its handler, and  *)
(* the calls of lib/fork.c, lib/pgfault.c and ipc_send never fail, unless  *)
(* pages or environments have run out: page_fault_handler finds the upcall *)
(* and the exception stack that fork has given to every environment that   *)
(* shares pages copy-on-write, before sys_env_set_status lets it run.      *)
THEOREM DiesOfExhaustionHolds ==
  ASSUME Liberties = {}
  PROVE  Spec => []DiesOfExhaustion
<1>1. Init => EInv BY InitEInv
<1>2. EInv /\ [Next]_vars => EInv' BY StepEInv
<1>3. EInv => DiesOfExhaustion BY DEF EInv, Arms, FitOf, Fit, DiesOfExhaustion
<1> QED BY <1>1, <1>2, <1>3, PTL DEF Spec

-----------------------------------------------------------------------------
(* What the pages contain *)

Fill == [Pages -> {0, 1}]

(* An operator of pmap.c clears the pages it takes and those it gives back. *)
AllocsOnly(m, r) ==
  /\ r.free \subseteq m.free /\ r.data \in Fill
  /\ \A p \in Pages \ m.free : r.data[p] = m.data[p]
FreesOnly(m, r) ==
  /\ m.free \subseteq r.free /\ r.data \in Fill
  /\ \A p \in Pages \ r.free : r.data[p] = m.data[p]
Contents(m, r) ==
  /\ r.data \in Fill
  /\ \A p \in Pages \ (m.free \cup r.free) : r.data[p] = m.data[p]

(* What an operator takes and then gives back. *)
LEMMA AllocThenFree ==
  ASSUME NEW m, NEW w, NEW r, AllocsOnly(m, w), FreesOnly(w, r)
  PROVE  Contents(m, r)
  BY DEF AllocsOnly, FreesOnly, Contents

LEMMA FreesTwice ==
  ASSUME NEW m, NEW w, NEW r, FreesOnly(m, w), FreesOnly(w, r)
  PROVE  FreesOnly(m, r)
  BY DEF FreesOnly

LEMMA AllocsTwice ==
  ASSUME NEW m, NEW w, NEW r, AllocsOnly(m, w), AllocsOnly(w, r)
  PROVE  AllocsOnly(m, r)
  BY DEF AllocsOnly

(* page_alloc clears the page it takes. *)
LEMMA AllocContents ==
  ASSUME NEW m, Sound(m), m.data \in Fill, m.free # {}
  PROVE  AllocsOnly(m, PageAlloc(m))
<1> DEFINE p == Top(m.free)
<1>1. p \in m.free BY DEF Top
<1>2. p \in Pages BY <1>1 DEF Sound
<1>3. PageAlloc(m).free = m.free \ {p} /\ PageAlloc(m).data = [m.data EXCEPT ![p] = 0]
  BY DEF PageAlloc, Sound, Fields
<1> HIDE DEF p
<1>4. PageAlloc(m).data \in Fill BY <1>2, <1>3 DEF Fill
<1>5. \A q \in Pages \ m.free : PageAlloc(m).data[q] = m.data[q]
  BY <1>1, <1>2, <1>3 DEF Fill
<1> QED BY <1>3, <1>4, <1>5 DEF AllocsOnly

(* A call that finds no memory changes no page. *)
LEMMA ExhaustedContents ==
  ASSUME NEW m, Sound(m), m.data \in Fill
  PROVE  AllocsOnly(m, Exhausted(m))
  BY DEF Exhausted, Sound, Fields, AllocsOnly

(* page_decref clears a page only as it gives it back. *)
LEMMA DecrefContents ==
  ASSUME NEW m, DOMAIN m = Fields, m.data \in Fill, NEW p \in Pages
  PROVE  FreesOnly(m, PageDecref(m, p))
<1> DEFINE d == [m EXCEPT !.ref[p] = @ - 1]
<1>1. DOMAIN d = Fields /\ d.data = m.data /\ d.free = m.free BY DEF Fields
<1>2. PageDecref(m, p) = IF d.ref[p] = 0 THEN PageFree(d, p) ELSE d BY DEF PageDecref
<1> HIDE DEF d
<1>3. FreesOnly(m, d) BY <1>1 DEF FreesOnly
<1>4. FreesOnly(d, PageFree(d, p))
  <2>1. CASE d.ref[p] # 0 \/ p \in d.free
    <3>1. PageFree(d, p) = [d EXCEPT !.panic = TRUE] BY <2>1 DEF PageFree
    <3>2. PageFree(d, p).data = d.data /\ PageFree(d, p).free = d.free
      BY <1>1, <3>1 DEF Fields
    <3> QED BY <1>1, <3>2 DEF FreesOnly
  <2>2. CASE ~(d.ref[p] # 0 \/ p \in d.free)
    <3>1. PageFree(d, p) = [d EXCEPT !.free = @ \cup {p}, !.data[p] = 0]
      BY <2>2 DEF PageFree
    <3>2. PageFree(d, p).data = [d.data EXCEPT ![p] = 0] /\ PageFree(d, p).free = d.free \cup {p}
      BY <1>1, <3>1 DEF Fields
    <3>3. PageFree(d, p).data \in Fill BY <1>1, <3>2 DEF Fill
    <3>4. \A q \in Pages \ PageFree(d, p).free : PageFree(d, p).data[q] = d.data[q]
      BY <1>1, <3>2 DEF Fill
    <3> QED BY <3>2, <3>3, <3>4 DEF FreesOnly
  <2> QED BY <2>1, <2>2
<1> QED BY <1>2, <1>3, <1>4, FreesTwice

(* page_remove. *)
LEMMA RemoveContents ==
  ASSUME NEW m, Sound(m), m.data \in Fill, NEW e \in Envs, NEW va \in Vas
  PROVE  FreesOnly(m, PageRemove(m, e, va))
<1>1. CASE m.pte[e][va] = Unmapped BY <1>1 DEF PageRemove, FreesOnly
<1>2. CASE m.pte[e][va] # Unmapped
  <2> DEFINE q == m.pte[e][va].page
             d == PageDecref(m, q)
             r == [d EXCEPT !.pte[e][va] = Unmapped]
  <2>1. q \in Pages BY <1>2, PteKinds DEF Sound
  <2>2. FreesOnly(m, d) BY <2>1, DecrefContents DEF Sound
  <2>3. PageRemove(m, e, va) = r BY <1>2 DEF PageRemove
  <2> HIDE DEF d
  <2>4. r.free = d.free /\ r.data = d.data OBVIOUS
  <2> QED BY <2>2, <2>3, <2>4 DEF FreesOnly
<1> QED BY <1>1, <1>2

(* pgdir_walk takes at most a page, for the table. *)
LEMMA WalkContents ==
  ASSUME NEW m, Sound(m), m.data \in Fill, NEW e \in Envs, NEW va \in Vas
  PROVE  AllocsOnly(m, PgdirWalk(m, e, va))
<1>1. CASE m.table[e][PDX(va)] # NULL BY <1>1 DEF PgdirWalk, AllocsOnly
<1>2. CASE m.table[e][PDX(va)] = NULL /\ m.free = {}
  BY <1>2, ExhaustedContents DEF PgdirWalk
<1>3. CASE m.table[e][PDX(va)] = NULL /\ m.free # {}
  <2> DEFINE p == Top(m.free)
             a == PageAlloc(m)
             w == [a EXCEPT !.ref[p] = @ + 1, !.table[e][PDX(va)] = p]
  <2>1. AllocsOnly(m, a) BY <1>3, AllocContents
  <2>2. PgdirWalk(m, e, va) = w BY <1>3 DEF PgdirWalk
  <2> HIDE DEF a, p
  <2>3. w.free = a.free /\ w.data = a.data OBVIOUS
  <2> QED BY <2>1, <2>2, <2>3 DEF AllocsOnly
<1> QED BY <1>1, <1>2, <1>3

(* page_insert: first the table, then the mapping that was there. *)
LEMMA InsertContents ==
  ASSUME NEW m, Sound(m), m.data \in Fill, NEW e \in Envs, NEW va \in Vas,
         NEW p \in Pages, NEW perm
  PROVE  LET r == PageInsert(m, e, p, va, perm)
         IN  \E w : AllocsOnly(m, w) /\ FreesOnly(w, r)
<1> DEFINE w == PgdirWalk(m, e, va)
           u == [w EXCEPT !.ref[p] = @ + 1]
           x == PageRemove(u, e, va)
           r == [x EXCEPT !.pte[e][va] = Pte(p, perm)]
<1>1. AllocsOnly(m, w) /\ Sound(w) BY WalkContents, Walked
<1>2. PageInsert(m, e, p, va, perm) = IF w.table[e][PDX(va)] = NULL THEN w ELSE r
  BY DEF PageInsert
<1> HIDE DEF w
<1>3. FreesOnly(w, w) BY <1>1 DEF AllocsOnly, FreesOnly
<1>4. DOMAIN u = Fields /\ u.free = w.free /\ u.data = w.data /\ u.pte = w.pte
  BY <1>1 DEF Sound, Fields
<1> HIDE DEF u
<1>5. FreesOnly(u, x)
  <2>0. u.data \in Fill BY <1>1, <1>4 DEF AllocsOnly
  <2>1. CASE u.pte[e][va] = Unmapped BY <2>0, <2>1 DEF PageRemove, FreesOnly
  <2>2. CASE u.pte[e][va] # Unmapped
    <3> DEFINE q == u.pte[e][va].page
               d == PageDecref(u, q)
               y == [d EXCEPT !.pte[e][va] = Unmapped]
    <3>1. q \in Pages BY <1>1, <1>4, <2>2, PteKinds DEF Sound
    <3>2. FreesOnly(u, d) BY <1>4, <2>0, <3>1, DecrefContents
    <3>3. PageRemove(u, e, va) = y BY <2>2 DEF PageRemove
    <3> HIDE DEF d
    <3>4. y.free = d.free /\ y.data = d.data OBVIOUS
    <3> QED BY <3>2, <3>3, <3>4 DEF FreesOnly
  <2> QED BY <2>1, <2>2
<1> HIDE DEF x
<1>6. r.free = x.free /\ r.data = x.data OBVIOUS
<1>7. FreesOnly(w, r) BY <1>4, <1>5, <1>6 DEF FreesOnly
<1> QED BY <1>1, <1>2, <1>3, <1>7

(* sys_page_alloc changes no page that was mapped, and maps a free one. *)
LEMMA PageAllocContents ==
  ASSUME NEW m, Sound(m), m.data \in Fill, NEW e \in Envs, NEW va \in Vas, NEW perm \in Perms
  PROVE  /\ Contents(m, EnvPageAlloc(m, e, va, perm))
         /\ EnvPageAllocOK(m, e, va) =>
              \E p \in m.free : EnvPageAlloc(m, e, va, perm).pte[e][va] = Pte(p, perm)
<1> DEFINE a == PageAlloc(m)
           p == Top(m.free)
           r == PageInsert(a, e, p, va, perm)
<1>1. CASE m.free = {}
  <2>1. EnvPageAlloc(m, e, va, perm) = Exhausted(m) /\ ~EnvPageAllocOK(m, e, va)
    BY <1>1 DEF EnvPageAlloc, EnvPageAllocOK
  <2>2. AllocsOnly(m, Exhausted(m)) BY ExhaustedContents
  <2> QED BY <2>1, <2>2 DEF AllocsOnly, Contents
<1>2. CASE m.free # {}
  <2>1. p \in Pages /\ p \in m.free /\ a.free = m.free \ {p} /\ Sound(a)
    BY <1>2, Allocated
  <2>2. AllocsOnly(m, a) BY <1>2, AllocContents
  <2>3. /\ EnvPageAlloc(m, e, va, perm) = r
        /\ EnvPageAllocOK(m, e, va) <=> TableFits(a, e, va)
    BY <1>2 DEF EnvPageAlloc, EnvPageAllocOK
  <2> HIDE DEF a, p
  <2>4. PICK w : AllocsOnly(a, w) /\ FreesOnly(w, r)
    BY <2>1, <2>2, InsertContents DEF AllocsOnly
  <2>5. IF TableFits(a, e, va) THEN r.pte[e][va] = Pte(p, perm)
        ELSE r.pte = a.pte /\ r.exhausted = TRUE
    BY <2>1, Inserted
  <2>6. Contents(m, r) BY <2>2, <2>4, AllocsTwice, AllocThenFree
  <2> QED BY <2>1, <2>3, <2>5, <2>6
<1> QED BY <1>1, <1>2

(* sys_page_map changes no page that stays mapped. *)
LEMMA PageMapContents ==
  ASSUME NEW m, Sound(m), m.data \in Fill, NEW src \in Envs, NEW srcva \in Vas,
         NEW dst \in Envs, NEW dstva \in Vas, NEW perm \in Perms
  PROVE  Contents(m, EnvPageMap(m, src, srcva, dst, dstva, perm))
<1>1. CASE m.pte[src][srcva] = Unmapped \/ (perm = "rw" /\ m.pte[src][srcva].perm # "rw")
  <2>1. EnvPageMap(m, src, srcva, dst, dstva, perm) = m BY <1>1 DEF EnvPageMap
  <2> QED BY <2>1 DEF Contents
<1>2. CASE ~(m.pte[src][srcva] = Unmapped \/ (perm = "rw" /\ m.pte[src][srcva].perm # "rw"))
  <2> DEFINE p == m.pte[src][srcva].page
             r == PageInsert(m, dst, p, dstva, perm)
  <2>1. EnvPageMap(m, src, srcva, dst, dstva, perm) = r BY <1>2 DEF EnvPageMap
  <2>2. p \in Pages BY <1>2, PteKinds DEF Sound
  <2> HIDE DEF p
  <2>3. PICK w : AllocsOnly(m, w) /\ FreesOnly(w, r) BY <2>2, InsertContents
  <2> QED BY <2>1, <2>3, AllocThenFree
<1> QED BY <1>1, <1>2

(* env_setup_vm takes a page for the directory. *)
LEMMA VmContents ==
  ASSUME NEW m, Sound(m), m.data \in Fill, m.free # {}, NEW e \in Envs
  PROVE  Contents(m, EnvSetupVm(m, e))
<1> DEFINE a == PageAlloc(m)
           p == Top(m.free)
           r == [a EXCEPT !.ref[p] = @ + 1, !.dir[e] = p]
<1>1. AllocsOnly(m, a) BY AllocContents
<1>2. EnvSetupVm(m, e) = r BY DEF EnvSetupVm
<1> HIDE DEF a, p
<1>3. r.free = a.free /\ r.data = a.data OBVIOUS
<1> QED BY <1>1, <1>2, <1>3 DEF AllocsOnly, Contents

(* env_free gives back the pages of a table ... *)
LEMMA EmptiedContents ==
  ASSUME NEW m, Sound(m), m.data \in Fill, NEW e \in Envs, NEW t \in Tables
  PROVE  FreesOnly(m, Emptied(m, e, t))
<1>1. ASSUME NEW va \in Vas, NEW vb \in Vas
      PROVE  FreesOnly(m, PageRemove(PageRemove(m, e, va), e, vb))
  <2> DEFINE n == PageRemove(m, e, va)
  <2>1. FreesOnly(m, n) /\ Sound(n) BY RemoveContents, Removed
  <2>2. n.data \in Fill BY <2>1 DEF FreesOnly
  <2> HIDE DEF n
  <2>3. FreesOnly(n, PageRemove(n, e, vb)) BY <2>1, <2>2, RemoveContents
  <2>4. FreesOnly(m, PageRemove(n, e, vb)) BY <2>1, <2>3, FreesTwice
  <2> QED BY <2>4 DEF n
<1>2. t \in {1, 2, 3} BY DEF Tables
<1>3. CASE t = 1
  <2>1. Emptied(m, e, t) = PageRemove(m, e, "TEMP") BY <1>3 DEF Emptied
  <2> QED BY <2>1, DataIs, RemoveContents
<1>4. CASE t = 2
  <2>1. Emptied(m, e, t) = PageRemove(PageRemove(m, e, "DATA"), e, "MSG")
    BY <1>4 DEF Emptied
  <2> QED BY <1>1, <2>1, DataIs
<1>5. CASE t = 3
  <2>1. Emptied(m, e, t) = PageRemove(PageRemove(m, e, "STACK"), e, "XSTACK")
    BY <1>5 DEF Emptied
  <2> QED BY <1>1, <2>1, DataIs
<1> QED BY <1>2, <1>3, <1>4, <1>5

(* ... then the table ... *)
LEMMA FreeTableContents ==
  ASSUME NEW m, Sound(m), m.data \in Fill, NEW e \in Envs, NEW t \in Tables
  PROVE  FreesOnly(m, FreeTable(m, e, t))
<1>1. CASE m.table[e][t] = NULL BY <1>1 DEF FreeTable, FreesOnly
<1>2. CASE m.table[e][t] # NULL
  <2> DEFINE q == m.table[e][t]
             n == Emptied(m, e, t)
             x == [n EXCEPT !.table[e][t] = NULL]
  <2>1. FreeTable(m, e, t) = PageDecref(x, q) BY <1>2 DEF FreeTable
  <2>2. FreesOnly(m, n) /\ Sound(n) BY EmptiedContents, TableEmptied DEF Fine
  <2>3. q \in Pages BY <1>2 DEF Sound
  <2> HIDE DEF n, q
  <2>4. DOMAIN x = Fields /\ x.free = n.free /\ x.data = n.data
    BY <2>2 DEF Sound, Fields
  <2> HIDE DEF x
  <2>5. FreesOnly(m, x) BY <2>2, <2>4 DEF FreesOnly
  <2>6. FreesOnly(x, PageDecref(x, q)) BY <2>3, <2>4, <2>5, DecrefContents DEF FreesOnly
  <2> QED BY <2>1, <2>5, <2>6, FreesTwice
<1> QED BY <1>1, <1>2

(* ... and at last the directory: no page of another changes. *)
LEMMA FreePagesContents ==
  ASSUME NEW m, Sound(m), m.data \in Fill, NEW e \in Envs, m.dir[e] \in Pages
  PROVE  Contents(m, EnvFreePages(m, e))
<1> DEFINE a == FreeTable(m, e, 1)
           b == FreeTable(a, e, 2)
           c == FreeTable(b, e, 3)
           x == [c EXCEPT !.dir[e] = NULL]
           q == m.dir[e]
<1>0. 1 \in Tables /\ 2 \in Tables /\ 3 \in Tables BY DEF Tables
<1>1. EnvFreePages(m, e) = PageDecref(x, q) BY DEF EnvFreePages
<1>2. FreesOnly(m, a) /\ Sound(a) BY <1>0, FreeTableContents, TableFreed DEF Fine
<1> HIDE DEF a
<1>3. FreesOnly(a, b) /\ Sound(b)
  BY <1>0, <1>2, FreeTableContents, TableFreed DEF Fine, FreesOnly
<1> HIDE DEF b
<1>4. FreesOnly(b, c) /\ Sound(c)
  BY <1>0, <1>3, FreeTableContents, TableFreed DEF Fine, FreesOnly
<1> HIDE DEF c
<1>5. FreesOnly(m, c) BY <1>2, <1>3, <1>4, FreesTwice
<1>6. DOMAIN x = Fields /\ x.free = c.free /\ x.data = c.data
  BY <1>4 DEF Sound, Fields
<1> HIDE DEF x, q
<1>7. FreesOnly(m, x) BY <1>5, <1>6 DEF FreesOnly
<1>8. FreesOnly(x, PageDecref(x, q)) BY <1>6, <1>7, DecrefContents DEF FreesOnly, q
<1>9. FreesOnly(m, PageDecref(x, q)) BY <1>7, <1>8, FreesTwice
<1> QED BY <1>1, <1>9 DEF FreesOnly, Contents

(* Who has a page mapped finds in it what was there. *)
LEMMA MappedNotFree ==
  ASSUME NEW m, Sound(m), NEW e \in Envs, NEW va \in Vas, m.pte[e][va] # Unmapped
  PROVE  m.pte[e][va].page \in Pages \ m.free
<1> DEFINE p == m.pte[e][va].page
<1>1. p \in Pages BY PteKinds DEF Sound
<1>2. Refs(m, p) >= 1 BY Referenced
<1> HIDE DEF p
<1>3. Refs(m, p) <= m.ref[p] /\ Refs(m, p) \in Nat /\ m.ref[p] \in Nat
  BY <1>1, FiniteRefs DEF Sound
<1>4. m.ref[p] # 0 BY <1>2, <1>3
<1> QED BY <1>1, <1>4 DEF Sound, p

(* A mapping that a step leaves alone shows what it showed. *)
LEMMA ContentsKept ==
  ASSUME NEW m, NEW r, Sound(m), Sound(r), Contents(m, r), NEW e \in Envs, NEW va \in Vas,
         m.pte[e][va] # Unmapped, r.pte[e][va] = m.pte[e][va]
  PROVE  r.data[r.pte[e][va].page] = m.data[m.pte[e][va].page]
<1>1. m.pte[e][va].page \in Pages \ m.free BY MappedNotFree
<1>2. r.pte[e][va].page \in Pages \ r.free BY MappedNotFree
<1> QED BY <1>1, <1>2 DEF Contents
-----------------------------------------------------------------------------
(* Private pages *)

(* The addresses of the pages that a fork makes private again, and their   *)
(* places in the loop of fork.                                             *)
Priv == {"DATA", "STACK"}
Places == {2, 4}

On(e, va) == mem.pte[e][va] # Unmapped
PageOf(e, va) == mem.pte[e][va].page
Content(e, va) == mem.data[PageOf(e, va)]

(* The page at TEMP of e is in use for the page at va of f.                *)
TempOf(e, f, va) ==
  \/ f = e /\ usr[e].step = "unmap" /\ va = usr[e].fault
  \/ usr[e].pc \in {"copy", "copy_unmap"} /\ f = usr[e].child /\ va = Va(e)

(* e may write to a page that f has at the same address: until duppage has *)
(* changed the mapping of the parent, or for ever if pgfault panics then.  *)
Halfway(e, va, f) ==
  \/ usr[e].pc = "panic"
  \/ usr[e].pc = "dup_own" /\ usr[e].child = f /\ Va(e) = va

SameAddress(e, va, f) ==
  va # "TEMP" /\ (va \in Priv /\ mem.pte[e][va].perm = "rw" => Halfway(e, va, f))

MayShare(e, va, f, vb) ==
  \/ va = vb /\ SameAddress(e, va, f)
  \/ va = "TEMP" /\ TempOf(e, f, vb)
  \/ vb = "TEMP" /\ TempOf(f, e, va)

(* Which mappings may be of one page. *)
Aliases ==
  \A e \in Envs, f \in Envs, va \in Vas, vb \in Vas :
    (e # f \/ va # vb) /\ On(e, va) /\ PageOf(e, va) = PageOf(f, vb)
      => MayShare(e, va, f, vb)

(* What the program of an environment at u, with the mappings p, may use. *)
Tidy(fork, u, n, p) ==
  /\ fork = "fork" => u.pc \notin Copying
  /\ fork # "fork" => ~HasCow(p) /\ u.step = "none" /\ u.pc \notin ForkOnly
  /\ fork # "fork" /\ u.pc = "dup_child" => u.perm \notin {"rw", "cow"}
  /\ p["TEMP"] # Unmapped =>
       u.step \in {"copy", "map", "unmap"} \/ u.pc \in {"copy", "copy_unmap"}
  /\ n.status = "FREE" => \A va \in Vas : p[va] = Unmapped
  /\ u.pc \in AtPage => VaOrder[u.at] # "TEMP" /\ p[VaOrder[u.at]] # Unmapped
  /\ u.pc = "dup_child" /\ VaOrder[u.at] \in Priv => u.perm \in {"rw", "cow"}
  /\ \A va \in Priv : p[va] # Unmapped => p[va].perm \in {"rw", "cow"}
  /\ u.step # "none" => p[u.fault] # Unmapped
  /\ u.step \in {"alloc", "copy", "map"} => p[u.fault].perm # "rw"
  /\ n.status = "NOT_RUNNABLE" => u.pc \in {"child", "user"}

TidyOf(e) == Tidy(program.fork, usr[e], env[e], mem.pte[e])

(* The page of the child that e copies through TEMP is of nobody else.     *)
CopyTarget(e) ==
  /\ usr[e].pc \in {"copy", "copy_unmap"} =>
       On(e, "TEMP") /\ PageOf(e, "TEMP") = PageOf(usr[e].child, Va(e))
  /\ usr[e].pc = "copy_map" =>
       \A f \in Envs, vb \in Vas : f # usr[e].child \/ vb # Va(e) =>
         ~On(f, vb) \/ PageOf(f, vb) # PageOf(usr[e].child, Va(e))

(* Whoever lives finds what it wrote, and pgfault has copied it.           *)
Finds(e) ==
  /\ Up(e) => \A va \in Priv : On(e, va) /\ Content(e, va) = seen[e][va]
  /\ usr[e].step = "map" /\ usr[e].fault \in Priv
       => Content(e, "TEMP") = seen[e][usr[e].fault]

(* The child that e is building has got the page at the place i ...        *)
GivenAt(e, i) ==
  \/ usr[e].pc \in {"dup"} \cup AtPage /\ usr[e].at > i
  \/ usr[e].pc \in {"dup_own", "copy_map", "copy", "copy_unmap"} /\ usr[e].at = i
  \/ usr[e].pc \in {"xstack", "child_upcall"}
  \/ usr[e].pc = "status" /\ env[usr[e].child].parent = e

(* ... with what it inherits, or is about to.                              *)
Inherited(e, i) ==
  LET d == usr[e].child
      va == VaOrder[i]
  IN  /\ On(d, va)
      /\ \/ Content(d, va) = seen[d][va]
         \/ usr[e].pc \in {"copy_map", "copy"} /\ usr[e].at = i
         \/ /\ usr[e].pc = "dup_own" /\ usr[e].at = i
            /\ mem.pte[e][va].perm = "rw" /\ PageOf(d, va) = PageOf(e, va)

Gave(e) == \A i \in Places : GivenAt(e, i) => Inherited(e, i)

(* Who shares pages with whom, and what everybody finds on its own.        *)
Private ==
  /\ mem.data \in [Pages -> {0, 1}] /\ seen \in [Envs -> [Vas -> {0, 1}]]
  /\ Aliases
  /\ \A e \in Envs : TidyOf(e) /\ CopyTarget(e) /\ Finds(e) /\ Gave(e)

(* The inductive invariant of PrivateMemory. *)
PInv == FInv /\ TlbCoherent /\ Private

-----------------------------------------------------------------------------
(* What a step leaves private *)

(* The step leaves what f finds at va. *)
SameContent(f, va) ==
  mem'.data[mem'.pte[f][va].page] = mem.data[mem.pte[f][va].page]

(* The step leaves the program of f where it is. *)
Still(f) ==
  /\ usr'[f].pc = usr[f].pc /\ usr'[f].child = usr[f].child /\ usr'[f].at = usr[f].at
  /\ usr'[f].perm = usr[f].perm /\ usr'[f].step = usr[f].step
  /\ usr'[f].fault = usr[f].fault

(* The step leaves alone the child that f is building. *)
ChildStands(f) ==
  LET c == usr[f].child
  IN  usr[f].pc \in Building \cup {"status"} /\ env'[c].parent = f =>
        /\ env[c].parent = f /\ mem'.pte[c] = mem.pte[c] /\ seen'[c] = seen[c]
        /\ \A va \in Priv : On(c, va) => SameContent(c, va)
        /\ usr[f].pc = "copy_map" =>
             \A g \in Envs, vb \in Vas : On(g, vb)' =>
               \/ mem'.pte[g][vb] = mem.pte[g][vb]
               \/ mem'.pte[g][vb].page # PageOf(c, Va(f))

(* The step does nothing to f and to what f relies on. *)
Stands(f) ==
  /\ Still(f) /\ mem'.pte[f] = mem.pte[f]
  /\ env'[f].status \in {"FREE", "NOT_RUNNABLE"} => env'[f].status = env[f].status
  /\ Up(f)' => /\ Up(f) /\ seen'[f] = seen[f]
               /\ \A va \in Priv : On(f, va) => SameContent(f, va)
  /\ usr[f].step = "map" => SameContent(f, "TEMP")
  /\ ChildStands(f)

(* Who is left alone, with the child it builds, keeps what it has. *)
LEMMA StandsPrivate ==
  ASSUME PInv, FInv', program'.fork = program.fork, NEW f \in Envs, Stands(f)
  PROVE  TidyOf(f)' /\ CopyTarget(f)' /\ Finds(f)' /\ Gave(f)'
<1>1. TidyOf(f) /\ CopyTarget(f) /\ Finds(f) /\ Gave(f) BY DEF PInv, Private
<1>2. /\ Still(f) /\ mem'.pte[f] = mem.pte[f] /\ ChildStands(f)
      /\ env'[f].status \in {"FREE", "NOT_RUNNABLE"} => env'[f].status = env[f].status
  BY DEF Stands
<1>3. TidyOf(f)' BY <1>1, <1>2 DEF TidyOf, Tidy, Still
<1>4. Va(f)' = Va(f) BY <1>2 DEF Va, Still
<1>5. /\ usr[f].pc \in Building \cup {"status"} => usr[f].child \in Envs
      /\ usr[f].pc \in Building => env'[usr[f].child].parent = f
      /\ usr[f].pc \in AtPage => Va(f) \in Vas
  <2>1. /\ usr[f].pc \in Building \cup {"status"} => usr[f].child \in Envs
        /\ usr[f].pc \in AtPage => Va(f) \in Vas
    BY PageOfLoop DEF PInv, FInv, IInv, Children
  <2>2. usr'[f].pc \in Building => env'[usr'[f].child].parent = f
    BY DEF FInv, IInv, Children
  <2> QED BY <1>2, <2>1, <2>2 DEF Still
<1>6. CopyTarget(f)'
  <2>1. ASSUME usr'[f].pc \in {"copy", "copy_unmap"}
        PROVE  /\ On(f, "TEMP")'
               /\ PageOf(f, "TEMP")' = mem'.pte[usr'[f].child][Va(f)'].page
    <3>1. usr[f].pc \in {"copy", "copy_unmap"} /\ usr'[f].child = usr[f].child
      BY <1>2, <2>1 DEF Still
    <3>2. mem'.pte[usr[f].child] = mem.pte[usr[f].child]
      BY <1>2, <1>5, <3>1 DEF ChildStands, Building, AtPage
    <3>3. On(f, "TEMP") /\ PageOf(f, "TEMP") = PageOf(usr[f].child, Va(f))
      BY <1>1, <3>1 DEF CopyTarget
    <3> QED BY <1>2, <1>4, <3>1, <3>2, <3>3 DEF On, PageOf
  <2>2. ASSUME usr'[f].pc = "copy_map", NEW g \in Envs, NEW vb \in Vas,
               g # usr'[f].child \/ vb # Va(f)', On(g, vb)'
        PROVE  PageOf(g, vb)' # mem'.pte[usr'[f].child][Va(f)'].page
    <3>1. usr[f].pc = "copy_map" /\ usr'[f].child = usr[f].child
      BY <1>2, <2>2 DEF Still
    <3> DEFINE c == usr[f].child
    <3>2. /\ mem'.pte[c] = mem.pte[c]
          /\ mem'.pte[g][vb] = mem.pte[g][vb] \/ mem'.pte[g][vb].page # PageOf(c, Va(f))
      BY <1>2, <1>5, <2>2, <3>1 DEF ChildStands, Building, AtPage
    <3>4. ~On(g, vb) \/ PageOf(g, vb) # PageOf(c, Va(f))
      BY <1>1, <1>4, <2>2, <3>1 DEF CopyTarget
    <3>5. mem'.pte[usr'[f].child][Va(f)'].page = PageOf(c, Va(f))
      BY <1>4, <3>1, <3>2 DEF PageOf
    <3> QED BY <2>2, <3>2, <3>4, <3>5 DEF On, PageOf
  <2> QED BY <2>1, <2>2 DEF CopyTarget, PageOf
<1>7. Finds(f)'
  <2>1. Up(f)' => \A va \in Priv : On(f, va)' /\ Content(f, va)' = seen'[f][va]
    BY <1>1, <1>2 DEF Stands, Finds, On, SameContent, Content, PageOf
  <2>2. usr'[f].step = "map" /\ usr'[f].fault \in Priv
          => Content(f, "TEMP")' = seen'[f][usr'[f].fault]
    <3>1. SUFFICES ASSUME usr'[f].step = "map", usr'[f].fault \in Priv
                   PROVE  Content(f, "TEMP")' = seen'[f][usr'[f].fault]
      OBVIOUS
    <3>2. Live(f)' BY <3>1 DEF FInv, Faults, FaultOf
    <3>3. seen'[f] = seen[f] BY <3>2 DEF Stands, Up
    <3>4. Content(f, "TEMP")' = Content(f, "TEMP") /\ Content(f, "TEMP") = seen[f][usr[f].fault]
      BY <1>1, <1>2, <3>1 DEF Stands, Finds, Still, SameContent, Content, PageOf
    <3> QED BY <1>2, <3>3, <3>4 DEF Still
  <2> QED BY <2>1, <2>2 DEF Finds
<1>8. Gave(f)'
  <2>1. SUFFICES ASSUME NEW i \in Places, GivenAt(f, i)' PROVE Inherited(f, i)'
    BY DEF Gave
  <2> DEFINE c == usr[f].child
             va == VaOrder[i]
  <2>2. va \in Priv BY DEF Places, Priv, VaOrder
  <2>3. usr[f].pc \in Building \cup {"status"} /\ env'[c].parent = f
    BY <1>2, <1>5, <2>1 DEF GivenAt, Building, AtPage, Still
  <2>4. /\ env[c].parent = f /\ mem'.pte[c] = mem.pte[c] /\ seen'[c] = seen[c]
        /\ On(c, va) => SameContent(c, va)
    BY <1>2, <2>2, <2>3 DEF ChildStands
  <2>5. GivenAt(f, i) BY <1>2, <2>1, <2>4 DEF GivenAt, Still
  <2>6. Inherited(f, i) BY <1>1, <2>5 DEF Gave
  <2>7. On(c, va) /\ mem'.pte[c][va] # Unmapped BY <2>4, <2>6 DEF Inherited, On
  <2>8. usr'[f].child = c /\ usr'[f].pc = usr[f].pc /\ usr'[f].at = usr[f].at
    BY <1>2 DEF Still
  <2>9. Content(c, va) = seen[c][va] => mem'.data[mem'.pte[c][va].page] = seen'[c][va]
    BY <2>4, <2>7 DEF SameContent, Content, PageOf
  <2> QED BY <1>2, <2>4, <2>6, <2>7, <2>8, <2>9 DEF Inherited, PageOf, Content, On
<1> QED BY <1>3, <1>6, <1>7, <1>8

(* A mapping of one that is being built, or receives, changes. *)
Harmless(f, va) ==
  /\ \A v \in Vas \ {va} : mem'.pte[f][v] = mem.pte[f][v]
  /\ va # "TEMP"
  /\ mem'.pte[f][va].perm = "cow" => program.fork = "fork"
  /\ va \in Priv => mem'.pte[f][va] = Unmapped \/ mem'.pte[f][va].perm \in {"rw", "cow"}

(* The same of one in which a mapping changes while it is blocked. *)
LEMMA BlockedPrivate ==
  ASSUME PInv, FInv', program'.fork = program.fork, NEW f \in Envs, NEW va \in Vas,
         env[f].status = "NOT_RUNNABLE", env'[f].status # "FREE", Still(f), Harmless(f, va),
         Up(f)' => /\ Up(f) /\ va \notin Priv /\ seen'[f] = seen[f]
                   /\ \A v \in Priv : On(f, v) => SameContent(f, v)
  PROVE  TidyOf(f)' /\ CopyTarget(f)' /\ Finds(f)' /\ Gave(f)'
<1>1. TidyOf(f) /\ Finds(f) BY DEF PInv, Private
<1>2. usr[f].pc \in {"child", "user"} BY <1>1 DEF TidyOf, Tidy
<1>3. usr[f].step = "none" BY DEF PInv, FInv, Faults, FaultOf, Live
<1>4. usr'[f].pc = usr[f].pc /\ usr'[f].step = "none" BY <1>3 DEF Still
<1>5. CopyTarget(f)' BY <1>2, <1>4 DEF CopyTarget
<1>6. Gave(f)' BY <1>2, <1>4 DEF Gave, GivenAt, AtPage
<1>7. Priv \subseteq Vas BY DataIs DEF Priv
<1>8. Finds(f)'
  <2>1. Up(f)' => \A v \in Priv : mem'.pte[f][v] = mem.pte[f][v]
    BY <1>7 DEF Harmless
  <2>2. Up(f)' => \A v \in Priv : On(f, v)' /\ Content(f, v)' = seen'[f][v]
    BY <1>1, <2>1 DEF Finds, On, SameContent, Content, PageOf
  <2> QED BY <1>4, <2>2 DEF Finds
<1>9. TidyOf(f)'
  <2>1. mem'.pte[f]["TEMP"] = mem.pte[f]["TEMP"] BY DataIs DEF Harmless
  <2>2. program'.fork # "fork" => ~HasCow(mem'.pte[f])
    <3>1. program.fork # "fork" => ~HasCow(mem.pte[f]) BY <1>1 DEF TidyOf, Tidy
    <3> QED BY <3>1 DEF HasCow, Harmless
  <2>3. \A v \in Priv : mem'.pte[f][v] # Unmapped => mem'.pte[f][v].perm \in {"rw", "cow"}
    BY <1>1, <1>7 DEF TidyOf, Tidy, Harmless
  <2>4. usr'[f].pc \notin AtPage \cup {"dup_child"} \cup Copying \cup ForkOnly
    BY <1>2, <1>4 DEF AtPage, Copying, ForkOnly
  <2>5. mem.pte[f]["TEMP"] # Unmapped =>
          usr[f].step \in {"copy", "map", "unmap"} \/ usr[f].pc \in {"copy", "copy_unmap"}
    BY <1>1 DEF TidyOf, Tidy
  <2>6. mem'.pte[f]["TEMP"] = Unmapped BY <1>2, <1>3, <2>1, <2>5
  <2> QED BY <1>2, <1>4, <2>2, <2>3, <2>4, <2>6 DEF TidyOf, Tidy
<1> QED BY <1>5, <1>6, <1>8, <1>9

-----------------------------------------------------------------------------
(* One mapping changes *)

(* The step changes at most the mapping of va in x, and what remains        *)
(* mapped contains what it did.                                            *)
Touches(x, va) ==
  /\ mem'.data \in Fill
  /\ \A f \in Envs, v \in Vas : f # x \/ v # va => mem'.pte[f][v] = mem.pte[f][v]
  /\ \A f \in Envs, v \in Vas :
       On(f, v) /\ mem'.pte[f][v] = mem.pte[f][v] => SameContent(f, v)

(* From what the operators of the memory promise. *)
LEMMA Touched ==
  ASSUME Sound(mem), NEW x \in Envs, NEW va \in Vas, Sound(mem'), Contents(mem, mem'),
         \A f \in Envs \ {x} : mem'.pte[f] = mem.pte[f],
         \A v \in Vas \ {va} : mem'.pte[x][v] = mem.pte[x][v]
  PROVE  Touches(x, va)
<1>1. \A f \in Envs, v \in Vas :
        On(f, v) /\ mem'.pte[f][v] = mem.pte[f][v] => SameContent(f, v)
  BY ContentsKept DEF On, SameContent
<1> QED BY <1>1 DEF Touches, Contents

(* What was half done, or in use, is as before or done. *)
TempsStay ==
  \A f \in Envs, g \in Envs, v \in Vas :
    TempOf(f, g, v) => TempOf(f, g, v)' \/ mem'.pte[f]["TEMP"] = Unmapped
HalfwaysStay ==
  \A f \in Envs, g \in Envs, v \in Priv :
    Halfway(f, v, g) /\ mem'.pte[f][v].perm = "rw" => Halfway(f, v, g)'

(* Whose page the mapping of va in x comes to be. *)
NewAlias(x, va) ==
  \A f \in Envs, v \in Vas :
    (f # x \/ v # va) /\ On(f, v) /\ PageOf(f, v) = mem'.pte[x][va].page
      => MayShare(x, va, f, v)' /\ MayShare(f, v, x, va)'

(* Two mappings that a step leaves alone may share a page as before. *)
LEMMA MayStillShare ==
  ASSUME TempsStay, HalfwaysStay, NEW f \in Envs, NEW v \in Vas, NEW g \in Envs, NEW w \in Vas,
         mem'.pte[f][v] = mem.pte[f][v], mem'.pte[g][w] = mem.pte[g][w],
         On(f, v), On(g, w), MayShare(f, v, g, w)
  PROVE  MayShare(f, v, g, w)'
<1>1. CASE v = w /\ SameAddress(f, v, g)
  BY <1>1 DEF HalfwaysStay, SameAddress, MayShare
<1>2. CASE v = "TEMP" /\ TempOf(f, g, w)
  <2>1. TempOf(f, g, w)' BY <1>2 DEF TempsStay, On
  <2> QED BY <1>2, <2>1 DEF MayShare
<1>3. CASE w = "TEMP" /\ TempOf(g, f, v)
  <2>1. TempOf(g, f, v)' BY <1>3 DEF TempsStay, On
  <2> QED BY <1>3, <2>1 DEF MayShare
<1> QED BY <1>1, <1>2, <1>3 DEF MayShare

(* One mapping changes: its new page is the only one to look at. *)
LEMMA AliasesKept ==
  ASSUME PInv, NEW x \in Envs, NEW va \in Vas, Touches(x, va), Sound(mem'),
         TempsStay, HalfwaysStay,
         \/ mem'.pte[x][va] = mem.pte[x][va]
         \/ mem'.pte[x][va] = Unmapped
         \/ NewAlias(x, va)
  PROVE  Aliases'
<1>0. Sound(mem) /\ Aliases BY DEF PInv, FInv, IInv, Counted, Private
<1>1. SUFFICES ASSUME NEW f \in Envs, NEW g \in Envs, NEW v \in Vas, NEW w \in Vas,
                      f # g \/ v # w, On(f, v)', PageOf(f, v)' = PageOf(g, w)'
               PROVE  MayShare(f, v, g, w)'
  BY DEF Aliases
<1>2. mem'.pte[f][v] # Unmapped /\ mem'.pte[g][w] # Unmapped
      /\ mem'.pte[f][v].page = mem'.pte[g][w].page
  <2>1. mem'.pte[f][v].page \in Pages BY <1>1, PteKinds DEF On, Sound
  <2> QED BY <1>1, <2>1, PteKinds DEF On, PageOf
<1>3. CASE mem'.pte[f][v] = mem.pte[f][v] /\ mem'.pte[g][w] = mem.pte[g][w]
  <2>1. On(f, v) /\ On(g, w) /\ PageOf(f, v) = PageOf(g, w)
    BY <1>2, <1>3 DEF On, PageOf
  <2>2. MayShare(f, v, g, w) BY <1>0, <1>1, <2>1 DEF Aliases
  <2> QED BY <1>3, <2>1, <2>2, MayStillShare
<1>4. CASE mem'.pte[f][v] # mem.pte[f][v]
  <2>1. f = x /\ v = va BY <1>4 DEF Touches
  <2>2. mem'.pte[g][w] = mem.pte[g][w] BY <1>1, <2>1 DEF Touches
  <2>3. NewAlias(x, va) BY <1>2, <1>4, <2>1
  <2> QED BY <1>1, <1>2, <2>1, <2>2, <2>3 DEF NewAlias, On, PageOf
<1>5. CASE mem'.pte[g][w] # mem.pte[g][w]
  <2>1. g = x /\ w = va BY <1>5 DEF Touches
  <2>2. mem'.pte[f][v] = mem.pte[f][v] BY <1>1, <2>1 DEF Touches
  <2>3. NewAlias(x, va) BY <1>2, <1>5, <2>1
  <2> QED BY <1>1, <1>2, <2>1, <2>2, <2>3 DEF NewAlias, On, PageOf
<1> QED BY <1>3, <1>4, <1>5

(* Nobody shares a page that was free. *)
LEMMA FreshAlias ==
  ASSUME PInv, NEW x \in Envs, NEW va \in Vas, mem'.pte[x][va].page \in mem.free
  PROVE  NewAlias(x, va)
<1>1. \A f \in Envs, v \in Vas : On(f, v) => PageOf(f, v) \notin mem.free
  BY MappedNotFree DEF PInv, FInv, IInv, Counted, On, PageOf
<1> QED BY <1>1 DEF NewAlias

(* Nobody but e builds x. *)
NotOthers(e, x) ==
  \A f \in Envs \ {e} :
    usr[f].pc \in Building \cup {"status"} /\ env[usr[f].child].parent = f => usr[f].child # x

(* A child has one parent. *)
LEMMA AreNotOthers ==
  ASSUME IInv, NEW e \in Envs, NEW x \in Envs,
         env[x].parent = e \/ env[x].recving \/ env[x].status # "NOT_RUNNABLE"
  PROVE  NotOthers(e, x)
  BY DEF IInv, Children, Blocked, NotOthers

(* The page at va of x is the one it was, a new one, or one of an address  *)
(* space that nobody else builds.                                          *)
Source(e, x, va) ==
  \/ mem'.pte[x][va] = mem.pte[x][va]
  \/ mem'.pte[x][va] = Unmapped
  \/ mem'.pte[x][va].page \in mem.free
  \/ \E s \in Envs, sv \in Vas :
       NotOthers(e, s) /\ On(s, sv) /\ mem'.pte[x][va].page = PageOf(s, sv)

(* A step of e is nothing to f, as far as f itself is concerned. *)
Calm(f) ==
  /\ Still(f)
  /\ env'[f].status \in {"FREE", "NOT_RUNNABLE"} => env'[f].status = env[f].status
  /\ Up(f)' => Up(f) /\ seen'[f] = seen[f]

(* The children of the others, and what they inherit. *)
ChildrenCalm(e) ==
  \A c \in Envs : /\ env'[c].parent \in {env[c].parent, e, NoEnv}
                  /\ NotOthers(e, c) \/ seen'[c] = seen[c]

(* A step of e at a mapping of x leaves everybody else alone. *)
LEMMA OthersStand ==
  ASSUME PInv, IInv', NEW e \in Envs, NEW x \in Envs, NEW va \in Vas, Touches(x, va),
         NotOthers(e, x), Source(e, x, va), ChildrenCalm(e),
         NEW f \in Envs \ {e, x}, Calm(f)
  PROVE  Stands(f)
<1>0. Sound(mem) /\ Sound(mem') BY DEF PInv, FInv, IInv, Counted
<1>a. NoEnv \notin Envs BY AddressSpaceAssumption
<1>1. mem'.pte[f] = mem.pte[f]
  BY <1>0, FunctionsOfAddresses DEF Touches
<1>2. \A v \in Vas : On(f, v) => SameContent(f, v) BY <1>1 DEF Touches
<1>3. Priv \subseteq Vas BY DataIs DEF Priv
<1>4. usr[f].step = "map" => On(f, "TEMP")
  <2>1. usr[f].step = "map" => mem.pte[f]["TEMP"].perm = "rw"
    BY DEF PInv, FInv, Faults, FaultOf
  <2> QED BY <2>1 DEF On, Unmapped, Pte
<1>5. usr[f].step = "map" => SameContent(f, "TEMP")
  BY <1>2, <1>4, DataIs
<1>6. ChildStands(f)
  <2> DEFINE c == usr[f].child
  <2>1. SUFFICES ASSUME usr[f].pc \in Building \cup {"status"}, env'[c].parent = f
                 PROVE  /\ env[c].parent = f /\ mem'.pte[c] = mem.pte[c] /\ seen'[c] = seen[c]
                        /\ \A v \in Priv : On(c, v) => SameContent(c, v)
                        /\ usr[f].pc = "copy_map" =>
                             \A g \in Envs, vb \in Vas : On(g, vb)' =>
                               \/ mem'.pte[g][vb] = mem.pte[g][vb]
                               \/ mem'.pte[g][vb].page # PageOf(c, Va(f))
    BY DEF ChildStands
  <2>2. c \in Envs BY <2>1 DEF PInv, FInv, IInv, Children
  <2>3. env[c].parent = f BY <1>a, <2>1, <2>2 DEF ChildrenCalm
  <2>4. ~NotOthers(e, c) /\ c # x BY <2>1, <2>2, <2>3 DEF NotOthers
  <2>5. seen'[c] = seen[c] BY <2>2, <2>4 DEF ChildrenCalm
  <2>6. mem'.pte[c] = mem.pte[c]
    BY <1>0, <2>2, <2>4, FunctionsOfAddresses DEF Touches
  <2>7. \A v \in Priv : On(c, v) => SameContent(c, v) BY <1>3, <2>2, <2>6 DEF Touches
  <2>8. ASSUME usr[f].pc = "copy_map", NEW g \in Envs, NEW vb \in Vas, On(g, vb)',
               mem'.pte[g][vb] # mem.pte[g][vb]
        PROVE  mem'.pte[g][vb].page # PageOf(c, Va(f))
    <3>1. g = x /\ vb = va BY <2>8 DEF Touches
    <3>2. Va(f) \in Vas /\ On(c, Va(f)) => PageOf(c, Va(f)) \notin mem.free
      <4>1. Va(f) \in Vas BY <2>8, PageOfLoop DEF PInv, FInv, AtPage
      <4> QED BY <1>0, <2>2, <4>1, MappedNotFree DEF On, PageOf
    <3>3. CASE mem'.pte[x][va].page \in mem.free
      <4>1. Va(f) \in Vas BY <2>8, PageOfLoop DEF PInv, FInv, AtPage
      <4>2. mem'.pte[x][va].page \in Pages BY <1>0, <3>3 DEF Sound
      <4>3. ~On(c, Va(f)) => PageOf(c, Va(f)) \notin Pages BY PteKinds DEF On, PageOf
      <4> QED BY <3>1, <3>2, <3>3, <4>1, <4>2, <4>3
    <3>4. ASSUME NEW s \in Envs, NEW sv \in Vas, NotOthers(e, s), On(s, sv),
                 mem'.pte[x][va].page = PageOf(s, sv)
          PROVE  mem'.pte[g][vb].page # PageOf(c, Va(f))
      <4>1. s # c BY <2>4, <3>4
      <4>2. CopyTarget(f) BY DEF PInv, Private
      <4>3. PageOf(s, sv) # PageOf(c, Va(f)) BY <2>8, <3>4, <4>1, <4>2 DEF CopyTarget
      <4> QED BY <3>1, <3>4, <4>3
    <3> QED BY <2>8, <3>1, <3>3, <3>4 DEF Source, On
  <2> QED BY <2>3, <2>5, <2>6, <2>7, <2>8
<1> QED BY <1>1, <1>2, <1>3, <1>5, <1>6 DEF Stands, Calm

(* A step of e after which everything is private again. *)
LEMMA PrivateGoesOn ==
  ASSUME PInv, FInv', NEW e \in Envs, NEW x \in Envs, NEW va \in Vas,
         program'.fork = program.fork, seen' \in [Envs -> [Vas -> {0, 1}]],
         Touches(x, va), NotOthers(e, x), Source(e, x, va), ChildrenCalm(e),
         \A f \in Envs \ {e} : Calm(f),
         x # e => /\ env[x].status = "NOT_RUNNABLE" /\ env'[x].status # "FREE"
                  /\ Harmless(x, va)
                  /\ Up(x)' => va \notin Priv,
         Aliases', TidyOf(e)', CopyTarget(e)', Finds(e)', Gave(e)'
  PROVE  Private'
<1>1. IInv' BY DEF FInv
<1>2. ASSUME NEW f \in Envs \ {e} PROVE TidyOf(f)' /\ CopyTarget(f)' /\ Finds(f)' /\ Gave(f)'
  <2>1. CASE f # x
    <3>1. Stands(f) BY <1>1, <2>1, OthersStand
    <3> QED BY <3>1, StandsPrivate
  <2>2. CASE f = x
    <3>1. Calm(f) OBVIOUS
    <3>2. Priv \subseteq Vas BY DataIs DEF Priv
    <3>3. va \notin Priv => \A v \in Priv : On(f, v) => SameContent(f, v)
      BY <2>2, <3>2 DEF Touches
    <3>0. f = x /\ x # e BY <2>2
    <3>4. Up(f)' => va \notin Priv
      <4>1. Up(x)' => va \notin Priv BY <3>0
      <4> QED BY <3>0, <4>1 DEF Up, Live
    <3>5. Up(f)' => /\ Up(f) /\ va \notin Priv /\ seen'[f] = seen[f]
                    /\ \A v \in Priv : On(f, v) => SameContent(f, v)
      BY <3>1, <3>3, <3>4 DEF Calm
    <3>6. env[f].status = "NOT_RUNNABLE" /\ env'[f].status # "FREE" /\ Harmless(f, va)
      BY <3>0
    <3> QED BY <3>1, <3>5, <3>6, BlockedPrivate DEF Calm
  <2> QED BY <2>1, <2>2
<1>3. mem'.data \in [Pages -> {0, 1}] BY DEF Touches, Fill
<1> QED BY <1>2, <1>3 DEF Private

-----------------------------------------------------------------------------
(* What e relies on, after a step of its own *)

(* Nobody builds an environment that runs. *)
LEMMA IsAlive ==
  ASSUME PInv, NEW e \in Envs, Live(e)
  PROVE  Up(e) /\ NotOthers(e, e) /\ env[e].status # "NOT_RUNNABLE"
<1>1. env[e].status # "NOT_RUNNABLE" BY DEF Live
<1> QED BY <1>1, AreNotOthers DEF Up, PInv, FInv

(* The step leaves everybody alive or not, and whose child it is. *)
SameLives ==
  \A f \in Envs : /\ env'[f].status = env[f].status /\ env'[f].parent = env[f].parent
                  /\ env'[f].recving = env[f].recving

(* A step of e that changes no other environment, nor what is inherited.   *)
LEMMA CalmAlone ==
  ASSUME PInv, NEW e \in Envs, SameLives, seen' = seen,
         \A f \in Envs \ {e} : usr'[f] = usr[f]
  PROVE  ChildrenCalm(e) /\ \A f \in Envs \ {e} : Calm(f)
  BY DEF SameLives, ChildrenCalm, Calm, Still, Up, Live

(* The step of e changes one mapping, of its own or of its child. *)
LEMMA PrivateAlone ==
  ASSUME PInv, FInv', NEW e \in Envs, NEW x \in Envs, NEW va \in Vas, Live(e),
         program'.fork = program.fork, SameLives, seen' = seen,
         \A f \in Envs \ {e} : usr'[f] = usr[f],
         Touches(x, va), Source(e, x, va),
         x # e => env[x].parent = e /\ Blocked(env, x) /\ Harmless(x, va),
         Aliases', TidyOf(e)', CopyTarget(e)', Finds(e)', Gave(e)'
  PROVE  Private'
<1>1. ChildrenCalm(e) /\ \A f \in Envs \ {e} : Calm(f) BY CalmAlone
<1>2. NotOthers(e, x)
  <2>1. CASE x = e BY <2>1, IsAlive
  <2>2. CASE x # e BY <2>2, AreNotOthers DEF PInv, FInv
  <2> QED BY <2>1, <2>2
<1>3. x # e => /\ env[x].status = "NOT_RUNNABLE" /\ env'[x].status # "FREE"
               /\ Harmless(x, va)
               /\ Up(x)' => va \notin Priv
  BY DEF SameLives, Blocked, Up, Live
<1>4. seen' \in [Envs -> [Vas -> {0, 1}]] BY DEF PInv, Private
<1> QED BY <1>1, <1>2, <1>3, <1>4, PrivateGoesOn

(* Where nothing is said of a child. *)
LEMMA NothingGiven ==
  ASSUME NEW e \in Envs,
         usr'[e].pc \in {"none", "killed", "panic", "send_panic", "kernel_panic", "child",
                         "user", "handler", "upcall", "save", "exofork"}
  PROVE  CopyTarget(e)' /\ Gave(e)'
  BY DEF CopyTarget, Gave, GivenAt, AtPage

(* A step at another mapping leaves e what it wrote. *)
LEMMA StillFinds ==
  ASSUME PInv, NEW e \in Envs, NEW x \in Envs, NEW va \in Vas, Touches(x, va),
         x # e \/ va \notin Priv, seen'[e] = seen[e], Up(e), usr'[e].step # "map"
  PROVE  Finds(e)'
<1>1. Priv \subseteq Vas BY DataIs DEF Priv
<1>2. ASSUME NEW v \in Priv PROVE On(e, v)' /\ Content(e, v)' = seen'[e][v]
  <2>1. On(e, v) /\ Content(e, v) = seen[e][v] BY DEF PInv, Private, Finds
  <2>2. mem'.pte[e][v] = mem.pte[e][v] BY <1>1 DEF Touches
  <2>3. SameContent(e, v) BY <1>1, <2>1, <2>2 DEF Touches
  <2> QED BY <2>1, <2>2, <2>3 DEF On, Content, PageOf, SameContent
<1> QED BY <1>2 DEF Finds

(* The temporary mapping, and the half done one, of a step of e. *)
LEMMA NothingHalfDone ==
  ASSUME NEW e \in Envs, \A f \in Envs \ {e} : Still(f),
         \/ usr[e].step # "unmap"
         \/ usr'[e].step = "unmap" /\ usr'[e].fault = usr[e].fault
         \/ mem'.pte[e]["TEMP"] = Unmapped,
         \/ usr[e].pc \notin {"copy", "copy_unmap"}
         \/ /\ usr'[e].pc \in {"copy", "copy_unmap"}
            /\ usr'[e].child = usr[e].child /\ usr'[e].at = usr[e].at
         \/ mem'.pte[e]["TEMP"] = Unmapped,
         usr[e].pc = "panic" => usr'[e].pc = "panic",
         \/ usr[e].pc # "dup_own"
         \/ usr'[e].pc = "panic"
         \/ usr'[e].pc = "dup_own" /\ usr'[e].child = usr[e].child /\ usr'[e].at = usr[e].at
         \/ mem'.pte[e][Va(e)].perm # "rw"
  PROVE  TempsStay /\ HalfwaysStay
<1>1. TempsStay
  <2>1. SUFFICES ASSUME NEW f \in Envs, NEW g \in Envs, NEW v \in Vas, TempOf(f, g, v)
                 PROVE  TempOf(f, g, v)' \/ mem'.pte[f]["TEMP"] = Unmapped
    BY DEF TempsStay
  <2>2. CASE f # e
    <3>1. Still(f) BY <2>2
    <3> QED BY <2>1, <3>1 DEF TempOf, Still, Va
  <2>3. CASE f = e BY <2>1, <2>3 DEF TempOf, Va
  <2> QED BY <2>2, <2>3
<1>2. HalfwaysStay
  <2>1. SUFFICES ASSUME NEW f \in Envs, NEW g \in Envs, NEW v \in Priv, Halfway(f, v, g),
                        mem'.pte[f][v].perm = "rw"
                 PROVE  Halfway(f, v, g)'
    BY DEF HalfwaysStay
  <2>2. CASE f # e
    <3>1. Still(f) BY <2>2
    <3> QED BY <2>1, <3>1 DEF Halfway, Still, Va
  <2>3. CASE f = e BY <2>1, <2>3 DEF Halfway, Va
  <2> QED BY <2>2, <2>3
<1> QED BY <1>1, <1>2

(* The usual case: e is nowhere special. *)
LEMMA NothingSpecial ==
  ASSUME NEW e \in Envs, \A f \in Envs \ {e} : usr'[f] = usr[f],
         usr[e].step # "unmap", usr[e].pc \notin {"copy", "copy_unmap", "panic", "dup_own"}
  PROVE  TempsStay /\ HalfwaysStay
<1>1. \A f \in Envs \ {e} : Still(f) BY DEF Still
<1> QED BY <1>1, NothingHalfDone

(* e stays where it is, while it changes a mapping of its own.             *)
LEMMA StillGave ==
  ASSUME PInv, FInv', NEW e \in Envs, NEW va \in Vas, Touches(e, va), SameLives, seen' = seen,
         usr'[e].pc = usr[e].pc, usr'[e].child = usr[e].child, usr'[e].at = usr[e].at,
         va \in Priv => mem.pte[e][va].perm # "rw"
  PROVE  Gave(e)'
<1>1. SUFFICES ASSUME NEW i \in Places, GivenAt(e, i)' PROVE Inherited(e, i)'
  BY DEF Gave
<1> DEFINE c == usr[e].child
           v == VaOrder[i]
<1>2. v \in Priv BY DEF Places, Priv, VaOrder
<1>3. v \in Vas BY <1>2, DataIs DEF Priv
<1>4. GivenAt(e, i)
  <2>1. usr[e].pc = "status" => usr[e].child \in Envs
    BY DEF PInv, FInv, IInv, Children
  <2> QED BY <1>1, <2>1 DEF GivenAt, SameLives
<1>5. Inherited(e, i) BY <1>4 DEF PInv, Private, Gave
<1>6. c \in Envs \ {e}
  <2>1. usr[e].pc \in Building \cup {"status"} BY <1>4 DEF GivenAt, Building, AtPage
  <2> QED BY <2>1 DEF PInv, FInv, IInv, Children
<1>7. mem'.pte[c][v] = mem.pte[c][v] /\ On(c, v) BY <1>3, <1>5, <1>6 DEF Touches, Inherited
<1>8. SameContent(c, v) BY <1>3, <1>6, <1>7 DEF Touches
<1>9. mem.pte[e][v].perm = "rw" => mem'.pte[e][v] = mem.pte[e][v]
  BY <1>2, <1>3 DEF Touches
<1>10. \/ Content(c, v) = seen[c][v]
       \/ usr[e].pc \in {"copy_map", "copy"} /\ usr[e].at = i
       \/ /\ usr[e].pc = "dup_own" /\ usr[e].at = i
          /\ mem.pte[e][v].perm = "rw" /\ PageOf(c, v) = PageOf(e, v)
  BY <1>5 DEF Inherited
<1>11. /\ mem'.pte[c][v] # Unmapped
       /\ \/ mem'.data[mem'.pte[c][v].page] = seen'[c][v]
          \/ usr'[e].pc \in {"copy_map", "copy"} /\ usr'[e].at = i
          \/ /\ usr'[e].pc = "dup_own" /\ usr'[e].at = i
             /\ mem'.pte[e][v].perm = "rw" /\ mem'.pte[c][v].page = mem'.pte[e][v].page
  BY <1>7, <1>8, <1>9, <1>10 DEF SameContent, Content, PageOf, On
<1> QED BY <1>11 DEF Inherited, On, Content, PageOf

(* A program outside of pgfault. *)
LEMMA OutsidePgfault ==
  ASSUME PInv, NEW e \in Envs, usr[e].fault = "none"
  PROVE  usr[e].step = "none"
  BY DEF PInv, FInv, Faults, FaultOf

(* What is known of the caller of a system call. *)
LEMMA Caller ==
  ASSUME PInv, NEW e \in Envs, NEW pc, Calls(e, pc)
  PROVE  /\ Live(e) /\ env[e].status = "RUNNING"
         /\ usr[e].pc = pc /\ usr[e].fault = "none" /\ usr[e].step = "none"
  BY OutsidePgfault DEF Calls, At, Live

-----------------------------------------------------------------------------
(* Steps that schedule *)

(* A step that changes who runs, and no memory. *)
LEMMA ScheduledPrivate ==
  ASSUME PInv, FInv', mem' = mem, seen' = seen, program'.fork = program.fork,
         \A f \in Envs : /\ Still(f) /\ env'[f].parent = env[f].parent
                         /\ env'[f].status = "FREE" => env[f].status = "FREE"
                         /\ env'[f].status = "NOT_RUNNABLE" =>
                              env[f].status = "NOT_RUNNABLE" \/ usr[f].pc \in {"child", "user"}
                         /\ Up(f)' => Up(f)
  PROVE  Private'
<1>1. mem'.data \in [Pages -> {0, 1}] /\ seen' \in [Envs -> [Vas -> {0, 1}]]
  BY DEF PInv, Private
<1>2. Aliases'
  <2>1. Aliases BY DEF PInv, Private
  <2>2. \A f \in Envs, g \in Envs, v \in Vas, w \in Vas :
          MayShare(f, v, g, w) => MayShare(f, v, g, w)'
    BY DEF Still, MayShare, SameAddress, TempOf, Halfway, Va
  <2> QED BY <2>1, <2>2 DEF Aliases, On, PageOf
<1>3. ASSUME NEW f \in Envs PROVE TidyOf(f)' /\ CopyTarget(f)' /\ Finds(f)' /\ Gave(f)'
  <2>1. TidyOf(f) /\ CopyTarget(f) /\ Finds(f) /\ Gave(f) BY DEF PInv, Private
  <2>2. Still(f) /\ Va(f)' = Va(f) BY DEF Still, Va
  <2>3. TidyOf(f)' BY <2>1, <2>2 DEF TidyOf, Tidy, Still
  <2>4. CopyTarget(f)' BY <2>1, <2>2 DEF CopyTarget, Still, On, PageOf, Va
  <2>5. Finds(f)' BY <2>1, <2>2 DEF Finds, Still, On, Content, PageOf
  <2>6. Gave(f)'
    <3>1. SUFFICES ASSUME NEW i \in Places, GivenAt(f, i)' PROVE Inherited(f, i)'
      BY DEF Gave
    <3>2. usr[f].pc = "status" => usr[f].child \in Envs
      BY DEF PInv, FInv, IInv, Children
    <3>3. GivenAt(f, i) BY <2>2, <3>1, <3>2 DEF GivenAt, Still
    <3>4. Inherited(f, i) BY <2>1, <3>3 DEF Gave
    <3> QED BY <2>2, <3>4 DEF Inherited, Still, On, Content, PageOf
  <2> QED BY <2>3, <2>4, <2>5, <2>6
<1> QED BY <1>1, <1>2, <1>3 DEF Private

(* sched_yield. *)
LEMMA RunPrivate == ASSUME PInv, FInv', NEW e \in Envs, Run(e) PROVE Private'
<1>1. /\ mem' = mem /\ usr' = usr /\ seen' = seen /\ program' = program
      /\ env[e].status = "RUNNABLE" /\ env' = [env EXCEPT ![e].status = "RUNNING"]
  BY DEF Run
<1>2. /\ env'[e].status = "RUNNING" /\ env'[e].recving = env[e].recving
      /\ env'[e].parent = env[e].parent
      /\ \A f \in Envs \ {e} : env'[f] = env[f]
  BY <1>1 DEF PInv, FInv, IInv, Typed, EnvTypes
<1> QED BY <1>1, <1>2, ScheduledPrivate DEF Still, Up, Live

(* The timer interrupt. *)
LEMMA PreemptPrivate == ASSUME PInv, FInv', NEW e \in Envs, Preempt(e) PROVE Private'
<1>1. /\ mem' = mem /\ usr' = usr /\ seen' = seen /\ program' = program
      /\ env[e].status = "RUNNING" /\ env' = [env EXCEPT ![e].status = "RUNNABLE"]
  BY DEF Preempt
<1>2. /\ env'[e].status = "RUNNABLE" /\ env'[e].recving = env[e].recving
      /\ env'[e].parent = env[e].parent
      /\ \A f \in Envs \ {e} : env'[f] = env[f]
  BY <1>1 DEF PInv, FInv, IInv, Typed, EnvTypes
<1> QED BY <1>1, <1>2, ScheduledPrivate DEF Still, Up, Live

(* sys_ipc_recv blocks its caller. *)
LEMMA IpcRecvPrivate == ASSUME PInv, FInv', NEW e \in Envs, IpcRecv(e) PROVE Private'
<1>1. /\ mem' = mem /\ usr' = usr /\ seen' = seen
      /\ env' = [env EXCEPT ![e].status = "NOT_RUNNABLE", ![e].recving = TRUE]
  BY DEF IpcRecv
<1>2. program'.fork = program.fork /\ env[e].status = "RUNNING" /\ usr[e].pc = "user"
  BY Acted DEF IpcRecv, PInv, FInv
<1>3. /\ env'[e].status = "NOT_RUNNABLE" /\ env'[e].parent = env[e].parent
      /\ \A f \in Envs \ {e} : env'[f] = env[f]
  BY <1>1 DEF PInv, FInv, IInv, Typed, EnvTypes
<1> QED BY <1>1, <1>2, <1>3, ScheduledPrivate DEF Still, Up, Live

-----------------------------------------------------------------------------
(* Steps that leave what is private as it is *)

(* Where no mapping and no page changes. *)
LEMMA NothingTouched ==
  ASSUME PInv, mem'.data = mem.data, mem'.pte = mem.pte, NEW x \in Envs, NEW va \in Vas
  PROVE  Touches(x, va)
  BY DEF Touches, SameContent, PInv, Private, Fill

(* A system call of e, outside of pgfault, after which it builds no child: *)
(* it changes at most a mapping of its own that is not copied on write.    *)
LEMMA PlainPrivate ==
  ASSUME PInv, FInv', NEW e \in Envs, NEW va \in {"MSG", "XSTACK"}, Live(e),
         program'.fork = program.fork, SameLives, seen' = seen,
         \A f \in Envs \ {e} : usr'[f] = usr[f],
         usr[e].fault = "none", usr'[e].step = usr[e].step,
         usr[e].pc \notin {"copy", "copy_unmap", "panic", "dup_own"},
         usr'[e].pc \in {"panic", "send_panic", "kernel_panic", "user", "handler", "upcall",
                         "save", "exofork"},
         usr'[e].pc \in {"handler", "upcall", "save"} => program.fork = "fork",
         Touches(e, va), mem'.pte[e][va].perm # "cow" \/ mem'.pte[e][va] = mem.pte[e][va],
         \/ mem'.pte[e][va] = mem.pte[e][va]
         \/ mem'.pte[e][va] = Unmapped
         \/ mem'.pte[e][va].page \in mem.free
  PROVE  Private'
<1>0. va \in Vas /\ va \notin Priv /\ va # "TEMP" /\ Priv \subseteq Vas
  BY DataIs DEF Priv
<1>1. /\ usr[e].step = "none" /\ usr'[e].step = "none"
      /\ Up(e) /\ env[e].status # "NOT_RUNNABLE"
  BY OutsidePgfault, IsAlive
<1>2. CopyTarget(e)' /\ Gave(e)' BY NothingGiven
<1>3. Finds(e)' BY <1>0, <1>1, StillFinds
<1>4. TidyOf(e)'
  <2>1. TidyOf(e) BY DEF PInv, Private
  <2>2. mem'.pte[e]["TEMP"] = mem.pte[e]["TEMP"] BY <1>0, DataIs DEF Touches
  <2>3. mem.pte[e]["TEMP"] = Unmapped BY <1>1, <2>1 DEF TidyOf, Tidy
  <2>4. \A v \in Vas : mem'.pte[e][v] = mem.pte[e][v] \/ mem'.pte[e][v].perm # "cow"
    BY DEF Touches
  <2>5. program.fork # "fork" => ~HasCow(mem'.pte[e])
    BY <2>1, <2>4 DEF TidyOf, Tidy, HasCow
  <2>6. \A v \in Priv : mem'.pte[e][v] = mem.pte[e][v] BY <1>0 DEF Touches
  <2>7. env'[e].status # "FREE" /\ env'[e].status # "NOT_RUNNABLE"
    BY <1>1 DEF SameLives, Live
  <2>8. \A v \in Priv : mem'.pte[e][v] # Unmapped => mem'.pte[e][v].perm \in {"rw", "cow"}
    BY <2>1, <2>6 DEF TidyOf, Tidy
  <2> QED BY <1>1, <2>2, <2>3, <2>5, <2>7, <2>8 DEF TidyOf, Tidy, Copying, ForkOnly, AtPage
<1>5. TempsStay /\ HalfwaysStay BY <1>1, NothingSpecial
<1>6. Aliases'
  <2>1. Sound(mem') BY DEF FInv, IInv, Counted
  <2> QED BY <1>0, <1>5, <2>1, AliasesKept, FreshAlias
<1>7. Source(e, e, va) BY DEF Source
<1> QED BY <1>0, <1>2, <1>3, <1>4, <1>6, <1>7, PrivateAlone

(* A program calls fork or fork_v0. *)
LEMMA ForkPrivate == ASSUME PInv, FInv', NEW e \in Envs, Fork(e) PROVE Private'
<1>1. /\ mem' = mem /\ env' = env /\ program'.fork = program.fork /\ Goto(e, ForkTo(e))
  BY ForkKeeps DEF PInv, FInv
<1>2. seen' = seen /\ Calls(e, "user") BY DEF Fork
<1>3. program.fork \in {"fork", "fork_v0"}
  BY DEF PInv, FInv, IInv, Typed, ProgramTypes
<1>4. /\ ForkTo(e) \in {"exofork", "save", "handler"} /\ ForkTo(e) \in Counter
      /\ ForkTo(e) # "exofork" => program.fork = "fork"
  <2>1. CASE program.fork = "fork_v0" BY <2>1, Counters DEF ForkTo
  <2>2. CASE program.fork = "fork" /\ usr[e].handler BY <2>2, Counters DEF ForkTo
  <2>3. CASE program.fork = "fork" /\ ~usr[e].handler BY <2>3, Counters DEF ForkTo
  <2> QED BY <1>3, <2>1, <2>2, <2>3
<1>5. /\ \A f \in Envs \ {e} : usr'[f] = usr[f]
      /\ usr'[e].pc = ForkTo(e) /\ usr'[e].step = usr[e].step
  BY <1>1, <1>4, Went DEF PInv, FInv
<1>6. Live(e) /\ usr[e].pc = "user" /\ usr[e].fault = "none" BY <1>2, Caller
<1>7. Touches(e, "MSG") BY <1>1, DataIs, NothingTouched
<1> QED BY <1>1, <1>2, <1>4, <1>5, <1>6, <1>7, PlainPrivate DEF SameLives

(* The memory is sound, and its contents are contents. *)
LEMMA MemoryIs ==
  ASSUME PInv
  PROVE  Sound(mem) /\ mem.data \in Fill
  BY DEF PInv, FInv, IInv, Counted, Private, Fill

(* A system call by which e changes a mapping of x. *)
LEMMA CallTouches ==
  ASSUME PInv, FInv', NEW x \in Envs, NEW va \in Vas, Fine(mem, mem', x),
         \A v \in Vas \ {va} : mem'.pte[x][v] = mem.pte[x][v], Contents(mem, mem')
  PROVE  Touches(x, va)
<1>1. Sound(mem') BY DEF Fine
<1> QED BY <1>1, MemoryIs, Touched DEF Fine

(* ... for a new page. *)
LEMMA AllocTouches ==
  ASSUME PInv, FInv', NEW x \in Envs, NEW va \in Vas, NEW perm \in Perms,
         mem' = EnvPageAlloc(mem, x, va, perm)
  PROVE  /\ Touches(x, va) /\ Fine(mem, mem', x)
         /\ EnvPageAllocOK(mem, x, va) =>
              mem'.pte[x][va].page \in mem.free /\ mem'.pte[x][va].perm = perm
         /\ ~EnvPageAllocOK(mem, x, va) => mem'.pte = mem.pte /\ mem'.exhausted
<1>1. /\ Fine(mem, mem', x) /\ OthersKept(mem, mem', x, va)
      /\ ~EnvPageAllocOK(mem, x, va) => mem'.pte = mem.pte /\ mem'.exhausted
  BY MemoryIs, PageAllocated
<1>2. /\ Contents(mem, mem')
      /\ EnvPageAllocOK(mem, x, va) => \E p \in mem.free : mem'.pte[x][va] = Pte(p, perm)
  BY MemoryIs, PageAllocContents
<1>3. Touches(x, va) BY <1>1, <1>2, CallTouches DEF OthersKept
<1>4. ASSUME NEW p \in mem.free, mem'.pte[x][va] = Pte(p, perm)
      PROVE  mem'.pte[x][va].page \in mem.free /\ mem'.pte[x][va].perm = perm
  BY <1>4 DEF Pte
<1> QED BY <1>1, <1>2, <1>3, <1>4

(* ... for one that is mapped. *)
LEMMA MapTouches ==
  ASSUME PInv, FInv', NEW s \in Envs, NEW sv \in Vas, NEW x \in Envs, NEW va \in Vas,
         NEW perm \in Perms, mem' = EnvPageMap(mem, s, sv, x, va, perm)
  PROVE  /\ Touches(x, va) /\ Fine(mem, mem', x)
         /\ EnvPageMapOK(mem, s, sv, x, va, perm) =>
              On(s, sv) /\ mem'.pte[x][va] = Pte(PageOf(s, sv), perm)
         /\ ~EnvPageMapOK(mem, s, sv, x, va, perm) => mem'.pte = mem.pte
<1>1. /\ Fine(mem, mem', x) /\ OthersKept(mem, mem', x, va)
      /\ Mapped(mem, mem', s, sv, x, va, perm)
  BY MemoryIs, PageMapped
<1>2. Contents(mem, mem') BY MemoryIs, PageMapContents
<1>3. Touches(x, va) BY <1>1, <1>2, CallTouches DEF OthersKept
<1> QED BY <1>1, <1>3 DEF Mapped, EnvPageMapOK, On, PageOf

(* The permissions are enumerated. *)
LEMMA PermsAre == {"none", "ro", "cow", "rw"} = Perms BY DEF Perms

(* set_pgfault_handler allocates the exception stack. *)
LEMMA SetPgfaultHandlerPrivate ==
  ASSUME PInv, FInv', NEW e \in Envs, SetPgfaultHandler(e)
  PROVE  Private'
<1>1. /\ Calls(e, "handler") /\ env' = env /\ seen' = seen /\ program' = program
      /\ mem' = EnvPageAlloc(mem, e, "XSTACK", "rw")
      /\ Goto(e, IF EnvPageAllocOK(mem, e, "XSTACK") THEN "upcall" ELSE "exofork")
  BY DEF SetPgfaultHandler, Returns
<1> DEFINE pc == IF EnvPageAllocOK(mem, e, "XSTACK") THEN "upcall" ELSE "exofork"
<1>2. pc \in {"upcall", "exofork"} OBVIOUS
<1> HIDE DEF pc
<1>3. /\ \A f \in Envs \ {e} : usr'[f] = usr[f]
      /\ usr'[e].pc = pc /\ usr'[e].step = usr[e].step
  BY <1>1, <1>2, Counters, Went DEF PInv, FInv, pc
<1>4. Live(e) /\ usr[e].pc = "handler" /\ usr[e].fault = "none" BY <1>1, Caller
<1>5. program.fork = "fork" BY <1>4 DEF PInv, Private, TidyOf, Tidy, ForkOnly
<1>6. /\ Touches(e, "XSTACK")
      /\ mem'.pte[e]["XSTACK"] = mem.pte[e]["XSTACK"]
         \/ (mem'.pte[e]["XSTACK"].page \in mem.free /\ mem'.pte[e]["XSTACK"].perm # "cow")
  BY <1>1, DataIs, PermsAre, AllocTouches
<1> QED BY <1>1, <1>2, <1>3, <1>4, <1>5, <1>6, PlainPrivate DEF SameLives

(* sys_env_set_pgfault_upcall changes no memory. *)
LEMMA SetPgfaultUpcallPrivate ==
  ASSUME PInv, FInv', NEW e \in Envs, SetPgfaultUpcall(e)
  PROVE  Private'
<1>1. /\ Calls(e, "upcall") /\ seen' = seen /\ program' = program /\ mem' = mem
      /\ env' = [env EXCEPT ![e].upcall = TRUE] /\ Goto(e, "save")
  BY DEF SetPgfaultUpcall, Returns
<1>2. SameLives BY <1>1 DEF SameLives, PInv, FInv, IInv, Typed, EnvTypes
<1>3. /\ \A f \in Envs \ {e} : usr'[f] = usr[f]
      /\ usr'[e].pc = "save" /\ usr'[e].step = usr[e].step
  BY <1>1, Counters, Went DEF PInv, FInv
<1>4. Live(e) /\ usr[e].pc = "upcall" /\ usr[e].fault = "none" BY <1>1, Caller
<1>5. program.fork = "fork" BY <1>4 DEF PInv, Private, TidyOf, Tidy, ForkOnly
<1>6. Touches(e, "MSG") BY <1>1, DataIs, NothingTouched
<1> QED BY <1>1, <1>2, <1>3, <1>4, <1>5, <1>6, PlainPrivate

(* sys_page_alloc at the address of messages. *)
LEMMA AllocMsgPrivate ==
  ASSUME PInv, FInv', NEW e \in Envs, NEW perm \in {"ro", "rw"}, AllocMsg(e, perm)
  PROVE  Private'
<1>1. /\ Acts(e) /\ Calls(e, "user") /\ env' = env /\ seen' = seen
      /\ mem' = EnvPageAlloc(mem, e, "MSG", perm) /\ Goto(e, "user")
  BY DEF AllocMsg, Returns, Acts
<1>2. program'.fork = program.fork BY <1>1, Acted DEF PInv, FInv
<1>3. /\ \A f \in Envs \ {e} : usr'[f] = usr[f]
      /\ usr'[e].pc = "user" /\ usr'[e].step = usr[e].step
  BY <1>1, Counters, Went DEF PInv, FInv
<1>4. Live(e) /\ usr[e].pc = "user" /\ usr[e].fault = "none" BY <1>1, Caller
<1>5. perm \in Perms /\ perm # "cow" BY PermsAre
<1>6. /\ Touches(e, "MSG")
      /\ mem'.pte[e]["MSG"] = mem.pte[e]["MSG"]
         \/ (mem'.pte[e]["MSG"].page \in mem.free /\ mem'.pte[e]["MSG"].perm # "cow")
  BY <1>1, <1>5, DataIs, AllocTouches
<1> QED BY <1>1, <1>2, <1>3, <1>4, <1>6, PlainPrivate DEF SameLives

(* sys_page_unmap there. *)
LEMMA UnmapMsgPrivate ==
  ASSUME PInv, FInv', Liberties = {}, NEW e \in Envs, NEW d \in Envs, UnmapMsg(e, d)
  PROVE  Private'
<1>1. /\ d = e /\ Acts(e) /\ Calls(e, "user") /\ env' = env /\ seen' = seen
      /\ mem' = PageRemove(mem, e, "MSG")
  BY DEF UnmapMsg, Returns, Acts
<1>2. /\ Fine(mem, mem', e) /\ mem'.pte[e]["MSG"] = Unmapped
      /\ \A v \in Vas \ {"MSG"} : mem'.pte[e][v] = mem.pte[e][v]
      /\ Goto(e, "user")
  BY <1>1, UnmapMsgKeeps DEF PInv, FInv
<1>3. program'.fork = program.fork BY <1>1, Acted DEF PInv, FInv
<1>4. /\ \A f \in Envs \ {e} : usr'[f] = usr[f]
      /\ usr'[e].pc = "user" /\ usr'[e].step = usr[e].step
  BY <1>2, Counters, Went DEF PInv, FInv
<1>5. Live(e) /\ usr[e].pc = "user" /\ usr[e].fault = "none" BY <1>1, Caller
<1>6. Touches(e, "MSG")
  <2>1. FreesOnly(mem, mem') BY <1>1, MemoryIs, DataIs, RemoveContents
  <2>2. Contents(mem, mem') BY <2>1 DEF FreesOnly, Contents
  <2> QED BY <1>2, <2>2, DataIs, CallTouches
<1>7. mem'.pte[e]["MSG"].perm # "cow" BY <1>2 DEF Unmapped, Pte
<1> QED BY <1>1, <1>2, <1>3, <1>4, <1>5, <1>6, <1>7, PlainPrivate DEF SameLives

(* The loop of fork goes to the next page that is mapped, which are all    *)
(* those that are made private.                                            *)
LEMMA DupPrivate == ASSUME PInv, FInv', NEW e \in Envs, Dup(e) PROVE Private'
<1>1. /\ mem' = mem /\ env' = env /\ program' = program
      /\ \A f \in Envs \ {e} : usr'[f] = usr[f]
      /\ usr'[e].child = usr[e].child /\ usr'[e].step = usr[e].step
      /\ \/ /\ NextPage(e, usr[e].at) = {}
            /\ usr'[e].pc = IF program.fork = "fork" THEN "xstack" ELSE "status"
         \/ /\ usr'[e].at \in NextPage(e, usr[e].at)
            /\ \A l \in NextPage(e, usr[e].at) : usr'[e].at <= l
            /\ usr'[e].perm = mem.pte[e][VaOrder[usr'[e].at]].perm
            /\ usr'[e].pc = IF program.fork = "fork" \/ usr'[e].perm # "rw"
                            THEN "dup_child" ELSE "copy_alloc"
  BY DupKeeps DEF PInv, FInv
<1>2. /\ seen' = seen /\ e \in Running /\ usr[e].pc = "dup" /\ usr[e].fault = "none"
  BY DEF Dup, At
<1>3. Live(e) /\ usr[e].step = "none" BY <1>2, OutsidePgfault DEF Running, Live
<1>4. Up(e) /\ env[e].status # "NOT_RUNNABLE" BY <1>3, IsAlive
<1>5. usr[e].at \in 1 .. 6 /\ usr'[e].at \in 1 .. 6
  BY DEF PInv, FInv, IInv, Typed, UsrTypes
<1>6. TidyOf(e) /\ Finds(e) /\ Gave(e) BY DEF PInv, Private
<1>7. \A i \in Places : VaOrder[i] \in Priv /\ VaOrder[i] \in Vas /\ VaOrder[i] # "XSTACK"
                        /\ i \in 1 .. Len(VaOrder) /\ i \in 1 .. 6
  BY DataIs DEF Places, Priv, VaOrder
<1>8. \A i \in Places : usr[e].at <= i => i \in NextPage(e, usr[e].at)
  <2>1. SUFFICES ASSUME NEW i \in Places, usr[e].at <= i
                 PROVE  i \in NextPage(e, usr[e].at)
    OBVIOUS
  <2>2. mem.pte[e][VaOrder[i]] # Unmapped BY <1>4, <1>6, <1>7 DEF Finds, On
  <2>3. i \in usr[e].at .. Len(VaOrder) BY <1>5, <1>7, <2>1
  <2> QED BY <1>7, <2>2, <2>3 DEF NextPage
<1>9. usr'[e].pc \in {"xstack", "status", "dup_child", "copy_alloc"} BY <1>1
<1>10. Gave(e)'
  <2>1. SUFFICES ASSUME NEW i \in Places, GivenAt(e, i)' PROVE Inherited(e, i)'
    BY DEF Gave
  <2>2. usr[e].at > i
    <3>1. CASE NextPage(e, usr[e].at) = {} BY <1>5, <1>7, <1>8, <3>1
    <3>2. CASE usr'[e].pc \in {"dup_child", "copy_alloc"}
      <4>1. usr'[e].at > i BY <2>1, <3>2 DEF GivenAt
      <4>2. usr[e].at <= i => usr'[e].at <= i
        <5>1. ASSUME usr[e].at <= i PROVE usr'[e].at <= i
          <6>1. i \in NextPage(e, usr[e].at) BY <1>8, <5>1
          <6> QED BY <1>1, <3>2, <6>1
        <5> QED BY <5>1
      <4> QED BY <1>5, <1>7, <4>1, <4>2
    <3> QED BY <1>1, <3>1, <3>2
  <2>3. GivenAt(e, i) BY <1>2, <2>2 DEF GivenAt
  <2>4. Inherited(e, i) BY <1>6, <2>3 DEF Gave
  <2> QED BY <1>1, <1>2, <2>4 DEF Inherited, On, Content, PageOf
<1>11. CopyTarget(e)' BY <1>9 DEF CopyTarget
<1>12. Finds(e)' BY <1>1, <1>2, <1>3, <1>6 DEF Finds, Up, Live, On, Content, PageOf
<1>13. TidyOf(e)'
  <2>1. mem.pte[e]["TEMP"] = Unmapped BY <1>2, <1>3, <1>6 DEF TidyOf, Tidy
  <2>2. usr'[e].pc \in AtPage =>
          /\ usr'[e].at \in NextPage(e, usr[e].at)
          /\ usr'[e].perm = mem.pte[e][VaOrder[usr'[e].at]].perm
          /\ usr'[e].pc = IF program.fork = "fork" \/ usr'[e].perm # "rw"
                          THEN "dup_child" ELSE "copy_alloc"
    BY <1>1 DEF AtPage
  <2>3. usr'[e].pc \in AtPage =>
          /\ VaOrder[usr'[e].at] \in Vas /\ mem.pte[e][VaOrder[usr'[e].at]] # Unmapped
    BY <1>5, <2>2 DEF NextPage, Vas
  <2>4. usr'[e].pc \in AtPage =>
          VaOrder[usr'[e].at] # "TEMP" /\ mem'.pte[e][VaOrder[usr'[e].at]] # Unmapped
    <3>1. mem'.pte = mem.pte BY <1>1
    <3> QED BY <2>1, <2>3, <3>1
  <2>5. usr'[e].pc = "dup_child" =>
          /\ VaOrder[usr'[e].at] \in Priv => usr'[e].perm \in {"rw", "cow"}
          /\ program.fork # "fork" => usr'[e].perm \notin {"rw", "cow"}
    BY <1>6, <2>2, <2>3 DEF TidyOf, Tidy, HasCow, AtPage
  <2>6. /\ program.fork = "fork" => usr'[e].pc \notin Copying
        /\ program.fork # "fork" => usr'[e].pc \notin ForkOnly
    BY <1>1 DEF Copying, ForkOnly
  <2> QED BY <1>1, <1>3, <1>4, <1>6, <2>1, <2>4, <2>5, <2>6 DEF TidyOf, Tidy, Live
<1>14. Touches(e, "MSG") /\ Source(e, e, "MSG") BY <1>1, DataIs, NothingTouched DEF Source
<1>15. Aliases'
  <2>1. TempsStay /\ HalfwaysStay BY <1>1, <1>2, <1>3, NothingSpecial
  <2>2. Sound(mem') BY DEF FInv, IInv, Counted
  <2> QED BY <1>1, <1>14, <2>1, <2>2, DataIs, AliasesKept
<1> QED BY <1>1, <1>2, <1>3, <1>10, <1>11, <1>12, <1>13, <1>14, <1>15, DataIs, PrivateAlone
     DEF SameLives

-----------------------------------------------------------------------------
(* Environments that are freed *)

(* The parent whose child could not be given an upcall. *)
Abandons(e, d) ==
  /\ usr[e].pc = "child_upcall" /\ usr'[e].pc = "status" /\ usr'[e].child = d
  /\ usr[e].child = d
  /\ usr'[e].step = usr[e].step /\ usr'[e].fault = usr[e].fault

(* No mapping changes, but for those that are gone. *)
LEMMA SameMappings ==
  ASSUME PInv, FInv', \A f \in Envs, v \in Vas : On(f, v)' => mem'.pte[f] = mem.pte[f],
         TempsStay, HalfwaysStay
  PROVE  Aliases'
<1>0. Sound(mem) /\ Sound(mem') /\ Aliases
  BY DEF PInv, FInv, IInv, Counted, Private
<1>1. SUFFICES ASSUME NEW f \in Envs, NEW g \in Envs, NEW v \in Vas, NEW w \in Vas,
                      f # g \/ v # w, On(f, v)', PageOf(f, v)' = PageOf(g, w)'
               PROVE  MayShare(f, v, g, w)'
  BY DEF Aliases
<1>2. mem'.pte[f][v] # Unmapped /\ mem'.pte[g][w] # Unmapped
      /\ mem'.pte[f][v].page = mem'.pte[g][w].page
  <2>1. mem'.pte[f][v].page \in Pages BY <1>0, <1>1, PteKinds DEF On, Sound
  <2> QED BY <1>1, <2>1, PteKinds DEF On, PageOf
<1>3. mem'.pte[f] = mem.pte[f] /\ mem'.pte[g] = mem.pte[g] BY <1>2 DEF On
<1>4. On(f, v) /\ On(g, w) /\ PageOf(f, v) = PageOf(g, w)
  BY <1>2, <1>3 DEF On, PageOf
<1>5. MayShare(f, v, g, w) BY <1>0, <1>1, <1>4 DEF Aliases
<1> QED BY <1>3, <1>4, <1>5, MayStillShare

(* What env_free does to the table of environments. *)
LEMMA FreedEnvs ==
  ASSUME PInv, NEW d \in Envs, env' = EnvFree(env, d)
  PROVE  /\ env'[d].status = "FREE" /\ env'[d].recving = FALSE /\ env'[d].parent = NoEnv
         /\ \A f \in Envs \ {d} : /\ env'[f].status = env[f].status
                                  /\ env'[f].recving = env[f].recving
                                  /\ env'[f].parent \in {env[f].parent, NoEnv}
<1>1. env \in EnvTypes BY DEF PInv, FInv, IInv, Typed
<1>2. env'[d] = NoEnvAt BY DEF EnvFree
<1>3. ASSUME NEW f \in Envs \ {d}
      PROVE  /\ env'[f].status = env[f].status /\ env'[f].recving = env[f].recving
             /\ env'[f].parent \in {env[f].parent, NoEnv}
  <2>1. CASE env[f].parent = d
    <3>1. env'[f] = [env[f] EXCEPT !.parent = NoEnv] BY <2>1 DEF EnvFree
    <3> QED BY <1>1, <3>1 DEF EnvTypes
  <2>2. CASE env[f].parent # d
    <3>1. env'[f] = env[f] BY <2>2 DEF EnvFree
    <3> QED BY <3>1
  <2> QED BY <2>1, <2>2
<1> QED BY <1>2, <1>3 DEF NoEnvAt

(* An address space goes, with what it shared. *)
LEMMA DestroyedPrivate ==
  ASSUME PInv, FInv', NEW e \in Envs, NEW d \in Envs, Gone(mem, mem', d),
         Contents(mem, mem'), env' = EnvFree(env, d), seen' = seen,
         program'.fork = program.fork,
         usr'[d].pc \in {"none", "killed"}, usr'[d].step = "none",
         \A f \in Envs \ {d, e} : Still(f),
         e # d => Still(e) \/ Abandons(e, d)
  PROVE  Private'
<1>0. NoEnv \notin Envs BY AddressSpaceAssumption
<1>a. Priv \subseteq Vas BY DataIs DEF Priv
<1>1. /\ env'[d].status = "FREE" /\ env'[d].recving = FALSE /\ env'[d].parent = NoEnv
      /\ \A f \in Envs \ {d} : /\ env'[f].status = env[f].status
                               /\ env'[f].recving = env[f].recving
                               /\ env'[f].parent \in {env[f].parent, NoEnv}
  BY FreedEnvs
<1>2. /\ \A f \in Envs \ {d} : mem'.pte[f] = mem.pte[f]
      /\ \A v \in Vas : mem'.pte[d][v] = Unmapped
      /\ Sound(mem')
  BY DEF Gone
<1>3. \A f \in Envs \ {d}, v \in Vas : On(f, v) => SameContent(f, v)
  <2>1. SUFFICES ASSUME NEW f \in Envs \ {d}, NEW v \in Vas, On(f, v)
                 PROVE  SameContent(f, v)
    OBVIOUS
  <2>2. mem'.pte[f][v] = mem.pte[f][v] BY <1>2
  <2> QED BY <1>2, <2>1, <2>2, MemoryIs, ContentsKept DEF On, SameContent
<1>4. ASSUME NEW f \in Envs \ {d}, Still(f) PROVE Stands(f)
  <2>1. usr[f].step = "map" => On(f, "TEMP") /\ SameContent(f, "TEMP")
    <3>1. usr[f].step = "map" => mem.pte[f]["TEMP"].perm = "rw"
      BY DEF PInv, FInv, Faults, FaultOf
    <3>2. usr[f].step = "map" => On(f, "TEMP") BY <3>1 DEF On, Unmapped, Pte
    <3> QED BY <1>3, <3>2, DataIs
  <2>2. ChildStands(f)
    <3> DEFINE c == usr[f].child
    <3>1. SUFFICES ASSUME usr[f].pc \in Building \cup {"status"}, env'[c].parent = f
                   PROVE  /\ env[c].parent = f /\ mem'.pte[c] = mem.pte[c]
                          /\ seen'[c] = seen[c]
                          /\ \A v \in Priv : On(c, v) => SameContent(c, v)
                          /\ usr[f].pc = "copy_map" =>
                               \A g \in Envs, vb \in Vas : On(g, vb)' =>
                                 \/ mem'.pte[g][vb] = mem.pte[g][vb]
                                 \/ mem'.pte[g][vb].page # PageOf(c, Va(f))
      BY DEF ChildStands
    <3>2. c \in Envs BY <3>1 DEF PInv, FInv, IInv, Children
    <3>3. c # d /\ env[c].parent = f BY <1>0, <1>1, <3>1, <3>2
    <3>4. \A g \in Envs, vb \in Vas : On(g, vb)' => mem'.pte[g][vb] = mem.pte[g][vb]
      BY <1>2 DEF On
    <3> QED BY <1>a, <1>2, <1>3, <3>2, <3>3, <3>4
  <2>3. Up(f)' => Up(f) BY <1>1 DEF Up, Live
  <2> QED BY <1>a, <1>1, <1>2, <1>3, <1>4, <2>1, <2>2, <2>3 DEF Stands
<1>5. ASSUME NEW f \in Envs \ {d}, Still(f)
      PROVE  TidyOf(f)' /\ CopyTarget(f)' /\ Finds(f)' /\ Gave(f)'
  BY <1>4, <1>5, StandsPrivate
<1>6. TidyOf(d)' /\ CopyTarget(d)' /\ Finds(d)' /\ Gave(d)'
  <2>1. CopyTarget(d)' /\ Gave(d)' BY NothingGiven
  <2>2. Finds(d)' BY <1>1 DEF Finds, Up, Live
  <2>3. TidyOf(d)'
    <3>1. \A v \in Vas : mem'.pte[d][v].perm = "none" BY <1>2 DEF Unmapped, Pte
    <3>2. mem'.pte[d]["TEMP"] = Unmapped /\ ~HasCow(mem'.pte[d])
      BY <1>2, <3>1, DataIs DEF HasCow
    <3> QED BY <1>a, <1>1, <1>2, <3>2 DEF TidyOf, Tidy, Copying, ForkOnly, AtPage
  <2> QED BY <2>1, <2>2, <2>3
<1>7. ASSUME e # d, Abandons(e, d)
      PROVE  TidyOf(e)' /\ CopyTarget(e)' /\ Finds(e)' /\ Gave(e)'
  <2>1. TidyOf(e) /\ Finds(e) BY DEF PInv, Private
  <2>2. CopyTarget(e)' BY <1>7 DEF Abandons, CopyTarget
  <2>3. Gave(e)' BY <1>0, <1>1, <1>7 DEF Abandons, Gave, GivenAt, AtPage
  <2>4. Finds(e)'
    <3>1. usr[e].step = "map" => On(e, "TEMP") /\ SameContent(e, "TEMP")
      <4>1. usr[e].step = "map" => mem.pte[e]["TEMP"].perm = "rw"
        BY DEF PInv, FInv, Faults, FaultOf
      <4>2. usr[e].step = "map" => On(e, "TEMP") BY <4>1 DEF On, Unmapped, Pte
      <4> QED BY <1>3, <1>7, <4>2, DataIs
    <3>2. Up(e)' => Up(e) BY <1>1, <1>7 DEF Up, Live
    <3>3. \A v \in Priv : On(e, v) => SameContent(e, v) BY <1>a, <1>3, <1>7
    <3>4. mem'.pte[e] = mem.pte[e] BY <1>2, <1>7
    <3> QED BY <1>7, <2>1, <3>1, <3>2, <3>3, <3>4
            DEF Abandons, Finds, On, Content, PageOf, SameContent
  <2>5. TidyOf(e)'
    <3>1. program.fork = "fork" BY <1>7, <2>1 DEF TidyOf, Tidy, ForkOnly, Abandons
    <3>2. mem'.pte[e] = mem.pte[e] /\ env'[e].status = env[e].status BY <1>1, <1>2, <1>7
    <3>3. env[e].status # "NOT_RUNNABLE" BY <1>7, <2>1 DEF TidyOf, Tidy, Abandons
    <3> QED BY <1>7, <2>1, <3>1, <3>2, <3>3 DEF TidyOf, Tidy, Abandons, Copying, AtPage
  <2> QED BY <2>2, <2>3, <2>4, <2>5
<1>8. TempsStay /\ HalfwaysStay
  <2>1. \A f \in Envs \ {d} :
          Still(f) \/ (usr[f].pc = "child_upcall" /\ usr'[f].step = usr[f].step
                       /\ usr'[f].fault = usr[f].fault)
    BY DEF Abandons
  <2>2. ASSUME NEW f \in Envs, NEW g \in Envs, NEW v \in Vas, TempOf(f, g, v)
        PROVE  TempOf(f, g, v)' \/ mem'.pte[f]["TEMP"] = Unmapped
    <3>1. CASE f = d BY <1>2, <3>1, DataIs
    <3>2. CASE f # d BY <2>1, <2>2, <3>2 DEF TempOf, Va, Still
    <3> QED BY <3>1, <3>2
  <2>3. ASSUME NEW f \in Envs, NEW g \in Envs, NEW v \in Priv, Halfway(f, v, g),
               mem'.pte[f][v].perm = "rw"
        PROVE  Halfway(f, v, g)'
    <3>1. f # d BY <1>a, <1>2, <2>3 DEF Unmapped, Pte
    <3> QED BY <2>1, <2>3, <3>1 DEF Halfway, Va, Still
  <2> QED BY <2>2, <2>3 DEF TempsStay, HalfwaysStay
<1>9. Aliases' BY <1>2, <1>8, SameMappings DEF On
<1>10. mem'.data \in [Pages -> {0, 1}] /\ seen' \in [Envs -> [Vas -> {0, 1}]]
  BY DEF PInv, Private, Contents, Fill
<1>11. ASSUME NEW f \in Envs PROVE TidyOf(f)' /\ CopyTarget(f)' /\ Finds(f)' /\ Gave(f)'
  <2>1. CASE f = d BY <1>6, <2>1
  <2>2. CASE f # d /\ Still(f) BY <1>5, <2>2
  <2>3. CASE f # d /\ ~Still(f) BY <1>7, <2>3
  <2> QED BY <2>1, <2>2, <2>3
<1> QED BY <1>9, <1>10, <1>11 DEF Private

(* env_free gives back a page directory. *)
LEMMA FreedContents ==
  ASSUME PInv, NEW d \in Envs, env[d].status # "FREE", mem' = EnvFreePages(mem, d)
  PROVE  Gone(mem, mem', d) /\ Contents(mem, mem')
<1>1. mem.dir[d] \in Pages
  BY MemoryIs DEF Sound, PInv, FInv, IInv, Slots
<1> QED BY <1>1, MemoryIs, PagesFreed, FreePagesContents

(* env_destroy of the caller. *)
LEMMA DestroySelfPrivate ==
  ASSUME PInv, FInv', NEW e \in Envs, NEW pc \in {"none", "killed"}, DestroySelf(e, pc),
         seen' = seen, program'.fork = program.fork, Live(e)
  PROVE  Private'
<1>1. /\ mem' = EnvFreePages(mem, e) /\ env' = EnvFree(env, e)
      /\ usr' = [usr EXCEPT ![e] = Start(pc)]
  BY DEF DestroySelf
<1>2. Gone(mem, mem', e) /\ Contents(mem, mem') BY <1>1, FreedContents DEF Live
<1>3. /\ usr'[e] = Start(pc) /\ \A f \in Envs \ {e} : Still(f)
  BY <1>1 DEF Still, PInv, FInv, IInv, Typed, UsrTypes
<1>4. usr'[e].pc = pc /\ usr'[e].step = "none" BY <1>3 DEF Start
<1> QED BY <1>1, <1>2, <1>3, <1>4, DestroyedPrivate

(* A zombie is freed at its next trap. *)
LEMMA TrapOfZombiePrivate ==
  ASSUME PInv, FInv', NEW e \in Envs, TrapOfZombie(e)
  PROVE  Private'
  BY DestroySelfPrivate DEF TrapOfZombie, Live

(* sys_env_destroy of itself. *)
LEMMA ExitPrivate == ASSUME PInv, FInv', NEW e \in Envs, Exit(e) PROVE Private'
  BY DestroySelfPrivate DEF Exit, Calls, Live

(* sys_env_destroy of a child. *)
LEMMA KillPrivate ==
  ASSUME PInv, FInv', NEW e \in Envs, NEW d \in Envs, Kill(e, d)
  PROVE  Private'
<1>1. /\ seen' = seen /\ program' = program /\ Calls(e, "user") /\ env[d].parent = e
      /\ env[d].status # "RUNNING" => mem' = EnvFreePages(mem, d)
  BY DEF Kill
<1>2. \/ /\ env[d].status = "RUNNING" /\ mem' = mem /\ Goto(e, "user")
         /\ env' = [env EXCEPT ![d].status = "DYING"]
      \/ /\ env[d].status # "RUNNING" /\ Gone(mem, mem', d)
         /\ env' = EnvFree(env, d)
         /\ usr' = [usr EXCEPT ![d] = Start("none")]
  BY KillKeeps DEF PInv, FInv
<1>3. usr[e].pc = "user" BY <1>1 DEF Calls, At
<1>4. CASE env[d].status = "RUNNING"
  <2>1. /\ mem' = mem /\ Goto(e, "user") /\ env' = [env EXCEPT ![d].status = "DYING"]
    BY <1>2, <1>4
  <2>2. \A f \in Envs : Still(f)
    <3>1. /\ \A f \in Envs \ {e} : usr'[f] = usr[f]
          /\ usr'[e].pc = "user" /\ usr'[e].child = usr[e].child /\ usr'[e].at = usr[e].at
          /\ usr'[e].step = usr[e].step /\ usr'[e].fault = usr[e].fault
          /\ usr'[e].perm = usr[e].perm
      BY <2>1, Counters, Went DEF PInv, FInv
    <3> QED BY <1>3, <3>1 DEF Still
  <2>3. /\ env'[d].status = "DYING" /\ env'[d].recving = env[d].recving
        /\ env'[d].parent = env[d].parent
        /\ \A f \in Envs \ {d} : env'[f] = env[f]
    BY <2>1 DEF PInv, FInv, IInv, Typed, EnvTypes
  <2> QED BY <1>1, <1>4, <2>1, <2>2, <2>3, ScheduledPrivate DEF Up, Live
<1>5. CASE env[d].status # "RUNNING"
  <2>1. /\ Gone(mem, mem', d) /\ env' = EnvFree(env, d)
        /\ usr' = [usr EXCEPT ![d] = Start("none")]
    BY <1>2, <1>5
  <2>2. env[d].status # "FREE"
    BY <1>1, AddressSpaceAssumption DEF PInv, FInv, IInv, Slots
  <2>3. Contents(mem, mem') BY <1>1, <1>5, <2>2, FreedContents
  <2>4. usr'[d] = Start("none") /\ \A f \in Envs \ {d} : Still(f)
    BY <2>1 DEF Still, PInv, FInv, IInv, Typed, UsrTypes
  <2>5. usr'[d].pc = "none" /\ usr'[d].step = "none" BY <2>4 DEF Start
  <2> QED BY <1>1, <2>1, <2>3, <2>4, <2>5, DestroyedPrivate
<1> QED BY <1>4, <1>5

(* The child is given an upcall, or there is none and it is destroyed.     *)
LEMMA ChildUpcallPrivate ==
  ASSUME PInv, FInv', NEW e \in Envs, ChildUpcall(e)
  PROVE  Private'
<1> DEFINE d == usr[e].child
<1>1. seen' = seen /\ program' = program /\ Calls(e, "child_upcall") BY DEF ChildUpcall
<1>2. /\ Live(e) /\ usr[e].pc = "child_upcall" /\ usr[e].fault = "none"
      /\ usr[e].step = "none"
  BY <1>1, Caller
<1>3. /\ d \in Envs \ {e} /\ env[d].parent = e /\ env[d].status = "NOT_RUNNABLE"
      /\ ~env[d].recving
  BY <1>2, Counters, ChildOfBuilder DEF PInv, FInv
<1>4. CASE env[e].upcall
  <2>1. /\ env' = [env EXCEPT ![d].upcall = TRUE] /\ mem' = mem /\ Goto(e, "status")
    BY <1>4 DEF ChildUpcall, Returns
  <2>2. SameLives BY <2>1 DEF SameLives, PInv, FInv, IInv, Typed, EnvTypes
  <2>3. /\ \A f \in Envs \ {e} : usr'[f] = usr[f]
        /\ usr'[e].pc = "status" /\ usr'[e].step = usr[e].step
        /\ usr'[e].child = d
    BY <2>1, Counters, Went DEF PInv, FInv
  <2>4. Up(e) /\ env[e].status # "NOT_RUNNABLE" BY <1>2, IsAlive
  <2>5. TidyOf(e) /\ Finds(e) /\ Gave(e) BY DEF PInv, Private
  <2>6. CopyTarget(e)' BY <2>3 DEF CopyTarget
  <2>7. Finds(e)' BY <1>1, <1>2, <2>1, <2>3, <2>4, <2>5 DEF Finds, On, Content, PageOf
  <2>8. TidyOf(e)'
    <3>1. program.fork = "fork" BY <1>2, <2>5 DEF TidyOf, Tidy, ForkOnly
    <3> QED BY <1>1, <1>2, <2>1, <2>2, <2>3, <2>4, <2>5, <3>1
            DEF TidyOf, Tidy, Copying, ForkOnly, AtPage, SameLives
  <2>9. Gave(e)'
    <3>1. SUFFICES ASSUME NEW i \in Places PROVE Inherited(e, i)' BY DEF Gave
    <3>2. Inherited(e, i) BY <1>2, <2>5 DEF Gave, GivenAt
    <3> QED BY <1>1, <1>2, <2>1, <2>3, <3>2 DEF Inherited, On, Content, PageOf
  <2>10. Touches(e, "MSG") /\ Source(e, e, "MSG")
    BY <2>1, DataIs, NothingTouched DEF Source
  <2>11. Aliases'
    <3>1. TempsStay /\ HalfwaysStay BY <1>2, <2>3, NothingSpecial
    <3>2. Sound(mem') BY DEF FInv, IInv, Counted
    <3> QED BY <2>1, <2>10, <3>1, <3>2, DataIs, AliasesKept
  <2> QED BY <1>1, <1>2, <2>2, <2>3, <2>6, <2>7, <2>8, <2>9, <2>10, <2>11, DataIs, PrivateAlone
<1>5. CASE ~env[e].upcall
  <2>1. /\ mem' = EnvFreePages(mem, d) /\ env' = EnvFree(env, d)
        /\ usr' = [usr EXCEPT ![d] = Start("none"), ![e].pc = "status"]
    BY <1>5 DEF ChildUpcall
  <2>2. Gone(mem, mem', d) /\ Contents(mem, mem') BY <1>3, <2>1, FreedContents
  <2>3. /\ usr'[d] = Start("none") /\ \A f \in Envs \ {d, e} : usr'[f] = usr[f]
        /\ usr'[e] = [usr[e] EXCEPT !.pc = "status"]
    BY <1>3, <2>1 DEF PInv, FInv, IInv, Typed, UsrTypes
  <2>4. usr'[d].pc = "none" /\ usr'[d].step = "none" BY <2>3 DEF Start
  <2>5. Abandons(e, d)
    BY <1>2, <2>3 DEF Abandons, PInv, FInv, IInv, Typed, UsrTypes
  <2> QED BY <1>1, <1>3, <2>1, <2>2, <2>3, <2>4, <2>5, DestroyedPrivate DEF Still
<1> QED BY <1>4, <1>5

-----------------------------------------------------------------------------
(* Writes *)

(* page_fault_handler delivers the fault, or kills. *)
LEMMA PageFaultPrivate ==
  ASSUME PInv, FInv', NEW e \in Envs, NEW va \in {"DATA", "STACK", "MSG"}, PageFault(e, va),
         usr[e].fault = "none", mem.pte[e][va].perm = "cow"
  PROVE  Private'
<1>1. seen' = seen /\ program' = program /\ env[e].status = "RUNNING" BY DEF PageFault
<1>2. Live(e) /\ usr[e].step = "none" BY <1>1, OutsidePgfault DEF Live
<1>3. Up(e) /\ env[e].status # "NOT_RUNNABLE" BY <1>2, IsAlive
<1>4. va \in Vas BY DataIs
<1> DEFINE told == env[e].upcall /\ UserMemCheck(mem, e, "XSTACK", "rw")
<1>5. CASE ~told
  <2>1. DestroySelf(e, "killed") BY <1>5 DEF PageFault
  <2> QED BY <1>1, <1>2, <2>1, DestroySelfPrivate
<1>6. CASE told
  <2>1. /\ usr' = [usr EXCEPT ![e].fault = va, ![e].step = "alloc"]
        /\ mem' = mem /\ env' = env
    BY <1>6 DEF PageFault
  <2>2. PICK u \in {[usr[e] EXCEPT !.fault = va]} : usr'[e] = [u EXCEPT !.step = "alloc"]
    BY <2>1 DEF PInv, FInv, IInv, Typed, UsrTypes
  <2>3. /\ usr'[e].fault = va /\ usr'[e].step = "alloc" /\ usr'[e].pc = usr[e].pc
        /\ usr'[e].child = usr[e].child /\ usr'[e].at = usr[e].at
        /\ usr'[e].perm = usr[e].perm
        /\ \A f \in Envs \ {e} : usr'[f] = usr[f]
    BY <2>1, <2>2 DEF PInv, FInv, IInv, Typed, UsrTypes
  <2>4. TidyOf(e) /\ CopyTarget(e) BY DEF PInv, Private
  <2>5. SameLives BY <2>1 DEF SameLives
  <2>6. Touches(e, "MSG") /\ Source(e, e, "MSG") /\ "MSG" \notin Priv /\ "MSG" \in Vas
    BY <2>1, DataIs, NothingTouched DEF Source, Priv
  <2>7. Gave(e)' BY <1>1, <2>3, <2>5, <2>6, StillGave
  <2>8. Finds(e)' BY <1>1, <1>3, <2>3, <2>6, StillFinds
  <2>9. CopyTarget(e)'
    <3>1. mem' = mem BY <2>1
    <3> QED BY <2>3, <2>4, <3>1 DEF CopyTarget, On, PageOf, Va
  <2>10. TidyOf(e)'
    <3>1. program.fork = "fork" BY <1>4, <2>4 DEF TidyOf, Tidy, HasCow
    <3>2. mem' = mem /\ env' = env BY <2>1
    <3>3. mem'.pte[e][va] # Unmapped BY <3>2 DEF Unmapped, Pte
    <3> QED BY <1>1, <1>2, <1>3, <2>3, <2>4, <3>1, <3>2, <3>3 DEF TidyOf, Tidy
  <2>11. TempsStay /\ HalfwaysStay
    <3>1. \A f \in Envs \ {e} : Still(f) BY <2>3 DEF Still
    <3>2. usr[e].step # "unmap" BY <1>2
    <3> QED BY <2>3, <3>1, <3>2, NothingHalfDone
  <2>12. Aliases'
    <3>1. Sound(mem') BY DEF FInv, IInv, Counted
    <3> QED BY <2>1, <2>6, <2>11, <3>1, AliasesKept
  <2> QED BY <1>1, <1>2, <2>3, <2>5, <2>6, <2>7, <2>8, <2>9, <2>10, <2>12, PrivateAlone
<1> QED BY <1>5, <1>6

(* Nobody who may read it shares the page that e writes to. *)
LEMMA WrittenAlone ==
  ASSUME PInv, NEW e \in Envs, e \in Running, usr[e].pc # "panic",
         NEW va \in {"DATA", "STACK", "MSG"}, mem.pte[e][va].perm = "rw",
         NEW f \in Envs, NEW v \in Priv \cup {"TEMP"}, f # e \/ v # va,
         v = "TEMP" => usr[f].step = "map",
         usr[e].step = "none",
         On(f, v), PageOf(f, v) = PageOf(e, va)
  PROVE  /\ usr[e].pc = "dup_own" /\ usr[e].child = f /\ Va(e) = va /\ v = va
         /\ Blocked(env, f)
<1>1. va \in Vas /\ v \in Vas /\ va # "TEMP" BY DataIs DEF Priv
<1>2. On(e, va) BY DEF On, Unmapped, Pte
<1>3. MayShare(e, va, f, v) BY <1>1, <1>2 DEF PInv, Private, Aliases
<1>4. CASE va = v /\ SameAddress(e, va, f)
  <2>1. va \in Priv BY <1>1, <1>4
  <2>2. usr[e].pc = "dup_own" /\ usr[e].child = f /\ Va(e) = va
    BY <1>4, <2>1 DEF SameAddress, Halfway
  <2>3. Blocked(env, f) BY <2>2, Counters DEF PInv, FInv, IInv, Children, Building, AtPage
  <2> QED BY <1>4, <2>2, <2>3
<1>5. CASE v = "TEMP" /\ TempOf(f, e, va)
  <2>1. usr[f].pc \in {"copy", "copy_unmap"} /\ usr[f].child = e
    BY <1>5 DEF TempOf
  <2>2. Blocked(env, e) BY <2>1 DEF PInv, FInv, IInv, Children, Building, AtPage
  <2> QED BY <2>2 DEF Blocked, Running
<1> QED BY <1>1, <1>3, <1>4, <1>5 DEF MayShare

(* What the program of e may do as it writes. *)
Proceeds(e) ==
  \/ usr'[e] = usr[e]
  \/ usr[e].pc \in {"save", "child"} /\ usr'[e].pc \in {"exofork", "user"}
     /\ usr'[e].step = usr[e].step

(* A write through a writable mapping changes nobody else's memory. *)
LEMMA StorePrivate ==
  ASSUME PInv, FInv', NEW e \in Envs, e \in Running, NEW va \in {"DATA", "STACK", "MSG"},
         Store(e, va), usr[e].fault = "none", usr[e].pc # "panic",
         \A f \in Envs \ {e} : usr'[f] = usr[f], Proceeds(e),
         program'.fork = program.fork
  PROVE  Private'
<1> DEFINE q == PageOf(e, va)
<1>1. /\ mem.pte[e][va].perm = "rw" /\ env' = env
      /\ mem' = [mem EXCEPT !.data[q] = 1 - @]
      /\ seen' = [seen EXCEPT ![e][va] = 1 - @]
  <2>1. tlb[e] = mem.pte[e] BY DEF PInv, TlbCoherent
  <2> QED BY <2>1 DEF Store, PageOf
<1>2. va \in Vas /\ va # "TEMP" /\ Priv \subseteq Vas BY DataIs DEF Priv
<1>3. On(e, va) /\ q \in Pages
  <2>1. On(e, va) BY <1>1 DEF On, Unmapped, Pte
  <2> QED BY <1>2, <2>1, MemoryIs, MappedNotFree DEF On, PageOf
<1>4. /\ mem'.pte = mem.pte /\ mem'.data = [mem.data EXCEPT ![q] = 1 - @]
      /\ mem.data \in Fill
  BY <1>1, MemoryIs DEF Sound, Fields
<1> HIDE DEF q
<1>5. /\ mem'.data \in Fill /\ mem'.data[q] = 1 - mem.data[q]
      /\ \A p \in Pages \ {q} : mem'.data[p] = mem.data[p]
  <2>1. mem.data[q] \in {0, 1} BY <1>3, <1>4 DEF Fill
  <2>2. 1 - mem.data[q] \in {0, 1} BY <2>1
  <2> QED BY <1>3, <1>4, <2>2 DEF Fill
<1>6. /\ seen' \in [Envs -> [Vas -> {0, 1}]] /\ seen'[e][va] = 1 - seen[e][va]
      /\ \A f \in Envs \ {e} : seen'[f] = seen[f]
      /\ \A v \in Vas \ {va} : seen'[e][v] = seen[e][v]
  <2>1. seen \in [Envs -> [Vas -> {0, 1}]] BY DEF PInv, Private
  <2>2. seen[e][va] \in {0, 1} BY <1>2, <2>1
  <2>3. 1 - seen[e][va] \in {0, 1} BY <2>2
  <2> QED BY <1>1, <1>2, <2>1, <2>3
<1>7. usr[e].step = "none" /\ usr'[e].step = "none"
  BY OutsidePgfault DEF Proceeds
<1>8. ASSUME NEW f \in Envs, NEW v \in Vas, On(f, v), PageOf(f, v) # q PROVE SameContent(f, v)
  <2>1. PageOf(f, v) \in Pages BY <1>8, MemoryIs, MappedNotFree DEF On, PageOf
  <2> QED BY <1>4, <1>5, <1>8, <2>1 DEF SameContent, PageOf
<1>9. Live(e) BY DEF Live, Running
<1>10. Up(e) /\ env[e].status # "NOT_RUNNABLE" BY <1>9, IsAlive
<1>11. ASSUME NEW f \in Envs \ {e} PROVE Stands(f)
  <2>1. Still(f) /\ mem'.pte[f] = mem.pte[f] /\ env'[f] = env[f] BY <1>1, <1>4 DEF Still
  <2>2. Up(f) => \A v \in Priv : On(f, v) => SameContent(f, v)
    <3>1. SUFFICES ASSUME Up(f), NEW v \in Priv, On(f, v) PROVE SameContent(f, v)
      OBVIOUS
    <3>2. ~Blocked(env, f) BY <3>1 DEF Up, Live, Blocked
    <3>3. PageOf(f, v) # q BY <1>1, <1>7, <3>1, <3>2, WrittenAlone DEF q, Priv
    <3> QED BY <1>2, <1>8, <3>1, <3>3
  <2>3. usr[f].step = "map" => SameContent(f, "TEMP")
    <3>1. SUFFICES ASSUME usr[f].step = "map" PROVE SameContent(f, "TEMP") OBVIOUS
    <3>2. mem.pte[f]["TEMP"].perm = "rw" BY <3>1 DEF PInv, FInv, Faults, FaultOf
    <3>3. On(f, "TEMP") BY <3>2 DEF On, Unmapped, Pte
    <3>4. PageOf(f, "TEMP") # q BY <1>1, <1>2, <1>7, <3>1, <3>3, WrittenAlone DEF q
    <3> QED BY <1>8, <3>3, <3>4, DataIs
  <2>4. ChildStands(f)
    <3> DEFINE c == usr[f].child
    <3>1. SUFFICES ASSUME usr[f].pc \in Building \cup {"status"}, env[c].parent = f
                   PROVE  /\ seen'[c] = seen[c]
                          /\ \A v \in Priv : On(c, v) => SameContent(c, v)
      BY <1>1, <1>4 DEF ChildStands, On
    <3>2. c \in Envs BY <3>1 DEF PInv, FInv, IInv, Children
    <3>3. Blocked(env, c) BY <3>1 DEF PInv, FInv, IInv, Children
    <3>4. c # e BY <3>3 DEF Blocked, Running
    <3>5. ASSUME NEW v \in Priv, On(c, v) PROVE SameContent(c, v)
      <4>1. ASSUME PageOf(c, v) = q PROVE FALSE
        <5>1. usr[e].pc = "dup_own" /\ usr[e].child = c
          BY <1>1, <1>7, <3>2, <3>4, <3>5, <4>1, WrittenAlone DEF q, Priv
        <5>2. env[c].parent = e BY <5>1 DEF PInv, FInv, IInv, Children, Building, AtPage
        <5> QED BY <3>1, <5>2
      <4> QED BY <1>2, <1>8, <3>2, <3>5, <4>1
    <3> QED BY <1>6, <3>2, <3>4, <3>5
  <2> QED BY <1>6, <2>1, <2>2, <2>3, <2>4 DEF Stands, Up, Live
<1>12. TidyOf(e) /\ CopyTarget(e) /\ Finds(e) /\ Gave(e) BY DEF PInv, Private
<1>13. TidyOf(e)'
  BY <1>1, <1>4, <1>7, <1>10, <1>12
     DEF Proceeds, TidyOf, Tidy, Copying, ForkOnly, AtPage
<1>14. CopyTarget(e)' BY <1>4, <1>12 DEF Proceeds, CopyTarget, On, PageOf, Va
<1>15. Finds(e)'
  <2>1. ASSUME NEW v \in Priv PROVE On(e, v)' /\ Content(e, v)' = seen'[e][v]
    <3>1. On(e, v) /\ Content(e, v) = seen[e][v] BY <1>10, <1>12 DEF Finds
    <3>2. CASE v = va
      BY <1>4, <1>5, <1>6, <3>1, <3>2 DEF On, Content, PageOf, q
    <3>3. CASE v # va
      <4>1. PageOf(e, v) # q
        BY <1>1, <1>2, <1>7, <3>1, <3>3, <1>10, WrittenAlone DEF q, Blocked, Priv
      <4>2. SameContent(e, v) BY <1>2, <1>8, <3>1, <4>1
      <4> QED BY <1>2, <1>4, <1>6, <3>1, <3>3, <4>2 DEF SameContent, On, Content, PageOf
    <3> QED BY <3>2, <3>3
  <2> QED BY <1>7, <2>1 DEF Finds
<1>16. Gave(e)'
  <2>1. SUFFICES ASSUME NEW i \in Places, GivenAt(e, i)' PROVE Inherited(e, i)'
    BY DEF Gave
  <2>2. usr'[e] = usr[e] BY <2>1 DEF Proceeds, GivenAt, AtPage
  <2> DEFINE c == usr[e].child
             v == VaOrder[i]
  <2>3. v \in Priv /\ i \in 1 .. 5 BY DEF Places, Priv, VaOrder
  <2>4. GivenAt(e, i) BY <1>1, <2>1, <2>2 DEF GivenAt
  <2>5. Inherited(e, i) BY <1>12, <2>4 DEF Gave
  <2>6. c \in Envs \ {e}
    <3>1. usr[e].pc \in Building \cup {"status"} BY <2>4 DEF GivenAt, Building, AtPage
    <3> QED BY <3>1 DEF PInv, FInv, IInv, Children
  <2>7. On(c, v) BY <2>5 DEF Inherited
  <2>8. CASE PageOf(c, v) # q
    <3>1. SameContent(c, v) BY <1>2, <1>8, <2>3, <2>6, <2>7, <2>8
    <3> QED BY <1>4, <1>6, <2>2, <2>5, <2>6, <3>1
            DEF Inherited, SameContent, Content, PageOf, On
  <2>9. CASE PageOf(c, v) = q
    <3>1. usr[e].pc = "dup_own" /\ Va(e) = va /\ v = va
      BY <1>1, <1>7, <2>3, <2>6, <2>7, <2>9, WrittenAlone DEF q, Priv
    <3>2. usr[e].at \in 1 .. 5 BY <3>1 DEF PInv, FInv, IInv, Children, AtPage
    <3>3. usr[e].at = i
      <4>1. usr[e].at \in {1, 2, 3, 4, 5} BY <3>2
      <4> QED BY <3>1, <4>1 DEF Va, VaOrder, Places
    <3> QED BY <1>1, <1>4, <2>2, <2>7, <2>9, <3>1, <3>3 DEF Inherited, PageOf, On, q
  <2> QED BY <2>8, <2>9
<1>17. TempsStay /\ HalfwaysStay
  <2>1. \A f \in Envs \ {e} : Still(f) BY DEF Still
  <2> QED BY <1>7, <2>1, NothingHalfDone DEF Proceeds
<1>18. Aliases' BY <1>4, <1>17, SameMappings
<1>19. \A f \in Envs : TidyOf(f)' /\ CopyTarget(f)' /\ Finds(f)' /\ Gave(f)'
  BY <1>11, <1>13, <1>14, <1>15, <1>16, StandsPrivate
<1> QED BY <1>5, <1>6, <1>18, <1>19 DEF Private, Fill

(* A program writes. *)
LEMMA WriteMemoryPrivate ==
  ASSUME PInv, FInv', NEW e \in Envs, NEW va \in {"DATA", "STACK", "MSG"}, WriteMemory(e, va)
  PROVE  Private'
<1>1. /\ e \in Running /\ usr[e].fault = "none" /\ usr[e].pc # "panic"
      /\ mem.pte[e][va].perm \in {"rw", "cow"}
  BY DEF WriteMemory
<1>2. CASE Store(e, va) /\ program' = [program EXCEPT !.acts = @ - 1] /\ UNCHANGED usr
  <2>1. program'.fork = program.fork
    BY <1>2 DEF PInv, FInv, IInv, Typed, ProgramTypes
  <2> QED BY <1>1, <1>2, <2>1, StorePrivate DEF Proceeds
<1>3. CASE tlb[e][va].perm # "rw" /\ PageFault(e, va)
  <2>1. tlb[e] = mem.pte[e] BY <1>1 DEF PInv, TlbCoherent
  <2> QED BY <1>1, <1>3, <2>1, PageFaultPrivate
<1> QED BY <1>2, <1>3 DEF WriteMemory

(* The library writes to a variable of the program. *)
LEMMA WritesData ==
  ASSUME PInv, NEW e \in Envs, e \in Running
  PROVE  mem.pte[e]["DATA"].perm = "rw" \/ mem.pte[e]["DATA"].perm = "cow"
<1>1. Live(e) BY DEF Live, Running
<1>2. Up(e) /\ "DATA" \in Priv BY <1>1 DEF Up, Priv
<1>3. On(e, "DATA") BY <1>2 DEF PInv, Private, Finds
<1> QED BY <1>2, <1>3 DEF PInv, Private, TidyOf, Tidy, On

(* set_pgfault_handler writes _pgfault_handler. *)
LEMMA SaveHandlerPrivate ==
  ASSUME PInv, FInv', NEW e \in Envs, SaveHandler(e)
  PROVE  Private'
<1>1. e \in Running /\ usr[e].pc = "save" /\ usr[e].fault = "none"
  BY DEF SaveHandler, At
<1>2. CASE /\ Store(e, "DATA") /\ UNCHANGED program
           /\ usr' = [usr EXCEPT ![e].pc = "exofork", ![e].handler = TRUE]
  <2>1. PICK u \in {[usr[e] EXCEPT !.pc = "exofork"]} : usr'[e] = [u EXCEPT !.handler = TRUE]
    BY <1>2 DEF PInv, FInv, IInv, Typed, UsrTypes
  <2>2. /\ usr'[e].pc = "exofork" /\ usr'[e].step = usr[e].step
        /\ \A f \in Envs \ {e} : usr'[f] = usr[f]
    BY <1>2, <2>1 DEF PInv, FInv, IInv, Typed, UsrTypes
  <2> QED BY <1>1, <1>2, <2>2, StorePrivate DEF Proceeds
<1>3. CASE tlb[e]["DATA"].perm # "rw" /\ PageFault(e, "DATA")
  <2>1. tlb[e] = mem.pte[e] BY <1>1 DEF PInv, TlbCoherent
  <2> QED BY <1>1, <1>3, <2>1, WritesData, PageFaultPrivate
<1> QED BY <1>2, <1>3 DEF SaveHandler

(* The child writes its thisenv. *)
LEMMA SetThisenvPrivate ==
  ASSUME PInv, FInv', NEW e \in Envs, SetThisenv(e)
  PROVE  Private'
<1>1. e \in Running /\ usr[e].pc = "child" /\ usr[e].fault = "none"
  BY DEF SetThisenv, At
<1>2. CASE Store(e, "DATA") /\ Goto(e, "user") /\ UNCHANGED program
  <2>1. /\ \A f \in Envs \ {e} : usr'[f] = usr[f]
        /\ usr'[e].pc = "user" /\ usr'[e].step = usr[e].step
    BY <1>2, Counters, Went DEF PInv, FInv
  <2> QED BY <1>1, <1>2, <2>1, StorePrivate DEF Proceeds
<1>3. CASE tlb[e]["DATA"].perm # "rw" /\ PageFault(e, "DATA")
  <2>1. tlb[e] = mem.pte[e] BY <1>1 DEF PInv, TlbCoherent
  <2> QED BY <1>1, <1>3, <2>1, WritesData, PageFaultPrivate
<1> QED BY <1>2, <1>3 DEF SetThisenv

-----------------------------------------------------------------------------
(* pgfault *)

(* Where the program is while pgfault runs for it. *)
LEMMA InPgfault ==
  ASSUME PInv, NEW e \in Envs, usr[e].step # "none"
  PROVE  /\ program.fork = "fork" /\ \A f \in Envs : usr[f].pc \notin Copying
         /\ Live(e) /\ Up(e) /\ env[e].status # "NOT_RUNNABLE"
         /\ usr[e].fault \in Vas \ {"TEMP"} /\ On(e, usr[e].fault)
         /\ usr[e].step \in {"copy", "map"} =>
              mem.pte[e]["TEMP"].perm = "rw" /\ On(e, "TEMP")
<1>1. /\ Live(e) /\ usr[e].fault \in {"DATA", "STACK", "MSG"}
      /\ usr[e].step \in {"copy", "map"} => mem.pte[e]["TEMP"].perm = "rw"
  BY DEF PInv, FInv, Faults, FaultOf
<1>2. Up(e) /\ env[e].status # "NOT_RUNNABLE" BY <1>1, IsAlive
<1>3. /\ program.fork = "fork" /\ \A f \in Envs : usr[f].pc \notin Copying
      /\ On(e, usr[e].fault)
  BY DEF PInv, Private, TidyOf, Tidy, On
<1>4. usr[e].fault \in Vas \ {"TEMP"} BY <1>1, DataIs
<1>5. mem.pte[e]["TEMP"].perm = "rw" => On(e, "TEMP") BY DEF On, Unmapped, Pte
<1> QED BY <1>1, <1>2, <1>3, <1>4, <1>5

(* The page that pgfault copies to is of nobody else. *)
LEMMA TempAlone ==
  ASSUME PInv, NEW e \in Envs, usr[e].step \in {"copy", "map"},
         NEW f \in Envs, NEW v \in Vas, f # e \/ v # "TEMP", On(f, v)
  PROVE  PageOf(f, v) # PageOf(e, "TEMP")
<1>1. SUFFICES ASSUME PageOf(f, v) = PageOf(e, "TEMP") PROVE FALSE OBVIOUS
<1>2. /\ On(e, "TEMP") /\ \A g \in Envs : usr[g].pc \notin {"copy", "copy_unmap"}
      /\ usr[f].step # "none" => usr[f].fault # "TEMP"
  BY InPgfault DEF Copying
<1>3. MayShare(e, "TEMP", f, v) BY <1>1, <1>2, DataIs DEF PInv, Private, Aliases
<1> QED BY <1>2, <1>3 DEF MayShare, SameAddress, TempOf

(* A system call of pgfault that succeeds. *)
LEMMA HandlerPrivate ==
  ASSUME PInv, FInv', NEW e \in Envs, NEW va \in Vas, usr[e].step # "none",
         Touches(e, va), Source(e, e, va), env' = env, seen' = seen, program' = program,
         \A f \in Envs \ {e} : usr'[f] = usr[f],
         usr'[e].pc = usr[e].pc, usr'[e].child = usr[e].child, usr'[e].at = usr[e].at,
         usr'[e].perm = usr[e].perm,
         va \in Priv => mem.pte[e][va].perm # "rw",
         \/ mem'.pte[e][va] = Unmapped /\ va = "TEMP"
         \/ mem'.pte[e][va] # Unmapped /\ NewAlias(e, va),
         usr[e].step = "unmap" => mem'.pte[e]["TEMP"] = Unmapped,
         mem'.pte[e]["TEMP"] # Unmapped => usr'[e].step \in {"copy", "map", "unmap"},
         va \in Priv => mem'.pte[e][va].perm \in {"rw", "cow"},
         usr'[e].step # "none" => mem'.pte[e][usr'[e].fault] # Unmapped,
         usr'[e].step \in {"alloc", "copy", "map"} => mem'.pte[e][usr'[e].fault].perm # "rw",
         Finds(e)'
  PROVE  Private'
<1>1. /\ program.fork = "fork" /\ Live(e) /\ Up(e) /\ env[e].status # "NOT_RUNNABLE"
      /\ usr[e].pc \notin Copying
  BY InPgfault
<1>2. SameLives BY DEF SameLives
<1>3. Gave(e)' BY <1>2, StillGave
<1>4. CopyTarget(e)' BY <1>1 DEF CopyTarget, Copying
<1>5. Priv \subseteq Vas BY DataIs DEF Priv
<1>6. TidyOf(e)'
  <2>1. TidyOf(e) BY DEF PInv, Private
  <2>2. \A v \in Priv : mem'.pte[e][v] # Unmapped => mem'.pte[e][v].perm \in {"rw", "cow"}
    <3>1. \A v \in Priv \ {va} : mem'.pte[e][v] = mem.pte[e][v] BY <1>5 DEF Touches
    <3> QED BY <2>1, <3>1 DEF TidyOf, Tidy
  <2>3. usr[e].pc \in AtPage => mem'.pte[e][VaOrder[usr[e].at]] # Unmapped
    <3>1. SUFFICES ASSUME usr[e].pc \in AtPage
                   PROVE  mem'.pte[e][VaOrder[usr[e].at]] # Unmapped
      OBVIOUS
    <3>2. Va(e) \in Vas BY <3>1, PageOfLoop DEF PInv, FInv
    <3>3. VaOrder[usr[e].at] # "TEMP" /\ mem.pte[e][VaOrder[usr[e].at]] # Unmapped
      BY <2>1, <3>1 DEF TidyOf, Tidy
    <3>4. CASE Va(e) = va BY <3>3, <3>4 DEF Va
    <3>5. CASE Va(e) # va BY <3>2, <3>3, <3>5 DEF Va, Touches
    <3> QED BY <3>4, <3>5
  <2> QED BY <1>1, <2>1, <2>2, <2>3 DEF TidyOf, Tidy, Live
<1>7. TempsStay /\ HalfwaysStay
  <2>1. \A f \in Envs \ {e} : Still(f) BY DEF Still
  <2>2. usr[e].pc \notin {"copy", "copy_unmap"} BY <1>1 DEF Copying
  <2> QED BY <2>1, <2>2, NothingHalfDone
<1>8. Aliases'
  <2>1. Sound(mem') BY DEF FInv, IInv, Counted
  <2> QED BY <1>7, <2>1, AliasesKept
<1> QED BY <1>1, <1>2, <1>3, <1>4, <1>6, <1>8, PrivateAlone

(* What Handles does to the program of e. *)
LEMMA Handled ==
  ASSUME PInv, NEW e \in Envs, NEW step, usr' = [usr EXCEPT ![e].step = step]
  PROVE  /\ \A f \in Envs \ {e} : usr'[f] = usr[f]
         /\ usr'[e].pc = usr[e].pc /\ usr'[e].child = usr[e].child
         /\ usr'[e].at = usr[e].at /\ usr'[e].perm = usr[e].perm
         /\ usr'[e].fault = usr[e].fault /\ usr'[e].step = step
  BY DEF PInv, FInv, IInv, Typed, UsrTypes

(* pgfault takes a page at PFTEMP ... *)
LEMMA PgfaultAllocPrivate ==
  ASSUME PInv, FInv', NEW e \in Envs, PgfaultAlloc(e)
  PROVE  Private'
<1>1. /\ usr[e].step = "alloc" /\ env' = env /\ seen' = seen /\ program' = program
      /\ mem' = EnvPageAlloc(mem, e, "TEMP", "rw")
  BY DEF PgfaultAlloc, InHandler, Handles
<1>2. /\ program.fork = "fork" /\ Live(e) /\ Up(e) /\ env[e].status # "NOT_RUNNABLE"
      /\ usr[e].fault \in Vas \ {"TEMP"} /\ On(e, usr[e].fault)
      /\ usr[e].pc \notin Copying
  BY <1>1, InPgfault
<1>3. /\ Touches(e, "TEMP")
      /\ EnvPageAllocOK(mem, e, "TEMP") => mem'.pte[e]["TEMP"].page \in mem.free
      /\ ~EnvPageAllocOK(mem, e, "TEMP") => mem'.pte = mem.pte
  BY <1>1, DataIs, PermsAre, AllocTouches
<1>4. TidyOf(e) BY DEF PInv, Private
<1>5. "TEMP" \notin Priv /\ "TEMP" \in Vas BY DataIs DEF Priv
<1>6. mem'.pte[e][usr[e].fault] = mem.pte[e][usr[e].fault] BY <1>2, <1>3 DEF Touches
<1>7. CASE EnvPageAllocOK(mem, e, "TEMP")
  <2>1. usr' = [usr EXCEPT ![e].step = "copy"]
    BY <1>7 DEF PgfaultAlloc, InHandler, Handles
  <2>2. /\ \A f \in Envs \ {e} : usr'[f] = usr[f]
        /\ usr'[e].pc = usr[e].pc /\ usr'[e].child = usr[e].child
        /\ usr'[e].at = usr[e].at /\ usr'[e].perm = usr[e].perm
        /\ usr'[e].fault = usr[e].fault /\ usr'[e].step = "copy"
    BY <2>1, Handled
  <2>3. NewAlias(e, "TEMP") /\ Source(e, e, "TEMP")
    BY <1>3, <1>5, <1>7, FreshAlias DEF Source
  <2>4. Finds(e)' BY <1>1, <1>2, <1>3, <1>5, <2>2, StillFinds
  <2>5. mem.pte[e][usr[e].fault].perm # "rw" /\ mem.pte[e][usr[e].fault] # Unmapped
    BY <1>1, <1>4 DEF TidyOf, Tidy
  <2>6. mem'.pte[e]["TEMP"] # Unmapped
    BY <1>3, <1>7, MemoryIs, PteKinds DEF Sound
  <2> QED BY <1>1, <1>3, <1>5, <1>6, <2>2, <2>3, <2>4, <2>5, <2>6, HandlerPrivate
<1>8. CASE ~EnvPageAllocOK(mem, e, "TEMP")
  <2>1. /\ usr' = [usr EXCEPT ![e].pc = "panic", ![e].fault = "none", ![e].step = "none"]
        /\ mem'.pte = mem.pte
    BY <1>3, <1>8 DEF PgfaultAlloc, InHandler
  <2>2. PICK u \in {[[usr[e] EXCEPT !.pc = "panic"] EXCEPT !.fault = "none"]} :
          usr'[e] = [u EXCEPT !.step = "none"]
    BY <2>1 DEF PInv, FInv, IInv, Typed, UsrTypes
  <2>3. /\ \A f \in Envs \ {e} : usr'[f] = usr[f]
        /\ usr'[e].pc = "panic" /\ usr'[e].step = "none"
    BY <2>1, <2>2 DEF PInv, FInv, IInv, Typed, UsrTypes
  <2>4. CopyTarget(e)' /\ Gave(e)' BY <2>3, NothingGiven
  <2>5. Finds(e)' BY <1>1, <1>2, <1>3, <1>5, <2>3, StillFinds
  <2>6. mem.pte[e]["TEMP"] = Unmapped BY <1>1, <1>2, <1>4 DEF TidyOf, Tidy, Copying
  <2>7. TidyOf(e)'
    BY <1>1, <1>2, <1>4, <2>1, <2>3, <2>6 DEF TidyOf, Tidy, Live, AtPage, Copying
  <2>8. TempsStay /\ HalfwaysStay
    <3>1. \A f \in Envs \ {e} : Still(f) BY <2>3 DEF Still
    <3>2. mem'.pte[e]["TEMP"] = Unmapped BY <2>1, <2>6
    <3> QED BY <2>3, <3>1, <3>2, NothingHalfDone
  <2>9. Aliases' BY <2>1, <2>8, SameMappings
  <2>10. Source(e, e, "TEMP") BY <2>1 DEF Source
  <2> QED BY <1>1, <1>2, <1>3, <1>5, <2>3, <2>4, <2>5, <2>7, <2>9, <2>10, PrivateAlone
          DEF SameLives
<1> QED BY <1>7, <1>8

(* The page that faulted is copied: from now on it is what e finds there.  *)
LEMMA PgfaultCopyPrivate ==
  ASSUME PInv, FInv', NEW e \in Envs, PgfaultCopy(e)
  PROVE  Private'
<1> DEFINE q == PageOf(e, "TEMP")
           p == PageOf(e, usr[e].fault)
<1>1. /\ e \in Running /\ usr[e].step = "copy" /\ env' = env /\ seen' = seen
      /\ program' = program /\ usr' = [usr EXCEPT ![e].step = "map"]
  BY DEF PgfaultCopy
<1>2. /\ program.fork = "fork" /\ Live(e) /\ Up(e) /\ env[e].status # "NOT_RUNNABLE"
      /\ usr[e].fault \in Vas \ {"TEMP"} /\ On(e, usr[e].fault) /\ On(e, "TEMP")
      /\ usr[e].pc \notin Copying
  BY <1>1, InPgfault
<1>3. mem' = [mem EXCEPT !.data[q] = mem.data[p]]
  <2>1. tlb[e] = mem.pte[e] BY <1>1 DEF PInv, TlbCoherent
  <2> QED BY <2>1 DEF PgfaultCopy, PageOf
<1>4. q \in Pages /\ p \in Pages
  BY <1>2, DataIs, MemoryIs, MappedNotFree DEF On, PageOf
<1>5. /\ mem'.pte = mem.pte /\ mem'.data = [mem.data EXCEPT ![q] = mem.data[p]]
      /\ mem.data \in Fill
  BY <1>3, MemoryIs DEF Sound, Fields
<1>6. \A f \in Envs, v \in Vas : (f # e \/ v # "TEMP") /\ On(f, v) => PageOf(f, v) # q
  BY <1>1, TempAlone
<1>7. mem'.data \in Fill /\ mem'.data[q] = mem.data[p]
      /\ \A r \in Pages \ {q} : mem'.data[r] = mem.data[r]
  <2> HIDE DEF p, q
  <2> QED BY <1>4, <1>5 DEF Fill
<1>8. \A f \in Envs, v \in Vas : (f # e \/ v # "TEMP") /\ On(f, v) => SameContent(f, v)
  <2>1. SUFFICES ASSUME NEW f \in Envs, NEW v \in Vas, f # e \/ v # "TEMP", On(f, v)
                 PROVE  SameContent(f, v)
    OBVIOUS
  <2>2. PageOf(f, v) \in Pages BY <2>1, MemoryIs, MappedNotFree DEF On, PageOf
  <2>3. PageOf(f, v) # q BY <1>6, <2>1
  <2> HIDE DEF q
  <2> QED BY <1>5, <1>7, <2>2, <2>3 DEF SameContent, PageOf
<1>9. /\ \A f \in Envs \ {e} : usr'[f] = usr[f]
      /\ usr'[e].pc = usr[e].pc /\ usr'[e].child = usr[e].child
      /\ usr'[e].at = usr[e].at /\ usr'[e].perm = usr[e].perm
      /\ usr'[e].fault = usr[e].fault /\ usr'[e].step = "map"
  BY <1>1, Handled
<1>10. Priv \subseteq Vas \ {"TEMP"} BY DataIs DEF Priv
<1>11. TidyOf(e) /\ Finds(e) /\ Gave(e) BY DEF PInv, Private
<1>12. ASSUME NEW f \in Envs \ {e} PROVE Stands(f)
  <2>1. Still(f) /\ mem'.pte[f] = mem.pte[f] /\ env'[f] = env[f]
    BY <1>1, <1>5, <1>9 DEF Still
  <2>2. \A g \in Envs, v \in Priv : On(g, v) => SameContent(g, v) BY <1>8, <1>10
  <2>3. usr[f].step = "map" => SameContent(f, "TEMP")
    <3>1. usr[f].step = "map" => On(f, "TEMP") BY InPgfault
    <3> QED BY <1>8, <3>1, DataIs
  <2>4. ChildStands(f)
    <3>1. usr[f].pc \in Building \cup {"status"} => usr[f].child \in Envs
      BY DEF PInv, FInv, IInv, Children
    <3> QED BY <1>1, <1>5, <2>2, <3>1 DEF ChildStands, On
  <2> QED BY <1>1, <2>1, <2>2, <2>3, <2>4 DEF Stands, Up, Live
<1>13. TidyOf(e)' BY <1>1, <1>5, <1>9, <1>11 DEF TidyOf, Tidy
<1>14. CopyTarget(e)' BY <1>2, <1>9 DEF CopyTarget, Copying
<1>15. Finds(e)'
  <2>1. \A v \in Priv : On(e, v)' /\ Content(e, v)' = seen'[e][v]
    BY <1>1, <1>2, <1>5, <1>8, <1>10, <1>11 DEF Finds, On, Content, PageOf, SameContent
  <2>2. usr[e].fault \in Priv => mem.data[p] = seen[e][usr[e].fault]
    BY <1>2, <1>11 DEF Finds, Content
  <2>3. usr[e].fault \in Priv => Content(e, "TEMP")' = seen'[e][usr'[e].fault]
    BY <1>1, <1>5, <1>7, <1>9, <2>2 DEF Content, PageOf
  <2> QED BY <1>9, <2>1, <2>3 DEF Finds
<1>16. Gave(e)'
  <2>1. SUFFICES ASSUME NEW i \in Places, GivenAt(e, i)' PROVE Inherited(e, i)'
    BY DEF Gave
  <2> DEFINE c == usr[e].child
             v == VaOrder[i]
  <2>2. v \in Priv BY DEF Places, Priv, VaOrder
  <2>3. GivenAt(e, i) BY <1>1, <1>9, <2>1 DEF GivenAt
  <2>4. Inherited(e, i) BY <1>11, <2>3 DEF Gave
  <2>5. c \in Envs \ {e}
    <3>1. usr[e].pc \in Building \cup {"status"} BY <2>3 DEF GivenAt, Building, AtPage
    <3> QED BY <3>1 DEF PInv, FInv, IInv, Children
  <2>6. On(c, v) BY <2>4 DEF Inherited
  <2>7. SameContent(c, v) BY <1>8, <1>10, <2>2, <2>5, <2>6
  <2>8. /\ mem'.pte[c][v] # Unmapped
        /\ \/ mem'.data[mem'.pte[c][v].page] = seen'[c][v]
           \/ usr'[e].pc \in {"copy_map", "copy"} /\ usr'[e].at = i
           \/ /\ usr'[e].pc = "dup_own" /\ usr'[e].at = i
              /\ mem'.pte[e][v].perm = "rw" /\ mem'.pte[c][v].page = mem'.pte[e][v].page
    BY <1>1, <1>5, <1>9, <2>4, <2>7 DEF Inherited, SameContent, Content, PageOf, On
  <2> QED BY <1>9, <2>8 DEF Inherited, On, Content, PageOf
<1>17. TempsStay /\ HalfwaysStay
  <2>1. \A f \in Envs \ {e} : Still(f) BY <1>9 DEF Still
  <2>2. usr[e].pc \notin {"copy", "copy_unmap"} /\ usr[e].step # "unmap"
    BY <1>1, <1>2 DEF Copying
  <2> QED BY <1>9, <2>1, <2>2, NothingHalfDone
<1>18. Aliases' BY <1>5, <1>17, SameMappings
<1>19. \A f \in Envs : TidyOf(f)' /\ CopyTarget(f)' /\ Finds(f)' /\ Gave(f)'
  BY <1>1, <1>12, <1>13, <1>14, <1>15, <1>16, StandsPrivate
<1>20. mem'.data \in [Pages -> {0, 1}] /\ seen' \in [Envs -> [Vas -> {0, 1}]]
  BY <1>1, <1>7 DEF PInv, Private, Fill
<1> QED BY <1>18, <1>19, <1>20 DEF Private

(* ... maps the copy where the fault was: the page is nobody else's ... *)
LEMMA PgfaultMapPrivate ==
  ASSUME PInv, FInv', NEW e \in Envs, PgfaultMap(e)
  PROVE  Private'
<1>0. PICK va \in Vas \ {"TEMP"} : va = usr[e].fault
  <2>1. usr[e].step # "none" BY DEF PgfaultMap, InHandler
  <2> QED BY <2>1, InPgfault
<1>1. /\ usr[e].step = "map" /\ env' = env /\ seen' = seen /\ program' = program
      /\ mem' = EnvPageMap(mem, e, "TEMP", e, va, "rw")
      /\ usr' = [usr EXCEPT ![e].step = "unmap"]
  BY <1>0 DEF PgfaultMap, InHandler, Handles
<1>2. /\ Live(e) /\ Up(e) /\ va \in Vas \ {"TEMP"} /\ On(e, va) /\ On(e, "TEMP")
      /\ mem.pte[e]["TEMP"].perm = "rw"
      /\ NotOthers(e, e)
  BY <1>0, <1>1, InPgfault, IsAlive
<1>3. EnvPageMapOK(mem, e, "TEMP", e, va, "rw")
  <2>1. mem.table[e][PDX(va)] # NULL BY <1>0, <1>1 DEF PInv, FInv, Faults, FaultOf
  <2> QED BY <1>2, <2>1 DEF EnvPageMapOK, TableFits, On
<1>4. Touches(e, va) /\ mem'.pte[e][va] = Pte(PageOf(e, "TEMP"), "rw")
  BY <1>1, <1>2, <1>3, DataIs, PermsAre, MapTouches
<1>5. PageOf(e, "TEMP") \in Pages
  BY <1>2, DataIs, MemoryIs, MappedNotFree DEF On, PageOf
<1>6. /\ \A f \in Envs \ {e} : usr'[f] = usr[f]
      /\ usr'[e].pc = usr[e].pc /\ usr'[e].child = usr[e].child
      /\ usr'[e].at = usr[e].at /\ usr'[e].perm = usr[e].perm
      /\ usr'[e].fault = va /\ usr'[e].step = "unmap"
  BY <1>0, <1>1, Handled
<1>7. /\ mem'.pte[e][va].page = PageOf(e, "TEMP") /\ mem'.pte[e][va].perm = "rw"
      /\ mem'.pte[e][va] # Unmapped
  BY <1>4, <1>5, PermsAre, PteKinds
<1>8. mem'.pte[e]["TEMP"] = mem.pte[e]["TEMP"] BY <1>2, <1>4, DataIs DEF Touches
<1>9. TidyOf(e) /\ Finds(e) BY DEF PInv, Private
<1>10. NewAlias(e, va)
  <2>1. SUFFICES ASSUME NEW f \in Envs, NEW v \in Vas, On(f, v),
                        PageOf(f, v) = PageOf(e, "TEMP")
                 PROVE  MayShare(e, va, f, v)' /\ MayShare(f, v, e, va)'
    BY <1>7 DEF NewAlias
  <2>2. f = e /\ v = "TEMP" BY <1>1, <2>1, TempAlone
  <2>3. TempOf(e, e, va)' BY <1>6 DEF TempOf
  <2> QED BY <2>2, <2>3 DEF MayShare
<1>11. Source(e, e, va) BY <1>2, <1>7, DataIs DEF Source
<1>12. mem.pte[e][va].perm # "rw" BY <1>0, <1>1, <1>9 DEF TidyOf, Tidy
<1>13. Finds(e)'
  <2>1. ASSUME NEW v \in Priv PROVE On(e, v)' /\ Content(e, v)' = seen'[e][v]
    <3>0. v \in Vas BY DataIs DEF Priv
    <3>1. CASE v = va
      <4>1. SameContent(e, "TEMP") BY <1>2, <1>4, <1>8, DataIs DEF Touches
      <4>2. Content(e, "TEMP") = seen[e][v] BY <1>0, <1>1, <1>9, <3>1 DEF Finds
      <4> QED BY <1>1, <1>7, <1>8, <3>1, <4>1, <4>2 DEF SameContent, On, Content, PageOf
    <3>2. CASE v # va
      <4>1. mem'.pte[e][v] = mem.pte[e][v] BY <1>4, <3>0, <3>2 DEF Touches
      <4>2. On(e, v) /\ Content(e, v) = seen[e][v] BY <1>2, <1>9 DEF Finds
      <4>3. SameContent(e, v) BY <1>4, <3>0, <4>1, <4>2 DEF Touches
      <4> QED BY <1>1, <4>1, <4>2, <4>3 DEF SameContent, On, Content, PageOf
    <3> QED BY <3>1, <3>2
  <2> QED BY <1>6, <2>1 DEF Finds
<1> QED BY <1>1, <1>2, <1>4, <1>6, <1>7, <1>10, <1>11, <1>12, <1>13, HandlerPrivate

(* ... and unmaps PFTEMP. *)
LEMMA PgfaultUnmapPrivate ==
  ASSUME PInv, FInv', NEW e \in Envs, PgfaultUnmap(e)
  PROVE  Private'
<1>1. /\ usr[e].step = "unmap" /\ env' = env /\ seen' = seen /\ program' = program
      /\ mem' = PageRemove(mem, e, "TEMP")
      /\ usr' = [usr EXCEPT ![e].step = "none", ![e].fault = "none"]
  BY DEF PgfaultUnmap, InHandler
<1>2. Live(e) /\ Up(e) BY <1>1, InPgfault
<1>3. /\ Fine(mem, mem', e) /\ OthersKept(mem, mem', e, "TEMP")
      /\ mem'.pte[e]["TEMP"] = Unmapped
  BY PgfaultUnmapKeeps DEF PInv, FInv
<1>4. Touches(e, "TEMP")
  <2>1. FreesOnly(mem, mem') BY <1>1, MemoryIs, DataIs, RemoveContents
  <2>2. Contents(mem, mem') BY <2>1 DEF FreesOnly, Contents
  <2> QED BY <1>3, <2>2, DataIs, CallTouches DEF OthersKept
<1>5. PICK u \in {[usr[e] EXCEPT !.step = "none"]} : usr'[e] = [u EXCEPT !.fault = "none"]
  BY <1>1 DEF PInv, FInv, IInv, Typed, UsrTypes
<1>6. /\ \A f \in Envs \ {e} : usr'[f] = usr[f]
      /\ usr'[e].pc = usr[e].pc /\ usr'[e].child = usr[e].child
      /\ usr'[e].at = usr[e].at /\ usr'[e].perm = usr[e].perm
      /\ usr'[e].step = "none"
  BY <1>1, <1>5 DEF PInv, FInv, IInv, Typed, UsrTypes
<1>7. "TEMP" \notin Priv /\ "TEMP" \in Vas BY DataIs DEF Priv
<1>8. Finds(e)' BY <1>1, <1>2, <1>4, <1>6, <1>7, StillFinds
<1>9. Source(e, e, "TEMP") BY <1>3 DEF Source
<1> QED BY <1>1, <1>3, <1>4, <1>6, <1>7, <1>8, <1>9, HandlerPrivate

-----------------------------------------------------------------------------
(* Steps on the child that e is building *)

Got(d, v) == On(d, v) /\ Content(d, v) = seen[d][v]

(* e builds d, which does nothing meanwhile. *)
Builds(e, d) ==
  /\ d \in Envs \ {e} /\ usr[e].child = d /\ env[d].parent = e /\ Blocked(env, d)
  /\ ~Up(d) /\ NotOthers(e, d) /\ usr[d].pc \in {"child", "user"} /\ usr[d].step = "none"

(* A child that is being built belongs to its parent and does nothing. *)
LEMMA BuildsChild ==
  ASSUME PInv, NEW e \in Envs, usr[e].pc \in Building
  PROVE  Builds(e, usr[e].child)
<1> DEFINE d == usr[e].child
<1>1. d \in Envs \ {e} /\ env[d].parent = e /\ Blocked(env, d)
  BY ChildOfBuilder DEF PInv, FInv, Blocked
<1> HIDE DEF d
<1>2. ~Live(d) /\ ~Up(d) BY <1>1 DEF Blocked, Up, Live
<1>3. NotOthers(e, d) BY <1>1, AreNotOthers DEF PInv, FInv
<1>4. usr[d].pc \in {"child", "user"} BY <1>1 DEF PInv, Private, TidyOf, Tidy, Blocked
<1>5. usr[d].step = "none" BY <1>1, <1>2 DEF PInv, FInv, Faults, FaultOf
<1> QED BY <1>1, <1>2, <1>3, <1>4, <1>5 DEF Builds, d

(* What the child got stays, when another mapping changes. *)
LEMMA GotKept ==
  ASSUME NEW x \in Envs, NEW va \in Vas, Touches(x, va), NEW d \in Envs, NEW v \in Priv,
         d # x \/ v # va, seen'[d][v] = seen[d][v], Got(d, v)
  PROVE  Got(d, v)'
<1>1. v \in Vas BY DataIs DEF Priv
<1>2. mem'.pte[d][v] = mem.pte[d][v] BY <1>1 DEF Touches
<1>3. SameContent(d, v) BY <1>1, <1>2 DEF Touches, Got
<1> QED BY <1>2, <1>3 DEF Got, On, Content, PageOf, SameContent

(* What the child got is what it inherits. *)
LEMMA GotInherits ==
  ASSUME NEW e \in Envs, NEW i \in Places, NEW d, usr'[e].child = d, Got(d, VaOrder[i])'
  PROVE  Inherited(e, i)'
  BY DEF Got, Inherited, On, Content, PageOf

(* What the parent has given and is not at any more, the child has got. *)
LEMMA GaveGot ==
  ASSUME PInv, NEW e \in Envs, NEW i \in Places, GivenAt(e, i),
         usr[e].pc \in {"copy_map", "copy", "dup_own"} => usr[e].at # i
  PROVE  Got(usr[e].child, VaOrder[i])
  BY DEF PInv, Private, Gave, Inherited, Got

(* The loop of fork meets each page once. *)
LEMMA PlacesDiffer ==
  /\ \A i \in Places : VaOrder[i] \in Priv /\ VaOrder[i] \in Vas /\ i \in 1 .. 5
  /\ \A i \in Places, j \in 1 .. 5 : VaOrder[i] = VaOrder[j] => i = j
<1>1. VaOrder[1] = "TEMP" /\ VaOrder[2] = "DATA" /\ VaOrder[3] = "MSG"
      /\ VaOrder[4] = "STACK" /\ VaOrder[5] = "XSTACK"
  BY DEF VaOrder
<1>2. \A j \in 1 .. 5 : j = 1 \/ j = 2 \/ j = 3 \/ j = 4 \/ j = 5 OBVIOUS
<1> QED BY <1>1, <1>2, DataIs DEF Places, Priv

(* What was mapped before is where it is mapped afterwards, wherever that is. *)
LEMMA SharedContent ==
  ASSUME Sound(mem), Sound(mem'), Contents(mem, mem'),
         NEW s \in Envs, NEW sv \in Vas, On(s, sv),
         NEW x \in Envs, NEW va \in Vas, mem'.pte[x][va] # Unmapped,
         mem'.pte[x][va].page = PageOf(s, sv)
  PROVE  mem'.data[PageOf(s, sv)] = mem.data[PageOf(s, sv)]
<1>1. PageOf(s, sv) \in Pages \ mem.free BY MappedNotFree DEF On, PageOf
<1>2. mem'.pte[x][va].page \in Pages \ mem'.free BY MappedNotFree
<1> QED BY <1>1, <1>2 DEF Contents

(* What the parent may use after a step on its child. *)
LEMMA BuilderTidy ==
  ASSUME PInv, NEW e \in Envs, Live(e), env'[e].status = env[e].status,
         program'.fork = program.fork, usr'[e].step = "none",
         \A v \in Vas \ {"TEMP"} :
           \/ mem'.pte[e][v] = mem.pte[e][v]
           \/ program.fork = "fork" /\ mem'.pte[e][v] # Unmapped /\ mem'.pte[e][v].perm = "cow",
         mem'.pte[e]["TEMP"] # Unmapped => usr'[e].pc \in {"copy", "copy_unmap"},
         mem'.pte[e]["TEMP"].perm # "cow",
         usr'[e].pc \in {"dup", "child_upcall"} \cup (AtPage \ {"dup_child"}),
         usr'[e].pc \in AtPage => usr'[e].at = usr[e].at /\ usr[e].pc \in AtPage,
         program.fork = "fork" => usr'[e].pc \notin Copying,
         program.fork # "fork" => usr'[e].pc \notin ForkOnly
  PROVE  TidyOf(e)'
<1>1. TidyOf(e) BY DEF PInv, Private
<1>2. program.fork # "fork" => ~HasCow(mem'.pte[e])
  <2>1. program.fork # "fork" => ~HasCow(mem.pte[e]) BY <1>1 DEF TidyOf, Tidy
  <2> QED BY <2>1 DEF HasCow
<1>3. usr'[e].pc \in AtPage =>
        VaOrder[usr'[e].at] # "TEMP" /\ mem'.pte[e][VaOrder[usr'[e].at]] # Unmapped
  <2>1. SUFFICES ASSUME usr'[e].pc \in AtPage
                 PROVE  Va(e) # "TEMP" /\ mem'.pte[e][Va(e)] # Unmapped
    BY DEF Va
  <2>2. Va(e) \in Vas BY <2>1, PageOfLoop DEF PInv, FInv
  <2>3. Va(e) # "TEMP" /\ mem.pte[e][Va(e)] # Unmapped BY <1>1, <2>1 DEF TidyOf, Tidy, Va
  <2> QED BY <2>2, <2>3
<1>4. \A v \in Priv : mem'.pte[e][v] # Unmapped => mem'.pte[e][v].perm \in {"rw", "cow"}
  <2>1. Priv \subseteq Vas \ {"TEMP"} BY DataIs DEF Priv
  <2> QED BY <1>1, <2>1 DEF TidyOf, Tidy
<1> QED BY <1>2, <1>3, <1>4 DEF TidyOf, Tidy, Live

(* The library panics for lack of memory, which changes no mapping. *)
LEMMA PanicPrivate ==
  ASSUME PInv, FInv', NEW e \in Envs, NEW pc, Calls(e, pc),
         pc \notin {"copy", "copy_unmap", "panic", "dup_own"}, Goto(e, "panic"),
         mem'.pte = mem.pte, NEW x \in Envs, NEW va \in Vas, Touches(x, va),
         SameLives, seen' = seen, program' = program
  PROVE  Private'
<1>1. /\ \A f \in Envs \ {e} : usr'[f] = usr[f]
      /\ usr'[e].pc = "panic" /\ usr'[e].step = usr[e].step
  BY Counters, Went DEF PInv, FInv
<1>2. Live(e) /\ usr[e].pc = pc /\ usr[e].fault = "none" BY Caller
<1>3. Touches(e, "MSG") BY DEF Touches
<1> QED BY <1>1, <1>2, <1>3, PlainPrivate

(* The child alone changes, or what e has of it. *)
LEMMA BuilderCalm ==
  ASSUME PInv, NEW e \in Envs, NEW d \in Envs, Builds(e, d), env' = env,
         \A f \in Envs \ {e} : usr'[f] = usr[f],
         \A c \in Envs \ {d} : seen'[c] = seen[c]
  PROVE  ChildrenCalm(e) /\ \A f \in Envs \ {e} : Calm(f)
  BY DEF Builds, ChildrenCalm, Calm, Still, Up, Live

(* fork allocates the exception stack of the child. *)
LEMMA ChildXstackPrivate ==
  ASSUME PInv, FInv', NEW e \in Envs, ChildXstack(e)
  PROVE  Private'
<1>1. Live(e) /\ usr[e].pc = "xstack" /\ usr[e].fault = "none" /\ usr[e].step = "none"
      /\ Calls(e, "xstack")
  BY Caller DEF ChildXstack
<1>2. PICK d \in Envs : Builds(e, d)
  <2>1. usr[e].pc \in Building BY <1>1 DEF Building
  <2> QED BY <2>1, BuildsChild DEF Builds
<1>3. d # e /\ usr[e].child = d BY <1>2 DEF Builds
<1>4. /\ mem' = EnvPageAlloc(mem, d, "XSTACK", "rw")
      /\ Goto(e, IF EnvPageAllocOK(mem, d, "XSTACK") THEN "child_upcall" ELSE "panic")
      /\ env' = env /\ seen' = seen /\ program' = program
  BY <1>3 DEF ChildXstack, Returns
<1>5. "XSTACK" \in Vas /\ "XSTACK" \notin Priv BY DataIs DEF Priv
<1>6. /\ Touches(d, "XSTACK")
      /\ EnvPageAllocOK(mem, d, "XSTACK") =>
           mem'.pte[d]["XSTACK"].page \in mem.free /\ mem'.pte[d]["XSTACK"].perm = "rw"
      /\ ~EnvPageAllocOK(mem, d, "XSTACK") => mem'.pte = mem.pte
  BY <1>4, <1>5, PermsAre, AllocTouches
<1>7. SameLives BY <1>4 DEF SameLives
<1>8. CASE ~EnvPageAllocOK(mem, d, "XSTACK")
  BY <1>1, <1>4, <1>5, <1>6, <1>7, <1>8, PanicPrivate
<1>9. CASE EnvPageAllocOK(mem, d, "XSTACK")
  <2>1. "child_upcall" \in Counter /\ Goto(e, "child_upcall") BY <1>4, <1>9, Counters
  <2>2. /\ \A f \in Envs \ {e} : usr'[f] = usr[f]
        /\ usr'[e].pc = "child_upcall" /\ usr'[e].child = d /\ usr'[e].step = "none"
    BY <1>1, <1>3, <2>1, Went DEF PInv, FInv
  <2>3. program.fork = "fork" BY <1>1 DEF PInv, Private, TidyOf, Tidy, ForkOnly
  <2>4. mem'.pte[e] = mem.pte[e]
    BY <1>3, <1>6, MemoryIs, FunctionsOfAddresses DEF Touches, FInv, IInv, Counted
  <2>5. mem.pte[e]["TEMP"] = Unmapped BY <1>1 DEF PInv, Private, TidyOf, Tidy
  <2>6. TidyOf(e)'
    <3>1. mem'.pte[e]["TEMP"] = Unmapped /\ Unmapped.perm # "cow"
      BY <2>4, <2>5 DEF Unmapped, Pte
    <3> QED BY <1>1, <1>4, <2>2, <2>3, <2>4, <3>1, BuilderTidy DEF AtPage, Copying, ForkOnly
  <2>7. CopyTarget(e)' BY <2>2 DEF CopyTarget
  <2>8. Finds(e)' BY <1>1, <1>3, <1>4, <1>5, <1>6, <2>2, StillFinds, IsAlive
  <2>9. Gave(e)'
    <3>1. SUFFICES ASSUME NEW i \in Places PROVE Inherited(e, i)' BY DEF Gave
    <3>2. GivenAt(e, i) BY <1>1 DEF GivenAt
    <3>3. Got(d, VaOrder[i]) BY <1>1, <1>3, <3>2, GaveGot
    <3>4. Got(d, VaOrder[i])' BY <1>4, <1>5, <1>6, <3>3, PlacesDiffer, GotKept
    <3> QED BY <2>2, <3>4, GotInherits
  <2>10. Aliases'
    <3>1. TempsStay /\ HalfwaysStay BY <1>1, <2>2, NothingSpecial
    <3>2. Sound(mem') BY DEF FInv, IInv, Counted
    <3> QED BY <1>5, <1>6, <1>9, <3>1, <3>2, AliasesKept, FreshAlias
  <2>11. Harmless(d, "XSTACK") BY <1>5, <1>6, <1>9 DEF Harmless, Touches
  <2>12. Source(e, d, "XSTACK") BY <1>6, <1>9 DEF Source
  <2> QED BY <1>1, <1>2, <1>4, <1>5, <1>6, <1>7, <2>2, <2>6, <2>7, <2>8, <2>9, <2>10, <2>11,
             <2>12, PrivateAlone DEF Builds
<1> QED BY <1>8, <1>9

-----------------------------------------------------------------------------
(* The copies of fork_v0 *)

(* e is at a page of the loop. *)
LEMMA AtPageOfLoop ==
  ASSUME PInv, NEW e \in Envs, NEW pc \in AtPage, usr[e].pc = pc
  PROVE  /\ Va(e) \in Vas \ {"TEMP"} /\ On(e, Va(e)) /\ usr[e].at \in 1 .. 5
         /\ \E d \in Envs : Builds(e, d)
<1>1. Va(e) \in Vas /\ usr[e].at \in 1 .. 5
  BY PageOfLoop DEF PInv, FInv, IInv, Children
<1>2. Va(e) # "TEMP" /\ On(e, Va(e)) BY DEF PInv, Private, TidyOf, Tidy, Va, On
<1>3. usr[e].pc \in Building BY DEF Building
<1> QED BY <1>1, <1>2, <1>3, BuildsChild DEF Builds

(* The new page is of nobody else. *)
LEMMA CopyAllocPrivate ==
  ASSUME PInv, FInv', NEW e \in Envs, CopyAlloc(e)
  PROVE  Private'
<1>1. Live(e) /\ usr[e].pc = "copy_alloc" /\ usr[e].fault = "none" /\ usr[e].step = "none"
      /\ Calls(e, "copy_alloc")
  BY Caller DEF CopyAlloc
<1>2. /\ Va(e) \in Vas \ {"TEMP"} /\ usr[e].at \in 1 .. 5
      /\ \E d \in Envs : Builds(e, d)
  BY <1>1, AtPageOfLoop DEF AtPage
<1>3. PICK d \in Envs : Builds(e, d) BY <1>2
<1>4. d # e /\ usr[e].child = d BY <1>3 DEF Builds
<1>5. PICK va \in Vas \ {"TEMP"} : va = Va(e) BY <1>2
<1>6. /\ mem' = EnvPageAlloc(mem, d, va, "rw")
      /\ Goto(e, IF EnvPageAllocOK(mem, d, va) THEN "copy_map" ELSE "panic")
      /\ env' = env /\ seen' = seen /\ program' = program
  BY <1>4, <1>5 DEF CopyAlloc, Returns
<1>7. /\ Touches(d, va)
      /\ EnvPageAllocOK(mem, d, va) =>
           mem'.pte[d][va].page \in mem.free /\ mem'.pte[d][va].perm = "rw"
      /\ ~EnvPageAllocOK(mem, d, va) => mem'.pte = mem.pte
  BY <1>6, PermsAre, AllocTouches
<1>8. SameLives BY <1>6 DEF SameLives
<1>9. CASE ~EnvPageAllocOK(mem, d, va) BY <1>1, <1>6, <1>7, <1>8, <1>9, PanicPrivate
<1>10. CASE EnvPageAllocOK(mem, d, va)
  <2>1. "copy_map" \in Counter /\ Goto(e, "copy_map")
    BY <1>6, <1>10 DEF AtPage, Building, Counter
  <2>2. /\ \A f \in Envs \ {e} : usr'[f] = usr[f]
        /\ usr'[e].pc = "copy_map" /\ usr'[e].child = d /\ usr'[e].step = "none"
        /\ usr'[e].at = usr[e].at
    BY <1>1, <1>4, <2>1, Went DEF PInv, FInv
  <2>3. program.fork # "fork" /\ mem.pte[e]["TEMP"] = Unmapped
    BY <1>1 DEF PInv, Private, TidyOf, Tidy, Copying
  <2>4. mem'.pte[e] = mem.pte[e]
    BY <1>4, <1>7, MemoryIs, FunctionsOfAddresses DEF Touches, FInv, IInv, Counted
  <2>5. Sound(mem') BY DEF FInv, IInv, Counted
  <2>6. mem'.pte[d][va] # Unmapped /\ mem'.pte[d][va].page \in mem.free
    <3>1. mem'.pte[d][va].page \in Pages BY <1>7, <1>10, MemoryIs DEF Sound
    <3> QED BY <1>7, <1>10, <3>1, PteKinds
  <2>7. TidyOf(e)'
    <3>1. mem'.pte[e]["TEMP"] = Unmapped /\ Unmapped.perm # "cow"
      BY <2>3, <2>4 DEF Unmapped, Pte
    <3> QED BY <1>1, <1>6, <2>2, <2>3, <2>4, <3>1, BuilderTidy DEF AtPage, ForkOnly
  <2>8. Va(e)' = va BY <1>5, <2>2 DEF Va
  <2>9. CopyTarget(e)'
    <3>1. ASSUME NEW f \in Envs, NEW vb \in Vas, f # d \/ vb # va, mem'.pte[f][vb] # Unmapped
          PROVE  mem'.pte[f][vb].page # mem'.pte[d][va].page
      <4>1. mem'.pte[f][vb] = mem.pte[f][vb] BY <1>7, <3>1 DEF Touches
      <4>2. mem'.pte[f][vb].page \notin mem.free BY <3>1, <4>1, MemoryIs, MappedNotFree
      <4> QED BY <2>6, <4>2
    <3> QED BY <2>2, <2>8, <3>1 DEF CopyTarget, On, PageOf
  <2>10. Finds(e)' BY <1>1, <1>4, <1>6, <1>7, <2>2, StillFinds, IsAlive
  <2>11. Gave(e)'
    <3>1. SUFFICES ASSUME NEW i \in Places, GivenAt(e, i)' PROVE Inherited(e, i)'
      BY DEF Gave
    <3>2. CASE usr[e].at = i
      <4>1. VaOrder[i] = va BY <1>5, <3>2 DEF Va
      <4> QED BY <2>2, <2>6, <3>2, <4>1 DEF Inherited, On
    <3>3. CASE usr[e].at # i
      <4>1. GivenAt(e, i) BY <1>1, <2>2, <3>1, <3>3 DEF GivenAt, AtPage
      <4>2. Got(d, VaOrder[i]) BY <1>1, <1>4, <4>1, GaveGot
      <4>3. VaOrder[i] # va /\ VaOrder[i] \in Priv
        BY <1>2, <1>5, <3>3, PlacesDiffer DEF Va
      <4>4. Got(d, VaOrder[i])' BY <1>6, <1>7, <4>2, <4>3, GotKept
      <4> QED BY <2>2, <4>4, GotInherits
    <3> QED BY <3>2, <3>3
  <2>12. Aliases'
    <3>1. TempsStay /\ HalfwaysStay BY <1>1, <2>2, NothingSpecial
    <3> QED BY <1>7, <2>5, <2>6, <3>1, AliasesKept, FreshAlias
  <2>13. Harmless(d, va) BY <1>7, <1>10 DEF Harmless, Touches
  <2>14. Source(e, d, va) BY <2>6 DEF Source
  <2> QED BY <1>1, <1>3, <1>6, <1>7, <1>8, <2>2, <2>7, <2>9, <2>10, <2>11, <2>12, <2>13, <2>14,
             PrivateAlone DEF Builds
<1> QED BY <1>9, <1>10

(* e maps it at TEMP, where nobody else has it. *)
LEMMA CopyMapPrivate ==
  ASSUME PInv, FInv', NEW e \in Envs, CopyMap(e)
  PROVE  Private'
<1>1. Live(e) /\ usr[e].pc = "copy_map" /\ usr[e].fault = "none" /\ usr[e].step = "none"
      /\ Calls(e, "copy_map")
  BY Caller DEF CopyMap
<1>2. /\ Va(e) \in Vas \ {"TEMP"} /\ usr[e].at \in 1 .. 5
      /\ \E d \in Envs : Builds(e, d)
  BY <1>1, AtPageOfLoop DEF AtPage
<1>3. PICK d \in Envs : Builds(e, d) BY <1>2
<1>4. d # e /\ usr[e].child = d BY <1>3 DEF Builds
<1>5. PICK va \in Vas \ {"TEMP"} : va = Va(e) BY <1>2
<1> DEFINE ok == EnvPageMapOK(mem, d, va, e, "TEMP", "rw")
<1>6. /\ mem' = EnvPageMap(mem, d, va, e, "TEMP", "rw")
      /\ Goto(e, IF ok THEN "copy" ELSE "panic")
      /\ env' = env /\ seen' = seen /\ program' = program
  BY <1>4, <1>5 DEF CopyMap, Returns
<1>7. /\ Touches(e, "TEMP")
      /\ ok => On(d, va) /\ mem'.pte[e]["TEMP"] = Pte(PageOf(d, va), "rw")
      /\ ~ok => mem'.pte = mem.pte
  BY <1>6, PermsAre, DataIs, MapTouches
<1> HIDE DEF ok
<1>8. SameLives BY <1>6 DEF SameLives
<1>0. "TEMP" \in Vas /\ "TEMP" \notin Priv BY DataIs DEF Priv
<1>9. CASE ~ok BY <1>0, <1>1, <1>6, <1>7, <1>8, <1>9, PanicPrivate
<1>10. CASE ok
  <2>1. "copy" \in Counter /\ Goto(e, "copy")
    BY <1>6, <1>10 DEF AtPage, Building, Counter
  <2>2. /\ \A f \in Envs \ {e} : usr'[f] = usr[f]
        /\ usr'[e].pc = "copy" /\ usr'[e].child = d /\ usr'[e].step = "none"
        /\ usr'[e].at = usr[e].at
    BY <1>1, <1>4, <2>1, Went DEF PInv, FInv
  <2>3. program.fork # "fork"
    BY <1>1 DEF PInv, Private, TidyOf, Tidy, Copying
  <2>4. PageOf(d, va) \in Pages BY <1>7, <1>10, MemoryIs, MappedNotFree DEF On, PageOf
  <2>5. Sound(mem') BY DEF FInv, IInv, Counted
  <2>6. /\ mem'.pte[e]["TEMP"] # Unmapped /\ mem'.pte[e]["TEMP"].page = PageOf(d, va)
        /\ mem'.pte[e]["TEMP"].perm = "rw"
    BY <1>7, <1>10, <2>4, PermsAre, PteKinds
  <2>7. TidyOf(e)'
    <3>1. \A v \in Vas \ {"TEMP"} : mem'.pte[e][v] = mem.pte[e][v] BY <1>7 DEF Touches
    <3> QED BY <1>1, <1>6, <2>2, <2>3, <2>6, <3>1, BuilderTidy DEF AtPage, ForkOnly
  <2>8. Va(e)' = va BY <1>5, <2>2 DEF Va
  <2>9. mem'.pte[d] = mem.pte[d]
    BY <1>4, <1>7, <2>5, MemoryIs, FunctionsOfAddresses DEF Touches
  <2>10. CopyTarget(e)' BY <2>2, <2>6, <2>8, <2>9 DEF CopyTarget, On, PageOf
  <2>11. Finds(e)' BY <1>0, <1>1, <1>6, <1>7, <2>2, StillFinds, IsAlive
  <2>12. Gave(e)'
    <3>1. SUFFICES ASSUME NEW i \in Places, GivenAt(e, i)' PROVE Inherited(e, i)'
      BY DEF Gave
    <3>2. CASE usr[e].at = i
      <4>1. VaOrder[i] = va BY <1>5, <3>2 DEF Va
      <4> QED BY <1>7, <1>10, <2>2, <2>9, <3>2, <4>1 DEF Inherited, On
    <3>3. CASE usr[e].at # i
      <4>1. GivenAt(e, i) BY <1>1, <2>2, <3>1, <3>3 DEF GivenAt, AtPage
      <4>2. Got(d, VaOrder[i]) BY <1>1, <1>4, <3>3, <4>1, GaveGot
      <4>3. VaOrder[i] \in Priv BY PlacesDiffer
      <4>4. Got(d, VaOrder[i])' BY <1>0, <1>4, <1>6, <1>7, <4>2, <4>3, GotKept
      <4> QED BY <2>2, <4>4, GotInherits
    <3> QED BY <3>2, <3>3
  <2>13. NewAlias(e, "TEMP")
    <3>1. SUFFICES ASSUME NEW f \in Envs, NEW v \in Vas, On(f, v), PageOf(f, v) = PageOf(d, va)
                   PROVE  MayShare(e, "TEMP", f, v)' /\ MayShare(f, v, e, "TEMP")'
      BY <2>6 DEF NewAlias
    <3>2. CopyTarget(e) BY DEF PInv, Private
    <3>3. f = d /\ v = va BY <1>1, <1>4, <1>5, <3>1, <3>2 DEF CopyTarget
    <3>4. TempOf(e, d, va)' BY <2>2, <2>8 DEF TempOf
    <3> QED BY <3>3, <3>4 DEF MayShare
  <2>14. Aliases'
    <3>1. TempsStay /\ HalfwaysStay BY <1>1, <2>2, NothingSpecial
    <3> QED BY <1>0, <1>7, <2>5, <2>13, <3>1, AliasesKept
  <2>15. Source(e, e, "TEMP") BY <1>3, <1>7, <1>10, <2>6 DEF Source, Builds
  <2> QED BY <1>0, <1>1, <1>6, <1>7, <1>8, <2>2, <2>7, <2>10, <2>11, <2>12, <2>14, <2>15,
             PrivateAlone
<1> QED BY <1>9, <1>10

(* The next page of the loop: what e gave is what it had given, and the    *)
(* page it is at.                                                          *)
LEMMA AdvancedGiven ==
  ASSUME PInv, NEW e \in Envs, usr[e].pc \in AtPage, Advance(e), NEW i \in Places,
         GivenAt(e, i)'
  PROVE  usr[e].at = i \/ GivenAt(e, i)
<1>1. usr'[e].pc = "dup" /\ usr'[e].at = usr[e].at + 1 BY Advanced DEF PInv, FInv
<1>2. usr[e].at \in 1 .. 5 BY DEF PInv, FInv, IInv, Children
<1>3. usr[e].at + 1 > i BY <1>1 DEF GivenAt
<1>4. usr[e].at = i \/ usr[e].at > i BY <1>2, <1>3, PlacesDiffer
<1> QED BY <1>4 DEF GivenAt

(* duppage of fork_v0 unmaps the page of the child again. *)
LEMMA CopyUnmapPrivate ==
  ASSUME PInv, FInv', NEW e \in Envs, CopyUnmap(e)
  PROVE  Private'
<1>1. Live(e) /\ usr[e].pc = "copy_unmap" /\ usr[e].fault = "none" /\ usr[e].step = "none"
  BY Caller DEF CopyUnmap
<1>2. \E d \in Envs : Builds(e, d) BY <1>1, AtPageOfLoop DEF AtPage
<1>3. PICK d \in Envs : Builds(e, d) BY <1>2
<1>4. d # e /\ usr[e].child = d BY <1>3 DEF Builds
<1>5. /\ mem' = PageRemove(mem, e, "TEMP") /\ Advance(e)
      /\ env' = env /\ seen' = seen /\ program' = program
  BY DEF CopyUnmap
<1>6. /\ Fine(mem, mem', e) /\ mem'.pte[e]["TEMP"] = Unmapped
      /\ \A v \in Vas \ {"TEMP"} : mem'.pte[e][v] = mem.pte[e][v]
  BY CopyUnmapKeeps DEF PInv, FInv
<1>7. Touches(e, "TEMP")
  <2>1. FreesOnly(mem, mem') BY <1>5, MemoryIs, DataIs, RemoveContents
  <2>2. Contents(mem, mem') BY <2>1 DEF FreesOnly, Contents
  <2> QED BY <1>6, <2>2, DataIs, CallTouches
<1>8. /\ \A f \in Envs \ {e} : usr'[f] = usr[f]
      /\ usr'[e].pc = "dup" /\ usr'[e].child = d /\ usr'[e].step = "none"
  BY <1>1, <1>4, <1>5, Advanced DEF PInv, FInv, AtPage
<1>9. "TEMP" \in Vas /\ "TEMP" \notin Priv BY DataIs DEF Priv
<1>10. TidyOf(e)'
  <2>1. Unmapped.perm # "cow" BY DEF Unmapped, Pte
  <2> QED BY <1>1, <1>5, <1>6, <1>8, <2>1, BuilderTidy DEF AtPage, Copying, ForkOnly
<1>11. CopyTarget(e)' BY <1>8 DEF CopyTarget
<1>12. Finds(e)' BY <1>1, <1>5, <1>7, <1>8, <1>9, StillFinds, IsAlive
<1>13. Gave(e)'
  <2>1. SUFFICES ASSUME NEW i \in Places, GivenAt(e, i)' PROVE Inherited(e, i)'
    BY DEF Gave
  <2>2. usr[e].at = i \/ GivenAt(e, i) BY <1>1, <1>5, <2>1, AdvancedGiven DEF AtPage
  <2>3. GivenAt(e, i) BY <1>1, <2>2 DEF GivenAt
  <2>4. Got(d, VaOrder[i]) BY <1>1, <1>4, <2>3, GaveGot
  <2>5. Got(d, VaOrder[i])' BY <1>4, <1>5, <1>7, <1>9, <2>4, PlacesDiffer, GotKept
  <2> QED BY <1>8, <2>5, GotInherits
<1>14. Aliases'
  <2>1. \A f \in Envs \ {e} : Still(f) BY <1>8 DEF Still
  <2>2. TempsStay /\ HalfwaysStay BY <1>1, <1>6, <2>1, NothingHalfDone
  <2>3. Sound(mem') BY DEF FInv, IInv, Counted
  <2> QED BY <1>6, <1>7, <1>9, <2>2, <2>3, AliasesKept
<1>15. Source(e, e, "TEMP") BY <1>6 DEF Source
<1>16. SameLives BY <1>5 DEF SameLives
<1> QED BY <1>1, <1>5, <1>7, <1>8, <1>9, <1>10, <1>11, <1>12, <1>13, <1>14, <1>15, <1>16,
           PrivateAlone

(* The page of nobody else gets what e has: the child inherits it. *)
LEMMA CopiedAlone ==
  ASSUME PInv, NEW e \in Envs, usr[e].pc = "copy", NEW f \in Envs, NEW v \in Vas,
         f # e \/ v # "TEMP", f # usr[e].child \/ v # Va(e), On(f, v)
  PROVE  PageOf(f, v) # PageOf(e, "TEMP")
<1>1. SUFFICES ASSUME PageOf(f, v) = PageOf(e, "TEMP") PROVE FALSE OBVIOUS
<1>2. On(e, "TEMP") BY DEF PInv, Private, CopyTarget
<1>3. program.fork # "fork" BY DEF PInv, Private, TidyOf, Tidy, Copying
<1>4. \A g \in Envs : usr[g].step = "none" BY <1>3 DEF PInv, Private, TidyOf, Tidy
<1>5. usr[f].pc \in {"copy", "copy_unmap"} => Va(f) # "TEMP" BY AtPageOfLoop DEF AtPage
<1>6. MayShare(e, "TEMP", f, v) BY <1>1, <1>2, DataIs DEF PInv, Private, Aliases
<1> QED BY <1>4, <1>5, <1>6 DEF MayShare, SameAddress, TempOf

(* The child of fork_v0 gets what its parent has on the page. *)
LEMMA CopyPrivate ==
  ASSUME PInv, FInv', NEW e \in Envs, Copy(e)
  PROVE  Private'
<1>1. /\ e \in Running /\ usr[e].pc = "copy" /\ usr[e].fault = "none"
      /\ Goto(e, "copy_unmap") /\ Inherit(e)
      /\ env' = env /\ program' = program
  BY DEF Copy, At
<1>2. Live(e) /\ usr[e].step = "none" /\ Up(e)
  BY <1>1, OutsidePgfault DEF Live, Up, Running
<1>3. /\ Va(e) \in Vas \ {"TEMP"} /\ On(e, Va(e)) /\ usr[e].at \in 1 .. 5
      /\ \E d \in Envs : Builds(e, d)
  BY <1>1, AtPageOfLoop DEF AtPage
<1>4. PICK d \in Envs : Builds(e, d) BY <1>3
<1>5. d # e /\ usr[e].child = d BY <1>4 DEF Builds
<1>6. PICK va \in Vas \ {"TEMP"} : va = Va(e) BY <1>3
<1>7. On(e, "TEMP") /\ PageOf(e, "TEMP") = PageOf(d, va)
  BY <1>1, <1>5, <1>6 DEF PInv, Private, CopyTarget
<1>8. PICK q \in Pages : q = PageOf(e, "TEMP")
  BY <1>7, DataIs, MemoryIs, MappedNotFree DEF On, PageOf
<1>9. PICK p \in Pages : p = PageOf(e, va)
  BY <1>3, <1>6, MemoryIs, MappedNotFree DEF On, PageOf
<1>10. mem' = [mem EXCEPT !.data[q] = mem.data[p]]
  <2>1. tlb[e] = mem.pte[e] BY <1>1 DEF PInv, TlbCoherent
  <2> QED BY <1>6, <1>8, <1>9, <2>1 DEF Copy, PageOf
<1>11. mem'.pte = mem.pte /\ mem'.data = [mem.data EXCEPT ![q] = mem.data[p]]
  BY <1>10, MemoryIs DEF Sound, Fields
<1>12. mem'.data \in Fill /\ mem'.data[q] = mem.data[p]
       /\ \A r \in Pages \ {q} : mem'.data[r] = mem.data[r]
  BY <1>11, MemoryIs DEF Fill
<1>13. \A f \in Envs, v \in Vas :
         (f # e \/ v # "TEMP") /\ (f # d \/ v # va) /\ On(f, v) => SameContent(f, v)
  <2>1. SUFFICES ASSUME NEW f \in Envs, NEW v \in Vas, f # e \/ v # "TEMP", f # d \/ v # va,
                        On(f, v)
                 PROVE  SameContent(f, v)
    OBVIOUS
  <2>2. PageOf(f, v) \in Pages BY <2>1, MemoryIs, MappedNotFree DEF On, PageOf
  <2>3. PageOf(f, v) # q BY <1>1, <1>5, <1>6, <1>8, <2>1, CopiedAlone
  <2> QED BY <1>11, <1>12, <2>2, <2>3 DEF SameContent, PageOf
<1>14. "copy_unmap" \in Counter BY DEF AtPage, Building, Counter
<1>15. /\ \A f \in Envs \ {e} : usr'[f] = usr[f]
       /\ usr'[e].pc = "copy_unmap" /\ usr'[e].child = d /\ usr'[e].step = "none"
       /\ usr'[e].at = usr[e].at
  BY <1>1, <1>2, <1>5, <1>14, Went DEF PInv, FInv
<1>16. /\ seen' = [seen EXCEPT ![d][va] = seen[e][va]]
       /\ seen \in [Envs -> [Vas -> {0, 1}]]
  BY <1>1, <1>5, <1>6 DEF Inherit, PInv, Private
<1>17. /\ seen' \in [Envs -> [Vas -> {0, 1}]] /\ seen'[d][va] = seen[e][va]
       /\ \A f \in Envs \ {d} : seen'[f] = seen[f]
       /\ \A v \in Vas \ {va} : seen'[d][v] = seen[d][v]
  BY <1>16
<1>18. Priv \subseteq Vas \ {"TEMP"} BY DataIs DEF Priv
<1>19. program.fork # "fork" /\ \A f \in Envs : usr[f].step = "none"
  <2>1. program.fork # "fork" BY <1>1 DEF PInv, Private, TidyOf, Tidy, Copying
  <2> QED BY <2>1 DEF PInv, Private, TidyOf, Tidy
<1>20. ASSUME NEW f \in Envs \ {e, d} PROVE Stands(f)
  <2>1. Still(f) /\ mem'.pte[f] = mem.pte[f] /\ env'[f] = env[f] /\ seen'[f] = seen[f]
    BY <1>1, <1>11, <1>15, <1>17 DEF Still
  <2>2. \A g \in Envs \ {d}, v \in Priv : On(g, v) => SameContent(g, v) BY <1>13, <1>18
  <2>3. ChildStands(f)
    <3>1. usr[f].pc \in Building \cup {"status"} => usr[f].child \in Envs
      BY DEF PInv, FInv, IInv, Children
    <3>2. usr[f].pc \in Building \cup {"status"} /\ env[usr[f].child].parent = f
            => usr[f].child # d
      BY <1>4 DEF Builds, NotOthers
    <3> QED BY <1>1, <1>11, <1>17, <2>2, <3>1, <3>2 DEF ChildStands, On
  <2> QED BY <1>1, <1>19, <2>1, <2>2, <2>3 DEF Stands, Up, Live
<1>21. TidyOf(d)' /\ CopyTarget(d)' /\ Finds(d)' /\ Gave(d)'
  <2>1. usr'[d] = usr[d] /\ env'[d] = env[d] /\ mem'.pte[d] = mem.pte[d]
    BY <1>1, <1>5, <1>11, <1>15
  <2>2. usr[d].pc \in {"child", "user"} /\ usr[d].step = "none" /\ ~Up(d)
    BY <1>4 DEF Builds
  <2>3. TidyOf(d)'
    <3>1. TidyOf(d) BY DEF PInv, Private
    <3> QED BY <1>1, <2>1, <3>1 DEF TidyOf, Tidy
  <2>4. CopyTarget(d)' /\ Gave(d)' BY <2>1, <2>2, NothingGiven
  <2>5. Finds(d)' BY <2>1, <2>2 DEF Finds, Up, Live
  <2> QED BY <2>3, <2>4, <2>5
<1>22. TidyOf(e)'
  <2>1. mem.pte[e]["TEMP"].perm # "cow"
    BY <1>19, DataIs DEF PInv, Private, TidyOf, Tidy, HasCow
  <2> QED BY <1>1, <1>2, <1>11, <1>15, <1>19, <2>1, BuilderTidy DEF AtPage, ForkOnly
<1>23. Va(e)' = va BY <1>6, <1>15 DEF Va
<1>24. CopyTarget(e)' BY <1>7, <1>11, <1>15, <1>23 DEF CopyTarget, On, PageOf
<1>25. Finds(e) BY DEF PInv, Private
<1>26. Finds(e)'
  <2>1. ASSUME NEW v \in Priv PROVE On(e, v)' /\ Content(e, v)' = seen'[e][v]
    <3>1. On(e, v) /\ Content(e, v) = seen[e][v] BY <1>2, <1>25 DEF Finds
    <3>2. SameContent(e, v) BY <1>5, <1>13, <1>18, <3>1
    <3> QED BY <1>5, <1>11, <1>17, <3>1, <3>2 DEF On, Content, PageOf, SameContent
  <2> QED BY <1>15, <2>1 DEF Finds
<1>27. Gave(e)'
  <2>1. SUFFICES ASSUME NEW i \in Places, GivenAt(e, i)' PROVE Inherited(e, i)'
    BY DEF Gave
  <2>2. CASE usr[e].at = i
    <3>1. VaOrder[i] = va /\ va \in Priv BY <1>6, <2>2, PlacesDiffer DEF Va
    <3>2. GivenAt(e, i) BY <1>1, <2>2 DEF GivenAt
    <3>3. On(d, va) BY <1>5, <3>1, <3>2 DEF PInv, Private, Gave, Inherited
    <3>4. Content(e, va) = seen[e][va] BY <1>2, <1>25, <3>1 DEF Finds
    <3>5. mem'.data[PageOf(d, va)] = seen'[d][va]
      BY <1>7, <1>8, <1>9, <1>12, <1>17, <3>4 DEF Content
    <3>6. Got(d, va)' BY <1>11, <3>3, <3>5 DEF Got, On, Content, PageOf
    <3> QED BY <1>15, <3>1, <3>6, GotInherits
  <2>3. CASE usr[e].at # i
    <3>1. GivenAt(e, i) BY <1>1, <1>15, <2>1, <2>3 DEF GivenAt, AtPage
    <3>2. Got(d, VaOrder[i]) BY <1>1, <1>5, <2>3, <3>1, GaveGot
    <3>3. VaOrder[i] # va /\ VaOrder[i] \in Priv
      BY <1>3, <1>6, <2>3, PlacesDiffer DEF Va
    <3>4. SameContent(d, VaOrder[i]) BY <1>5, <1>13, <1>18, <3>2, <3>3 DEF Got
    <3>5. seen'[d][VaOrder[i]] = seen[d][VaOrder[i]] BY <1>17, <1>18, <3>3
    <3>6. Got(d, VaOrder[i])'
      BY <1>11, <3>2, <3>4, <3>5 DEF Got, On, Content, PageOf, SameContent
    <3> QED BY <1>15, <3>6, GotInherits
  <2> QED BY <2>2, <2>3
<1>28. TempsStay /\ HalfwaysStay
  <2>1. \A f \in Envs \ {e} : Still(f) BY <1>15 DEF Still
  <2> QED BY <1>1, <1>2, <1>5, <1>15, <2>1, NothingHalfDone
<1>29. Aliases' BY <1>11, <1>28, SameMappings
<1>30. \A f \in Envs : TidyOf(f)' /\ CopyTarget(f)' /\ Finds(f)' /\ Gave(f)'
  <2>1. ASSUME NEW f \in Envs \ {e, d}
        PROVE  TidyOf(f)' /\ CopyTarget(f)' /\ Finds(f)' /\ Gave(f)'
    BY <1>1, <1>20, StandsPrivate
  <2> QED BY <1>21, <1>22, <1>24, <1>26, <1>27, <2>1
<1> QED BY <1>12, <1>17, <1>29, <1>30 DEF Private, Fill

-----------------------------------------------------------------------------
(* duppage *)

(* At a page of duppage nobody else may have at another address what e has *)
(* at this one.                                                            *)
LEMMA SharedAtPage ==
  ASSUME PInv, NEW e \in Envs, Live(e), usr[e].step = "none", NEW va \in Vas \ {"TEMP"},
         On(e, va), NEW f \in Envs, NEW v \in Vas, f # e \/ v # va,
         On(f, v), PageOf(f, v) = PageOf(e, va)
  PROVE  /\ v = va /\ f # e
         /\ va \in Priv /\ mem.pte[f][va].perm = "rw" => usr[f].pc = "panic"
<1>1. MayShare(e, va, f, v) /\ MayShare(f, v, e, va)
  BY DEF PInv, Private, Aliases
<1>2. usr[f].pc \in Building /\ usr[f].child = e => FALSE
  <2>1. SUFFICES ASSUME usr[f].pc \in Building, usr[f].child = e PROVE FALSE OBVIOUS
  <2>2. Blocked(env, e) BY <2>1, BuildsChild DEF Builds
  <2> QED BY <2>2 DEF Blocked, Live
<1>3. ~TempOf(f, e, va) BY <1>2 DEF TempOf, Building, AtPage
<1>4. v = va /\ f # e BY <1>1, <1>3 DEF MayShare
<1>5. ~Halfway(f, va, e) \/ usr[f].pc = "panic" BY <1>2 DEF Halfway, Building, AtPage
<1> QED BY <1>1, <1>4, <1>5 DEF MayShare, SameAddress

(* The first system call of duppage: the child shares the page. *)
LEMMA DupChildPrivate ==
  ASSUME PInv, FInv', NEW e \in Envs, DupChild(e)
  PROVE  Private'
<1>1. Live(e) /\ usr[e].pc = "dup_child" /\ usr[e].fault = "none" /\ usr[e].step = "none"
      /\ Calls(e, "dup_child")
  BY Caller DEF DupChild
<1>2. /\ Va(e) \in Vas \ {"TEMP"} /\ On(e, Va(e)) /\ usr[e].at \in 1 .. 5
      /\ \E d \in Envs : Builds(e, d)
  BY <1>1, AtPageOfLoop DEF AtPage
<1>3. PICK d \in Envs : Builds(e, d) BY <1>2
<1>4. d # e /\ usr[e].child = d BY <1>3 DEF Builds
<1>5. PICK va \in Vas \ {"TEMP"} : va = Va(e) BY <1>2
<1>6. PICK perm \in Perms : perm = Shared(usr[e].perm) BY DEF Shared, Perms
<1> DEFINE ok == EnvPageMapOK(mem, e, va, d, va, perm)
<1>7. /\ mem' = EnvPageMap(mem, e, va, d, va, perm)
      /\ env' = env /\ program' = program
      /\ ~ok => Panics(e, mem')
      /\ ok => /\ IF perm = "cow" THEN Goto(e, "dup_own") ELSE Advance(e)
               /\ Inherit(e)
  BY <1>4, <1>5, <1>6 DEF DupChild, Panics, Returns
<1>8. /\ Touches(d, va)
      /\ ok => mem'.pte[d][va] = Pte(PageOf(e, va), perm)
      /\ ~ok => mem'.pte = mem.pte
  BY <1>7, MapTouches
<1> HIDE DEF ok
<1>9. SameLives BY <1>7 DEF SameLives
<1>10. CASE ~ok
  <2>1. Goto(e, "panic") /\ seen' = seen BY <1>7, <1>10 DEF Panics, Returns
  <2> QED BY <1>1, <1>7, <1>8, <1>9, <1>10, <2>1, PanicPrivate
<1>11. CASE ok
  <2>1. /\ \A f \in Envs \ {e} : usr'[f] = usr[f]
        /\ usr'[e].child = d /\ usr'[e].step = "none"
        /\ IF perm = "cow" THEN usr'[e].pc = "dup_own" /\ usr'[e].at = usr[e].at
           ELSE usr'[e].pc = "dup"
    <3>1. CASE perm = "cow"
      <4>1. "dup_own" \in Counter BY DEF AtPage, Building, Counter
      <4> QED BY <1>1, <1>4, <1>7, <1>11, <3>1, <4>1, Went DEF PInv, FInv
    <3>2. CASE perm # "cow"
      <4>1. usr[e].pc \in AtPage /\ Advance(e) BY <1>1, <1>7, <1>11, <3>2 DEF AtPage
      <4> QED BY <1>1, <1>4, <3>2, <4>1, Advanced DEF PInv, FInv
    <3> QED BY <3>1, <3>2
  <2>2. TidyOf(e) /\ Finds(e) /\ Up(e) BY <1>1, IsAlive DEF PInv, Private
  <2>3. /\ perm \in {"ro", "cow"}
        /\ perm = "cow" => program.fork = "fork"
        /\ va \in Priv => perm = "cow"
    <3>1. perm \in {"ro", "cow"} /\ (perm = "cow" <=> usr[e].perm \in {"rw", "cow"})
      BY <1>6 DEF Shared
    <3> QED BY <1>1, <1>5, <2>2, <3>1 DEF TidyOf, Tidy, Va
  <2>4. PageOf(e, va) \in Pages
    BY <1>2, <1>5, MemoryIs, MappedNotFree DEF On, PageOf
  <2>5. /\ mem'.pte[d][va] # Unmapped /\ mem'.pte[d][va].page = PageOf(e, va)
        /\ mem'.pte[d][va].perm = perm
    BY <1>8, <1>11, <2>4, PteKinds
  <2>6. Sound(mem') BY DEF FInv, IInv, Counted
  <2>7. mem'.pte[e] = mem.pte[e]
    BY <1>4, <1>8, <2>6, MemoryIs, FunctionsOfAddresses DEF Touches
  <2>8. mem.pte[e]["TEMP"] = Unmapped BY <1>1, <2>2 DEF TidyOf, Tidy
  <2>9. /\ seen' = [seen EXCEPT ![d][va] = seen[e][va]]
        /\ seen \in [Envs -> [Vas -> {0, 1}]]
    BY <1>4, <1>5, <1>7, <1>11 DEF Inherit, PInv, Private
  <2>10. /\ seen' \in [Envs -> [Vas -> {0, 1}]] /\ seen'[d][va] = seen[e][va]
         /\ \A f \in Envs \ {d} : seen'[f] = seen[f]
         /\ \A v \in Vas \ {va} : seen'[d][v] = seen[d][v]
    BY <2>9
  <2>11. TidyOf(e)'
    <3>1. mem'.pte[e]["TEMP"] = Unmapped /\ Unmapped.perm # "cow"
      BY <2>7, <2>8 DEF Unmapped, Pte
    <3>2. /\ usr'[e].pc \in {"dup_own", "dup"}
          /\ usr'[e].pc = "dup_own" => usr'[e].at = usr[e].at /\ program.fork = "fork"
      BY <2>1, <2>3
    <3> QED BY <1>1, <1>7, <2>1, <2>7, <3>1, <3>2, BuilderTidy DEF AtPage, Copying, ForkOnly
  <2>12. CopyTarget(e)' BY <2>1 DEF CopyTarget
  <2>13. Finds(e)' BY <1>4, <1>8, <2>1, <2>2, <2>10, StillFinds
  <2>14. Gave(e)'
    <3>1. SUFFICES ASSUME NEW i \in Places, GivenAt(e, i)' PROVE Inherited(e, i)'
      BY DEF Gave
    <3>2. CASE usr[e].at = i
      <4>1. VaOrder[i] = va /\ va \in Priv BY <1>5, <3>2, PlacesDiffer DEF Va
      <4>2. Content(e, va) = seen[e][va] /\ On(e, va) BY <2>2, <4>1 DEF Finds
      <4>3. SameContent(e, va) BY <1>8, <2>7, <4>2 DEF Touches
      <4>4. mem'.data[mem'.pte[d][va].page] = seen'[d][va]
        BY <2>5, <2>7, <2>10, <4>2, <4>3 DEF SameContent, Content, PageOf
      <4>5. Got(d, va)' BY <2>5, <4>4 DEF Got, On, Content, PageOf
      <4> QED BY <2>1, <4>1, <4>5, GotInherits
    <3>3. CASE usr[e].at # i
      <4>1. GivenAt(e, i)
        <5>1. CASE perm = "cow" BY <1>1, <2>1, <3>1, <3>3, <5>1 DEF GivenAt, AtPage
        <5>2. CASE perm # "cow"
          <6>1. Advance(e) /\ usr[e].pc \in AtPage BY <1>1, <1>7, <1>11, <5>2 DEF AtPage
          <6> QED BY <3>1, <3>3, <6>1, AdvancedGiven
        <5> QED BY <5>1, <5>2
      <4>2. Got(d, VaOrder[i]) BY <1>1, <1>4, <4>1, GaveGot
      <4>3. VaOrder[i] # va /\ VaOrder[i] \in Priv /\ VaOrder[i] \in Vas
        BY <1>2, <1>5, <3>3, PlacesDiffer DEF Va
      <4>4. Got(d, VaOrder[i])' BY <1>8, <2>10, <4>2, <4>3, GotKept
      <4> QED BY <2>1, <4>4, GotInherits
    <3> QED BY <3>2, <3>3
  <2>15. NewAlias(d, va)
    <3>1. SUFFICES ASSUME NEW f \in Envs, NEW v \in Vas, f # d \/ v # va, On(f, v),
                          PageOf(f, v) = PageOf(e, va)
                   PROVE  MayShare(d, va, f, v)' /\ MayShare(f, v, d, va)'
      BY <2>5 DEF NewAlias
    <3>2. mem'.pte[d][va].perm # "rw" BY <2>3, <2>5
    <3>3. v = va /\ f # d
      BY <1>1, <1>2, <1>5, <3>1, SharedAtPage
    <3>4. MayShare(d, va, f, v)' BY <3>2, <3>3 DEF MayShare, SameAddress
    <3>5. CASE f = e
      <4>1. va \in Priv => usr'[e].pc = "dup_own" /\ usr'[e].at = usr[e].at BY <2>1, <2>3
      <4>2. va \in Priv => Halfway(e, va, d)' BY <1>5, <2>1, <4>1 DEF Halfway, Va
      <4> QED BY <3>3, <3>4, <3>5, <4>2 DEF MayShare, SameAddress
    <3>6. CASE f # e
      <4>1. va \in Priv /\ mem.pte[f][va].perm = "rw" => usr[f].pc = "panic"
        BY <1>1, <1>2, <1>5, <3>1, <3>6, SharedAtPage
      <4>2. mem'.pte[f][va] = mem.pte[f][va] /\ usr'[f] = usr[f]
        BY <1>8, <2>1, <3>3, <3>6 DEF Touches
      <4>3. va \in Priv /\ mem'.pte[f][va].perm = "rw" => Halfway(f, va, d)'
        BY <4>1, <4>2 DEF Halfway
      <4> QED BY <3>3, <3>4, <4>3 DEF MayShare, SameAddress
    <3> QED BY <3>5, <3>6
  <2>16. Aliases'
    <3>1. TempsStay /\ HalfwaysStay BY <1>1, <2>1, NothingSpecial
    <3> QED BY <1>8, <2>6, <2>15, <3>1, AliasesKept
  <2>17. Source(e, d, va) BY <1>1, <1>2, <1>5, <2>5, IsAlive DEF Source
  <2>18. Harmless(d, va) BY <1>8, <2>3, <2>5 DEF Harmless, Touches
  <2>19. ChildrenCalm(e) /\ \A f \in Envs \ {e} : Calm(f)
    BY <1>3, <1>7, <2>1, <2>10, BuilderCalm
  <2>20. /\ NotOthers(e, d) /\ env[d].status = "NOT_RUNNABLE" /\ env'[d].status # "FREE"
         /\ ~Up(d)'
    BY <1>3, <1>7 DEF Builds, Blocked, Up, Live
  <2> QED BY <1>7, <1>8, <2>10, <2>11, <2>12, <2>13, <2>14, <2>16, <2>17, <2>18, <2>19, <2>20,
             PrivateGoesOn
<1> QED BY <1>10, <1>11

(* The second: from here on the parent shares it copy-on-write too. *)
LEMMA DupOwnPrivate ==
  ASSUME PInv, FInv', NEW e \in Envs, DupOwn(e)
  PROVE  Private'
<1>1. Live(e) /\ usr[e].pc = "dup_own" /\ usr[e].fault = "none" /\ usr[e].step = "none"
  BY Caller DEF DupOwn
<1>2. /\ Va(e) \in Vas \ {"TEMP"} /\ On(e, Va(e)) /\ usr[e].at \in 1 .. 5
      /\ \E d \in Envs : Builds(e, d)
  BY <1>1, AtPageOfLoop DEF AtPage
<1>3. PICK d \in Envs : Builds(e, d) BY <1>2
<1>4. d # e /\ usr[e].child = d BY <1>3 DEF Builds
<1>5. PICK va \in Vas \ {"TEMP"} : va = Va(e) BY <1>2
<1>6. /\ mem' = EnvPageMap(mem, e, va, e, va, "cow")
      /\ env' = env /\ program' = program /\ Advance(e)
      /\ IF mem.pte[d][va].page = mem.pte[e][va].page THEN Inherit(e) ELSE seen' = seen
  BY <1>4, <1>5 DEF DupOwn
<1>7. On(e, va) BY <1>2, <1>5
<1>8. EnvPageMapOK(mem, e, va, e, va, "cow")
  BY <1>7, MemoryIs DEF EnvPageMapOK, TableFits, On, Sound
<1>9. Touches(e, va) /\ mem'.pte[e][va] = Pte(PageOf(e, va), "cow")
  BY <1>6, <1>8, PermsAre, MapTouches
<1>10. PageOf(e, va) \in Pages BY <1>7, MemoryIs, MappedNotFree DEF On, PageOf
<1>11. /\ mem'.pte[e][va] # Unmapped /\ mem'.pte[e][va].page = PageOf(e, va)
       /\ mem'.pte[e][va].perm = "cow"
  BY <1>9, <1>10, PermsAre, PteKinds
<1>12. Sound(mem') BY DEF FInv, IInv, Counted
<1>13. mem'.data[PageOf(e, va)] = mem.data[PageOf(e, va)]
  <2>1. Contents(mem, mem') BY <1>6, MemoryIs, PermsAre, PageMapContents
  <2> QED BY <1>7, <1>11, <1>12, <2>1, MemoryIs, SharedContent
<1>14. /\ \A f \in Envs \ {e} : usr'[f] = usr[f]
       /\ usr'[e].pc = "dup" /\ usr'[e].child = d /\ usr'[e].step = "none"
  BY <1>1, <1>4, <1>6, Advanced DEF PInv, FInv, AtPage
<1>15. TidyOf(e) /\ Finds(e) /\ Gave(e) /\ Up(e) BY <1>1, IsAlive DEF PInv, Private
<1>16. program.fork = "fork" /\ mem.pte[e]["TEMP"] = Unmapped
  BY <1>1, <1>15 DEF TidyOf, Tidy, ForkOnly
<1>17. \A v \in Vas \ {va} : mem'.pte[e][v] = mem.pte[e][v] BY <1>9 DEF Touches
<1>18. TidyOf(e)'
  <2>1. mem'.pte[e]["TEMP"] = Unmapped /\ Unmapped.perm # "cow"
    BY <1>16, <1>17, DataIs DEF Unmapped, Pte
  <2>2. \A v \in Vas \ {"TEMP"} :
          \/ mem'.pte[e][v] = mem.pte[e][v]
          \/ program.fork = "fork" /\ mem'.pte[e][v] # Unmapped /\ mem'.pte[e][v].perm = "cow"
    BY <1>11, <1>16, <1>17
  <2> QED BY <1>1, <1>6, <1>14, <2>1, <2>2, BuilderTidy DEF AtPage, Copying, ForkOnly
<1>19. CopyTarget(e)' BY <1>14 DEF CopyTarget
<1>20. /\ seen' \in [Envs -> [Vas -> {0, 1}]]
       /\ \A f \in Envs \ {d} : seen'[f] = seen[f]
       /\ \A v \in Vas \ {va} : seen'[d][v] = seen[d][v]
       /\ IF mem.pte[d][va].page = mem.pte[e][va].page THEN seen'[d][va] = seen[e][va]
          ELSE seen' = seen
  <2>1. seen \in [Envs -> [Vas -> {0, 1}]] BY DEF PInv, Private
  <2>2. CASE mem.pte[d][va].page = mem.pte[e][va].page
    <3>1. seen' = [seen EXCEPT ![d][va] = seen[e][va]]
      BY <1>4, <1>5, <1>6, <2>2 DEF Inherit
    <3> QED BY <2>1, <2>2, <3>1
  <2>3. CASE mem.pte[d][va].page # mem.pte[e][va].page BY <1>6, <2>1, <2>3
  <2> QED BY <2>2, <2>3
<1>21. Finds(e)'
  <2>1. ASSUME NEW v \in Priv PROVE On(e, v)' /\ Content(e, v)' = seen'[e][v]
    <3>0. v \in Vas BY DataIs DEF Priv
    <3>1. On(e, v) /\ Content(e, v) = seen[e][v] BY <1>15 DEF Finds
    <3>2. CASE v = va
      BY <1>4, <1>11, <1>13, <1>20, <3>1, <3>2 DEF On, Content, PageOf
    <3>3. CASE v # va
      <4>1. mem'.pte[e][v] = mem.pte[e][v] BY <1>17, <3>0, <3>3
      <4>2. SameContent(e, v) BY <1>9, <3>0, <3>1, <4>1 DEF Touches
      <4> QED BY <1>4, <1>20, <3>1, <4>1, <4>2 DEF On, Content, PageOf, SameContent
    <3> QED BY <3>2, <3>3
  <2> QED BY <1>14, <2>1 DEF Finds
<1>22. Gave(e)'
  <2>1. SUFFICES ASSUME NEW i \in Places, GivenAt(e, i)' PROVE Inherited(e, i)'
    BY DEF Gave
  <2>2. CASE usr[e].at = i
    <3>1. VaOrder[i] = va /\ va \in Priv BY <1>5, <2>2, PlacesDiffer DEF Va
    <3>2. GivenAt(e, i) BY <1>1, <2>2 DEF GivenAt
    <3>3. /\ On(d, va)
          /\ Content(d, va) = seen[d][va] \/ PageOf(d, va) = PageOf(e, va)
      BY <1>1, <1>4, <1>15, <3>1, <3>2 DEF Gave, Inherited
    <3>4. mem'.pte[d][va] = mem.pte[d][va] BY <1>4, <1>9 DEF Touches
    <3>5. SameContent(d, va) BY <1>9, <3>3, <3>4 DEF Touches
    <3>6. Content(d, va) = seen'[d][va]
      <4>1. CASE PageOf(d, va) = PageOf(e, va)
        <5>1. Content(e, va) = seen[e][va] BY <1>15, <3>1 DEF Finds
        <5> QED BY <1>20, <4>1, <5>1 DEF Content, PageOf
      <4>2. CASE PageOf(d, va) # PageOf(e, va) BY <1>20, <3>3, <4>2 DEF PageOf
      <4> QED BY <4>1, <4>2
    <3>7. Got(d, va)'
      BY <3>3, <3>4, <3>5, <3>6 DEF Got, On, Content, PageOf, SameContent
    <3> QED BY <1>14, <3>1, <3>7, GotInherits
  <2>3. CASE usr[e].at # i
    <3>1. GivenAt(e, i) BY <1>1, <1>6, <2>1, <2>3, AdvancedGiven DEF AtPage
    <3>2. Got(d, VaOrder[i]) BY <1>4, <2>3, <3>1, GaveGot
    <3>3. VaOrder[i] # va /\ VaOrder[i] \in Priv /\ VaOrder[i] \in Vas
      BY <1>2, <1>5, <2>3, PlacesDiffer DEF Va
    <3>4. Got(d, VaOrder[i])' BY <1>4, <1>9, <1>20, <3>2, <3>3, GotKept
    <3> QED BY <1>14, <3>4, GotInherits
  <2> QED BY <2>2, <2>3
<1>23. NewAlias(e, va)
  <2>1. SUFFICES ASSUME NEW f \in Envs, NEW v \in Vas, f # e \/ v # va, On(f, v),
                        PageOf(f, v) = PageOf(e, va)
                 PROVE  MayShare(e, va, f, v)' /\ MayShare(f, v, e, va)'
    BY <1>11 DEF NewAlias
  <2>2. /\ v = va /\ f # e
        /\ va \in Priv /\ mem.pte[f][va].perm = "rw" => usr[f].pc = "panic"
    BY <1>1, <1>7, <2>1, SharedAtPage
  <2>3. mem'.pte[f][va] = mem.pte[f][va] /\ usr'[f] = usr[f] BY <1>9, <1>14, <2>2 DEF Touches
  <2>4. va \in Priv /\ mem'.pte[f][va].perm = "rw" => Halfway(f, va, e)'
    BY <2>2, <2>3 DEF Halfway
  <2> QED BY <1>11, <2>2, <2>4 DEF MayShare, SameAddress
<1>24. Aliases'
  <2>1. \A f \in Envs \ {e} : Still(f) BY <1>14 DEF Still
  <2>2. mem'.pte[e][Va(e)].perm # "rw" BY <1>5, <1>11
  <2>3. TempsStay /\ HalfwaysStay BY <1>1, <2>1, <2>2, NothingHalfDone
  <2> QED BY <1>9, <1>12, <1>23, <2>3, AliasesKept
<1>25. Source(e, e, va) BY <1>1, <1>7, <1>11, IsAlive DEF Source
<1>26. ChildrenCalm(e) /\ \A f \in Envs \ {e} : Calm(f)
  BY <1>3, <1>6, <1>14, <1>20, BuilderCalm
<1>27. NotOthers(e, e) BY <1>1, IsAlive
<1> QED BY <1>6, <1>9, <1>18, <1>19, <1>20, <1>21, <1>22, <1>24, <1>25, <1>26, <1>27,
           PrivateGoesOn

-----------------------------------------------------------------------------
(* Steps on whether a child may run *)

(* sys_env_set_status lets the child go, with all that it inherits: from   *)
(* here on it is one that finds what it wrote.                             *)
LEMMA SetStatusPrivate ==
  ASSUME PInv, FInv', NEW e \in Envs, SetStatus(e)
  PROVE  Private'
<1>1. Live(e) /\ usr[e].pc = "status" /\ usr[e].fault = "none" /\ usr[e].step = "none"
      /\ Calls(e, "status")
  BY Caller DEF SetStatus
<1>2. seen' = seen /\ program' = program BY DEF SetStatus, Panics
<1>3. PICK d \in Envs \ {e} : d = usr[e].child
  <2>1. usr[e].child \in Envs \ {e} BY SetStatusKeeps DEF PInv, FInv
  <2> QED BY <2>1
<1>4. /\ mem' = mem
      /\ \/ env[d].parent # e /\ env' = env /\ Goto(e, "panic")
         \/ /\ env[d].parent = e /\ Blocked(env, d)
            /\ env' = [env EXCEPT ![d].status = "RUNNABLE"]
            /\ \A f \in Envs \ {e} : Still(f)
            /\ usr'[e].pc = "user" /\ usr'[e].step = usr[e].step
            /\ usr'[e].fault = usr[e].fault
  BY <1>3, SetStatusKeeps DEF PInv, FInv, Still
<1>5. CASE env[d].parent # e /\ env' = env /\ Goto(e, "panic")
  <2>1. Touches(e, "MSG") /\ "MSG" \in Vas BY <1>4, DataIs, NothingTouched
  <2>2. SameLives BY <1>5 DEF SameLives
  <2> QED BY <1>1, <1>2, <1>4, <1>5, <2>1, <2>2, PanicPrivate
<1>6. CASE /\ env[d].parent = e /\ Blocked(env, d)
           /\ env' = [env EXCEPT ![d].status = "RUNNABLE"]
           /\ \A f \in Envs \ {e} : Still(f)
           /\ usr'[e].pc = "user" /\ usr'[e].step = usr[e].step
           /\ usr'[e].fault = usr[e].fault
  <2>1. /\ env'[d].status = "RUNNABLE" /\ \A f \in Envs \ {d} : env'[f] = env[f]
        /\ \A f \in Envs : env'[f].parent = env[f].parent
    BY <1>6 DEF PInv, FInv, IInv, Typed, EnvTypes
  <2>2. /\ usr[d].pc \in {"child", "user"} /\ usr[d].step = "none"
        /\ TidyOf(d) /\ TidyOf(e) /\ Finds(e) /\ Up(e)
    <3>1. TidyOf(d) /\ TidyOf(e) /\ Finds(e) BY DEF PInv, Private
    <3>2. usr[d].pc \in {"child", "user"} BY <1>6, <3>1 DEF TidyOf, Tidy, Blocked
    <3>3. usr[d].step = "none"
      BY <1>6 DEF PInv, FInv, Faults, FaultOf, Blocked, Live
    <3> QED BY <1>1, <3>1, <3>2, <3>3, IsAlive
  <2>3. Still(d) BY <1>6
  <2>4. CopyTarget(d)' /\ Gave(d)' /\ CopyTarget(e)' /\ Gave(e)'
    BY <1>6, <2>2, <2>3, NothingGiven DEF Still
  <2>5. TidyOf(d)' BY <1>2, <1>4, <2>1, <2>2, <2>3 DEF TidyOf, Tidy, Still
  <2>6. TidyOf(e)'
    <3>1. mem.pte[e]["TEMP"] = Unmapped BY <1>1, <2>2 DEF TidyOf, Tidy
    <3> QED BY <1>1, <1>2, <1>4, <1>6, <2>1, <2>2, <3>1
        DEF TidyOf, Tidy, Copying, ForkOnly, AtPage
  <2>7. Finds(e)' BY <1>1, <1>2, <1>4, <1>6, <2>2 DEF Finds, On, Content, PageOf
  <2>8. Finds(d)'
    <3>1. Got(d, "DATA") /\ Got(d, "STACK")
      <4>1. \A i \in Places : GivenAt(e, i) BY <1>1, <1>3, <1>6 DEF GivenAt
      <4>2. VaOrder[2] = "DATA" /\ VaOrder[4] = "STACK" BY DEF VaOrder
      <4>3. 2 \in Places /\ 4 \in Places BY DEF Places
      <4>4. \A i \in Places : Got(d, VaOrder[i]) BY <1>1, <1>3, <4>1, GaveGot
      <4> QED BY <4>2, <4>3, <4>4
    <3>2. \A v \in Priv : Got(d, v) BY <3>1 DEF Priv
    <3> QED BY <1>2, <1>4, <2>2, <2>3, <3>2 DEF Finds, Got, Still, On, Content, PageOf
  <2>9. ASSUME NEW f \in Envs \ {e, d}
        PROVE  TidyOf(f)' /\ CopyTarget(f)' /\ Finds(f)' /\ Gave(f)'
    <3>1. env'[f] = env[f] /\ Still(f) BY <1>6, <2>1
    <3>2. \A g \in Envs, v \in Vas : SameContent(g, v) BY <1>4 DEF SameContent
    <3>3. Priv \subseteq Vas /\ "TEMP" \in Vas BY DataIs DEF Priv
    <3>4. usr[f].pc \in Building \cup {"status"} => usr[f].child \in Envs
      BY DEF PInv, FInv, IInv, Children
    <3>5. ChildStands(f)
      BY <1>2, <1>4, <2>1, <3>2, <3>3, <3>4 DEF ChildStands
    <3>6. Stands(f) BY <1>2, <1>4, <3>1, <3>2, <3>3, <3>5 DEF Stands, Up, Live
    <3> QED BY <1>2, <3>6, StandsPrivate
  <2>10. Aliases'
    <3>1. \A f \in Envs \ {e} : Still(f) BY <1>6
    <3>2. TempsStay /\ HalfwaysStay BY <1>1, <3>1, NothingHalfDone
    <3> QED BY <1>4, <3>2, SameMappings
  <2>11. mem'.data \in [Pages -> {0, 1}] /\ seen' \in [Envs -> [Vas -> {0, 1}]]
    BY <1>2, <1>4 DEF PInv, Private
  <2>12. \A f \in Envs : TidyOf(f)' /\ CopyTarget(f)' /\ Finds(f)' /\ Gave(f)'
    BY <2>4, <2>5, <2>6, <2>7, <2>8, <2>9
  <2> QED BY <2>10, <2>11, <2>12 DEF Private
<1> QED BY <1>4, <1>5, <1>6

(* The child of sys_exofork has an empty address space. *)
LEMMA ExoforkPrivate ==
  ASSUME PInv, FInv', NEW e \in Envs, Exofork(e)
  PROVE  Private'
<1>1. Live(e) /\ usr[e].pc = "exofork" /\ usr[e].fault = "none" /\ usr[e].step = "none"
      /\ Calls(e, "exofork")
  BY Caller DEF Exofork
<1>2. seen' = seen /\ program' = program BY DEF Exofork, Panics
<1>3. "MSG" \in Vas /\ Priv \subseteq Vas /\ "TEMP" \in Vas BY DataIs DEF Priv
<1>4. Contents(mem, mem') /\ mem'.pte = mem.pte /\ mem'.table = mem.table
  <2>1. mem'.pte = mem.pte /\ mem'.table = mem.table BY ExoforkKeeps DEF PInv, FInv
  <2>2. \/ mem' = Exhausted(mem)
        \/ mem.free # {} /\ \E d \in FreeEnvs : mem' = EnvSetupVm(mem, d)
    <3>1. FreeEnvs # {} => (CHOOSE f \in FreeEnvs : TRUE) \in FreeEnvs OBVIOUS
    <3> QED BY <3>1 DEF Exofork, Panics, Returns
  <2>3. FreeEnvs \subseteq Envs BY DEF FreeEnvs
  <2>4. CASE mem' = Exhausted(mem)
    <3>1. AllocsOnly(mem, mem') BY <2>4, MemoryIs, ExhaustedContents
    <3> QED BY <2>1, <3>1 DEF AllocsOnly, Contents
  <2>5. CASE mem.free # {} /\ \E d \in FreeEnvs : mem' = EnvSetupVm(mem, d)
    BY <2>1, <2>3, <2>5, MemoryIs, VmContents
  <2> QED BY <2>2, <2>4, <2>5
<1>5. \A x \in Envs, va \in Vas : Touches(x, va)
  <2>1. Sound(mem') BY DEF FInv, IInv, Counted
  <2> QED BY <1>4, <2>1, MemoryIs, Touched
<1>6. CASE env' = env /\ Goto(e, "panic")
  <2>1. SameLives BY <1>6 DEF SameLives
  <2> QED BY <1>1, <1>2, <1>3, <1>4, <1>5, <1>6, <2>1, PanicPrivate
<1>7. ASSUME NEW d \in Envs \ {e}, env[d].status = "FREE",
             env' = [env EXCEPT ![d] = [NoEnvAt EXCEPT !.status = "NOT_RUNNABLE",
                                                       !.parent = e]],
             usr' = [usr EXCEPT ![d] = Start("child"), ![e].pc = "dup",
                                ![e].child = d, ![e].at = 1]
      PROVE  Private'
  <2>1. /\ env'[d].status = "NOT_RUNNABLE" /\ env'[d].parent = e /\ env'[d].recving = FALSE
        /\ \A f \in Envs \ {d} : env'[f] = env[f]
    BY <1>7 DEF PInv, FInv, IInv, Typed, EnvTypes, NoEnvAt
  <2> DEFINE k == [usr EXCEPT ![d] = Start("child")]
  <2>2. /\ DOMAIN k = Envs /\ k[d] = Start("child") /\ \A f \in Envs \ {d} : k[f] = usr[f]
    BY DEF PInv, FInv, IInv, Typed, UsrTypes
  <2>3. usr' = [k EXCEPT ![e].pc = "dup", ![e].child = d, ![e].at = 1] BY <1>7
  <2> HIDE DEF k
  <2>4. usr[e] \in [pc : Counter, handler : BOOLEAN, child : Envs \cup {NoEnv}, at : 1 .. 6,
                    perm : Perms, fault : Vas \cup {"none"}, step : Steps]
    BY DEF PInv, FInv, IInv, Typed, UsrTypes
  <2>5. /\ usr'[d] = Start("child") /\ \A f \in Envs \ {d, e} : usr'[f] = usr[f]
    BY <2>2, <2>3
  <2>6. usr'[e].pc = "dup" /\ usr'[e].at = 1 /\ usr'[e].child = d /\ usr'[e].step = "none"
    BY <1>1, <2>2, <2>3, <2>4
  <2>7. usr'[d].pc = "child" /\ usr'[d].step = "none" BY <2>5 DEF Start
  <2>8. \A va \in Vas : mem.pte[d][va] = Unmapped
    BY <1>7 DEF PInv, Private, TidyOf, Tidy
  <2>9. \A va \in Vas : mem'.pte[d][va] = Unmapped /\ Unmapped.perm # "cow"
    BY <1>4, <2>8 DEF Unmapped, Pte
  <2>10. TidyOf(d)'
    BY <1>3, <2>1, <2>7, <2>9 DEF TidyOf, Tidy, Copying, ForkOnly, AtPage, HasCow
  <2>11. ~Up(d)' BY <2>1 DEF Up, Live
  <2>12. CopyTarget(d)' /\ Gave(d)' BY <2>7, NothingGiven
  <2>13. Finds(d)' BY <2>7, <2>11 DEF Finds
  <2>14. TidyOf(e) /\ Finds(e) /\ Up(e) BY <1>1, IsAlive DEF PInv, Private
  <2>15. TidyOf(e)'
    <3>1. mem.pte[e]["TEMP"] = Unmapped BY <1>1, <2>14 DEF TidyOf, Tidy
    <3> QED BY <1>1, <1>2, <1>4, <2>1, <2>6, <2>14, <3>1
        DEF TidyOf, Tidy, Copying, ForkOnly, AtPage, Live
  <2>16. CopyTarget(e)' BY <2>6 DEF CopyTarget
  <2>17. \A f \in Envs, v \in Vas : On(f, v) => SameContent(f, v)
    BY <1>3, <1>4, <1>5 DEF Touches
  <2>18. Finds(e)'
    BY <1>2, <1>3, <1>4, <2>6, <2>14, <2>17 DEF Finds, On, Content, PageOf, SameContent
  <2>19. Gave(e)' BY <2>6 DEF Gave, GivenAt, Places, AtPage
  <2>20. ASSUME NEW f \in Envs \ {e, d}
         PROVE  TidyOf(f)' /\ CopyTarget(f)' /\ Finds(f)' /\ Gave(f)'
    <3>1. env'[f] = env[f] /\ Still(f) BY <2>1, <2>5 DEF Still
    <3>2. usr[f].step = "map" => On(f, "TEMP")
      <4>1. usr[f].step = "map" => mem.pte[f]["TEMP"].perm = "rw"
        BY DEF PInv, FInv, Faults, FaultOf
      <4> QED BY <4>1 DEF On, Unmapped, Pte
    <3>3. usr[f].pc \in Building \cup {"status"} => usr[f].child \in Envs
      BY DEF PInv, FInv, IInv, Children
    <3>4. usr[f].pc \in Building \cup {"status"} /\ env'[usr[f].child].parent = f =>
            usr[f].child # d /\ env[usr[f].child].parent = f
      BY <2>1, <3>3
    <3>5. ChildStands(f)
      BY <1>2, <1>3, <1>4, <2>17, <3>3, <3>4 DEF ChildStands
    <3>6. Stands(f) BY <1>2, <1>3, <1>4, <2>17, <3>1, <3>2, <3>5 DEF Stands, Up, Live
    <3> QED BY <1>2, <3>6, StandsPrivate
  <2>21. Aliases'
    <3>1. ASSUME NEW f \in Envs, NEW g \in Envs, NEW v \in Vas, NEW w \in Vas,
                 f # g \/ v # w, On(f, v)', PageOf(f, v)' = PageOf(g, w)'
          PROVE  MayShare(f, v, g, w)'
      <4>1. MayShare(f, v, g, w) /\ On(f, v) /\ PageOf(f, v) = PageOf(g, w)
        BY <1>4, <3>1 DEF PInv, Private, Aliases, On, PageOf
      <4>2. On(g, w)
        <5>1. PageOf(f, v) \in Pages BY <4>1, MemoryIs, MappedNotFree DEF On, PageOf
        <5> QED BY <4>1, <5>1, PteKinds DEF On, PageOf
      <4>3. f # d /\ g # d BY <2>8, <4>1, <4>2 DEF On
      <4>4. \A h \in Envs \ {d, e} : usr'[h] = usr[h] BY <2>5
      <4>5. \A h \in Envs, x \in Envs \ {d}, y \in Vas :
              h # d => (TempOf(h, x, y) => TempOf(h, x, y)')
        BY <1>1, <2>6, <4>4 DEF TempOf, Va
      <4>6. \A h \in Envs, x \in Envs \ {d}, y \in Vas :
              h # d => (Halfway(h, y, x) => Halfway(h, y, x)')
        BY <1>1, <2>6, <4>4 DEF Halfway, Va
      <4> QED BY <1>4, <4>1, <4>3, <4>5, <4>6 DEF MayShare, SameAddress
    <3> QED BY <3>1 DEF Aliases
  <2>22. mem'.data \in [Pages -> {0, 1}] /\ seen' \in [Envs -> [Vas -> {0, 1}]]
    BY <1>2, <1>4 DEF PInv, Private, Contents, Fill
  <2>23. \A f \in Envs : TidyOf(f)' /\ CopyTarget(f)' /\ Finds(f)' /\ Gave(f)'
    BY <2>10, <2>12, <2>13, <2>15, <2>16, <2>18, <2>19, <2>20
  <2> QED BY <2>21, <2>22, <2>23 DEF Private
<1> QED BY <1>6, <1>7, ExoforkKeeps DEF PInv, FInv

-----------------------------------------------------------------------------
(* Sending a page *)

(* sys_ipc_try_send maps a new page in the receiver, which gives way to    *)
(* the sender's.                                                           *)
LEMMA SentTouches ==
  ASSUME PInv, FInv', NEW e \in Envs, NEW d \in Envs, d # e, IpcTrySend(e, d)
  PROVE  /\ Touches(d, "MSG") /\ seen' = seen /\ program' = program
         /\ \/ /\ mem'.pte = mem.pte /\ env' = env
               /\ \E pc \in {"panic", "send_panic", "kernel_panic"} : Goto(e, pc)
            \/ /\ mem'.pte[d]["MSG"].perm \in {"ro", "rw"}
               /\ \/ mem'.pte[d]["MSG"].page \in mem.free
                  \/ On(e, "MSG") /\ mem'.pte[d]["MSG"].page = PageOf(e, "MSG")
               /\ \/ /\ env' = [env EXCEPT ![d].recving = FALSE, ![d].status = "RUNNABLE"]
                     /\ Goto(e, "user")
                  \/ env' = env /\ Goto(e, "send_panic")
<1>0. PICK perm \in {"ro", "rw"} :
        NotSent(e) \/ NoMemory(e, d, perm) \/ OnlyReplaced(e, d, perm) \/ Sent(e, d, perm)
  BY Sending
<1> DEFINE fresh == EnvPageAlloc(mem, d, "MSG", perm)
           m == EnvPageMap(fresh, e, "MSG", d, "MSG", perm)
           ok == EnvPageAllocOK(mem, d, "MSG")
           Nothing == /\ mem' = mem /\ env' = env
                      /\ \E pc \in {"send_panic", "kernel_panic"} : Goto(e, pc)
           Fresh == /\ mem' = fresh /\ env' = env
                    /\ (~ok /\ Goto(e, "panic")) \/ (ok /\ Goto(e, "send_panic"))
           Both == /\ mem' = m /\ ok /\ On(e, "MSG") /\ Goto(e, "user")
                   /\ env' = [env EXCEPT ![d].recving = FALSE, ![d].status = "RUNNABLE"]
<1>1. /\ "MSG" \in Vas /\ perm \in Perms
      /\ Sound(mem) /\ mem.data \in Fill /\ Sound(mem')
  <2>1. Sound(mem') BY DEF FInv, IInv, Counted
  <2> QED BY <2>1, PermsAre, DataIs, MemoryIs
<1>2. seen' = seen /\ program' = program /\ (Nothing \/ Fresh \/ Both)
  BY <1>0, Sending DEF NotSent, NoMemory, OnlyReplaced, Sent, On
<1> HIDE DEF Nothing, Fresh, Both
<1>3. /\ Fine(mem, fresh, d) /\ OthersKept(mem, fresh, d, "MSG") /\ Contents(mem, fresh)
      /\ ~ok => fresh.pte = mem.pte
      /\ ok => \E p \in mem.free : fresh.pte[d]["MSG"] = Pte(p, perm)
  BY <1>1, PageAllocated, PageAllocContents
<1> HIDE DEF ok, fresh
<1>4. Sound(fresh) /\ fresh.data \in Fill /\ \A f \in Envs \ {d} : fresh.pte[f] = mem.pte[f]
  BY <1>3 DEF Fine, Contents
<1>5. /\ Fine(fresh, m, d) /\ OthersKept(fresh, m, d, "MSG") /\ Contents(fresh, m)
      /\ Mapped(fresh, m, e, "MSG", d, "MSG", perm)
  BY <1>1, <1>4, PageMapped, PageMapContents
<1> HIDE DEF m
<1>6. \A f \in Envs \ {d} : m.pte[f] = fresh.pte[f] BY <1>5 DEF Fine
<1>7. CASE Nothing
  <2>1. Touches(d, "MSG") BY <1>1, <1>7 DEF Touches, SameContent, Nothing
  <2> QED BY <1>2, <1>7, <2>1 DEF Nothing
<1>8. CASE Fresh
  <2>1. Touches(d, "MSG") BY <1>1, <1>3, <1>4, <1>8, Touched DEF OthersKept, Fresh
  <2>2. ASSUME ok
        PROVE  /\ mem'.pte[d]["MSG"].perm \in {"ro", "rw"}
               /\ mem'.pte[d]["MSG"].page \in mem.free
    <3>1. PICK p \in mem.free : fresh.pte[d]["MSG"] = Pte(p, perm) BY <1>3, <2>2
    <3> QED BY <1>8, <3>1 DEF Pte, Fresh
  <2> QED BY <1>2, <1>3, <1>8, <2>1, <2>2 DEF Fresh
<1>9. CASE Both
  <2>0. mem' = m /\ ok /\ On(e, "MSG") BY <1>9 DEF Both
  <2>1. PICK p \in mem.free : fresh.pte[d]["MSG"] = Pte(p, perm) BY <1>3, <2>0
  <2>2. fresh.pte[d]["MSG"].perm = perm /\ fresh.pte[d]["MSG"].page = p BY <2>1 DEF Pte
  <2>3. fresh.pte[e]["MSG"] = mem.pte[e]["MSG"] BY <1>4
  <2>4. m.pte[d]["MSG"].perm = perm BY <1>5, <2>2 DEF Mapped, Pte
  <2>5. \/ m.pte[d]["MSG"].page \in mem.free
        \/ m.pte[d]["MSG"].page = PageOf(e, "MSG")
    BY <1>5, <2>2, <2>3 DEF Mapped, Pte, PageOf
  <2>6. \A f \in Envs, v \in Vas : f # d \/ v # "MSG" =>
          fresh.pte[f][v] = mem.pte[f][v] /\ m.pte[f][v] = fresh.pte[f][v]
    BY <1>3, <1>4, <1>5, <1>6 DEF OthersKept
  <2>7. ASSUME NEW f \in Envs, NEW v \in Vas, f # d \/ v # "MSG", mem.pte[f][v] # Unmapped
        PROVE  m.data[m.pte[f][v].page] = mem.data[mem.pte[f][v].page]
    <3>1. fresh.pte[f][v] = mem.pte[f][v] /\ m.pte[f][v] = fresh.pte[f][v]
      BY <2>6, <2>7
    <3>2. fresh.data[fresh.pte[f][v].page] = mem.data[mem.pte[f][v].page]
      <4>1. Sound(mem) /\ Sound(fresh) /\ Contents(mem, fresh) BY <1>1, <1>3, <1>4
      <4> QED BY <2>7, <3>1, <4>1, ContentsKept
    <3>3. m.data[m.pte[f][v].page] = fresh.data[fresh.pte[f][v].page]
      <4>1. Sound(fresh) /\ Contents(fresh, m) BY <1>4, <1>5
      <4>2. Sound(m) BY <1>1, <2>0
      <4>3. fresh.pte[f][v] # Unmapped BY <2>7, <3>1
      <4> QED BY <3>1, <4>1, <4>2, <4>3, ContentsKept
    <3> QED BY <3>2, <3>3
  <2>8. ASSUME mem.pte[d]["MSG"] # Unmapped, m.pte[d]["MSG"] = mem.pte[d]["MSG"]
        PROVE  m.data[m.pte[d]["MSG"].page] = mem.data[mem.pte[d]["MSG"].page]
    <3>1. mem.pte[d]["MSG"].page \notin mem.free BY <1>1, <2>8, MappedNotFree
    <3>2. m.pte[d]["MSG"].page = PageOf(e, "MSG") BY <2>5, <2>8, <3>1
    <3>3. m.data[m.pte[e]["MSG"].page] = mem.data[mem.pte[e]["MSG"].page]
      BY <1>1, <2>0, <2>7 DEF On
    <3>4. m.pte[e]["MSG"] = mem.pte[e]["MSG"] BY <1>1, <2>6
    <3> QED BY <2>8, <3>2, <3>3, <3>4 DEF PageOf
  <2>9. Touches(d, "MSG")
    <3>1. \A f \in Envs, v \in Vas :
            On(f, v) /\ mem'.pte[f][v] = mem.pte[f][v] => SameContent(f, v)
      BY <2>0, <2>7, <2>8 DEF On, SameContent
    <3>2. mem'.data \in Fill BY <1>5, <2>0 DEF Contents
    <3> QED BY <2>0, <2>6, <3>1, <3>2 DEF Touches
  <2> QED BY <1>1, <1>2, <1>9, <2>0, <2>4, <2>5, <2>9 DEF Both
<1> QED BY <1>2, <1>7, <1>8, <1>9

(* A send changes the receiver at the address of messages only. *)
LEMMA IpcTrySendPrivate ==
  ASSUME PInv, FInv', NEW e \in Envs, NEW d \in Envs, IpcTrySend(e, d)
  PROVE  Private'
<1>1. Live(e) /\ usr[e].pc = "user" /\ usr[e].fault = "none" /\ usr[e].step = "none"
      /\ Calls(e, "user") /\ Up(e) /\ NotOthers(e, e)
  BY Caller, IsAlive DEF IpcTrySend
<1>2. d # e /\ env[d].recving /\ env[d].status = "NOT_RUNNABLE"
  <2>1. d # e BY IpcTrySendKeeps DEF PInv, FInv
  <2>2. env[d].recving BY DEF IpcTrySend
  <2> QED BY <2>1, <2>2 DEF PInv, FInv, IInv, Slots
<1>3. "MSG" \in Vas /\ "MSG" \notin Priv /\ "MSG" # "TEMP" BY DataIs DEF Priv
<1>4. Touches(d, "MSG") /\ seen' = seen /\ program' = program
  BY <1>2, SentTouches
<1>5. ASSUME mem'.pte = mem.pte, env' = env,
             NEW pc \in {"panic", "send_panic", "kernel_panic"}, Goto(e, pc)
      PROVE  Private'
  <2>1. SameLives BY <1>5 DEF SameLives
  <2>2. /\ \A f \in Envs \ {e} : usr'[f] = usr[f]
        /\ usr'[e].pc = pc /\ usr'[e].step = usr[e].step
    <3>1. pc \in Counter BY Counters
    <3> QED BY <1>5, <3>1, Went DEF PInv, FInv
  <2>3. Touches(e, "MSG") BY <1>4, <1>5 DEF Touches
  <2>4. mem'.pte[e]["MSG"] = mem.pte[e]["MSG"] BY <1>5
  <2>5. usr'[e].pc \notin {"handler", "upcall", "save"} BY <2>2
  <2> QED BY <1>1, <1>4, <2>1, <2>2, <2>3, <2>4, <2>5, PlainPrivate
<1>6. CASE /\ mem'.pte[d]["MSG"].perm \in {"ro", "rw"}
           /\ \/ mem'.pte[d]["MSG"].page \in mem.free
              \/ On(e, "MSG") /\ mem'.pte[d]["MSG"].page = PageOf(e, "MSG")
           /\ \/ /\ env' = [env EXCEPT ![d].recving = FALSE, ![d].status = "RUNNABLE"]
                 /\ Goto(e, "user")
              \/ env' = env /\ Goto(e, "send_panic")
  <2>0. ASSUME env' = [env EXCEPT ![d].recving = FALSE, ![d].status = "RUNNABLE"]
        PROVE  /\ env'[d].status = "RUNNABLE" /\ env'[d].parent = env[d].parent
               /\ env'[d].recving = FALSE /\ \A f \in Envs \ {d} : env'[f] = env[f]
    <3>1. env[d] \in [status : Statuses, parent : Envs \cup {NoEnv}, upcall : BOOLEAN,
                      recving : BOOLEAN]
          /\ DOMAIN env = Envs
      BY DEF PInv, FInv, IInv, Typed, EnvTypes
    <3> DEFINE r == [env EXCEPT ![d].recving = FALSE]
    <3>2. /\ r[d] = [env[d] EXCEPT !.recving = FALSE] /\ DOMAIN r = Envs
          /\ \A f \in Envs \ {d} : r[f] = env[f]
      BY <3>1
    <3>3. env' = [r EXCEPT ![d].status = "RUNNABLE"] BY <2>0
    <3> HIDE DEF r
    <3>4. env'[d] = [r[d] EXCEPT !.status = "RUNNABLE"] /\ \A f \in Envs \ {d} : env'[f] = r[f]
      BY <3>2, <3>3
    <3> QED BY <3>1, <3>2, <3>4
  <2>1. /\ env'[d] = env[d] \/ (env'[d].status = "RUNNABLE" /\ env'[d].recving = FALSE)
        /\ env'[d].parent = env[d].parent /\ env'[d].status # "FREE"
        /\ \A f \in Envs \ {d} : env'[f] = env[f]
    BY <1>2, <1>6, <2>0
  <2>2. /\ \A f \in Envs \ {e} : usr'[f] = usr[f]
        /\ usr'[e].pc \in {"user", "send_panic"} /\ usr'[e].step = "none"
    BY <1>1, <1>6, Counters, Went DEF PInv, FInv
  <2>3. TidyOf(e) /\ Finds(e) BY DEF PInv, Private
  <2>4. TidyOf(e)'
    <3>1. mem'.pte[e] = mem.pte[e]
      BY <1>2, <1>4, MemoryIs, FunctionsOfAddresses DEF Touches, FInv, IInv, Counted
    <3>2. mem.pte[e]["TEMP"] = Unmapped BY <1>1, <2>3 DEF TidyOf, Tidy
    <3>3. env'[e] = env[e] /\ env[e].status # "NOT_RUNNABLE"
      BY <1>1, <1>2, <2>1, Caller
    <3> QED BY <1>1, <1>4, <2>2, <2>3, <3>1, <3>2, <3>3
        DEF TidyOf, Tidy, Copying, ForkOnly, AtPage
  <2>5. CopyTarget(e)' /\ Gave(e)' BY <2>2, NothingGiven
  <2>6. Finds(e)' BY <1>1, <1>2, <1>3, <1>4, <2>2, StillFinds
  <2>7. TempsStay /\ HalfwaysStay BY <1>1, <2>2, NothingSpecial
  <2>8. NewAlias(d, "MSG")
    <3>1. CASE mem'.pte[d]["MSG"].page \in mem.free BY <1>3, <3>1, FreshAlias
    <3>2. CASE On(e, "MSG") /\ mem'.pte[d]["MSG"].page = PageOf(e, "MSG")
      <4>1. ASSUME NEW f \in Envs, NEW v \in Vas, f # d \/ v # "MSG", On(f, v),
                   PageOf(f, v) = PageOf(e, "MSG")
            PROVE  v = "MSG"
        <5>1. CASE f = e /\ v = "MSG" BY <5>1
        <5>2. CASE f # e \/ v # "MSG"
          <6>1. "MSG" \in Vas \ {"TEMP"} BY <1>3
          <6> QED BY <1>1, <3>2, <4>1, <5>2, <6>1, SharedAtPage
        <5> QED BY <5>1, <5>2
      <4> QED BY <1>3, <3>2, <4>1 DEF NewAlias, MayShare, SameAddress
    <3> QED BY <1>6, <3>1, <3>2
  <2>9. Aliases'
    <3>1. Sound(mem') BY DEF FInv, IInv, Counted
    <3> QED BY <1>3, <1>4, <2>7, <2>8, <3>1, AliasesKept
  <2>10. Source(e, d, "MSG") BY <1>1, <1>2, <1>3, <1>6 DEF Source
  <2>11. Harmless(d, "MSG") BY <1>3, <1>4, <1>6 DEF Harmless, Touches
  <2>12. ChildrenCalm(e) BY <1>4, <2>1 DEF ChildrenCalm
  <2>13. \A f \in Envs \ {e} : Calm(f)
    BY <1>2, <1>4, <2>1, <2>2 DEF Calm, Still, Up, Live
  <2>14. NotOthers(e, d) BY <1>2, AreNotOthers DEF PInv, FInv
  <2>15. seen' \in [Envs -> [Vas -> {0, 1}]] BY <1>4 DEF PInv, Private
  <2> QED BY <1>2, <1>3, <1>4, <2>1, <2>4, <2>5, <2>6, <2>9, <2>10, <2>11, <2>12, <2>13,
             <2>14, <2>15, PrivateGoesOn
<1> QED BY <1>2, <1>5, <1>6, SentTouches

-----------------------------------------------------------------------------
(* The first environment *)

Zeros == [p \in Pages |-> 0]

(* page_alloc of a memory of zeros. *)
LEMMA AllocZeros ==
  ASSUME NEW m, Sound(m), m.data = Zeros, m.free # {}
  PROVE  /\ PageAlloc(m).data = Zeros /\ PageAlloc(m).free = m.free \ {Top(m.free)}
         /\ PageAlloc(m).pte = m.pte /\ PageAlloc(m).table = m.table /\ Sound(PageAlloc(m))
         /\ Top(m.free) \in Pages
<1>1. Top(m.free) \in Pages BY Allocated
<1> DEFINE p == Top(m.free)
<1>2. [m.data EXCEPT ![p] = 0] = Zeros BY <1>1 DEF Zeros
<1>3. PageAlloc(m).data = [m.data EXCEPT ![p] = 0] BY DEF PageAlloc, Sound, Fields
<1> QED BY <1>1, <1>2, <1>3, Allocated

(* pgdir_walk finds the table, or makes it. *)
LEMMA WalkFits ==
  ASSUME NEW m, Sound(m), NEW e \in Envs, NEW va \in Vas, TableFits(m, e, va)
  PROVE  /\ PgdirWalk(m, e, va).pte = m.pte
         /\ PgdirWalk(m, e, va).table[e][PDX(va)] # NULL
         /\ Sound(PgdirWalk(m, e, va))
<1> DEFINE w == PgdirWalk(m, e, va)
<1>1. /\ Sound(w) /\ w.pte = m.pte
      /\ w.table[e][PDX(va)] # NULL <=> TableFits(m, e, va)
  BY Walked
<1> QED BY <1>1

(* A page at an address where there was none takes at most a page more,    *)
(* for the table.                                                          *)
LEMMA FirstMapping ==
  ASSUME NEW m, Sound(m), m.data = Zeros, NEW e \in Envs, NEW va \in Vas, NEW perm \in Perms,
         m.pte[e][va] = Unmapped, EnvPageAllocOK(m, e, va)
  PROVE  /\ EnvPageAlloc(m, e, va, perm).data = Zeros
         /\ \E p, q : m.free \ {p, q} \subseteq EnvPageAlloc(m, e, va, perm).free
<1> DEFINE a == PageAlloc(m)
           p == Top(m.free)
           w == PgdirWalk(a, e, va)
           u == [w EXCEPT !.ref[p] = @ + 1]
           r == [u EXCEPT !.pte[e][va] = Pte(p, perm)]
           b == PageAlloc(a)
           q == Top(a.free)
           n == [b EXCEPT !.ref[q] = @ + 1, !.table[e][PDX(va)] = q]
<1>1. m.free # {} /\ TableFits(a, e, va) BY DEF EnvPageAllocOK
<1>2. /\ a.data = Zeros /\ a.free = m.free \ {p} /\ a.pte = m.pte /\ Sound(a) /\ p \in Pages
  BY <1>1, AllocZeros
<1>3. EnvPageAlloc(m, e, va, perm) = PageInsert(a, e, p, va, perm)
  BY <1>1 DEF EnvPageAlloc
<1> HIDE DEF a, p
<1>4. /\ w = IF a.table[e][PDX(va)] # NULL THEN a ELSE IF a.free = {} THEN Exhausted(a) ELSE n
  BY DEF PgdirWalk
<1>x. PageInsert(a, e, p, va, perm) =
        IF w.table[e][PDX(va)] = NULL THEN w
        ELSE [PageRemove(u, e, va) EXCEPT !.pte[e][va] = Pte(p, perm)]
  BY DEF PageInsert
<1>5. w.data = Zeros /\ a.free \ {q} \subseteq w.free /\ w.pte = a.pte
      /\ w.table[e][PDX(va)] # NULL /\ Sound(w)
  <2>1. w.pte = a.pte /\ w.table[e][PDX(va)] # NULL /\ Sound(w) BY <1>1, <1>2, WalkFits
  <2>2. CASE a.table[e][PDX(va)] # NULL BY <1>2, <1>4, <2>1, <2>2
  <2>3. CASE a.table[e][PDX(va)] = NULL
    <3>1. a.free # {} BY <1>1, <2>3 DEF TableFits
    <3>2. b.data = Zeros /\ b.free = a.free \ {q} BY <1>2, <3>1, AllocZeros
    <3>3. w = n BY <1>4, <2>3, <3>1
    <3> HIDE DEF b, q, w
    <3>4. n.data = b.data /\ n.free = b.free OBVIOUS
    <3> QED BY <2>1, <3>2, <3>3, <3>4
  <2> QED BY <2>2, <2>3
<1> HIDE DEF w, q
<1>6. u.pte = w.pte /\ u.data = w.data /\ u.free = w.free OBVIOUS
<1> HIDE DEF u
<1>7. PageRemove(u, e, va) = u BY <1>2, <1>5, <1>6 DEF PageRemove
<1>8. PageInsert(a, e, p, va, perm) = r BY <1>5, <1>7, <1>x
<1>9. r.data = u.data /\ r.free = u.free OBVIOUS
<1> HIDE DEF r
<1>10. m.free \ {p, q} \subseteq r.free BY <1>2, <1>5, <1>6, <1>9
<1> QED BY <1>3, <1>5, <1>6, <1>8, <1>9, <1>10

(* Five pages are enough for its data and its stack, on pages of zeros. *)
LEMMA BootContents ==
  ASSUME NEW n \in Nat, n >= 5, 1 .. n \subseteq Pages
  PROVE  /\ Boot(n).data = Zeros
         /\ Boot(n).pte[First]["DATA"] # Unmapped /\ Boot(n).pte[First]["STACK"] # Unmapped
         /\ Boot(n).pte[First]["DATA"].page # Boot(n).pte[First]["STACK"].page
         /\ \A va \in Vas \ {"DATA", "STACK"} : Boot(n).pte[First][va] = Unmapped
<1> DEFINE m == Empty(n)
           s == EnvSetupVm(m, First)
           t == EnvPageAlloc(s, First, "DATA", "rw")
           b == EnvPageAlloc(t, First, "STACK", "rw")
           p == Top(m.free)
           k == PageAlloc(m)
<1>1. b = Boot(n) BY DEF Boot, Empty
<1>2. Sound(m) /\ m.data = Zeros BY EmptySound DEF Empty, Zeros
<1>3. m.free = 1 .. n /\ m.free # {} /\ \A e \in Envs : m.dir[e] = NULL
  <2>1. 1 \in 1 .. n OBVIOUS
  <2> QED BY <2>1 DEF Empty, PageInit
<1>4. First \in Envs /\ "DATA" \in Vas /\ "STACK" \in Vas /\ "rw" \in Perms
  BY AddressSpaceAssumption, Addresses DEF Perms
<1>5. \A e \in Envs, va \in Vas : m.pte[e][va] = Unmapped BY DEF Empty, NoVas
<1> HIDE DEF m
<1>6. Sound(s) /\ s.pte = m.pte /\ s.free = m.free \ {p} /\ s.data = Zeros
  <2>1. Sound(s) /\ s.pte = m.pte BY <1>2, <1>3, <1>4, VmSetUp
  <2>2. k.free = m.free \ {p} /\ k.data = Zeros BY <1>2, <1>3, AllocZeros
  <2>3. s = [k EXCEPT !.ref[p] = @ + 1, !.dir[First] = p] BY DEF EnvSetupVm
  <2> HIDE DEF k, p, s
  <2>4. s.free = k.free /\ s.data = k.data BY <2>3
  <2> QED BY <2>1, <2>2, <2>4
<1> HIDE DEF s, p, k
<1>7. ASSUME NEW c, NEW x, NEW y, NEW z, Sound(c), c.data = Zeros,
             m.free \ {x, y, z} \subseteq c.free, NEW va \in Vas
      PROVE  EnvPageAllocOK(c, First, va)
  <2> DEFINE g == Top(c.free)
  <2>1. PICK i \in 1 .. n : i \notin {x, y, z, g}
    <3>1. 1 \in 1 .. n /\ 2 \in 1 .. n /\ 3 \in 1 .. n /\ 4 \in 1 .. n /\ 5 \in 1 .. n
      OBVIOUS
    <3>2. \E i \in {1, 2, 3, 4, 5} : i \notin {x, y, z, g}
      <4> HIDE DEF g
      <4> QED OBVIOUS
    <3> QED BY <3>1, <3>2
  <2>2. i \in c.free /\ i # g BY <1>3, <1>7, <2>1
  <2>3. PageAlloc(c).free = c.free \ {g} BY <1>7, <2>2, AllocZeros
  <2> QED BY <2>2, <2>3 DEF EnvPageAllocOK, TableFits
<1>8. EnvPageAllocOK(s, First, "DATA")
  <2>1. m.free \ {p, p, p} \subseteq s.free BY <1>6
  <2> QED BY <1>4, <1>6, <1>7, <2>1
<1>9. /\ Fine(s, t, First) /\ OthersKept(s, t, First, "DATA")
      /\ \E x \in Pages : t.pte[First]["DATA"] = Pte(x, "rw")
  BY <1>4, <1>6, <1>8, PageAllocated
<1>10. s.pte[First]["DATA"] = Unmapped BY <1>4, <1>5, <1>6
<1>11. t.data = Zeros /\ \E x, y : s.free \ {x, y} \subseteq t.free
  BY <1>4, <1>6, <1>8, <1>10, FirstMapping
<1> HIDE DEF t
<1>12. Sound(t) /\ t.pte[First]["DATA"] # Unmapped
  BY <1>4, <1>9, PteKinds DEF Fine
<1>13. EnvPageAllocOK(t, First, "STACK")
  <2>1. PICK x, y : s.free \ {x, y} \subseteq t.free BY <1>11
  <2>2. m.free \ {p, x, y} \subseteq t.free BY <1>6, <2>1
  <2> QED BY <1>4, <1>7, <1>11, <1>12, <2>2
<1>14. \A va \in Vas \ {"DATA"} : t.pte[First][va] = Unmapped
  BY <1>4, <1>5, <1>6, <1>9 DEF OthersKept
<1>15. "STACK" # "DATA" OBVIOUS
<1>16. b.data = Zeros BY <1>4, <1>11, <1>12, <1>13, <1>14, <1>15, FirstMapping
<1>17. OthersKept(t, b, First, "STACK") BY <1>4, <1>12, PageAllocated
<1>18. \E x \in t.free : b.pte[First]["STACK"] = Pte(x, "rw")
  <2>1. t.data \in Fill BY <1>11 DEF Zeros, Fill
  <2> QED BY <1>4, <1>12, <1>13, <2>1, PageAllocContents
<1> HIDE DEF b
<1>19. b.pte[First]["DATA"] = t.pte[First]["DATA"]
  BY <1>4, <1>15, <1>17 DEF OthersKept
<1>20. PICK x \in t.free : b.pte[First]["STACK"] = Pte(x, "rw") BY <1>18
<1>21. x \in Pages /\ t.pte[First]["DATA"].page # x
  <2>1. t.pte[First]["DATA"].page \notin t.free BY <1>4, <1>12, MappedNotFree
  <2> QED BY <1>12, <2>1 DEF Sound
<1>22. b.pte[First]["STACK"] # Unmapped BY <1>4, <1>20, <1>21, PteKinds
<1>23. b.pte[First]["STACK"].page = x BY <1>20 DEF Pte
<1>24. \A va \in Vas \ {"DATA", "STACK"} : b.pte[First][va] = Unmapped
  BY <1>14, <1>17 DEF OthersKept
<1> QED BY <1>1, <1>12, <1>16, <1>19, <1>21, <1>22, <1>23, <1>24

(* At boot nothing is shared and nothing is written. *)
LEMMA InitPrivate == Init => PInv
<1> SUFFICES ASSUME Init PROVE PInv
  OBVIOUS
<1>1. FInv BY InitFInv
<1>2. \A e \in Envs : /\ env[e].status \in {"RUNNABLE", "FREE"} /\ ~env[e].recving
                      /\ env[e].status = "RUNNABLE" <=> e = First
  BY DEF Init, NoEnvAt
<1>3. TlbCoherent BY <1>2 DEF TlbCoherent, Running
<1>4. program.npages \in Nat /\ program.npages >= 5 /\ 1 .. program.npages \subseteq Pages
  BY AddressSpaceAssumption DEF Init, Pages
<1>5. mem = Boot(program.npages) BY DEF Init
<1>6. /\ \A e \in Envs \ {First}, va \in Vas : mem.pte[e][va] = Unmapped
      /\ \A va \in Vas : mem.pte[First][va] = Unmapped \/ mem.pte[First][va].perm = "rw"
  BY <1>4, <1>5, BootPerms
<1>7. /\ mem.data = Zeros /\ On(First, "DATA") /\ On(First, "STACK")
      /\ PageOf(First, "DATA") # PageOf(First, "STACK")
      /\ \A va \in Vas \ {"DATA", "STACK"} : mem.pte[First][va] = Unmapped
  BY <1>4, <1>5, BootContents DEF On, PageOf
<1>8. Sound(mem) /\ First \in Envs BY <1>1, AddressSpaceAssumption DEF FInv, IInv, Counted
<1>9. seen = [e \in Envs |-> [va \in Vas |-> 0]] BY DEF Init
<1>10. mem.data \in [Pages -> {0, 1}] /\ seen \in [Envs -> [Vas -> {0, 1}]]
  BY <1>7, <1>9 DEF Zeros
<1>11. \A e \in Envs : usr[e].pc \in {"user", "none"} /\ usr[e].step = "none"
  <2>1. \A e \in Envs : usr[e] = Start("user") \/ usr[e] = Start("none") BY DEF Init
  <2>2. /\ Start("user").pc = "user" /\ Start("user").step = "none"
        /\ Start("none").pc = "none" /\ Start("none").step = "none"
    BY DEF Start
  <2> QED BY <2>1, <2>2
<1>12. Aliases
  <2>1. SUFFICES ASSUME NEW e \in Envs, NEW f \in Envs, NEW va \in Vas, NEW vb \in Vas,
                        e # f \/ va # vb, On(e, va), PageOf(e, va) = PageOf(f, vb)
                 PROVE  FALSE
    BY DEF Aliases
  <2>2. On(f, vb)
    <3>1. PageOf(e, va) \in Pages BY <1>8, <2>1, MappedNotFree DEF On, PageOf
    <3> QED BY <2>1, <3>1, PteKinds DEF On, PageOf
  <2>3. e = First /\ f = First /\ va \in {"DATA", "STACK"} /\ vb \in {"DATA", "STACK"}
    BY <1>6, <1>7, <2>1, <2>2 DEF On
  <2> QED BY <1>7, <2>1, <2>3
<1>13. ASSUME NEW e \in Envs PROVE TidyOf(e) /\ CopyTarget(e) /\ Finds(e) /\ Gave(e)
  <2>1. \A va \in Vas : mem.pte[e][va] = Unmapped \/ mem.pte[e][va].perm = "rw"
    BY <1>6
  <2>2. ~HasCow(mem.pte[e]) BY <2>1 DEF HasCow, Unmapped, Pte
  <2>3. mem.pte[e]["TEMP"] = Unmapped BY <1>6, <1>7, DataIs
  <2>4. env[e].status = "FREE" => \A va \in Vas : mem.pte[e][va] = Unmapped BY <1>2, <1>6
  <2>5. \A va \in Priv : mem.pte[e][va] # Unmapped => mem.pte[e][va].perm \in {"rw", "cow"}
    BY <2>1, DataIs DEF Priv
  <2>6. TidyOf(e)
    BY <1>2, <1>11, <2>2, <2>3, <2>4, <2>5 DEF TidyOf, Tidy, Copying, ForkOnly, AtPage
  <2>7. CopyTarget(e) /\ Gave(e) BY <1>11 DEF CopyTarget, Gave, GivenAt, AtPage
  <2>8. Finds(e)
    <3>1. SUFFICES ASSUME Up(e), NEW va \in Priv
                   PROVE  On(e, va) /\ Content(e, va) = seen[e][va]
      BY <1>11 DEF Finds
    <3>2. e = First BY <1>2, <3>1 DEF Up, Live
    <3>3. va \in Vas /\ On(e, va) BY <1>7, <3>2, DataIs DEF Priv
    <3>4. PageOf(e, va) \in Pages BY <1>8, <3>3, MappedNotFree DEF On, PageOf
    <3> QED BY <1>7, <1>9, <3>3, <3>4 DEF Zeros, Content
  <2> QED BY <2>6, <2>7, <2>8
<1> QED BY <1>1, <1>3, <1>10, <1>12, <1>13 DEF PInv, Private

-----------------------------------------------------------------------------
(* All steps *)

(* The steps of the library. *)
LEMMA LibraryPrivate ==
  ASSUME PInv, FInv', NEW e \in Envs, Library(e)
  PROVE  Private'
  BY PgfaultAllocPrivate, PgfaultCopyPrivate, PgfaultMapPrivate, PgfaultUnmapPrivate,
     SetPgfaultHandlerPrivate, SetPgfaultUpcallPrivate, SaveHandlerPrivate, ExoforkPrivate,
     DupPrivate, DupChildPrivate, DupOwnPrivate, ChildXstackPrivate, ChildUpcallPrivate,
     CopyAllocPrivate, CopyMapPrivate, CopyPrivate, CopyUnmapPrivate, SetStatusPrivate,
     SetThisenvPrivate
     DEF Library

(* The steps of a program. *)
LEMMA ProgramPrivate ==
  ASSUME PInv, FInv', Liberties = {}, NEW e \in Envs, Program(e)
  PROVE  Private'
<1>1. ASSUME NEW va \in {"DATA", "STACK", "MSG"}, WriteMemory(e, va) PROVE Private'
  BY <1>1, WriteMemoryPrivate
<1>2. CASE Fork(e) \/ Exit(e) \/ IpcRecv(e) BY <1>2, ForkPrivate, ExitPrivate, IpcRecvPrivate
<1>3. ASSUME NEW perm \in {"ro", "rw"}, AllocMsg(e, perm) PROVE Private'
  BY <1>3, AllocMsgPrivate
<1>4. ASSUME NEW d \in Envs, IpcTrySend(e, d) \/ Kill(e, d) \/ UnmapMsg(e, d) PROVE Private'
  BY <1>4, IpcTrySendPrivate, KillPrivate, UnmapMsgPrivate
<1> QED BY <1>1, <1>2, <1>3, <1>4 DEF Program

(* All of them together. *)
LEMMA StepPInv == ASSUME Liberties = {} PROVE PInv /\ [Next]_vars => PInv'
<1> SUFFICES ASSUME PInv, [Next]_vars PROVE PInv'
  OBVIOUS
<1>1. FInv' BY StepFInv DEF PInv
<1>2. TlbCoherent' BY CoherentStep DEF PInv, FInv
<1>3. CASE Next
  <2>1. PICK e \in Envs : Run(e) \/ Preempt(e) \/ TrapOfZombie(e) \/ Library(e) \/ Program(e)
    BY <1>3 DEF Next
  <2>2. Private'
    BY <1>1, <2>1, RunPrivate, PreemptPrivate, TrapOfZombiePrivate, LibraryPrivate,
       ProgramPrivate
  <2> QED BY <1>1, <1>2, <2>2 DEF PInv
<1>4. CASE UNCHANGED vars
  <2>1. /\ mem' = mem /\ env' = env /\ usr' = usr /\ seen' = seen /\ program' = program
    BY <1>4 DEF vars
  <2>2. Private' BY <1>1, <2>1, ScheduledPrivate DEF Still, Up, Live
  <2> QED BY <1>1, <1>2, <2>2 DEF PInv
<1> QED BY <1>3, <1>4

(* After fork or fork_v0 of lib/fork.c an environment finds in its data    *)
(* and on its stack what it wrote there itself or inherited, whatever its  *)
(* parent, its children and the senders of messages do in between, however *)
(* their page faults interleave, and wherever memory runs out: two address *)
(* spaces share a page at the same address at most, and one of them may    *)
(* write to it only while duppage is between its two system calls (or has  *)
(* panicked there).                                                        *)
THEOREM PrivateMemoryHolds ==
  ASSUME Liberties = {}
  PROVE  Spec => []PrivateMemory
<1>1. Init => PInv BY InitPrivate
<1>2. PInv /\ [Next]_vars => PInv' BY StepPInv
<1>3. PInv => PrivateMemory
  BY DEF PInv, Private, Finds, Priv, Content, PageOf, PrivateMemory, Alive, Up, Live
<1> QED BY <1>1, <1>2, <1>3, PTL DEF Spec

=============================================================================
