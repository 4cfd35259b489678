-------------------------- MODULE AddressSpaceProofs --------------------------
(***************************************************************************)
(* Proofs about AddressSpace for any number of environments, CPUs and      *)
(* pages, any workloads and any number of forks: the reference counts and  *)
(* the free list of the page allocator, and, for programs that change only *)
(* the address spaces they build, the TLBs.                                *)
(*                                                                         *)
(* The first half is about the operators of kern/pmap.c on a memory, the   *)
(* second about the steps of the system.                                   *)
(***************************************************************************)
EXTENDS AddressSpace, FiniteSetTheorems, TLAPS

Fields == {"free", "ref", "dir", "table", "pte", "data", "exhausted", "panic"}
Ptes == {Unmapped} \cup [page : Pages, perm : Perms]

LEMMA Addresses == Vas = {"TEMP", "DATA", "MSG", "STACK", "XSTACK"}
<1>1. Len(VaOrder) = 5 BY DEF VaOrder
<1>2. /\ VaOrder[1] = "TEMP" /\ VaOrder[2] = "DATA" /\ VaOrder[3] = "MSG"
      /\ VaOrder[4] = "STACK" /\ VaOrder[5] = "XSTACK"
  BY DEF VaOrder
<1>3. 1 .. Len(VaOrder) = {1, 2, 3, 4, 5} BY <1>1
<1> QED BY <1>2, <1>3 DEF Vas

LEMMA TableOfAddress == ASSUME NEW va \in Vas PROVE PDX(va) \in Tables
<1>1. CASE va = "TEMP" BY <1>1 DEF PDX, Tables
<1>2. CASE va \in {"DATA", "MSG"} BY <1>2 DEF PDX, Tables
<1>3. CASE va \in {"STACK", "XSTACK"} BY <1>3 DEF PDX, Tables
<1> QED BY <1>1, <1>2, <1>3, Addresses

LEMMA PagesAreNot == NULL \notin Pages /\ Pages \subseteq Nat
  BY AddressSpaceAssumption DEF Pages, NULL

LEMMA PteKinds ==
  /\ Unmapped.page = NULL /\ Unmapped.page \notin Pages /\ Unmapped \in Ptes
  /\ \A v \in Ptes : v # Unmapped => v.page \in Pages
  /\ \A p \in Pages, perm \in Perms :
       /\ Pte(p, perm) \in Ptes /\ Pte(p, perm) # Unmapped
       /\ Pte(p, perm).page = p /\ Pte(p, perm).perm = perm
  BY PagesAreNot DEF Unmapped, Ptes, Pte

-----------------------------------------------------------------------------
(* Counting references *)

DirRefs(m, p) == {e \in Envs : m.dir[e] = p}
TableRefs(m, p) == {x \in Envs \X Tables : m.table[x[1]][x[2]] = p}
PteRefs(m, p) == {x \in Envs \X Vas : m.pte[x[1]][x[2]].page = p}
Refs(m, p) ==
  Cardinality(DirRefs(m, p)) + Cardinality(TableRefs(m, p)) + Cardinality(PteRefs(m, p))

LEMMA FiniteRefs ==
  ASSUME NEW m, NEW p
  PROVE  /\ IsFiniteSet(DirRefs(m, p)) /\ IsFiniteSet(TableRefs(m, p))
         /\ IsFiniteSet(PteRefs(m, p))
         /\ Refs(m, p) \in Nat
<1>1. IsFiniteSet(Envs) BY AddressSpaceAssumption
<1>2. IsFiniteSet(Tables)
  <2>1. 1 \in Int /\ 3 \in Int OBVIOUS
  <2> QED BY <2>1, FS_Interval, Zenon DEF Tables
<1>3. IsFiniteSet(Vas)
  <2>1. IsFiniteSet({"TEMP"}) BY FS_Singleton
  <2>2. IsFiniteSet({"TEMP"} \cup {"DATA"}) BY <2>1, FS_AddElement
  <2>3. IsFiniteSet(({"TEMP"} \cup {"DATA"}) \cup {"MSG"}) BY <2>2, FS_AddElement
  <2>4. IsFiniteSet((({"TEMP"} \cup {"DATA"}) \cup {"MSG"}) \cup {"STACK"})
    BY <2>3, FS_AddElement
  <2>5. IsFiniteSet(((({"TEMP"} \cup {"DATA"}) \cup {"MSG"}) \cup {"STACK"}) \cup {"XSTACK"})
    BY <2>4, FS_AddElement
  <2>6. Vas = ((({"TEMP"} \cup {"DATA"}) \cup {"MSG"}) \cup {"STACK"}) \cup {"XSTACK"}
    BY Addresses
  <2> QED BY <2>5, <2>6
<1>4. IsFiniteSet(Envs \X Tables) /\ IsFiniteSet(Envs \X Vas)
  BY <1>1, <1>2, <1>3, FS_Product
<1>5. /\ IsFiniteSet(DirRefs(m, p)) /\ IsFiniteSet(TableRefs(m, p))
      /\ IsFiniteSet(PteRefs(m, p))
  BY <1>1, <1>4, FS_Subset DEF DirRefs, TableRefs, PteRefs
<1> QED BY <1>5, FS_CardinalityType DEF Refs

(* Two finite sets that differ at most in one element. *)
LEMMA OneElement ==
  ASSUME NEW A, NEW B, NEW x, IsFiniteSet(A), IsFiniteSet(B), A \ {x} = B \ {x}
  PROVE  Cardinality(B) =
           Cardinality(A) - (IF x \in A THEN 1 ELSE 0) + (IF x \in B THEN 1 ELSE 0)
<1>1. /\ Cardinality(A) \in Nat /\ Cardinality(B) \in Nat
  BY FS_CardinalityType
<1>2. Cardinality(A \ {x}) = IF x \in A THEN Cardinality(A) - 1 ELSE Cardinality(A)
  BY FS_RemoveElement
<1>3. Cardinality(B \ {x}) = IF x \in B THEN Cardinality(B) - 1 ELSE Cardinality(B)
  BY FS_RemoveElement
<1> QED BY <1>1, <1>2, <1>3

Is(a, b) == IF a = b THEN 1 ELSE 0

OnlyDir(m, r, e) ==
  /\ r.table = m.table /\ r.pte = m.pte
  /\ \A f \in Envs \ {e} : r.dir[f] = m.dir[f]

OnlyTable(m, r, e, t) ==
  /\ r.dir = m.dir /\ r.pte = m.pte
  /\ \A f \in Envs, u \in Tables : f # e \/ u # t => r.table[f][u] = m.table[f][u]

OnlyPte(m, r, e, va) ==
  /\ r.dir = m.dir /\ r.table = m.table
  /\ \A f \in Envs, v \in Vas : f # e \/ v # va => r.pte[f][v] = m.pte[f][v]

(* One pointer changes: the page it left has one reference less, the page  *)
(* it goes to one more.                                                    *)
LEMMA DirChanges ==
  ASSUME NEW m, NEW r, NEW e \in Envs, NEW p, OnlyDir(m, r, e)
  PROVE  Refs(r, p) = Refs(m, p) - Is(m.dir[e], p) + Is(r.dir[e], p)
<1>1. DirRefs(m, p) \ {e} = DirRefs(r, p) \ {e} BY DEF DirRefs, OnlyDir
<1>2. (e \in DirRefs(m, p) <=> m.dir[e] = p) /\ (e \in DirRefs(r, p) <=> r.dir[e] = p)
  BY DEF DirRefs
<1>3. Cardinality(DirRefs(r, p)) =
        Cardinality(DirRefs(m, p)) - Is(m.dir[e], p) + Is(r.dir[e], p)
  BY <1>1, <1>2, FiniteRefs, OneElement DEF Is
<1>4. TableRefs(r, p) = TableRefs(m, p) /\ PteRefs(r, p) = PteRefs(m, p)
  BY DEF TableRefs, PteRefs, OnlyDir
<1>5. /\ Cardinality(DirRefs(m, p)) \in Nat /\ Cardinality(TableRefs(m, p)) \in Nat
      /\ Cardinality(PteRefs(m, p)) \in Nat
  BY FiniteRefs, FS_CardinalityType
<1> QED BY <1>3, <1>4, <1>5 DEF Refs, Is

LEMMA TableChanges ==
  ASSUME NEW m, NEW r, NEW e \in Envs, NEW t \in Tables, NEW p,
         OnlyTable(m, r, e, t)
  PROVE  Refs(r, p) = Refs(m, p) - Is(m.table[e][t], p) + Is(r.table[e][t], p)
<1> DEFINE x == <<e, t>>
<1>0. x \in Envs \X Tables /\ x[1] = e /\ x[2] = t OBVIOUS
<1>1. TableRefs(m, p) \ {x} = TableRefs(r, p) \ {x}
  <2>1. \A y \in Envs \X Tables : y # x => r.table[y[1]][y[2]] = m.table[y[1]][y[2]]
    <3>1. ASSUME NEW y \in Envs \X Tables, y # x PROVE r.table[y[1]][y[2]] = m.table[y[1]][y[2]]
      <4>1. y = <<y[1], y[2]>> /\ y[1] \in Envs /\ y[2] \in Tables OBVIOUS
      <4>2. y[1] # e \/ y[2] # t BY <3>1, <4>1
      <4> QED BY <4>1, <4>2 DEF OnlyTable
    <3> QED BY <3>1
  <2> QED BY <2>1 DEF TableRefs
<1>2. (x \in TableRefs(m, p) <=> m.table[e][t] = p) /\ (x \in TableRefs(r, p) <=> r.table[e][t] = p)
  BY <1>0 DEF TableRefs
<1> HIDE DEF x
<1>3. Cardinality(TableRefs(r, p)) =
        Cardinality(TableRefs(m, p)) - Is(m.table[e][t], p) + Is(r.table[e][t], p)
  BY <1>1, <1>2, FiniteRefs, OneElement DEF Is
<1>4. DirRefs(r, p) = DirRefs(m, p) /\ PteRefs(r, p) = PteRefs(m, p)
  BY DEF DirRefs, PteRefs, OnlyTable
<1>5. /\ Cardinality(DirRefs(m, p)) \in Nat /\ Cardinality(TableRefs(m, p)) \in Nat
      /\ Cardinality(PteRefs(m, p)) \in Nat
  BY FiniteRefs, FS_CardinalityType
<1> QED BY <1>3, <1>4, <1>5 DEF Refs, Is

LEMMA PteChanges ==
  ASSUME NEW m, NEW r, NEW e \in Envs, NEW va \in Vas, NEW p,
         OnlyPte(m, r, e, va)
  PROVE  Refs(r, p) = Refs(m, p) - Is(m.pte[e][va].page, p) + Is(r.pte[e][va].page, p)
<1> DEFINE x == <<e, va>>
<1>0. x \in Envs \X Vas /\ x[1] = e /\ x[2] = va OBVIOUS
<1>1. PteRefs(m, p) \ {x} = PteRefs(r, p) \ {x}
  <2>1. \A y \in Envs \X Vas : y # x => r.pte[y[1]][y[2]] = m.pte[y[1]][y[2]]
    <3>1. ASSUME NEW y \in Envs \X Vas, y # x PROVE r.pte[y[1]][y[2]] = m.pte[y[1]][y[2]]
      <4>1. y = <<y[1], y[2]>> /\ y[1] \in Envs /\ y[2] \in Vas OBVIOUS
      <4>2. y[1] # e \/ y[2] # va BY <3>1, <4>1
      <4> QED BY <4>1, <4>2 DEF OnlyPte
    <3> QED BY <3>1
  <2> QED BY <2>1 DEF PteRefs
<1>2. (x \in PteRefs(m, p) <=> m.pte[e][va].page = p) /\ (x \in PteRefs(r, p) <=> r.pte[e][va].page = p)
  BY <1>0 DEF PteRefs
<1> HIDE DEF x
<1>3. Cardinality(PteRefs(r, p)) =
        Cardinality(PteRefs(m, p)) - Is(m.pte[e][va].page, p) + Is(r.pte[e][va].page, p)
  BY <1>1, <1>2, FiniteRefs, OneElement DEF Is
<1>4. DirRefs(r, p) = DirRefs(m, p) /\ TableRefs(r, p) = TableRefs(m, p)
  BY DEF DirRefs, TableRefs, OnlyPte
<1>5. /\ Cardinality(DirRefs(m, p)) \in Nat /\ Cardinality(TableRefs(m, p)) \in Nat
      /\ Cardinality(PteRefs(m, p)) \in Nat
  BY FiniteRefs, FS_CardinalityType
<1> QED BY <1>3, <1>4, <1>5 DEF Refs, Is

(* A page some pointer names is referenced. *)
LEMMA Referenced ==
  ASSUME NEW m, NEW p
  PROVE  /\ \A e \in Envs : m.dir[e] = p => Refs(m, p) >= 1
         /\ \A e \in Envs, t \in Tables : m.table[e][t] = p => Refs(m, p) >= 1
         /\ \A e \in Envs, va \in Vas : m.pte[e][va].page = p => Refs(m, p) >= 1
<1>1. /\ Cardinality(DirRefs(m, p)) \in Nat /\ Cardinality(TableRefs(m, p)) \in Nat
      /\ Cardinality(PteRefs(m, p)) \in Nat
      /\ (Cardinality(DirRefs(m, p)) = 0 => DirRefs(m, p) = {})
      /\ (Cardinality(TableRefs(m, p)) = 0 => TableRefs(m, p) = {})
      /\ (Cardinality(PteRefs(m, p)) = 0 => PteRefs(m, p) = {})
  BY FiniteRefs, FS_CardinalityType, FS_EmptySet
<1>2. ASSUME NEW e \in Envs, m.dir[e] = p PROVE Refs(m, p) >= 1
  <2>1. e \in DirRefs(m, p) BY <1>2 DEF DirRefs
  <2> QED BY <1>1, <2>1 DEF Refs
<1>3. ASSUME NEW e \in Envs, NEW t \in Tables, m.table[e][t] = p PROVE Refs(m, p) >= 1
  <2>1. <<e, t>> \in TableRefs(m, p) BY <1>3 DEF TableRefs
  <2> QED BY <1>1, <2>1 DEF Refs
<1>4. ASSUME NEW e \in Envs, NEW va \in Vas, m.pte[e][va].page = p PROVE Refs(m, p) >= 1
  <2>1. <<e, va>> \in PteRefs(m, p) BY <1>4 DEF PteRefs
  <2> QED BY <1>1, <2>1 DEF Refs
<1> QED BY <1>2, <1>3, <1>4

LEMMA SameRefs ==
  ASSUME NEW m, NEW r, NEW p, r.dir = m.dir, r.table = m.table, r.pte = m.pte
  PROVE  Refs(r, p) = Refs(m, p)
<1>1. DirRefs(r, p) = DirRefs(m, p) BY DEF DirRefs
<1>2. TableRefs(r, p) = TableRefs(m, p) BY DEF TableRefs
<1>3. PteRefs(r, p) = PteRefs(m, p) BY DEF PteRefs
<1> QED BY <1>1, <1>2, <1>3 DEF Refs

-----------------------------------------------------------------------------
(* Memories *)

(* The fields and their types, and the part of the page allocator's        *)
(* discipline that every operator of pmap.c relies on and restores: what   *)
(* is free is not referenced, no page has fewer references than pointers,  *)
(* and no page is mapped where there is no page table.                     *)
Sound(m) ==
  /\ DOMAIN m = Fields
  /\ m.free \subseteq Pages
  /\ m.ref \in [Pages -> Nat]
  /\ m.dir \in [Envs -> Pages \cup {NULL}]
  /\ m.table \in [Envs -> [Tables -> Pages \cup {NULL}]]
  /\ m.pte \in [Envs -> [Vas -> Ptes]]
  /\ m.panic = FALSE
  /\ \A p \in m.free : m.ref[p] = 0
  /\ \A p \in Pages : Refs(m, p) <= m.ref[p]
  /\ \A e \in Envs, va \in Vas : m.pte[e][va] # Unmapped => m.table[e][PDX(va)] # NULL

(* The references of a page that no pointer accounts for. *)
Extra(m, p) == m.ref[p] - Refs(m, p)
SameExtra(m, r) == \A p \in Pages : Extra(r, p) = Extra(m, p)

(* Of the first n pages, those outside of held that are not referenced are *)
(* free, unless memory has not sufficed.                                   *)
NoneLost(m, n, held) ==
  m.exhausted \/ \A p \in Pages \ held : p <= n /\ m.ref[p] = 0 => p \in m.free

(* page_alloc *)
LEMMA Allocated ==
  ASSUME NEW m, Sound(m), m.free # {}
  PROVE  LET a == PageAlloc(m)
             p == Top(m.free)
         IN  /\ p \in Pages /\ p \in m.free /\ a.ref[p] = 0
             /\ a.free = m.free \ {p} /\ a.ref = m.ref
             /\ a.dir = m.dir /\ a.table = m.table /\ a.pte = m.pte
             /\ a.exhausted = m.exhausted
             /\ Sound(a) /\ SameExtra(m, a)
<1> DEFINE a == PageAlloc(m)
           p == Top(m.free)
<1>1. p \in m.free BY DEF Top
<1>2. p \in Pages /\ m.ref[p] = 0 BY <1>1 DEF Sound
<1>3. /\ a.free = m.free \ {p} /\ a.ref = m.ref
      /\ a.dir = m.dir /\ a.table = m.table /\ a.pte = m.pte
      /\ a.exhausted = m.exhausted /\ a.panic = m.panic /\ DOMAIN a = Fields
  BY DEF PageAlloc, Sound, Fields
<1> HIDE DEF a, p
<1>4. \A q : Refs(a, q) = Refs(m, q) BY <1>3, SameRefs
<1>5. Sound(a) BY <1>3, <1>4 DEF Sound
<1>6. SameExtra(m, a) BY <1>3, <1>4 DEF SameExtra, Extra
<1> QED BY <1>1, <1>2, <1>3, <1>5, <1>6 DEF a, p

LEMMA Exhausts ==
  ASSUME NEW m, Sound(m)
  PROVE  LET x == Exhausted(m)
         IN  /\ x.free = m.free /\ x.ref = m.ref
             /\ x.dir = m.dir /\ x.table = m.table /\ x.pte = m.pte
             /\ x.exhausted = TRUE
             /\ Sound(x) /\ SameExtra(m, x)
<1> DEFINE x == Exhausted(m)
<1>1. /\ x.free = m.free /\ x.ref = m.ref
      /\ x.dir = m.dir /\ x.table = m.table /\ x.pte = m.pte
      /\ x.exhausted = TRUE /\ x.panic = m.panic /\ DOMAIN x = Fields
  BY DEF Exhausted, Sound, Fields
<1> HIDE DEF x
<1>2. \A q : Refs(x, q) = Refs(m, q) BY <1>1, SameRefs
<1>3. Sound(x) BY <1>1, <1>2 DEF Sound
<1>4. SameExtra(m, x) BY <1>1, <1>2 DEF SameExtra, Extra
<1> QED BY <1>1, <1>3, <1>4 DEF x

(* page_decref of a referenced page never panics. *)
LEMMA Decreffed ==
  ASSUME NEW m, DOMAIN m = Fields, m.free \subseteq Pages, m.ref \in [Pages -> Nat],
         \A p \in m.free : m.ref[p] = 0,
         NEW q \in Pages, m.ref[q] >= 1
  PROVE  LET d == PageDecref(m, q)
         IN  /\ DOMAIN d = Fields
             /\ d.dir = m.dir /\ d.table = m.table /\ d.pte = m.pte
             /\ d.exhausted = m.exhausted /\ d.panic = m.panic
             /\ d.ref = [m.ref EXCEPT ![q] = @ - 1]
             /\ d.free = IF m.ref[q] = 1 THEN m.free \cup {q} ELSE m.free
<1> DEFINE c == [m EXCEPT !.ref[q] = @ - 1]
           d == PageDecref(m, q)
           f == [c EXCEPT !.free = @ \cup {q}, !.data[q] = 0]
<1>1. /\ DOMAIN c = Fields /\ c.free = m.free /\ c.ref = [m.ref EXCEPT ![q] = @ - 1]
      /\ c.dir = m.dir /\ c.table = m.table /\ c.pte = m.pte
      /\ c.exhausted = m.exhausted /\ c.panic = m.panic
  BY DEF Fields
<1>2. c.ref[q] = m.ref[q] - 1 BY <1>1
<1>3. q \notin m.free OBVIOUS
<1>4. d = IF c.ref[q] = 0 THEN PageFree(c, q) ELSE c BY DEF PageDecref
<1> HIDE DEF c, d
<1>5. c.ref[q] = 0 => PageFree(c, q) = f BY <1>1, <1>3 DEF PageFree
<1>6. /\ DOMAIN f = Fields /\ f.free = c.free \cup {q} /\ f.ref = c.ref
      /\ f.dir = c.dir /\ f.table = c.table /\ f.pte = c.pte
      /\ f.exhausted = c.exhausted /\ f.panic = c.panic
  BY <1>1 DEF Fields
<1> HIDE DEF f
<1>7. CASE m.ref[q] = 1 BY <1>1, <1>2, <1>4, <1>5, <1>6, <1>7 DEF d
<1>8. CASE m.ref[q] # 1 BY <1>1, <1>2, <1>4, <1>8 DEF d
<1> QED BY <1>7, <1>8

(* pgdir_walk: a page becomes a table, or memory does not suffice. *)
LEMMA Walked ==
  ASSUME NEW m, Sound(m), NEW e \in Envs, NEW va \in Vas
  PROVE  LET w == PgdirWalk(m, e, va)
         IN  /\ Sound(w) /\ SameExtra(m, w)
             /\ w.free \subseteq m.free /\ w.dir = m.dir /\ w.pte = m.pte
             /\ \A f \in Envs, t \in Tables :
                  \/ w.table[f][t] = m.table[f][t]
                  \/ f = e /\ m.table[f][t] = NULL
             /\ w.table[e][PDX(va)] # NULL <=> TableFits(m, e, va)
             /\ IF TableFits(m, e, va) THEN w.exhausted = m.exhausted ELSE w.exhausted = TRUE
             /\ \A n, held : NoneLost(m, n, held) => NoneLost(w, n, held)
<1> DEFINE t == PDX(va)
           p == Top(m.free)
           a == PageAlloc(m)
           w == [a EXCEPT !.ref[p] = @ + 1, !.table[e][t] = p]
<1>0. t \in Tables BY TableOfAddress
<1>1. CASE m.table[e][t] # NULL
  <2>1. PgdirWalk(m, e, va) = m BY <1>1 DEF PgdirWalk
  <2>2. TableFits(m, e, va) BY <1>1 DEF TableFits
  <2> QED BY <1>1, <2>1, <2>2 DEF SameExtra
<1>2. CASE m.table[e][t] = NULL /\ m.free = {}
  <2>1. PgdirWalk(m, e, va) = Exhausted(m) BY <1>2 DEF PgdirWalk
  <2>2. ~TableFits(m, e, va) BY <1>2 DEF TableFits
  <2> DEFINE x == Exhausted(m)
  <2>3. /\ x.free = m.free /\ x.dir = m.dir /\ x.table = m.table /\ x.pte = m.pte
        /\ x.exhausted = TRUE /\ Sound(x) /\ SameExtra(m, x)
    BY Exhausts
  <2> HIDE DEF x
  <2>4. \A n, held : NoneLost(x, n, held) BY <2>3 DEF NoneLost
  <2> QED BY <1>2, <2>1, <2>2, <2>3, <2>4 DEF x
<1>3. CASE m.table[e][t] = NULL /\ m.free # {}
  <2>1. PgdirWalk(m, e, va) = w BY <1>3 DEF PgdirWalk
  <2>2. TableFits(m, e, va) BY <1>3 DEF TableFits
  <2>3. /\ p \in Pages /\ p \in m.free /\ a.ref[p] = 0
        /\ a.free = m.free \ {p} /\ a.ref = m.ref
        /\ a.dir = m.dir /\ a.table = m.table /\ a.pte = m.pte
        /\ a.exhausted = m.exhausted
        /\ Sound(a) /\ SameExtra(m, a)
    BY <1>3, Allocated
  <2> HIDE DEF a, p, t
  <2>4. /\ DOMAIN w = Fields /\ w.free = a.free /\ w.ref = [a.ref EXCEPT ![p] = @ + 1]
        /\ w.dir = a.dir /\ w.table = [a.table EXCEPT ![e][t] = p] /\ w.pte = a.pte
        /\ w.exhausted = a.exhausted /\ w.panic = a.panic
    BY <2>3 DEF Sound, Fields
  <2> HIDE DEF w
  <2>5. /\ w.ref \in [Pages -> Nat] /\ w.ref[p] = 1
        /\ \A q \in Pages : w.ref[q] = a.ref[q] + Is(p, q)
    BY <2>3, <2>4 DEF Sound, Is
  <2>6. /\ w.table \in [Envs -> [Tables -> Pages \cup {NULL}]] /\ w.table[e][t] = p
        /\ \A f \in Envs, u \in Tables : f # e \/ u # t => w.table[f][u] = a.table[f][u]
    BY <1>0, <2>3, <2>4 DEF Sound
  <2>7. \A q \in Pages : Refs(w, q) = Refs(a, q) + Is(p, q)
    <3>1. SUFFICES ASSUME NEW q \in Pages PROVE Refs(w, q) = Refs(a, q) + Is(p, q)
      OBVIOUS
    <3>2. Refs(w, q) = Refs(a, q) - Is(a.table[e][t], q) + Is(w.table[e][t], q)
      <4>1. OnlyTable(a, w, e, t) BY <2>4, <2>6 DEF OnlyTable
      <4> QED BY <1>0, <4>1, TableChanges
    <3>3. Is(a.table[e][t], q) = 0 BY <1>3, <2>3, PagesAreNot DEF Is
    <3> QED BY <2>6, <3>2, <3>3, FiniteRefs DEF Is
  <2>8. p # NULL BY <2>3, PagesAreNot
  <2>9. Sound(w)
    <3>1. \A q \in w.free : w.ref[q] = 0 BY <2>3, <2>4, <2>5 DEF Sound, Is
    <3>2. \A q \in Pages : Refs(w, q) <= w.ref[q]
      BY <2>3, <2>5, <2>7, FiniteRefs DEF Sound, Is
    <3>3. \A f \in Envs, v \in Vas : w.pte[f][v] # Unmapped => w.table[f][PDX(v)] # NULL
      BY <2>3, <2>4, <2>6, <2>8, TableOfAddress DEF Sound
    <3> QED BY <2>3, <2>4, <2>5, <2>6, <3>1, <3>2, <3>3 DEF Sound
  <2>10. SameExtra(a, w)
    <3>1. \A q \in Pages : a.ref[q] \in Nat /\ Refs(a, q) \in Nat /\ Is(p, q) \in Nat
      BY <2>3, FiniteRefs DEF Sound, Is
    <3> QED BY <2>5, <2>7, <3>1 DEF SameExtra, Extra
  <2>11. \A n, held : NoneLost(m, n, held) => NoneLost(w, n, held)
    <3>1. SUFFICES ASSUME NEW n, NEW held, NoneLost(m, n, held), ~w.exhausted,
                          NEW q \in Pages \ held, q <= n, w.ref[q] = 0
                   PROVE  q \in w.free
      BY DEF NoneLost
    <3>2. q # p BY <2>5, <3>1
    <3>3. w.ref[q] = m.ref[q]
      BY <2>3, <2>5, <3>1, <3>2 DEF Is, Sound
    <3> QED BY <2>3, <2>4, <3>1, <3>2, <3>3 DEF NoneLost
  <2>12. \A f \in Envs, u \in Tables :
           \/ w.table[f][u] = m.table[f][u]
           \/ f = e /\ m.table[f][u] = NULL
    BY <1>3, <2>3, <2>6
  <2> QED BY <2>1, <2>2, <2>3, <2>4, <2>6, <2>8, <2>9, <2>10, <2>11, <2>12 DEF SameExtra, t
<1> QED BY <1>1, <1>2, <1>3

(* page_remove *)
LEMMA Removed ==
  ASSUME NEW m, Sound(m), NEW e \in Envs, NEW va \in Vas
  PROVE  LET r == PageRemove(m, e, va)
         IN  /\ Sound(r) /\ SameExtra(m, r)
             /\ r.dir = m.dir /\ r.table = m.table /\ r.exhausted = m.exhausted
             /\ OnlyPte(m, r, e, va) /\ r.pte[e][va] = Unmapped
             /\ \A n, held : NoneLost(m, n, held) => NoneLost(r, n, held)
<1> DEFINE q == m.pte[e][va].page
           d == PageDecref(m, q)
           r == [d EXCEPT !.pte[e][va] = Unmapped]
<1>1. CASE m.pte[e][va] = Unmapped
  <2>1. PageRemove(m, e, va) = m BY <1>1 DEF PageRemove
  <2> QED BY <1>1, <2>1 DEF SameExtra, OnlyPte
<1>2. CASE m.pte[e][va] # Unmapped
  <2>1. PageRemove(m, e, va) = r BY <1>2 DEF PageRemove
  <2>2. q \in Pages BY <1>2, PteKinds DEF Sound
  <2>3. m.ref[q] >= 1
    <3>1. Refs(m, q) >= 1 BY Referenced
    <3>2. Refs(m, q) <= m.ref[q] BY <2>2 DEF Sound
    <3>3. m.ref[q] \in Nat /\ Refs(m, q) \in Nat BY <2>2, FiniteRefs DEF Sound
    <3> QED BY <3>1, <3>2, <3>3
  <2>4. /\ DOMAIN d = Fields
        /\ d.dir = m.dir /\ d.table = m.table /\ d.pte = m.pte
        /\ d.exhausted = m.exhausted /\ d.panic = m.panic
        /\ d.ref = [m.ref EXCEPT ![q] = @ - 1]
        /\ d.free = IF m.ref[q] = 1 THEN m.free \cup {q} ELSE m.free
    <3> HIDE DEF q
    <3> QED BY <2>2, <2>3, Decreffed DEF Sound
  <2> HIDE DEF d
  <2>5. /\ DOMAIN r = Fields /\ r.free = d.free /\ r.ref = d.ref
        /\ r.dir = d.dir /\ r.table = d.table /\ r.pte = [d.pte EXCEPT ![e][va] = Unmapped]
        /\ r.exhausted = d.exhausted /\ r.panic = d.panic
    BY <2>4 DEF Fields
  <2> HIDE DEF r
  <2>6. /\ r.pte \in [Envs -> [Vas -> Ptes]] /\ r.pte[e][va] = Unmapped
        /\ \A f \in Envs, v \in Vas : f # e \/ v # va => r.pte[f][v] = m.pte[f][v]
    BY <2>4, <2>5, PteKinds DEF Sound
  <2>7. OnlyPte(m, r, e, va) BY <2>4, <2>5, <2>6 DEF OnlyPte
  <2>8. \A p \in Pages : Refs(r, p) = Refs(m, p) - Is(q, p)
    <3>1. SUFFICES ASSUME NEW p \in Pages PROVE Refs(r, p) = Refs(m, p) - Is(q, p)
      OBVIOUS
    <3>2. Refs(r, p) = Refs(m, p) - Is(m.pte[e][va].page, p) + Is(r.pte[e][va].page, p)
      BY <2>7, PteChanges
    <3>3. Is(r.pte[e][va].page, p) = 0
      BY <2>6, PteKinds DEF Is
    <3>4. Refs(m, p) \in Nat /\ Is(q, p) \in Nat BY FiniteRefs DEF Is
    <3> QED BY <3>2, <3>3, <3>4
  <2> HIDE DEF q
  <2>9. /\ r.ref \in [Pages -> Nat]
        /\ \A p \in Pages : r.ref[p] = m.ref[p] - Is(q, p)
    BY <2>2, <2>3, <2>4, <2>5 DEF Sound, Is
  <2>10. \A p \in Pages : m.ref[p] \in Nat /\ Refs(m, p) \in Nat /\ Is(q, p) \in Nat
    BY FiniteRefs DEF Sound, Is
  <2>11. SameExtra(m, r) BY <2>8, <2>9, <2>10 DEF SameExtra, Extra
  <2>12. Sound(r)
    <3>1. r.free \subseteq Pages /\ \A p \in r.free : r.ref[p] = 0
      BY <2>2, <2>3, <2>4, <2>5, <2>9, <2>10 DEF Sound, Is
    <3>2. \A p \in Pages : Refs(r, p) <= r.ref[p]
      BY <2>8, <2>9, <2>10 DEF Sound
    <3>3. \A f \in Envs, v \in Vas : r.pte[f][v] # Unmapped => r.table[f][PDX(v)] # NULL
      BY <2>4, <2>5, <2>6 DEF Sound
    <3> QED BY <2>4, <2>5, <2>6, <2>9, <3>1, <3>2, <3>3 DEF Sound
  <2>13. \A n, held : NoneLost(m, n, held) => NoneLost(r, n, held)
    <3>1. SUFFICES ASSUME NEW n, NEW held, NoneLost(m, n, held), ~r.exhausted,
                          NEW p \in Pages \ held, p <= n, r.ref[p] = 0
                   PROVE  p \in r.free
      BY DEF NoneLost
    <3>2. CASE p = q BY <2>2, <2>3, <2>4, <2>5, <2>9, <2>10, <3>1, <3>2 DEF Is
    <3>3. CASE p # q
      <4>1. m.ref[p] = 0 BY <2>9, <2>10, <3>1, <3>3 DEF Is
      <4>2. p \in m.free BY <2>4, <2>5, <3>1, <4>1 DEF NoneLost
      <4> QED BY <2>4, <2>5, <4>2
    <3> QED BY <3>2, <3>3
  <2> QED BY <2>1, <2>4, <2>5, <2>6, <2>7, <2>11, <2>12, <2>13
<1> QED BY <1>1, <1>2

(* What an operator may do to the memory for the sake of environment e:    *)
(* nothing to the address spaces of the others, nothing to the page        *)
(* directory, and no page is lost unless memory does not suffice.          *)
Fine(m, r, e) ==
  /\ Sound(r) /\ SameExtra(m, r) /\ r.dir = m.dir
  /\ \A f \in Envs \ {e} : r.pte[f] = m.pte[f] /\ r.table[f] = m.table[f]
  /\ m.exhausted => r.exhausted
  /\ \A n : NoneLost(m, n, {}) => NoneLost(r, n, {})

OthersKept(m, r, e, va) ==
  /\ \A v \in Vas \ {va} : r.pte[e][v] = m.pte[e][v]
  /\ \A t \in Tables : m.table[e][t] # NULL => r.table[e][t] # NULL

LEMMA FunctionsOfAddresses ==
  ASSUME NEW m, NEW r, Sound(m), Sound(r), NEW f \in Envs
  PROVE  /\ (\A v \in Vas : r.pte[f][v] = m.pte[f][v]) => r.pte[f] = m.pte[f]
         /\ (\A t \in Tables : r.table[f][t] = m.table[f][t]) => r.table[f] = m.table[f]
<1>1. r.pte[f] \in [Vas -> Ptes] /\ m.pte[f] \in [Vas -> Ptes] BY DEF Sound
<1>2. /\ r.table[f] \in [Tables -> Pages \cup {NULL}] /\ m.table[f] \in [Tables -> Pages \cup {NULL}]
  BY DEF Sound
<1> QED BY <1>1, <1>2

LEMMA RemovedFine ==
  ASSUME NEW m, Sound(m), NEW e \in Envs, NEW va \in Vas
  PROVE  LET r == PageRemove(m, e, va)
         IN  /\ Fine(m, r, e) /\ r.table = m.table
             /\ r.pte[e][va] = Unmapped /\ \A v \in Vas \ {va} : r.pte[e][v] = m.pte[e][v]
<1> DEFINE r == PageRemove(m, e, va)
<1>1. /\ Sound(r) /\ SameExtra(m, r)
      /\ r.dir = m.dir /\ r.table = m.table /\ r.exhausted = m.exhausted
      /\ OnlyPte(m, r, e, va) /\ r.pte[e][va] = Unmapped
      /\ \A n, held : NoneLost(m, n, held) => NoneLost(r, n, held)
  BY Removed
<1> HIDE DEF r
<1>2. \A f \in Envs \ {e} : r.pte[f] = m.pte[f]
  BY <1>1, FunctionsOfAddresses DEF OnlyPte
<1> QED BY <1>1, <1>2 DEF Fine, OnlyPte, r

(* page_insert of a page that is not free: it is mapped, or memory does    *)
(* not suffice and no mapping changes.                                     *)
LEMMA Inserted ==
  ASSUME NEW m, Sound(m), NEW e \in Envs, NEW va \in Vas,
         NEW p \in Pages, p \notin m.free, NEW perm \in Perms
  PROVE  LET r == PageInsert(m, e, p, va, perm)
         IN  /\ Sound(r) /\ SameExtra(m, r) /\ r.dir = m.dir
             /\ \A f \in Envs \ {e} : r.pte[f] = m.pte[f] /\ r.table[f] = m.table[f]
             /\ m.exhausted => r.exhausted
             /\ \A n : NoneLost(m, n, {p}) => NoneLost(r, n, {})
             /\ OthersKept(m, r, e, va)
             /\ IF TableFits(m, e, va) THEN r.pte[e][va] = Pte(p, perm)
                ELSE r.pte = m.pte /\ r.exhausted = TRUE
<1> DEFINE w == PgdirWalk(m, e, va)
           u == [w EXCEPT !.ref[p] = @ + 1]
           x == PageRemove(u, e, va)
           r == [x EXCEPT !.pte[e][va] = Pte(p, perm)]
<1>1. /\ Sound(w) /\ SameExtra(m, w)
      /\ w.free \subseteq m.free /\ w.dir = m.dir /\ w.pte = m.pte
      /\ \A f \in Envs, t \in Tables : \/ w.table[f][t] = m.table[f][t]
                                       \/ f = e /\ m.table[f][t] = NULL
      /\ w.table[e][PDX(va)] # NULL <=> TableFits(m, e, va)
      /\ IF TableFits(m, e, va) THEN w.exhausted = m.exhausted ELSE w.exhausted = TRUE
      /\ \A n, held : NoneLost(m, n, held) => NoneLost(w, n, held)
  BY Walked
<1>2. PageInsert(m, e, p, va, perm) = IF w.table[e][PDX(va)] = NULL THEN w ELSE r
  BY DEF PageInsert
<1> HIDE DEF w
<1>3. \A f \in Envs \ {e} : w.table[f] = m.table[f]
  BY <1>1, FunctionsOfAddresses
<1>4. \A t \in Tables : m.table[e][t] # NULL => w.table[e][t] # NULL
  BY <1>1
<1>5. CASE ~TableFits(m, e, va)
  <2>1. \A n : NoneLost(w, n, {}) BY <1>1, <1>5 DEF NoneLost
  <2> QED BY <1>1, <1>2, <1>3, <1>4, <1>5, <2>1 DEF OthersKept
<1>6. CASE TableFits(m, e, va)
  <2>1. PageInsert(m, e, p, va, perm) = r BY <1>1, <1>2, <1>6
  <2>2. /\ DOMAIN u = Fields /\ u.free = w.free /\ u.ref = [w.ref EXCEPT ![p] = @ + 1]
        /\ u.dir = w.dir /\ u.table = w.table /\ u.pte = w.pte
        /\ u.exhausted = w.exhausted /\ u.panic = w.panic
    BY <1>1 DEF Sound, Fields
  <2> HIDE DEF u
  <2>3. /\ u.ref \in [Pages -> Nat] /\ u.ref[p] >= 1
        /\ \A q \in Pages : u.ref[q] = w.ref[q] + Is(p, q)
    BY <1>1, <2>2 DEF Sound, Is
  <2>4. \A q : Refs(u, q) = Refs(w, q) BY <2>2, SameRefs
  <2>5. \A q \in Pages : w.ref[q] \in Nat /\ Refs(w, q) \in Nat /\ Is(p, q) \in Nat
                         /\ Refs(w, q) <= w.ref[q]
    BY <1>1, FiniteRefs DEF Sound, Is
  <2>6. Sound(u)
    <3>1. \A q \in u.free : u.ref[q] = 0 BY <1>1, <2>2, <2>3 DEF Sound, Is
    <3>2. \A q \in Pages : Refs(u, q) <= u.ref[q] BY <2>3, <2>4, <2>5
    <3> QED BY <1>1, <2>2, <2>3, <3>1, <3>2 DEF Sound
  <2>7. \A n : NoneLost(m, n, {p}) => NoneLost(u, n, {})
    <3>1. SUFFICES ASSUME NEW n, NoneLost(m, n, {p}), ~u.exhausted,
                          NEW q \in Pages, q <= n, u.ref[q] = 0
                   PROVE  q \in u.free
      BY DEF NoneLost
    <3>2. q # p BY <2>3, <3>1
    <3>3. w.ref[q] = 0 BY <2>3, <2>5, <3>1, <3>2 DEF Is
    <3>4. NoneLost(w, n, {p}) BY <1>1, <3>1
    <3> QED BY <2>2, <3>1, <3>2, <3>3, <3>4 DEF NoneLost
  <2>8. /\ Sound(x) /\ SameExtra(u, x)
        /\ x.dir = u.dir /\ x.table = u.table /\ x.exhausted = u.exhausted
        /\ OnlyPte(u, x, e, va) /\ x.pte[e][va] = Unmapped
        /\ \A n, held : NoneLost(u, n, held) => NoneLost(x, n, held)
    BY <2>6, Removed
  <2> HIDE DEF x
  <2>9. /\ DOMAIN r = Fields /\ r.free = x.free /\ r.ref = x.ref
        /\ r.dir = x.dir /\ r.table = x.table
        /\ r.pte = [x.pte EXCEPT ![e][va] = Pte(p, perm)]
        /\ r.exhausted = x.exhausted /\ r.panic = x.panic
    BY <2>8 DEF Sound, Fields
  <2> HIDE DEF r
  <2>10. /\ r.pte \in [Envs -> [Vas -> Ptes]] /\ r.pte[e][va] = Pte(p, perm)
         /\ \A f \in Envs, v \in Vas : f # e \/ v # va => r.pte[f][v] = x.pte[f][v]
    BY <2>8, <2>9, PteKinds DEF Sound
  <2>11. \A q \in Pages : Refs(r, q) = Refs(x, q) + Is(p, q)
    <3>1. SUFFICES ASSUME NEW q \in Pages PROVE Refs(r, q) = Refs(x, q) + Is(p, q)
      OBVIOUS
    <3>2. OnlyPte(x, r, e, va) BY <2>9, <2>10 DEF OnlyPte
    <3>3. Refs(r, q) = Refs(x, q) - Is(x.pte[e][va].page, q) + Is(r.pte[e][va].page, q)
      BY <3>2, PteChanges
    <3>4. Is(x.pte[e][va].page, q) = 0 BY <2>8, PteKinds DEF Is
    <3>5. r.pte[e][va].page = p BY <2>10, PteKinds
    <3>6. Refs(x, q) \in Nat /\ Is(p, q) \in Nat BY FiniteRefs DEF Is
    <3> QED BY <3>3, <3>4, <3>5, <3>6
  <2>12. \A q \in Pages : Extra(u, q) = Extra(w, q) + Is(p, q)
    BY <2>3, <2>4, <2>5 DEF Extra
  <2>13. \A q \in Pages : /\ x.ref[q] \in Nat /\ Refs(x, q) \in Nat /\ Is(p, q) \in Nat
                          /\ r.ref[q] = x.ref[q]
    BY <2>8, <2>9, FiniteRefs DEF Sound, Is
  <2>14. \A q \in Pages : Extra(r, q) = Extra(x, q) - Is(p, q)
    BY <2>11, <2>13 DEF Extra
  <2>15. \A q \in Pages : /\ Extra(w, q) \in Int /\ Extra(x, q) = Extra(u, q)
                          /\ Extra(w, q) = Extra(m, q) /\ Extra(w, q) >= 0
    BY <1>1, <2>5, <2>8 DEF SameExtra, Extra
  <2>16. SameExtra(m, r)
    BY <2>12, <2>13, <2>14, <2>15 DEF SameExtra
  <2>17. Sound(r)
    <3>1. \A q \in Pages : Extra(r, q) >= 0
      BY <2>12, <2>13, <2>14, <2>15
    <3>2. \A q \in Pages : Refs(r, q) <= r.ref[q]
      <4>1. \A q \in Pages : r.ref[q] \in Nat /\ Refs(r, q) \in Nat
        BY <2>13, FiniteRefs
      <4> QED BY <3>1, <4>1 DEF Extra
    <3>3. w.table[e][PDX(va)] # NULL BY <1>1, <1>6
    <3>4. \A f \in Envs, v \in Vas : r.pte[f][v] # Unmapped => r.table[f][PDX(v)] # NULL
      BY <2>2, <2>8, <2>9, <2>10, <3>3 DEF Sound
    <3> QED BY <2>8, <2>9, <2>10, <3>2, <3>4 DEF Sound
  <2>18. \A n : NoneLost(m, n, {p}) => NoneLost(r, n, {})
    BY <2>7, <2>8, <2>9 DEF NoneLost
  <2>19. \A f \in Envs, v \in Vas : f # e \/ v # va => r.pte[f][v] = m.pte[f][v]
    BY <1>1, <2>2, <2>8, <2>10 DEF OnlyPte
  <2>20. \A f \in Envs \ {e} : r.pte[f] = m.pte[f]
    BY <2>17, <2>19, FunctionsOfAddresses
  <2>21. \A f \in Envs \ {e} : r.table[f] = m.table[f]
    BY <1>3, <2>2, <2>8, <2>9
  <2>22. OthersKept(m, r, e, va)
    BY <1>4, <2>2, <2>8, <2>9, <2>19 DEF OthersKept
  <2> QED BY <1>1, <1>6, <2>1, <2>2, <2>8, <2>9, <2>10, <2>16, <2>17, <2>18, <2>20, <2>21, <2>22
<1> QED BY <1>5, <1>6

-----------------------------------------------------------------------------
(* The same for an environment *)

(* env_page_alloc: a new page is mapped, or no mapping changes. *)
LEMMA PageAllocated ==
  ASSUME NEW m, Sound(m), NEW e \in Envs, NEW va \in Vas, NEW perm \in Perms
  PROVE  LET r == EnvPageAlloc(m, e, va, perm)
         IN  /\ Fine(m, r, e) /\ OthersKept(m, r, e, va)
             /\ IF EnvPageAllocOK(m, e, va)
                THEN \E p \in Pages : r.pte[e][va] = Pte(p, perm)
                ELSE r.pte = m.pte /\ r.exhausted = TRUE
<1> DEFINE a == PageAlloc(m)
           p == Top(m.free)
           r == PageInsert(a, e, p, va, perm)
<1>1. CASE m.free = {}
  <2>1. EnvPageAlloc(m, e, va, perm) = Exhausted(m) /\ ~EnvPageAllocOK(m, e, va)
    BY <1>1 DEF EnvPageAlloc, EnvPageAllocOK
  <2> DEFINE x == Exhausted(m)
  <2>2. /\ x.dir = m.dir /\ x.table = m.table /\ x.pte = m.pte
        /\ x.exhausted = TRUE /\ Sound(x) /\ SameExtra(m, x)
    BY Exhausts
  <2> HIDE DEF x
  <2>3. Fine(m, x, e) BY <2>2 DEF Fine, NoneLost
  <2> QED BY <2>1, <2>2, <2>3 DEF OthersKept, x
<1>2. CASE m.free # {}
  <2>1. /\ p \in Pages /\ p \in m.free /\ a.ref[p] = 0
        /\ a.free = m.free \ {p} /\ a.ref = m.ref
        /\ a.dir = m.dir /\ a.table = m.table /\ a.pte = m.pte
        /\ a.exhausted = m.exhausted
        /\ Sound(a) /\ SameExtra(m, a)
    BY <1>2, Allocated
  <2>2. /\ EnvPageAlloc(m, e, va, perm) = r
        /\ EnvPageAllocOK(m, e, va) <=> TableFits(a, e, va)
    BY <1>2 DEF EnvPageAlloc, EnvPageAllocOK
  <2> HIDE DEF a, p
  <2>3. /\ Sound(r) /\ SameExtra(a, r) /\ r.dir = a.dir
        /\ \A f \in Envs \ {e} : r.pte[f] = a.pte[f] /\ r.table[f] = a.table[f]
        /\ a.exhausted => r.exhausted
        /\ \A n : NoneLost(a, n, {p}) => NoneLost(r, n, {})
        /\ OthersKept(a, r, e, va)
        /\ IF TableFits(a, e, va) THEN r.pte[e][va] = Pte(p, perm)
           ELSE r.pte = a.pte /\ r.exhausted = TRUE
    BY <2>1, Inserted
  <2> HIDE DEF r
  <2>4. \A n : NoneLost(m, n, {}) => NoneLost(a, n, {p}) BY <2>1 DEF NoneLost
  <2>5. SameExtra(m, r) BY <2>1, <2>3 DEF SameExtra
  <2>6. Fine(m, r, e) BY <2>1, <2>3, <2>4, <2>5 DEF Fine
  <2>7. OthersKept(m, r, e, va) BY <2>1, <2>3 DEF OthersKept
  <2> QED BY <2>1, <2>2, <2>3, <2>6, <2>7
<1> QED BY <1>1, <1>2

(* env_page_map: the page is shared, or no mapping changes. *)
Mapped(m, r, src, srcva, dst, dstva, perm) ==
  IF EnvPageMapOK(m, src, srcva, dst, dstva, perm)
  THEN r.pte[dst][dstva] = Pte(m.pte[src][srcva].page, perm)
  ELSE /\ r.pte = m.pte
       /\ \/ m.pte[src][srcva] = Unmapped
          \/ perm = "rw" /\ m.pte[src][srcva].perm # "rw"
          \/ r.exhausted = TRUE

LEMMA PageMapped ==
  ASSUME NEW m, Sound(m), NEW src \in Envs, NEW srcva \in Vas,
         NEW dst \in Envs, NEW dstva \in Vas, NEW perm \in Perms
  PROVE  LET r == EnvPageMap(m, src, srcva, dst, dstva, perm)
         IN  /\ Fine(m, r, dst) /\ OthersKept(m, r, dst, dstva)
             /\ Mapped(m, r, src, srcva, dst, dstva, perm)
<1> DEFINE p == m.pte[src][srcva].page
           refused == m.pte[src][srcva] = Unmapped \/ (perm = "rw" /\ m.pte[src][srcva].perm # "rw")
           r == EnvPageMap(m, src, srcva, dst, dstva, perm)
<1>1. EnvPageMapOK(m, src, srcva, dst, dstva, perm) <=> ~refused /\ TableFits(m, dst, dstva)
  BY DEF EnvPageMapOK
<1>2. CASE refused
  <2>1. r = m BY <1>2 DEF EnvPageMap
  <2>2. Fine(m, m, dst) BY DEF Fine, SameExtra
  <2>3. OthersKept(m, m, dst, dstva) BY DEF OthersKept
  <2> HIDE DEF r, refused
  <2>4. m.pte[src][srcva] = Unmapped \/ (perm = "rw" /\ m.pte[src][srcva].perm # "rw")
    BY <1>2 DEF refused
  <2> QED BY <1>1, <1>2, <2>1, <2>2, <2>3, <2>4 DEF r, Mapped
<1>3. CASE ~refused
  <2>1. r = PageInsert(m, dst, p, dstva, perm) BY <1>3 DEF EnvPageMap
  <2>2. p \in Pages
    <3>1. m.pte[src][srcva] \in Ptes BY DEF Sound
    <3> QED BY <1>3, <3>1, PteKinds
  <2>3. p \notin m.free
    <3>1. Refs(m, p) >= 1 BY Referenced
    <3>2. Refs(m, p) <= m.ref[p] /\ m.ref[p] \in Nat /\ Refs(m, p) \in Nat
      BY <2>2, FiniteRefs DEF Sound
    <3>3. m.ref[p] # 0 BY <3>1, <3>2
    <3> QED BY <3>3 DEF Sound
  <2> HIDE DEF p, r, refused
  <2> DEFINE i == PageInsert(m, dst, p, dstva, perm)
  <2>4. /\ Sound(i) /\ SameExtra(m, i) /\ i.dir = m.dir
        /\ \A f \in Envs \ {dst} : i.pte[f] = m.pte[f] /\ i.table[f] = m.table[f]
        /\ m.exhausted => i.exhausted
        /\ \A n : NoneLost(m, n, {p}) => NoneLost(i, n, {})
        /\ OthersKept(m, i, dst, dstva)
        /\ IF TableFits(m, dst, dstva) THEN i.pte[dst][dstva] = Pte(p, perm)
           ELSE i.pte = m.pte /\ i.exhausted = TRUE
    BY <2>2, <2>3, Inserted
  <2>5. r = i BY <2>1
  <2> HIDE DEF i
  <2>6. /\ Sound(r) /\ SameExtra(m, r) /\ r.dir = m.dir
        /\ \A f \in Envs \ {dst} : r.pte[f] = m.pte[f] /\ r.table[f] = m.table[f]
        /\ m.exhausted => r.exhausted
        /\ \A n : NoneLost(m, n, {p}) => NoneLost(r, n, {})
        /\ OthersKept(m, r, dst, dstva)
        /\ IF TableFits(m, dst, dstva) THEN r.pte[dst][dstva] = Pte(p, perm)
           ELSE r.pte = m.pte /\ r.exhausted = TRUE
    BY <2>4, <2>5
  <2>7. \A n : NoneLost(m, n, {}) => NoneLost(m, n, {p}) BY DEF NoneLost
  <2>8. Fine(m, r, dst) BY <2>6, <2>7 DEF Fine
  <2> QED BY <1>1, <1>3, <2>6, <2>8 DEF p, r, Mapped
<1> QED BY <1>2, <1>3

(* env_setup_vm, for an environment without a page directory. *)
LEMMA VmSetUp ==
  ASSUME NEW m, Sound(m), NEW e \in Envs, m.dir[e] = NULL, m.free # {}
  PROVE  LET r == EnvSetupVm(m, e)
         IN  /\ Sound(r) /\ SameExtra(m, r)
             /\ r.pte = m.pte /\ r.table = m.table /\ r.exhausted = m.exhausted
             /\ r.dir[e] \in Pages /\ \A f \in Envs \ {e} : r.dir[f] = m.dir[f]
             /\ \A n : NoneLost(m, n, {}) => NoneLost(r, n, {})
<1> DEFINE a == PageAlloc(m)
           p == Top(m.free)
           r == [a EXCEPT !.ref[p] = @ + 1, !.dir[e] = p]
<1>1. /\ p \in Pages /\ p \in m.free /\ a.ref[p] = 0
      /\ a.free = m.free \ {p} /\ a.ref = m.ref
      /\ a.dir = m.dir /\ a.table = m.table /\ a.pte = m.pte
      /\ a.exhausted = m.exhausted
      /\ Sound(a) /\ SameExtra(m, a)
  BY Allocated
<1>2. EnvSetupVm(m, e) = r BY DEF EnvSetupVm
<1> HIDE DEF a, p
<1>3. /\ DOMAIN r = Fields /\ r.free = a.free /\ r.ref = [a.ref EXCEPT ![p] = @ + 1]
      /\ r.dir = [a.dir EXCEPT ![e] = p] /\ r.table = a.table /\ r.pte = a.pte
      /\ r.exhausted = a.exhausted /\ r.panic = a.panic
  BY <1>1 DEF Sound, Fields
<1> HIDE DEF r
<1>4. /\ r.ref \in [Pages -> Nat] /\ \A q \in Pages : r.ref[q] = a.ref[q] + Is(p, q)
  BY <1>1, <1>3 DEF Sound, Is
<1>5. /\ r.dir \in [Envs -> Pages \cup {NULL}] /\ r.dir[e] = p
      /\ \A f \in Envs \ {e} : r.dir[f] = m.dir[f]
  BY <1>1, <1>3 DEF Sound
<1>6. \A q \in Pages : a.ref[q] \in Nat /\ Refs(a, q) \in Nat /\ Is(p, q) \in Nat
  BY <1>1, FiniteRefs DEF Sound, Is
<1>7. \A q \in Pages : Refs(r, q) = Refs(a, q) + Is(p, q)
  <2>1. SUFFICES ASSUME NEW q \in Pages PROVE Refs(r, q) = Refs(a, q) + Is(p, q)
    OBVIOUS
  <2>2. OnlyDir(a, r, e) BY <1>1, <1>3, <1>5 DEF OnlyDir
  <2>3. Refs(r, q) = Refs(a, q) - Is(a.dir[e], q) + Is(r.dir[e], q) BY <2>2, DirChanges
  <2>4. Is(a.dir[e], q) = 0 BY <1>1, PagesAreNot DEF Is
  <2> QED BY <1>5, <1>6, <2>3, <2>4
<1>8. SameExtra(m, r) BY <1>1, <1>4, <1>6, <1>7 DEF SameExtra, Extra
<1>9. Sound(r)
  <2>1. \A q \in r.free : r.ref[q] = 0 BY <1>1, <1>3, <1>4 DEF Sound, Is
  <2>2. \A q \in Pages : Refs(r, q) <= r.ref[q] BY <1>1, <1>4, <1>6, <1>7 DEF Sound
  <2> QED BY <1>1, <1>3, <1>4, <1>5, <2>1, <2>2 DEF Sound
<1>10. \A n : NoneLost(m, n, {}) => NoneLost(r, n, {})
  <2>1. SUFFICES ASSUME NEW n, NoneLost(m, n, {}), ~r.exhausted,
                        NEW q \in Pages, q <= n, r.ref[q] = 0
                 PROVE  q \in r.free
    BY DEF NoneLost
  <2>2. q # p BY <1>1, <1>4, <2>1 DEF Is
  <2>3. m.ref[q] = 0 BY <1>1, <1>4, <1>6, <2>1, <2>2 DEF Is
  <2> QED BY <1>1, <1>3, <2>1, <2>2, <2>3 DEF NoneLost
<1> QED BY <1>1, <1>2, <1>3, <1>5, <1>8, <1>9, <1>10

(* A pointer to q is gone from the memory m, which leaves x: page_decref   *)
(* gives the reference back, and the page if it was the last.              *)
LEMMA PointerGone ==
  ASSUME NEW m, Sound(m), NEW x, NEW q \in Pages,
         DOMAIN x = Fields, x.free = m.free, x.ref = m.ref,
         x.exhausted = m.exhausted, x.panic = m.panic,
         x.dir \in [Envs -> Pages \cup {NULL}],
         x.table \in [Envs -> [Tables -> Pages \cup {NULL}]],
         x.pte \in [Envs -> [Vas -> Ptes]],
         \A f \in Envs, v \in Vas : x.pte[f][v] # Unmapped => x.table[f][PDX(v)] # NULL,
         \A p \in Pages : Refs(x, p) = Refs(m, p) - Is(q, p),
         Refs(m, q) >= 1
  PROVE  LET d == PageDecref(x, q)
         IN  /\ Sound(d) /\ SameExtra(m, d)
             /\ d.dir = x.dir /\ d.table = x.table /\ d.pte = x.pte
             /\ d.exhausted = m.exhausted
             /\ \A n : NoneLost(m, n, {}) => NoneLost(d, n, {})
<1> DEFINE d == PageDecref(x, q)
<1>1. \A p \in Pages : /\ m.ref[p] \in Nat /\ Refs(m, p) \in Nat /\ Is(q, p) \in Nat
                       /\ Refs(m, p) <= m.ref[p]
  BY FiniteRefs DEF Sound, Is
<1>2. /\ m.ref[q] >= 1 /\ x.ref[q] >= 1
      /\ x.free \subseteq Pages /\ x.ref \in [Pages -> Nat]
      /\ \A p \in x.free : x.ref[p] = 0
  BY <1>1 DEF Sound
<1>3. /\ DOMAIN d = Fields
      /\ d.dir = x.dir /\ d.table = x.table /\ d.pte = x.pte
      /\ d.exhausted = m.exhausted /\ d.panic = m.panic
      /\ d.ref = [m.ref EXCEPT ![q] = @ - 1]
      /\ d.free = IF m.ref[q] = 1 THEN m.free \cup {q} ELSE m.free
  <2>1. /\ DOMAIN d = Fields
        /\ d.dir = x.dir /\ d.table = x.table /\ d.pte = x.pte
        /\ d.exhausted = x.exhausted /\ d.panic = x.panic
        /\ d.ref = [x.ref EXCEPT ![q] = @ - 1]
        /\ d.free = IF x.ref[q] = 1 THEN x.free \cup {q} ELSE x.free
    BY <1>2, Decreffed
  <2> HIDE DEF d
  <2> QED BY <2>1
<1> HIDE DEF d
<1>4. \A p : Refs(d, p) = Refs(x, p) BY <1>3, SameRefs
<1>5. d.ref \in [Pages -> Nat] /\ \A p \in Pages : d.ref[p] = m.ref[p] - Is(q, p)
  <2>1. m.ref \in [Pages -> Nat] BY DEF Sound
  <2>2. \A p \in Pages : d.ref[p] = m.ref[p] - Is(q, p) BY <1>1, <1>3, <2>1 DEF Is
  <2>3. \A p \in Pages : d.ref[p] \in Nat BY <1>1, <1>2, <2>2 DEF Is
  <2> QED BY <1>3, <2>1, <2>2, <2>3
<1>6. \A p \in Pages : Refs(d, p) = Refs(m, p) - Is(q, p) BY <1>4
<1>7. SameExtra(m, d) BY <1>1, <1>5, <1>6 DEF SameExtra, Extra
<1>8. Sound(d)
  <2>1. d.free \subseteq Pages /\ \A p \in d.free : d.ref[p] = 0
    BY <1>1, <1>2, <1>3, <1>5 DEF Sound, Is
  <2>2. \A p \in Pages : Refs(d, p) <= d.ref[p] BY <1>1, <1>5, <1>6
  <2> QED BY <1>3, <1>5, <2>1, <2>2 DEF Sound
<1>9. \A n : NoneLost(m, n, {}) => NoneLost(d, n, {})
  <2>1. SUFFICES ASSUME NEW n, NoneLost(m, n, {}), ~d.exhausted,
                        NEW p \in Pages, p <= n, d.ref[p] = 0
                 PROVE  p \in d.free
    BY DEF NoneLost
  <2>2. CASE p = q BY <1>1, <1>2, <1>3, <1>5, <2>1, <2>2 DEF Is
  <2>3. CASE p # q
    <3>1. m.ref[p] = 0 BY <1>1, <1>5, <2>1, <2>3 DEF Is
    <3>2. p \in m.free BY <1>3, <2>1, <3>1 DEF NoneLost
    <3> QED BY <1>3, <3>2
  <2> QED BY <2>2, <2>3
<1> QED BY <1>3, <1>7, <1>8, <1>9 DEF d

(* What the mappings of one table become when env_free empties it. *)
LEMMA TableEmptied ==
  ASSUME NEW m, Sound(m), NEW e \in Envs, NEW t \in Tables
  PROVE  LET r == Emptied(m, e, t)
         IN  /\ Fine(m, r, e) /\ r.table = m.table
             /\ \A v \in Vas : r.pte[e][v] = IF PDX(v) = t THEN Unmapped ELSE m.pte[e][v]
<1> DEFINE r == Emptied(m, e, t)
<1>1. ASSUME NEW a \in Vas, NEW b \in Vas, a # b
      PROVE  LET x == PageRemove(PageRemove(m, e, a), e, b)
             IN  /\ Fine(m, x, e) /\ x.table = m.table
                 /\ x.pte[e][a] = Unmapped /\ x.pte[e][b] = Unmapped
                 /\ \A v \in Vas \ {a, b} : x.pte[e][v] = m.pte[e][v]
  <2> DEFINE n == PageRemove(m, e, a)
             x == PageRemove(n, e, b)
  <2>1. /\ Fine(m, n, e) /\ n.table = m.table
        /\ n.pte[e][a] = Unmapped /\ \A v \in Vas \ {a} : n.pte[e][v] = m.pte[e][v]
    BY RemovedFine
  <2> HIDE DEF n
  <2>2. Sound(n) BY <2>1 DEF Fine
  <2>3. /\ Fine(n, x, e) /\ x.table = n.table
        /\ x.pte[e][b] = Unmapped /\ \A v \in Vas \ {b} : x.pte[e][v] = n.pte[e][v]
    BY <2>2, RemovedFine
  <2> HIDE DEF x
  <2>4. Fine(m, x, e) BY <2>1, <2>3 DEF Fine, SameExtra
  <2> QED BY <1>1, <2>1, <2>3, <2>4 DEF n, x
<1>2. CASE t = 1
  <2>1. r = PageRemove(m, e, "TEMP") BY <1>2 DEF Emptied
  <2>2. "TEMP" \in Vas BY Addresses
  <2> HIDE DEF r
  <2>3. /\ Fine(m, r, e) /\ r.table = m.table
        /\ r.pte[e]["TEMP"] = Unmapped /\ \A v \in Vas \ {"TEMP"} : r.pte[e][v] = m.pte[e][v]
    BY <2>1, <2>2, RemovedFine
  <2>4. \A v \in Vas : PDX(v) = 1 <=> v = "TEMP" BY Addresses DEF PDX
  <2> QED BY <1>2, <2>3, <2>4 DEF r
<1>3. CASE t = 2
  <2>1. r = PageRemove(PageRemove(m, e, "DATA"), e, "MSG") BY <1>3 DEF Emptied
  <2>2. "DATA" \in Vas /\ "MSG" \in Vas /\ "DATA" # "MSG" BY Addresses
  <2> HIDE DEF r
  <2>3. /\ Fine(m, r, e) /\ r.table = m.table
        /\ r.pte[e]["DATA"] = Unmapped /\ r.pte[e]["MSG"] = Unmapped
        /\ \A v \in Vas \ {"DATA", "MSG"} : r.pte[e][v] = m.pte[e][v]
    BY <2>1, <2>2, <1>1
  <2>4. \A v \in Vas : PDX(v) = 2 <=> v \in {"DATA", "MSG"} BY Addresses DEF PDX
  <2> QED BY <1>3, <2>3, <2>4 DEF r
<1>4. CASE t = 3
  <2>1. r = PageRemove(PageRemove(m, e, "STACK"), e, "XSTACK") BY <1>4 DEF Emptied
  <2>2. "STACK" \in Vas /\ "XSTACK" \in Vas /\ "STACK" # "XSTACK" BY Addresses
  <2> HIDE DEF r
  <2>3. /\ Fine(m, r, e) /\ r.table = m.table
        /\ r.pte[e]["STACK"] = Unmapped /\ r.pte[e]["XSTACK"] = Unmapped
        /\ \A v \in Vas \ {"STACK", "XSTACK"} : r.pte[e][v] = m.pte[e][v]
    BY <2>1, <2>2, <1>1
  <2>4. \A v \in Vas : PDX(v) = 3 <=> v \in {"STACK", "XSTACK"} BY Addresses DEF PDX
  <2> QED BY <1>4, <2>3, <2>4 DEF r
<1> QED BY <1>2, <1>3, <1>4 DEF Tables

(* A page table of e is emptied and given back. *)
LEMMA TableFreed ==
  ASSUME NEW m, Sound(m), NEW e \in Envs, NEW t \in Tables
  PROVE  LET r == FreeTable(m, e, t)
         IN  /\ Fine(m, r, e)
             /\ \A u \in Tables : r.table[e][u] = IF u = t THEN NULL ELSE m.table[e][u]
             /\ \A v \in Vas : r.pte[e][v] = IF PDX(v) = t THEN Unmapped ELSE m.pte[e][v]
<1> DEFINE q == m.table[e][t]
           n == Emptied(m, e, t)
           x == [n EXCEPT !.table[e][t] = NULL]
           r == PageDecref(x, q)
<1>1. CASE q = NULL
  <2>1. FreeTable(m, e, t) = m BY <1>1 DEF FreeTable
  <2>2. \A v \in Vas : PDX(v) = t => m.pte[e][v] = Unmapped BY <1>1 DEF Sound
  <2>3. Fine(m, m, e) BY DEF Fine, SameExtra
  <2> QED BY <1>1, <2>1, <2>2, <2>3
<1>2. CASE q # NULL
  <2>1. FreeTable(m, e, t) = r BY <1>2 DEF FreeTable
  <2>2. q \in Pages BY <1>2 DEF Sound
  <2>3. /\ Fine(m, n, e) /\ n.table = m.table
        /\ \A v \in Vas : n.pte[e][v] = IF PDX(v) = t THEN Unmapped ELSE m.pte[e][v]
    BY TableEmptied
  <2> HIDE DEF n
  <2>4. Sound(n) BY <2>3 DEF Fine
  <2>5. /\ DOMAIN x = Fields /\ x.free = n.free /\ x.ref = n.ref
        /\ x.dir = n.dir /\ x.table = [n.table EXCEPT ![e][t] = NULL] /\ x.pte = n.pte
        /\ x.exhausted = n.exhausted /\ x.panic = n.panic
    BY <2>4 DEF Sound, Fields
  <2> HIDE DEF x
  <2>6. /\ x.table \in [Envs -> [Tables -> Pages \cup {NULL}]] /\ x.table[e][t] = NULL
        /\ \A f \in Envs, u \in Tables : f # e \/ u # t => x.table[f][u] = n.table[f][u]
        /\ \A f \in Envs \ {e} : x.table[f] = n.table[f]
    BY <2>4, <2>5 DEF Sound
  <2>7. OnlyTable(n, x, e, t) BY <2>5, <2>6 DEF OnlyTable
  <2>8. \A p \in Pages : Refs(x, p) = Refs(n, p) - Is(q, p)
    <3>1. SUFFICES ASSUME NEW p \in Pages PROVE Refs(x, p) = Refs(n, p) - Is(q, p)
      OBVIOUS
    <3>2. Refs(x, p) = Refs(n, p) - Is(n.table[e][t], p) + Is(x.table[e][t], p)
      BY <2>7, TableChanges
    <3>3. Is(x.table[e][t], p) = 0 BY <2>6, PagesAreNot DEF Is
    <3>4. Refs(n, p) \in Nat /\ Is(q, p) \in Nat BY FiniteRefs DEF Is
    <3>5. n.table[e][t] = q BY <2>3
    <3> QED BY <3>2, <3>3, <3>4, <3>5
  <2>9. Refs(n, q) >= 1 BY <2>3, Referenced
  <2>10. \A f \in Envs, v \in Vas : x.pte[f][v] # Unmapped => x.table[f][PDX(v)] # NULL
    <3>1. SUFFICES ASSUME NEW f \in Envs, NEW v \in Vas, x.pte[f][v] # Unmapped
                   PROVE  x.table[f][PDX(v)] # NULL
      OBVIOUS
    <3>2. n.table[f][PDX(v)] # NULL BY <2>4, <2>5, <3>1 DEF Sound
    <3>3. f # e \/ PDX(v) # t BY <2>3, <2>5, <3>1
    <3> QED BY <2>6, <3>2, <3>3, TableOfAddress
  <2>11. x.dir \in [Envs -> Pages \cup {NULL}] /\ x.pte \in [Envs -> [Vas -> Ptes]]
    BY <2>4, <2>5 DEF Sound
  <2> HIDE DEF q
  <2>12. /\ Sound(r) /\ SameExtra(n, r)
         /\ r.dir = x.dir /\ r.table = x.table /\ r.pte = x.pte
         /\ r.exhausted = n.exhausted
         /\ \A k : NoneLost(n, k, {}) => NoneLost(r, k, {})
    BY <2>2, <2>4, <2>5, <2>6, <2>8, <2>9, <2>10, <2>11, PointerGone
  <2> HIDE DEF r
  <2>13. Fine(m, r, e) BY <2>3, <2>5, <2>6, <2>12 DEF Fine, SameExtra
  <2> QED BY <2>1, <2>3, <2>5, <2>6, <2>12, <2>13
<1> QED BY <1>1, <1>2

(* What an environment leaves of its address space, and of the others': *)
Gone(m, r, e) ==
  /\ Sound(r) /\ SameExtra(m, r)
  /\ r.dir[e] = NULL /\ \A f \in Envs \ {e} : r.dir[f] = m.dir[f]
  /\ \A f \in Envs \ {e} : r.pte[f] = m.pte[f] /\ r.table[f] = m.table[f]
  /\ \A v \in Vas : r.pte[e][v] = Unmapped
  /\ m.exhausted => r.exhausted
  /\ \A n : NoneLost(m, n, {}) => NoneLost(r, n, {})

(* The pages of env_free, for an environment with a page directory. *)
LEMMA PagesFreed ==
  ASSUME NEW m, Sound(m), NEW e \in Envs, m.dir[e] \in Pages
  PROVE  Gone(m, EnvFreePages(m, e), e)
<1> DEFINE a == FreeTable(m, e, 1)
           b == FreeTable(a, e, 2)
           c == FreeTable(b, e, 3)
           q == m.dir[e]
           x == [c EXCEPT !.dir[e] = NULL]
           r == PageDecref(x, q)
<1>0. 1 \in Tables /\ 2 \in Tables /\ 3 \in Tables BY DEF Tables
<1>1. EnvFreePages(m, e) = r BY DEF EnvFreePages
<1>2. /\ Fine(m, a, e)
      /\ \A v \in Vas : a.pte[e][v] = IF PDX(v) = 1 THEN Unmapped ELSE m.pte[e][v]
  BY <1>0, TableFreed
<1> HIDE DEF a
<1>3. Sound(a) BY <1>2 DEF Fine
<1>4. /\ Fine(a, b, e)
      /\ \A v \in Vas : b.pte[e][v] = IF PDX(v) = 2 THEN Unmapped ELSE a.pte[e][v]
  BY <1>0, <1>3, TableFreed
<1> HIDE DEF b
<1>5. Sound(b) BY <1>4 DEF Fine
<1>6. /\ Fine(b, c, e)
      /\ \A v \in Vas : c.pte[e][v] = IF PDX(v) = 3 THEN Unmapped ELSE b.pte[e][v]
  BY <1>0, <1>5, TableFreed
<1> HIDE DEF c
<1>7. Fine(m, c, e) BY <1>2, <1>4, <1>6 DEF Fine, SameExtra
<1>8. \A v \in Vas : c.pte[e][v] = Unmapped
  BY <1>2, <1>4, <1>6, TableOfAddress DEF Tables
<1>9. Sound(c) /\ c.dir = m.dir BY <1>7 DEF Fine
<1>10. /\ DOMAIN x = Fields /\ x.free = c.free /\ x.ref = c.ref
       /\ x.dir = [c.dir EXCEPT ![e] = NULL] /\ x.table = c.table /\ x.pte = c.pte
       /\ x.exhausted = c.exhausted /\ x.panic = c.panic
  BY <1>9 DEF Sound, Fields
<1> HIDE DEF x
<1>11. /\ x.dir \in [Envs -> Pages \cup {NULL}] /\ x.dir[e] = NULL
       /\ \A f \in Envs \ {e} : x.dir[f] = c.dir[f]
  BY <1>9, <1>10 DEF Sound
<1>12. OnlyDir(c, x, e) BY <1>10, <1>11 DEF OnlyDir
<1>13. \A p \in Pages : Refs(x, p) = Refs(c, p) - Is(q, p)
  <2>1. SUFFICES ASSUME NEW p \in Pages PROVE Refs(x, p) = Refs(c, p) - Is(q, p)
    OBVIOUS
  <2>2. Refs(x, p) = Refs(c, p) - Is(c.dir[e], p) + Is(x.dir[e], p)
    BY <1>12, DirChanges
  <2>3. Is(x.dir[e], p) = 0 BY <1>11, PagesAreNot DEF Is
  <2>4. Refs(c, p) \in Nat /\ Is(q, p) \in Nat BY FiniteRefs DEF Is
  <2> QED BY <1>9, <2>2, <2>3, <2>4
<1>14. Refs(c, q) >= 1 BY <1>9, Referenced
<1>15. /\ x.table \in [Envs -> [Tables -> Pages \cup {NULL}]]
       /\ x.pte \in [Envs -> [Vas -> Ptes]]
       /\ \A f \in Envs, v \in Vas : x.pte[f][v] # Unmapped => x.table[f][PDX(v)] # NULL
  BY <1>9, <1>10 DEF Sound
<1> HIDE DEF q
<1>16. q \in Pages BY DEF q
<1>17. /\ Sound(r) /\ SameExtra(c, r)
       /\ r.dir = x.dir /\ r.table = x.table /\ r.pte = x.pte
       /\ r.exhausted = c.exhausted
       /\ \A k : NoneLost(c, k, {}) => NoneLost(r, k, {})
  BY <1>9, <1>10, <1>11, <1>13, <1>14, <1>15, <1>16, PointerGone
<1> HIDE DEF r
<1>18. Gone(m, r, e)
  BY <1>7, <1>8, <1>10, <1>11, <1>17 DEF Gone, Fine, SameExtra
<1> QED BY <1>1, <1>18

(* A memory that differs in what the pages contain. *)
LEMMA ContentsOnly ==
  ASSUME NEW m, Sound(m), NEW f
  PROVE  LET r == [m EXCEPT !.data = f]
         IN  /\ r.free = m.free /\ r.ref = m.ref
             /\ r.dir = m.dir /\ r.table = m.table /\ r.pte = m.pte
             /\ r.exhausted = m.exhausted
             /\ \A e \in Envs, va \in Vas : Fine(m, r, e) /\ OthersKept(m, r, e, va)
<1> DEFINE r == [m EXCEPT !.data = f]
<1>1. /\ r.free = m.free /\ r.ref = m.ref
      /\ r.dir = m.dir /\ r.table = m.table /\ r.pte = m.pte
      /\ r.exhausted = m.exhausted /\ r.panic = m.panic /\ DOMAIN r = Fields
  BY DEF Sound, Fields
<1> HIDE DEF r
<1>2. \A q : Refs(r, q) = Refs(m, q) BY <1>1, SameRefs
<1>3. Sound(r) BY <1>1, <1>2 DEF Sound
<1>4. SameExtra(m, r) BY <1>1, <1>2 DEF SameExtra, Extra
<1>5. \A n : NoneLost(m, n, {}) => NoneLost(r, n, {}) BY <1>1 DEF NoneLost
<1> QED BY <1>1, <1>3, <1>4, <1>5 DEF Fine, OthersKept, r

(* What env_setup_vm does. *)
Born(m, r, e) ==
  /\ Sound(r) /\ SameExtra(m, r)
  /\ r.pte = m.pte /\ r.table = m.table /\ r.exhausted = m.exhausted
  /\ r.dir[e] \in Pages /\ \A f \in Envs \ {e} : r.dir[f] = m.dir[f]
  /\ \A n : NoneLost(m, n, {}) => NoneLost(r, n, {})

-----------------------------------------------------------------------------
(* The system *)

Statuses == {"FREE", "DYING", "RUNNABLE", "RUNNING", "NOT_RUNNABLE"}
Steps == {"none", "alloc", "copy", "map", "unmap"}

(* The program counters of a parent between sys_exofork and the system     *)
(* call that makes the child runnable, and those at a page of the loop.    *)
AtPage == {"dup_child", "dup_own", "copy_alloc", "copy_map", "copy", "copy_unmap"}
Building == AtPage \cup {"dup", "xstack", "child_upcall"}
Counter == Building \cup {"none", "killed", "panic", "send_panic", "kernel_panic", "child",
                          "user", "handler", "upcall", "save", "exofork", "status"}

EnvTypes ==
  [Envs -> [status : Statuses, parent : Envs \cup {NoEnv}, upcall : BOOLEAN,
            recving : BOOLEAN]]
UsrTypes ==
  [Envs -> [pc : Counter, handler : BOOLEAN, child : Envs \cup {NoEnv}, at : 1 .. 6,
            perm : Perms, fault : Vas \cup {"none"}, step : Steps]]
TlbTypes == [Envs -> [Vas -> Ptes]]
ProgramTypes == [npages : Nat, fork : {"fork", "fork_v0"}, forks : Nat, acts : Nat]

Typed ==
  /\ env \in EnvTypes /\ usr \in UsrTypes /\ tlb \in TlbTypes /\ program \in ProgramTypes
  /\ 1 .. program.npages \subseteq Pages

(* An environment has a page directory as long as its slot is in use. *)
Slots ==
  \A e \in Envs :
    /\ mem.dir[e] = NULL <=> env[e].status = "FREE"
    /\ env[e].status = "FREE" => env[e].parent = NoEnv
    /\ env[e].recving => env[e].status = "NOT_RUNNABLE"

(* A child that is being built stays where its parent left it, and nobody  *)
(* else's: the children of two parents are different.                      *)
Blocked(table, d) == table[d].status = "NOT_RUNNABLE" /\ ~table[d].recving
Children ==
  \A e \in Envs :
    /\ usr[e].pc \in Building \cup {"status"} => usr[e].child \in Envs \ {e}
    /\ usr[e].pc \in Building => env[usr[e].child].parent = e
    /\ usr[e].pc \in Building \cup {"status"} /\ env[usr[e].child].parent = e
         => Blocked(env, usr[e].child)
    /\ usr[e].pc \in AtPage => usr[e].at \in 1 .. 5

(* No page has references but those its pointers account for, and none is  *)
(* lost while memory suffices.                                             *)
Counted ==
  /\ Sound(mem)
  /\ \A p \in Pages : Extra(mem, p) = 0
  /\ NoneLost(mem, program.npages, {})

(* pgfault runs for an address. *)
Handling == \A e \in Envs : usr[e].step # "none" => usr[e].fault \in Vas

IInv == Typed /\ Slots /\ Children /\ Handling /\ Counted

(* A program counter is not one of those of a parent. *)
LEMMA Counters ==
  /\ {"none", "killed", "panic", "send_panic", "kernel_panic", "child", "user", "handler",
      "upcall", "save", "exofork", "status"} \subseteq Counter
  /\ {"send_panic", "kernel_panic"} \cap (Building \cup {"status"}) = {}
  /\ "user" \notin Building \cup {"status"} /\ "panic" \notin Building \cup {"status"}
  /\ "none" \notin Building \cup {"status"} /\ "killed" \notin Building \cup {"status"}
  /\ "child" \notin Building \cup {"status"} /\ "handler" \notin Building \cup {"status"}
  /\ "upcall" \notin Building \cup {"status"} /\ "save" \notin Building \cup {"status"}
  /\ "exofork" \notin Building \cup {"status"} /\ "status" \notin Building
  /\ Building \subseteq Counter /\ AtPage \subseteq Building
  /\ "dup" \in Building \ AtPage /\ "xstack" \in Building \ AtPage
  /\ "child_upcall" \in Building \ AtPage
  BY DEF Counter, Building, AtPage

(* A step of e that frees no environment and makes none: what it must keep *)
(* of the environments for the invariant to hold after it.                 *)
LEMMA Kept ==
  ASSUME IInv, NEW e \in Envs, NEW x \in Envs, Fine(mem, mem', x),
         env' \in EnvTypes, usr' \in UsrTypes, tlb' \in TlbTypes,
         program' \in ProgramTypes, program'.npages = program.npages,
         \A f \in Envs : /\ env'[f].parent = env[f].parent
                         /\ env'[f].status = "FREE" <=> env[f].status = "FREE"
                         /\ env'[f].recving => env'[f].status = "NOT_RUNNABLE"
                         /\ Blocked(env, f) /\ env[f].parent # e => Blocked(env', f),
         \A f \in Envs \ {e} : /\ usr'[f].pc = usr[f].pc /\ usr'[f].child = usr[f].child
                               /\ usr'[f].at = usr[f].at,
         \A f \in Envs : usr'[f].step # "none" => usr'[f].fault \in Vas,
         usr'[e].pc \in Building \cup {"status"} =>
           /\ usr[e].pc \in Building \/ usr[e].pc = usr'[e].pc
           /\ usr'[e].child = usr[e].child
           /\ \A f \in Envs : Blocked(env, f) => Blocked(env', f),
         usr'[e].pc \in AtPage => usr'[e].at \in 1 .. 5
  PROVE  IInv'
<1>1. Typed' BY DEF IInv, Typed
<1>2. Sound(mem') /\ SameExtra(mem, mem') /\ mem'.dir = mem.dir
      /\ \A n : NoneLost(mem, n, {}) => NoneLost(mem', n, {})
  BY DEF Fine
<1>3. Counted' BY <1>2 DEF IInv, Counted, SameExtra
<1>4. Slots' BY <1>2 DEF IInv, Slots
<1>5. Children'
  <2>1. SUFFICES ASSUME NEW f \in Envs
                 PROVE  /\ usr'[f].pc \in Building \cup {"status"} => usr'[f].child \in Envs \ {f}
                        /\ usr'[f].pc \in Building => env'[usr'[f].child].parent = f
                        /\ usr'[f].pc \in Building \cup {"status"} /\ env'[usr'[f].child].parent = f
                             => Blocked(env', usr'[f].child)
                        /\ usr'[f].pc \in AtPage => usr'[f].at \in 1 .. 5
    BY DEF Children, Blocked
  <2>2. /\ usr[f].pc \in Building \cup {"status"} => usr[f].child \in Envs \ {f}
        /\ usr[f].pc \in Building => env[usr[f].child].parent = f
        /\ usr[f].pc \in Building \cup {"status"} /\ env[usr[f].child].parent = f
             => Blocked(env, usr[f].child)
        /\ usr[f].pc \in AtPage => usr[f].at \in 1 .. 5
    BY DEF IInv, Children
  <2>3. CASE f # e
    <3>1. usr'[f].pc = usr[f].pc /\ usr'[f].child = usr[f].child /\ usr'[f].at = usr[f].at
      BY <2>3
    <3>2. usr[f].child \in Envs => env'[usr[f].child].parent = env[usr[f].child].parent
      OBVIOUS
    <3>3. usr[f].child \in Envs /\ env[usr[f].child].parent = f /\ Blocked(env, usr[f].child)
            => Blocked(env', usr[f].child)
      BY <2>3
    <3> QED BY <2>2, <3>1, <3>2, <3>3
  <2>4. CASE f = e
    <3>1. SUFFICES ASSUME usr'[e].pc \in Building \cup {"status"}
                   PROVE  /\ usr'[e].child \in Envs \ {e}
                          /\ usr'[e].pc \in Building => env'[usr'[e].child].parent = e
                          /\ env'[usr'[e].child].parent = e => Blocked(env', usr'[e].child)
      BY <2>4 DEF Building
    <3>2. usr[e].pc \in Building \cup {"status"}
      BY <3>1
    <3>3. usr'[e].child \in Envs \ {e} /\ env'[usr'[e].child].parent = env[usr[e].child].parent
      BY <2>2, <2>4, <3>1, <3>2
    <3>4. usr'[e].pc \in Building => usr[e].pc \in Building
      BY <3>1
    <3>5. Blocked(env, usr[e].child) => Blocked(env', usr'[e].child)
      BY <2>2, <2>4, <3>1, <3>2
    <3> QED BY <2>2, <2>4, <3>2, <3>3, <3>4, <3>5
  <2> QED BY <2>3, <2>4
<1> QED BY <1>1, <1>3, <1>4, <1>5 DEF IInv, Handling

(* A step of e that frees d: itself, or a child. *)
LEMMA KeptByFree ==
  ASSUME IInv, NEW e \in Envs, NEW d \in Envs, Gone(mem, mem', d),
         env' = EnvFree(env, d), usr' \in UsrTypes, tlb' \in TlbTypes,
         program' \in ProgramTypes, program'.npages = program.npages,
         \A f \in Envs \ {d, e} : /\ usr'[f].pc = usr[f].pc /\ usr'[f].child = usr[f].child
                                  /\ usr'[f].at = usr[f].at,
         \A f \in Envs : usr'[f].step # "none" => usr'[f].fault \in Vas,
         usr'[d].pc \notin Building \cup {"status"},
         usr'[e].pc \notin Building,
         usr'[e].pc = "status" => usr'[e].child = d,
         \/ d = e /\ ~Blocked(env, d)
         \/ d # e /\ env[d].parent = e
  PROVE  IInv'
<1>1. env' \in EnvTypes
  BY DEF IInv, Typed, EnvTypes, EnvFree, NoEnvAt, Statuses
<1>2. Typed' BY <1>1 DEF IInv, Typed
<1>3. Sound(mem') /\ SameExtra(mem, mem')
      /\ mem'.dir[d] = NULL /\ (\A f \in Envs \ {d} : mem'.dir[f] = mem.dir[f])
      /\ \A n : NoneLost(mem, n, {}) => NoneLost(mem', n, {})
  BY DEF Gone
<1>4. Counted' BY <1>3 DEF IInv, Counted, SameExtra
<1>5. /\ env'[d].status = "FREE" /\ env'[d].parent = NoEnv /\ env'[d].recving = FALSE
      /\ \A f \in Envs \ {d} : /\ env'[f].status = env[f].status /\ env'[f].recving = env[f].recving
                               /\ env'[f].parent = IF env[f].parent = d THEN NoEnv ELSE env[f].parent
  BY DEF IInv, Typed, EnvTypes, EnvFree, NoEnvAt
<1>6. Slots' BY <1>3, <1>5 DEF IInv, Slots
<1>7. Children'
  <2>1. SUFFICES ASSUME NEW f \in Envs, usr'[f].pc \in Building \cup {"status"}
                 PROVE  /\ usr'[f].child \in Envs \ {f}
                        /\ usr'[f].pc \in Building => env'[usr'[f].child].parent = f
                        /\ env'[usr'[f].child].parent = f => Blocked(env', usr'[f].child)
                        /\ usr'[f].pc \in AtPage => usr'[f].at \in 1 .. 5
    BY DEF Children, Building
  <2>2. f # d BY <2>1
  <2>3. NoEnv \notin Envs BY AddressSpaceAssumption
  <2>4. CASE f = e
    <3>1. usr'[e].pc = "status" /\ usr'[e].child = d BY <2>1, <2>4
    <3>2. "status" \notin Building BY DEF Building, AtPage
    <3>3. env'[d].parent # f BY <1>5, <2>3
    <3> QED BY <2>2, <2>4, <3>1, <3>2, <3>3 DEF Building
  <2>5. CASE f # e
    <3>1. usr'[f].pc = usr[f].pc /\ usr'[f].child = usr[f].child /\ usr'[f].at = usr[f].at
      BY <2>2, <2>5
    <3>2. /\ usr[f].child \in Envs \ {f}
          /\ usr[f].pc \in Building => env[usr[f].child].parent = f
          /\ env[usr[f].child].parent = f => Blocked(env, usr[f].child)
          /\ usr[f].pc \in AtPage => usr[f].at \in 1 .. 5
      BY <2>1, <3>1 DEF IInv, Children
    <3>3. env[usr[f].child].parent = f => usr[f].child # d
      BY <2>5, <3>2
    <3>4. usr[f].child # d => /\ env[usr[f].child].parent = f => env'[usr[f].child].parent = f
                              /\ env'[usr[f].child].parent = f => env[usr[f].child].parent = f
                              /\ Blocked(env, usr[f].child) => Blocked(env', usr[f].child)
      BY <1>5, <2>2, <2>3, <3>2 DEF Blocked
    <3>5. usr[f].child = d => env'[usr[f].child].parent # f BY <1>5, <2>3
    <3> QED BY <3>1, <3>2, <3>3, <3>4, <3>5
  <2> QED BY <2>4, <2>5
<1> QED BY <1>2, <1>4, <1>6, <1>7 DEF IInv, Handling

(* What the steps of a program do to the types of what is not memory. *)
LEMMA Typings ==
  ASSUME IInv, NEW e \in Envs
  PROVE  /\ Sound(mem') => /\ Resume(e) => tlb' \in TlbTypes
                           /\ \A f \in Envs : mem'.pte[f] \in [Vas -> Ptes]
         /\ LeaveCPU(e) => tlb' \in TlbTypes
         /\ \A pc \in Counter : Start(pc) \in [pc : Counter, handler : BOOLEAN,
              child : Envs \cup {NoEnv}, at : 1 .. 6, perm : Perms,
              fault : Vas \cup {"none"}, step : Steps]
         /\ Sound(mem) /\ mem.pte[e] \in [Vas -> Ptes]
<1>1. Sound(mem') => /\ Resume(e) => tlb' \in TlbTypes
                     /\ \A f \in Envs : mem'.pte[f] \in [Vas -> Ptes]
  BY DEF IInv, Typed, TlbTypes, Resume, Sound
<1>2. NoVas \in [Vas -> Ptes] BY PteKinds DEF NoVas
<1>3. LeaveCPU(e) => tlb' \in TlbTypes
  BY <1>2 DEF IInv, Typed, TlbTypes, LeaveCPU
<1>4. \A pc \in Counter : Start(pc) \in [pc : Counter, handler : BOOLEAN,
        child : Envs \cup {NoEnv}, at : 1 .. 6, perm : Perms,
        fault : Vas \cup {"none"}, step : Steps]
  BY DEF Start, Perms, Steps
<1>5. Sound(mem) /\ mem.pte[e] \in [Vas -> Ptes] BY DEF IInv, Counted, Sound
<1> QED BY <1>1, <1>3, <1>4, <1>5

LEMMA Went ==
  ASSUME IInv, NEW e \in Envs, NEW pc \in Counter, Goto(e, pc)
  PROVE  /\ usr' \in UsrTypes /\ \A f \in Envs \ {e} : usr'[f] = usr[f]
         /\ usr'[e].pc = pc /\ usr'[e].child = usr[e].child /\ usr'[e].at = usr[e].at
         /\ usr'[e].step = usr[e].step /\ usr'[e].fault = usr[e].fault
         /\ usr'[e].perm = usr[e].perm /\ usr'[e].handler = usr[e].handler
  BY DEF IInv, Typed, UsrTypes, Goto

(* A step of e that changes no environment. *)
LEMMA KeptAlone ==
  ASSUME IInv, NEW e \in Envs, NEW x \in Envs, Fine(mem, mem', x),
         env' = env, usr' \in UsrTypes, tlb' \in TlbTypes,
         program' \in ProgramTypes, program'.npages = program.npages,
         \A f \in Envs \ {e} : usr'[f] = usr[f],
         usr'[e].step # "none" => usr'[e].fault \in Vas,
         usr'[e].pc \in Building \cup {"status"} =>
           /\ usr[e].pc \in Building \/ usr[e].pc = usr'[e].pc
           /\ usr'[e].child = usr[e].child,
         usr'[e].pc \in AtPage => usr'[e].at \in 1 .. 5
  PROVE  IInv'
<1>1. env' \in EnvTypes BY DEF IInv, Typed
<1>2. \A f \in Envs : /\ env'[f].parent = env[f].parent
                      /\ env'[f].status = "FREE" <=> env[f].status = "FREE"
                      /\ env'[f].recving => env'[f].status = "NOT_RUNNABLE"
                      /\ Blocked(env, f) /\ env[f].parent # e => Blocked(env', f)
  BY DEF IInv, Slots
<1>3. \A f \in Envs \ {e} : /\ usr'[f].pc = usr[f].pc /\ usr'[f].child = usr[f].child
                            /\ usr'[f].at = usr[f].at
  OBVIOUS
<1>4. usr'[e].pc \in Building \cup {"status"} =>
           /\ usr[e].pc \in Building \/ usr[e].pc = usr'[e].pc
           /\ usr'[e].child = usr[e].child
           /\ \A f \in Envs : Blocked(env, f) => Blocked(env', f)
  OBVIOUS
<1>5. \A f \in Envs : usr'[f].step # "none" => usr'[f].fault \in Vas
  BY DEF IInv, Handling
<1> QED BY <1>1, <1>2, <1>3, <1>4, <1>5, Kept

(* A step of e that changes the pages' contents at most. *)
LEMMA SameMemory ==
  ASSUME NEW m, Sound(m), NEW e \in Envs
  PROVE  Fine(m, m, e) /\ \A va \in Vas : OthersKept(m, m, e, va)
  BY DEF Fine, SameExtra, OthersKept

LEMMA PageOfLoop ==
  ASSUME IInv, NEW e \in Envs, usr[e].pc \in AtPage
  PROVE  Va(e) \in Vas
<1>1. usr[e].at \in 1 .. 5 BY DEF IInv, Children
<1>2. Len(VaOrder) = 5 BY DEF VaOrder
<1> QED BY <1>1, <1>2 DEF Va, Vas

LEMMA RunKeeps == ASSUME IInv, NEW e \in Envs, Run(e) PROVE IInv'
<1>1. Sound(mem) /\ mem' = mem /\ usr' = usr /\ program' = program BY DEF IInv, Counted, Run
<1>2. Fine(mem, mem', e) BY <1>1, SameMemory
<1>3. tlb' \in TlbTypes BY <1>1, Typings DEF Run
<1>4. env' \in EnvTypes BY DEF Run, IInv, Typed, EnvTypes, Statuses
<1>5. \A f \in Envs : /\ env'[f].parent = env[f].parent
                      /\ env'[f].status = "FREE" <=> env[f].status = "FREE"
                      /\ env'[f].recving => env'[f].status = "NOT_RUNNABLE"
                      /\ Blocked(env, f) => Blocked(env', f)
  BY DEF Run, IInv, Slots, Typed, EnvTypes, Blocked
<1>6. usr'[e].pc \in AtPage => usr'[e].at \in 1 .. 5 BY <1>1 DEF IInv, Children
<1>7. usr' \in UsrTypes /\ program' \in ProgramTypes BY <1>1 DEF IInv, Typed
<1>8. \A f \in Envs : usr'[f].step # "none" => usr'[f].fault \in Vas
  BY <1>1 DEF IInv, Handling
<1> QED BY <1>1, <1>2, <1>3, <1>4, <1>5, <1>6, <1>7, <1>8, Kept

LEMMA PreemptKeeps == ASSUME IInv, NEW e \in Envs, Preempt(e) PROVE IInv'
<1>1. Sound(mem) /\ mem' = mem /\ usr' = usr /\ program' = program BY DEF IInv, Counted, Preempt
<1>2. Fine(mem, mem', e) BY <1>1, SameMemory
<1>3. tlb' \in TlbTypes BY <1>1, Typings DEF Preempt
<1>4. env' \in EnvTypes BY DEF Preempt, IInv, Typed, EnvTypes, Statuses
<1>5. \A f \in Envs : /\ env'[f].parent = env[f].parent
                      /\ env'[f].status = "FREE" <=> env[f].status = "FREE"
                      /\ env'[f].recving => env'[f].status = "NOT_RUNNABLE"
                      /\ Blocked(env, f) => Blocked(env', f)
  BY DEF Preempt, IInv, Slots, Typed, EnvTypes, Blocked
<1>6. usr'[e].pc \in AtPage => usr'[e].at \in 1 .. 5 BY <1>1 DEF IInv, Children
<1>7. usr' \in UsrTypes /\ program' \in ProgramTypes BY <1>1 DEF IInv, Typed
<1>8. \A f \in Envs : usr'[f].step # "none" => usr'[f].fault \in Vas
  BY <1>1 DEF IInv, Handling
<1> QED BY <1>1, <1>2, <1>3, <1>4, <1>5, <1>6, <1>7, <1>8, Kept

LEMMA DestroySelfKeeps ==
  ASSUME IInv, NEW e \in Envs, NEW pc \in {"none", "killed"}, DestroySelf(e, pc),
         program' \in ProgramTypes, program'.npages = program.npages,
         env[e].status \in {"RUNNING", "DYING"}
  PROVE  IInv' /\ Gone(mem, mem', e)
<1>1. Sound(mem) /\ mem.dir[e] \in Pages
  BY DEF IInv, Counted, Slots, Sound
<1>2. Gone(mem, mem', e) BY <1>1, PagesFreed DEF DestroySelf
<1>3. env' = EnvFree(env, e) BY DEF DestroySelf
<1>4. pc \in Counter /\ pc \notin Building \cup {"status"}
  BY Counters
<1>5. /\ usr' \in UsrTypes /\ usr'[e].pc = pc /\ usr'[e].step = "none"
      /\ \A f \in Envs \ {e} : usr'[f] = usr[f]
  BY <1>4, Typings DEF IInv, Typed, UsrTypes, DestroySelf, Start
<1>6. tlb' \in TlbTypes BY Typings DEF DestroySelf
<1>7. ~Blocked(env, e) BY DEF Blocked
<1>8. \A f \in Envs : usr'[f].step # "none" => usr'[f].fault \in Vas
  BY <1>5 DEF IInv, Handling
<1> QED BY <1>2, <1>3, <1>4, <1>5, <1>6, <1>7, <1>8, KeptByFree

LEMMA TrapOfZombieKeeps == ASSUME IInv, NEW e \in Envs, TrapOfZombie(e) PROVE IInv'
<1>1. program' = program /\ program \in ProgramTypes BY DEF TrapOfZombie, IInv, Typed
<1> QED BY <1>1, DestroySelfKeeps DEF TrapOfZombie

LEMMA PageFaultKeeps ==
  ASSUME IInv, NEW e \in Envs, NEW va \in Vas, PageFault(e, va),
         program' \in ProgramTypes, program'.npages = program.npages
  PROVE  IInv'
<1>1. CASE env[e].upcall /\ UserMemCheck(mem, e, "XSTACK", "rw")
  <2>1. /\ usr' = [usr EXCEPT ![e].fault = va, ![e].step = "alloc"]
        /\ mem' = mem /\ env' = env /\ Resume(e)
    BY <1>1 DEF PageFault
  <2>2. /\ usr' \in UsrTypes /\ \A f \in Envs \ {e} : usr'[f] = usr[f]
        /\ usr'[e].pc = usr[e].pc /\ usr'[e].child = usr[e].child /\ usr'[e].at = usr[e].at
        /\ usr'[e].fault = va
    BY <2>1 DEF IInv, Typed, UsrTypes, Steps
  <2>3. Sound(mem) BY DEF IInv, Counted
  <2>4. Fine(mem, mem', e) BY <2>1, <2>3, SameMemory
  <2>5. tlb' \in TlbTypes BY <2>1, <2>3, Typings
  <2>6. usr'[e].pc \in AtPage => usr'[e].at \in 1 .. 5 BY <2>2 DEF IInv, Children
  <2> QED BY <2>1, <2>2, <2>4, <2>5, <2>6, KeptAlone
<1>2. CASE ~(env[e].upcall /\ UserMemCheck(mem, e, "XSTACK", "rw"))
  <2>1. DestroySelf(e, "killed") /\ env[e].status = "RUNNING" BY <1>2 DEF PageFault
  <2> QED BY <2>1, DestroySelfKeeps
<1> QED BY <1>1, <1>2

(* A step of e in user mode that stores something. *)
LEMMA StoreKeeps ==
  ASSUME IInv, NEW e \in Envs, NEW va, Store(e, va), usr' \in UsrTypes,
         program' \in ProgramTypes, program'.npages = program.npages,
         \A f \in Envs \ {e} : usr'[f] = usr[f],
         usr'[e].step = usr[e].step /\ usr'[e].fault = usr[e].fault,
         \/ usr'[e].pc \notin Building \cup {"status"}
         \/ usr'[e] = usr[e]
  PROVE  IInv'
<1>1. \E f : mem' = [mem EXCEPT !.data = f]
  BY DEF Store, IInv, Counted, Sound, Fields
<1>2. Fine(mem, mem', e) BY <1>1, ContentsOnly, Addresses DEF IInv, Counted
<1>3. env' = env /\ tlb' = tlb BY DEF Store
<1>4. tlb' \in TlbTypes BY <1>3 DEF IInv, Typed
<1>5. usr'[e].pc \in AtPage => usr'[e].at \in 1 .. 5 BY DEF IInv, Children, Building
<1>6. usr'[e].step # "none" => usr'[e].fault \in Vas BY DEF IInv, Handling
<1> QED BY <1>2, <1>3, <1>4, <1>5, <1>6, KeptAlone

LEMMA WriteMemoryKeeps ==
  ASSUME IInv, NEW e \in Envs, NEW va \in {"DATA", "STACK", "MSG"}, WriteMemory(e, va)
  PROVE  IInv'
<1>1. va \in Vas BY Addresses
<1>2. CASE tlb[e][va].perm # "rw" /\ PageFault(e, va)
  <2>1. program' = program /\ program \in ProgramTypes BY <1>2 DEF PageFault, IInv, Typed
  <2> QED BY <1>1, <1>2, <2>1, PageFaultKeeps
<1>3. CASE Store(e, va) /\ program' = [program EXCEPT !.acts = @ - 1] /\ usr' = usr
  <2>1. program' \in ProgramTypes /\ program'.npages = program.npages
    <3>1. program \in ProgramTypes /\ program.acts > 0 BY DEF WriteMemory, IInv, Typed
    <3> QED BY <1>3, <3>1 DEF ProgramTypes
  <2>2. usr' \in UsrTypes BY <1>3 DEF IInv, Typed
  <2> QED BY <1>3, <2>1, <2>2, StoreKeeps
<1> QED BY <1>2, <1>3 DEF WriteMemory

LEMMA PgfaultAllocKeeps ==
  ASSUME IInv, NEW e \in Envs, PgfaultAlloc(e)
  PROVE  /\ IInv' /\ Fine(mem, mem', e) /\ OthersKept(mem, mem', e, "TEMP")
         /\ usr'[e].step = "copy" => mem'.pte[e]["TEMP"].perm = "rw"
         /\ usr'[e].step # "copy" => mem'.pte = mem.pte /\ mem'.exhausted = TRUE
<1>1. Sound(mem) /\ "TEMP" \in Vas /\ "rw" \in Perms
  BY Addresses DEF IInv, Counted, Perms
<1>2. mem' = EnvPageAlloc(mem, e, "TEMP", "rw") BY DEF PgfaultAlloc, Handles
<1>3. /\ Fine(mem, mem', e) /\ OthersKept(mem, mem', e, "TEMP")
      /\ IF EnvPageAllocOK(mem, e, "TEMP")
         THEN \E p \in Pages : mem'.pte[e]["TEMP"] = Pte(p, "rw")
         ELSE mem'.pte = mem.pte /\ mem'.exhausted = TRUE
  BY <1>1, <1>2, PageAllocated
<1>4. /\ env' = env /\ program' = program /\ Resume(e)
      /\ IF EnvPageAllocOK(mem, e, "TEMP") THEN usr' = [usr EXCEPT ![e].step = "copy"]
         ELSE usr' = [usr EXCEPT ![e].pc = "panic", ![e].fault = "none", ![e].step = "none"]
  BY DEF PgfaultAlloc, Handles
<1>5. /\ usr' \in UsrTypes /\ \A f \in Envs \ {e} : usr'[f] = usr[f]
      /\ IF EnvPageAllocOK(mem, e, "TEMP")
         THEN /\ usr'[e].pc = usr[e].pc /\ usr'[e].child = usr[e].child
              /\ usr'[e].at = usr[e].at
              /\ usr'[e].step = "copy" /\ usr'[e].fault = usr[e].fault
         ELSE usr'[e].pc = "panic" /\ usr'[e].step = "none"
  BY <1>4, Counters DEF IInv, Typed, UsrTypes, Steps
<1>6. Sound(mem') BY <1>3 DEF Fine
<1>7. tlb' \in TlbTypes BY <1>4, <1>6, Typings
<1>8. usr'[e].pc \in AtPage => usr'[e].at \in 1 .. 5
  BY <1>5, Counters DEF IInv, Children
<1>9. program' \in ProgramTypes /\ program'.npages = program.npages BY <1>4 DEF IInv, Typed
<1>10. usr'[e].pc \in Building \cup {"status"} =>
         usr[e].pc = usr'[e].pc /\ usr'[e].child = usr[e].child
  BY <1>5, Counters
<1>11. usr[e].step # "none" BY DEF PgfaultAlloc, InHandler
<1>12. usr'[e].step # "none" => usr'[e].fault \in Vas BY <1>5, <1>11 DEF IInv, Handling
<1>13. IInv' BY <1>3, <1>4, <1>5, <1>7, <1>8, <1>9, <1>10, <1>12, KeptAlone
<1> QED BY <1>1, <1>3, <1>5, <1>13, PteKinds

LEMMA PgfaultCopyKeeps ==
  ASSUME IInv, NEW e \in Envs, PgfaultCopy(e)
  PROVE  IInv' /\ mem'.pte = mem.pte /\ mem'.table = mem.table /\ mem'.exhausted = mem.exhausted
<1>1. \E f : mem' = [mem EXCEPT !.data = f]
  BY DEF PgfaultCopy, IInv, Counted, Sound, Fields
<1>2. /\ Fine(mem, mem', e) /\ mem'.pte = mem.pte /\ mem'.table = mem.table
      /\ mem'.exhausted = mem.exhausted
  BY <1>1, ContentsOnly, Addresses DEF IInv, Counted
<1>3. env' = env /\ tlb' = tlb /\ program' = program /\ usr' = [usr EXCEPT ![e].step = "map"]
  BY DEF PgfaultCopy
<1>4. /\ usr' \in UsrTypes /\ \A f \in Envs \ {e} : usr'[f] = usr[f]
      /\ usr'[e].pc = usr[e].pc /\ usr'[e].child = usr[e].child /\ usr'[e].at = usr[e].at
      /\ usr'[e].fault = usr[e].fault /\ usr[e].step = "copy"
  BY <1>3 DEF PgfaultCopy, IInv, Typed, UsrTypes, Steps
<1>5. /\ tlb' \in TlbTypes /\ program' \in ProgramTypes /\ program'.npages = program.npages
  BY <1>3 DEF IInv, Typed
<1>6. usr'[e].pc \in AtPage => usr'[e].at \in 1 .. 5 BY <1>4 DEF IInv, Children
<1>7. usr'[e].step # "none" => usr'[e].fault \in Vas BY <1>4 DEF IInv, Handling
<1>8. IInv' BY <1>2, <1>3, <1>4, <1>5, <1>6, <1>7, KeptAlone
<1> QED BY <1>2, <1>8

LEMMA PgfaultMapKeeps ==
  ASSUME IInv, NEW e \in Envs, PgfaultMap(e)
  PROVE  /\ IInv' /\ Fine(mem, mem', e) /\ OthersKept(mem, mem', e, usr[e].fault)
         /\ usr[e].fault \in Vas
         /\ mem.pte[e]["TEMP"].perm = "rw" /\ mem.table[e][PDX(usr[e].fault)] # NULL
              => mem'.pte[e][usr[e].fault].perm = "rw"
<1> DEFINE va == usr[e].fault
<1>1. Sound(mem) /\ "TEMP" \in Vas /\ "rw" \in Perms /\ va \in Vas
  BY Addresses DEF IInv, Counted, Perms, Handling, PgfaultMap, InHandler
<1>2. mem' = EnvPageMap(mem, e, "TEMP", e, va, "rw") BY DEF PgfaultMap, Handles
<1>3. /\ Fine(mem, mem', e) /\ OthersKept(mem, mem', e, va)
      /\ Mapped(mem, mem', e, "TEMP", e, va, "rw")
  BY <1>1, <1>2, PageMapped
<1>4. /\ env' = env /\ program' = program /\ Resume(e)
      /\ usr' = [usr EXCEPT ![e].step = "unmap"]
  BY DEF PgfaultMap, Handles
<1>5. /\ usr' \in UsrTypes /\ \A f \in Envs \ {e} : usr'[f] = usr[f]
      /\ usr'[e].pc = usr[e].pc /\ usr'[e].child = usr[e].child
      /\ usr'[e].at = usr[e].at /\ usr'[e].fault = usr[e].fault
  BY <1>4 DEF IInv, Typed, UsrTypes, Steps
<1>6. Sound(mem') BY <1>3 DEF Fine
<1>7. tlb' \in TlbTypes BY <1>4, <1>6, Typings
<1>8. usr'[e].pc \in AtPage => usr'[e].at \in 1 .. 5 BY <1>5 DEF IInv, Children
<1>9. program' \in ProgramTypes /\ program'.npages = program.npages BY <1>4 DEF IInv, Typed
<1>10. usr'[e].step # "none" => usr'[e].fault \in Vas BY <1>1, <1>5
<1>11. IInv' BY <1>3, <1>4, <1>5, <1>7, <1>8, <1>9, <1>10, KeptAlone
<1>12. mem.pte[e]["TEMP"].perm = "rw" /\ mem.table[e][PDX(va)] # NULL
         => mem'.pte[e][va].perm = "rw"
  <2>1. Unmapped.perm # "rw" BY DEF Unmapped, Pte
  <2>2. mem.pte[e]["TEMP"].perm = "rw" /\ mem.table[e][PDX(va)] # NULL
          => EnvPageMapOK(mem, e, "TEMP", e, va, "rw")
    BY <2>1 DEF EnvPageMapOK, TableFits
  <2> QED BY <1>3, <2>2 DEF Pte, Mapped
<1> QED BY <1>1, <1>3, <1>11, <1>12

LEMMA PgfaultUnmapKeeps ==
  ASSUME IInv, NEW e \in Envs, PgfaultUnmap(e)
  PROVE  /\ IInv' /\ Fine(mem, mem', e) /\ OthersKept(mem, mem', e, "TEMP")
         /\ mem'.pte[e]["TEMP"] = Unmapped
<1>1. Sound(mem) /\ "TEMP" \in Vas BY Addresses DEF IInv, Counted
<1>2. mem' = PageRemove(mem, e, "TEMP") BY DEF PgfaultUnmap
<1>3. /\ Fine(mem, mem', e) /\ mem'.table = mem.table
      /\ mem'.pte[e]["TEMP"] = Unmapped
      /\ \A v \in Vas \ {"TEMP"} : mem'.pte[e][v] = mem.pte[e][v]
  BY <1>1, <1>2, RemovedFine
<1>4. /\ env' = env /\ program' = program /\ Resume(e)
      /\ usr' = [usr EXCEPT ![e].step = "none", ![e].fault = "none"]
  BY DEF PgfaultUnmap
<1>5. /\ usr' \in UsrTypes /\ \A f \in Envs \ {e} : usr'[f] = usr[f]
      /\ usr'[e].pc = usr[e].pc /\ usr'[e].child = usr[e].child
      /\ usr'[e].at = usr[e].at /\ usr'[e].step = "none"
  BY <1>4 DEF IInv, Typed, UsrTypes, Steps
<1>6. Sound(mem') BY <1>3 DEF Fine
<1>7. tlb' \in TlbTypes BY <1>4, <1>6, Typings
<1>8. usr'[e].pc \in AtPage => usr'[e].at \in 1 .. 5 BY <1>5 DEF IInv, Children
<1>9. program' \in ProgramTypes /\ program'.npages = program.npages BY <1>4 DEF IInv, Typed
<1>10. IInv' BY <1>3, <1>4, <1>5, <1>7, <1>8, <1>9, KeptAlone
<1> QED BY <1>3, <1>10 DEF OthersKept

(* A system call that changes no environment. *)
LEMMA ReturnKeeps ==
  ASSUME IInv, NEW e \in Envs, NEW x \in Envs, NEW m, NEW pc \in Counter,
         Fine(mem, m, x), Returns(e, m, pc), env' = env,
         program' \in ProgramTypes, program'.npages = program.npages,
         pc \in Building \cup {"status"} => usr[e].pc \in Building,
         pc \in AtPage => usr[e].pc \in AtPage
  PROVE  IInv' /\ mem' = m /\ Goto(e, pc)
<1>1. mem' = m /\ Goto(e, pc) /\ Resume(e) BY DEF Returns
<1>2. /\ usr' \in UsrTypes /\ \A f \in Envs \ {e} : usr'[f] = usr[f]
      /\ usr'[e].pc = pc /\ usr'[e].child = usr[e].child /\ usr'[e].at = usr[e].at
      /\ usr'[e].step = usr[e].step /\ usr'[e].fault = usr[e].fault
  BY <1>1, Went
<1>3. Sound(mem') BY <1>1 DEF Fine
<1>4. tlb' \in TlbTypes BY <1>1, <1>3, Typings
<1>5. usr'[e].pc \in AtPage => usr'[e].at \in 1 .. 5 BY <1>2 DEF IInv, Children
<1>6. usr'[e].step # "none" => usr'[e].fault \in Vas BY <1>2 DEF IInv, Handling
<1>7. IInv' BY <1>1, <1>2, <1>4, <1>5, <1>6, KeptAlone
<1> QED BY <1>1, <1>7

(* A step that leaves even the memory as it is. *)
LEMMA GotoKeeps ==
  ASSUME IInv, NEW e \in Envs, NEW pc \in Counter,
         Goto(e, pc), mem' = mem, env' = env, tlb' \in TlbTypes,
         program' \in ProgramTypes, program'.npages = program.npages,
         pc \in Building \cup {"status"} => usr[e].pc \in Building,
         pc \in AtPage => usr[e].pc \in AtPage
  PROVE  IInv'
<1>1. Fine(mem, mem', e) BY SameMemory DEF IInv, Counted
<1>2. /\ usr' \in UsrTypes /\ \A f \in Envs \ {e} : usr'[f] = usr[f]
      /\ usr'[e].pc = pc /\ usr'[e].child = usr[e].child /\ usr'[e].at = usr[e].at
      /\ usr'[e].step = usr[e].step /\ usr'[e].fault = usr[e].fault
  BY Went
<1>3. usr'[e].pc \in AtPage => usr'[e].at \in 1 .. 5 BY <1>2 DEF IInv, Children
<1>4. usr'[e].step # "none" => usr'[e].fault \in Vas BY <1>2 DEF IInv, Handling
<1> QED BY <1>1, <1>2, <1>3, <1>4, KeptAlone

(* A system call that allocates a page at va of x, and goes on at ok or ko. *)
LEMMA AllocKeeps ==
  ASSUME IInv, NEW e \in Envs, NEW x \in Envs, NEW va \in Vas, NEW perm \in Perms,
         NEW ok \in Counter, NEW ko \in Counter,
         Returns(e, EnvPageAlloc(mem, x, va, perm),
                 IF EnvPageAllocOK(mem, x, va) THEN ok ELSE ko),
         env' = env, program' \in ProgramTypes, program'.npages = program.npages,
         ok \in Building \cup {"status"} => usr[e].pc \in Building,
         ok \in AtPage => usr[e].pc \in AtPage,
         ko \notin Building \cup {"status"}
  PROVE  /\ IInv' /\ Fine(mem, mem', x) /\ OthersKept(mem, mem', x, va)
         /\ \/ /\ \E p \in Pages : mem'.pte[x][va] = Pte(p, perm)
               /\ Goto(e, ok)
            \/ /\ mem'.pte = mem.pte /\ mem'.exhausted = TRUE
               /\ Goto(e, ko)
<1> DEFINE m == EnvPageAlloc(mem, x, va, perm)
           pc == IF EnvPageAllocOK(mem, x, va) THEN ok ELSE ko
<1>1. Sound(mem) BY DEF IInv, Counted
<1>2. /\ Fine(mem, m, x) /\ OthersKept(mem, m, x, va)
      /\ IF EnvPageAllocOK(mem, x, va) THEN \E p \in Pages : m.pte[x][va] = Pte(p, perm)
         ELSE m.pte = mem.pte /\ m.exhausted = TRUE
  BY <1>1, PageAllocated
<1>3. /\ pc \in Counter
      /\ pc \in Building \cup {"status"} => usr[e].pc \in Building
      /\ pc \in AtPage => usr[e].pc \in AtPage
  BY Counters
<1>4. Returns(e, m, pc) OBVIOUS
<1>5. EnvPageAllocOK(mem, x, va) => pc = ok OBVIOUS
<1>6. ~EnvPageAllocOK(mem, x, va) => pc = ko OBVIOUS
<1> HIDE DEF m, pc
<1>7. IInv' /\ mem' = m /\ Goto(e, pc) BY <1>2, <1>3, <1>4, ReturnKeeps
<1> QED BY <1>2, <1>5, <1>6, <1>7

ForkTo(e) == IF program.fork = "fork_v0" THEN "exofork"
             ELSE IF usr[e].handler THEN "save" ELSE "handler"

LEMMA ForkKeeps ==
  ASSUME IInv, NEW e \in Envs, Fork(e)
  PROVE  /\ IInv' /\ mem' = mem /\ env' = env /\ tlb' = tlb
         /\ program'.fork = program.fork /\ Goto(e, ForkTo(e))
<1>1. ForkTo(e) \in {"exofork", "save", "handler"} BY DEF ForkTo
<1>2. Goto(e, ForkTo(e)) /\ mem' = mem /\ env' = env /\ tlb' = tlb BY DEF Fork, ForkTo
<1>3. /\ program' \in ProgramTypes /\ program'.npages = program.npages
      /\ program'.fork = program.fork
  <2>1. program \in ProgramTypes /\ program.forks > 0 BY DEF Fork, IInv, Typed
  <2>2. program' = [program EXCEPT !.forks = @ - 1] BY DEF Fork
  <2> QED BY <2>1, <2>2 DEF ProgramTypes
<1>4. tlb' \in TlbTypes BY <1>2 DEF IInv, Typed
<1>5. /\ ForkTo(e) \in Counter /\ ForkTo(e) \notin Building \cup {"status"}
      /\ ForkTo(e) \notin AtPage
  BY <1>1, Counters
<1>6. IInv' BY <1>2, <1>3, <1>4, <1>5, GotoKeeps
<1> QED BY <1>2, <1>3, <1>6

LEMMA SetPgfaultHandlerKeeps ==
  ASSUME IInv, NEW e \in Envs, SetPgfaultHandler(e)
  PROVE  /\ IInv' /\ Fine(mem, mem', e) /\ OthersKept(mem, mem', e, "XSTACK")
         /\ \/ /\ \E p \in Pages : mem'.pte[e]["XSTACK"] = Pte(p, "rw")
               /\ Goto(e, "upcall")
            \/ /\ mem'.pte = mem.pte /\ mem'.exhausted = TRUE
               /\ Goto(e, "exofork")
<1>1. "XSTACK" \in Vas /\ "rw" \in Perms /\ "upcall" \in Counter /\ "exofork" \in Counter
  BY Addresses, Counters DEF Perms
<1>2. program' \in ProgramTypes /\ program'.npages = program.npages /\ env' = env
  BY DEF SetPgfaultHandler, IInv, Typed
<1>3. /\ "upcall" \notin Building \cup {"status"} /\ "upcall" \notin AtPage
      /\ "exofork" \notin Building \cup {"status"}
  BY Counters
<1>4. Returns(e, EnvPageAlloc(mem, e, "XSTACK", "rw"),
              IF EnvPageAllocOK(mem, e, "XSTACK") THEN "upcall" ELSE "exofork")
  BY DEF SetPgfaultHandler
<1> QED BY <1>1, <1>2, <1>3, <1>4, AllocKeeps

LEMMA SetPgfaultUpcallKeeps ==
  ASSUME IInv, NEW e \in Envs, SetPgfaultUpcall(e)
  PROVE  /\ IInv' /\ mem' = mem /\ env'[e] = [env[e] EXCEPT !.upcall = TRUE]
         /\ \A f \in Envs \ {e} : env'[f] = env[f]
         /\ Goto(e, "save")
<1>1. /\ mem' = mem /\ program' = program /\ Goto(e, "save") /\ Resume(e)
      /\ env' = [env EXCEPT ![e].upcall = TRUE]
  BY DEF SetPgfaultUpcall, Returns
<1>2. Sound(mem) /\ Fine(mem, mem', e) BY <1>1, SameMemory DEF IInv, Counted
<1>3. /\ env' \in EnvTypes /\ env'[e] = [env[e] EXCEPT !.upcall = TRUE]
      /\ \A f \in Envs \ {e} : env'[f] = env[f]
  BY <1>1 DEF IInv, Typed, EnvTypes
<1>4. \A f \in Envs : /\ env'[f].parent = env[f].parent /\ env'[f].status = env[f].status
                      /\ env'[f].recving = env[f].recving
  BY <1>3 DEF IInv, Typed, EnvTypes
<1>5. /\ usr' \in UsrTypes /\ \A f \in Envs \ {e} : usr'[f] = usr[f]
      /\ usr'[e].pc = "save" /\ usr'[e].step = usr[e].step /\ usr'[e].fault = usr[e].fault
  BY <1>1, Went, Counters
<1>7. tlb' \in TlbTypes BY <1>1, <1>2, Typings
<1>8. program' \in ProgramTypes BY <1>1 DEF IInv, Typed
<1>9. \A f \in Envs : usr'[f].step # "none" => usr'[f].fault \in Vas
  BY <1>5 DEF IInv, Handling
<1>10. \A f \in Envs : /\ env'[f].parent = env[f].parent
                       /\ env'[f].status = "FREE" <=> env[f].status = "FREE"
                       /\ env'[f].recving => env'[f].status = "NOT_RUNNABLE"
                       /\ Blocked(env, f) => Blocked(env', f)
  BY <1>4 DEF IInv, Slots, Blocked
<1>11. usr'[e].pc \notin Building \cup {"status"} /\ usr'[e].pc \notin AtPage
  BY <1>5, Counters
<1>12. IInv' BY <1>1, <1>2, <1>3, <1>5, <1>7, <1>8, <1>9, <1>10, <1>11, Kept
<1> QED BY <1>1, <1>3, <1>12

LEMMA SaveHandlerKeeps ==
  ASSUME IInv, NEW e \in Envs, SaveHandler(e)
  PROVE  IInv'
<1>1. CASE tlb[e]["DATA"].perm # "rw" /\ PageFault(e, "DATA")
  <2>1. program' = program /\ program \in ProgramTypes BY <1>1 DEF PageFault, IInv, Typed
  <2> QED BY <1>1, <2>1, PageFaultKeeps, Addresses
<1>2. CASE /\ Store(e, "DATA") /\ program' = program
           /\ usr' = [usr EXCEPT ![e].pc = "exofork", ![e].handler = TRUE]
  <2>1. program' \in ProgramTypes BY <1>2 DEF IInv, Typed
  <2>2. /\ usr' \in UsrTypes /\ usr'[e].pc = "exofork"
        /\ usr'[e].step = usr[e].step /\ usr'[e].fault = usr[e].fault
        /\ \A f \in Envs \ {e} : usr'[f] = usr[f]
    <3>1. "exofork" \in Counter BY Counters
    <3>2. usr \in UsrTypes BY DEF IInv, Typed
    <3> QED BY <1>2, <3>1, <3>2 DEF UsrTypes
  <2> QED BY <1>2, <2>1, <2>2, Counters, StoreKeeps
<1> QED BY <1>1, <1>2 DEF SaveHandler

(* sys_exofork: the child takes a free slot, which nobody's child is. *)
LEMMA ExoforkKeeps ==
  ASSUME IInv, NEW e \in Envs, Exofork(e)
  PROVE  /\ IInv'
         /\ \/ /\ mem'.exhausted = TRUE /\ mem'.pte = mem.pte /\ mem'.table = mem.table
               /\ env' = env /\ Goto(e, "panic")
            \/ \E d \in Envs \ {e} :
                 /\ env[d].status = "FREE"
                 /\ mem'.pte = mem.pte /\ mem'.table = mem.table
                 /\ mem'.exhausted = mem.exhausted
                 /\ env' = [env EXCEPT ![d] = [NoEnvAt EXCEPT !.status = "NOT_RUNNABLE",
                                                              !.parent = e]]
                 /\ usr' = [usr EXCEPT ![d] = Start("child"), ![e].pc = "dup",
                                       ![e].child = d, ![e].at = 1]
<1>1. Sound(mem) BY DEF IInv, Counted
<1>2. CASE Panics(e, Exhausted(mem))
  <2> DEFINE x == Exhausted(mem)
  <2>1. /\ x.dir = mem.dir /\ x.table = mem.table /\ x.pte = mem.pte
        /\ x.exhausted = TRUE /\ Sound(x) /\ SameExtra(mem, x)
    BY <1>1, Exhausts
  <2>2. Returns(e, x, "panic") /\ env' = env /\ program' = program BY <1>2 DEF Panics
  <2> HIDE DEF x
  <2>3. Fine(mem, x, e) BY <2>1 DEF Fine, NoneLost
  <2>4. program \in ProgramTypes BY DEF IInv, Typed
  <2>5. "panic" \in Counter /\ "panic" \notin Building \cup {"status"} /\ "panic" \notin AtPage
    BY Counters
  <2>6. IInv' /\ mem' = x /\ Goto(e, "panic") BY <2>2, <2>3, <2>4, <2>5, ReturnKeeps
  <2> QED BY <2>1, <2>2, <2>6
<1>3. CASE ~Panics(e, Exhausted(mem))
  <2> DEFINE d == CHOOSE f \in FreeEnvs : TRUE
  <2>1. /\ env[e].status = "RUNNING" /\ FreeEnvs # {} /\ mem.free # {}
        /\ mem' = EnvSetupVm(mem, d)
        /\ env' = [env EXCEPT ![d] = [NoEnvAt EXCEPT !.status = "NOT_RUNNABLE", !.parent = e]]
        /\ usr' = [usr EXCEPT ![d] = Start("child"), ![e].pc = "dup", ![e].child = d, ![e].at = 1]
        /\ Resume(e) /\ program' = program
    BY <1>3 DEF Exofork, Calls
  <2>2. d \in FreeEnvs BY <2>1
  <2> HIDE DEF d
  <2>3. d \in Envs /\ env[d].status = "FREE" /\ d # e BY <2>1, <2>2 DEF FreeEnvs
  <2>4. mem.dir[d] = NULL /\ env[d].parent = NoEnv /\ ~env[d].recving
    BY <2>3 DEF IInv, Slots
  <2>5. Born(mem, mem', d) BY <1>1, <2>1, <2>3, <2>4, VmSetUp DEF Born
  <2>6. /\ Sound(mem') /\ SameExtra(mem, mem')
        /\ mem'.pte = mem.pte /\ mem'.table = mem.table /\ mem'.exhausted = mem.exhausted
        /\ mem'.dir[d] \in Pages /\ \A f \in Envs \ {d} : mem'.dir[f] = mem.dir[f]
        /\ \A n : NoneLost(mem, n, {}) => NoneLost(mem', n, {})
    BY <2>5 DEF Born
  <2>7. Counted' BY <2>1, <2>6 DEF IInv, Counted, SameExtra
  <2>8. /\ env' \in EnvTypes
        /\ env'[d].status = "NOT_RUNNABLE" /\ env'[d].parent = e /\ env'[d].recving = FALSE
        /\ \A f \in Envs \ {d} : env'[f] = env[f]
    BY <2>1, <2>3 DEF IInv, Typed, EnvTypes, NoEnvAt, Statuses
  <2>9. Start("child") \in [pc : Counter, handler : BOOLEAN, child : Envs \cup {NoEnv},
                            at : 1 .. 6, perm : Perms, fault : Vas \cup {"none"}, step : Steps]
    BY Typings, Counters
  <2>10. /\ usr' \in UsrTypes /\ usr'[d] = Start("child")
         /\ usr'[e].pc = "dup" /\ usr'[e].child = d
         /\ usr'[e].step = usr[e].step /\ usr'[e].fault = usr[e].fault
         /\ \A f \in Envs \ {d, e} : usr'[f] = usr[f]
    <3> DEFINE kid == [usr EXCEPT ![d] = Start("child")]
    <3>1. /\ kid \in UsrTypes /\ kid[d] = Start("child")
          /\ \A f \in Envs \ {d} : kid[f] = usr[f]
      BY <2>3, <2>9 DEF IInv, Typed, UsrTypes
    <3> DEFINE k1 == [kid EXCEPT ![e].pc = "dup"]
               k2 == [k1 EXCEPT ![e].child = d]
    <3>2. usr' = [k2 EXCEPT ![e].at = 1] BY <2>1
    <3> HIDE DEF kid
    <3>3. "dup" \in Counter BY Counters
    <3>4. /\ k1 \in UsrTypes /\ k1[e].pc = "dup"
          /\ k1[e].step = kid[e].step /\ k1[e].fault = kid[e].fault
          /\ \A f \in Envs \ {e} : k1[f] = kid[f]
      BY <2>3, <3>1, <3>3 DEF UsrTypes
    <3> HIDE DEF k1
    <3>5. /\ k2 \in UsrTypes /\ k2[e].pc = "dup" /\ k2[e].child = d
          /\ k2[e].step = kid[e].step /\ k2[e].fault = kid[e].fault
          /\ \A f \in Envs \ {e} : k2[f] = kid[f]
      BY <2>3, <3>4 DEF UsrTypes
    <3> HIDE DEF k2
    <3>6. /\ usr' \in UsrTypes /\ usr'[e].pc = "dup" /\ usr'[e].child = d
          /\ usr'[e].step = kid[e].step /\ usr'[e].fault = kid[e].fault
          /\ \A f \in Envs \ {e} : usr'[f] = kid[f]
      BY <2>3, <3>2, <3>5 DEF UsrTypes
    <3> QED BY <2>3, <3>1, <3>6
  <2>11. usr'[d].pc = "child" /\ usr'[d].step = "none" BY <2>10 DEF Start
  <2>12. Typed'
    <3>1. tlb' \in TlbTypes BY <2>1, <2>6, Typings
    <3> QED BY <2>1, <2>8, <2>10, <3>1 DEF IInv, Typed
  <2>13. Handling' BY <2>10, <2>11 DEF IInv, Handling
  <2>14. Slots' BY <2>6, <2>8, PagesAreNot DEF IInv, Slots
  <2>15. Children'
    <3>1. SUFFICES ASSUME NEW f \in Envs, usr'[f].pc \in Building \cup {"status"}
                   PROVE  /\ usr'[f].child \in Envs \ {f}
                          /\ usr'[f].pc \in Building => env'[usr'[f].child].parent = f
                          /\ env'[usr'[f].child].parent = f => Blocked(env', usr'[f].child)
                          /\ usr'[f].pc \in AtPage => usr'[f].at \in 1 .. 5
      BY DEF Children, Building
    <3>2. f # d BY <2>11, <3>1, Counters
    <3>3. CASE f = e BY <2>3, <2>8, <2>10, <3>3, Counters DEF Blocked
    <3>4. CASE f # e
      <4>1. usr'[f] = usr[f] BY <2>10, <3>2, <3>4
      <4>2. /\ usr[f].child \in Envs \ {f}
            /\ usr[f].pc \in Building => env[usr[f].child].parent = f
            /\ env[usr[f].child].parent = f => Blocked(env, usr[f].child)
            /\ usr[f].pc \in AtPage => usr[f].at \in 1 .. 5
        BY <3>1, <4>1 DEF IInv, Children
      <4>3. NoEnv \notin Envs BY AddressSpaceAssumption
      <4>4. usr[f].child = d => env[usr[f].child].parent # f /\ env'[usr[f].child].parent # f
        BY <2>4, <2>8, <3>4, <4>3
      <4>5. usr[f].child # d => env'[usr[f].child] = env[usr[f].child]
        BY <2>8, <4>2
      <4> QED BY <4>1, <4>2, <4>4, <4>5 DEF Blocked
    <3> QED BY <3>3, <3>4
  <2>16. IInv' BY <2>7, <2>12, <2>13, <2>14, <2>15 DEF IInv
  <2> QED BY <2>1, <2>3, <2>6, <2>16
<1> QED BY <1>2, <1>3

LEMMA Least ==
  ASSUME NEW S, S \subseteq 1 .. 5, S # {}
  PROVE  LET j == CHOOSE k \in S : \A l \in S : k <= l
         IN  j \in S /\ \A l \in S : j <= l
<1>1. \E k \in S : \A l \in S : k <= l
  <2>1. CASE 1 \in S BY <2>1
  <2>2. CASE 1 \notin S /\ 2 \in S BY <2>2
  <2>3. CASE 1 \notin S /\ 2 \notin S /\ 3 \in S BY <2>3
  <2>4. CASE 1 \notin S /\ 2 \notin S /\ 3 \notin S /\ 4 \in S BY <2>4
  <2>5. CASE 1 \notin S /\ 2 \notin S /\ 3 \notin S /\ 4 \notin S
    <3>1. \A x \in S : x = 5
      <4>1. \A x \in 1 .. 5 : x = 1 \/ x = 2 \/ x = 3 \/ x = 4 \/ x = 5 OBVIOUS
      <4> QED BY <2>5, <4>1
    <3>2. PICK x : x \in S OBVIOUS
    <3> QED BY <3>1, <3>2
  <2> QED BY <2>1, <2>2, <2>3, <2>4, <2>5
<1> QED BY <1>1

(* The loop of fork and of fork_v0: the next page, or what follows it. *)
LEMMA DupKeeps ==
  ASSUME IInv, NEW e \in Envs, Dup(e)
  PROVE  /\ IInv' /\ mem' = mem /\ env' = env /\ tlb' = tlb /\ program' = program
         /\ \A f \in Envs \ {e} : usr'[f] = usr[f]
         /\ usr'[e].child = usr[e].child /\ usr'[e].step = usr[e].step
         /\ usr'[e].fault = usr[e].fault /\ usr'[e].handler = usr[e].handler
         /\ \/ /\ NextPage(e, usr[e].at) = {}
               /\ usr'[e].pc = IF program.fork = "fork" THEN "xstack" ELSE "status"
            \/ /\ usr'[e].at \in NextPage(e, usr[e].at)
               /\ \A l \in NextPage(e, usr[e].at) : usr'[e].at <= l
               /\ usr'[e].perm = mem.pte[e][VaOrder[usr'[e].at]].perm
               /\ usr'[e].pc = IF program.fork = "fork" \/ usr'[e].perm # "rw"
                               THEN "dup_child" ELSE "copy_alloc"
<1> DEFINE todo == NextPage(e, usr[e].at)
           j == CHOOSE k \in todo : \A l \in todo : k <= l
           perm == mem.pte[e][VaOrder[j]].perm
           pc == IF program.fork = "fork" \/ perm # "rw" THEN "dup_child" ELSE "copy_alloc"
           end == IF program.fork = "fork" THEN "xstack" ELSE "status"
<1>1. /\ mem' = mem /\ env' = env /\ tlb' = tlb /\ program' = program
      /\ usr[e].pc = "dup"
      /\ IF todo = {} THEN Goto(e, end)
         ELSE usr' = [usr EXCEPT ![e].at = j, ![e].perm = perm, ![e].pc = pc]
  BY DEF Dup, At
<1>2. tlb' \in TlbTypes /\ program' \in ProgramTypes BY <1>1 DEF IInv, Typed
<1>3. CASE todo = {}
  <2>1. Goto(e, end) BY <1>1, <1>3
  <2>2. end \in {"xstack", "status"} OBVIOUS
  <2> HIDE DEF end
  <2>3. end \in Counter /\ end \notin AtPage BY <2>2, Counters
  <2>4. usr[e].pc \in Building BY <1>1, Counters
  <2>5. IInv' BY <1>1, <1>2, <2>1, <2>3, <2>4, GotoKeeps
  <2>6. /\ \A f \in Envs \ {e} : usr'[f] = usr[f]
        /\ usr'[e].child = usr[e].child /\ usr'[e].step = usr[e].step
        /\ usr'[e].fault = usr[e].fault /\ usr'[e].handler = usr[e].handler
        /\ usr'[e].pc = end
    BY <2>1, <2>3, Went
  <2> QED BY <1>1, <1>3, <2>5, <2>6 DEF end
<1>4. CASE todo # {}
  <2>1. todo \subseteq 1 .. 5
    <3>1. Len(VaOrder) = 5 BY DEF VaOrder
    <3>2. usr[e].at \in 1 .. 6 BY DEF IInv, Typed, UsrTypes
    <3> QED BY <3>1, <3>2 DEF NextPage
  <2>2. j \in todo /\ \A l \in todo : j <= l
    <3> HIDE DEF todo
    <3> QED BY <1>4, <2>1, Least
  <2>3. usr' = [usr EXCEPT ![e].at = j, ![e].perm = perm, ![e].pc = pc] BY <1>1, <1>4
  <2>4. j \in 1 .. 5 BY <2>1, <2>2
  <2>5. perm \in Perms
    <3>1. VaOrder[j] \in Vas
      <4>1. Len(VaOrder) = 5 BY DEF VaOrder
      <4> QED BY <2>4, <4>1 DEF Vas
    <3>2. mem.pte[e][VaOrder[j]] \in Ptes BY <3>1 DEF IInv, Counted, Sound
    <3> HIDE DEF j
    <3> QED BY <3>2 DEF Ptes, Unmapped, Pte, Perms
  <2>6. pc \in {"dup_child", "copy_alloc"} OBVIOUS
  <2> HIDE DEF todo, j
  <2>7. perm = mem.pte[e][VaOrder[j]].perm OBVIOUS
  <2>8. pc = IF program.fork = "fork" \/ perm # "rw" THEN "dup_child" ELSE "copy_alloc"
    OBVIOUS
  <2> HIDE DEF perm, pc
  <2>9. pc \in Counter /\ pc \in AtPage BY <2>6 DEF AtPage, Building, Counter
  <2> DEFINE k1 == [usr EXCEPT ![e].at = j]
             k2 == [k1 EXCEPT ![e].perm = perm]
  <2>10. usr' = [k2 EXCEPT ![e].pc = pc] BY <2>3
  <2>11. /\ k1 \in UsrTypes /\ k1[e].at = j
         /\ \A f \in Envs \ {e} : k1[f] = usr[f]
         /\ k1[e].child = usr[e].child /\ k1[e].step = usr[e].step
         /\ k1[e].fault = usr[e].fault /\ k1[e].handler = usr[e].handler
    BY <2>4 DEF IInv, Typed, UsrTypes
  <2> HIDE DEF k1
  <2>12. /\ k2 \in UsrTypes /\ k2[e].at = j /\ k2[e].perm = perm
         /\ \A f \in Envs \ {e} : k2[f] = usr[f]
         /\ k2[e].child = usr[e].child /\ k2[e].step = usr[e].step
         /\ k2[e].fault = usr[e].fault /\ k2[e].handler = usr[e].handler
    BY <2>5, <2>11 DEF UsrTypes
  <2> HIDE DEF k2
  <2>13. /\ usr' \in UsrTypes /\ usr'[e].at = j /\ usr'[e].perm = perm /\ usr'[e].pc = pc
         /\ \A f \in Envs \ {e} : usr'[f] = usr[f]
         /\ usr'[e].child = usr[e].child /\ usr'[e].step = usr[e].step
         /\ usr'[e].fault = usr[e].fault /\ usr'[e].handler = usr[e].handler
    BY <2>9, <2>10, <2>12 DEF UsrTypes
  <2>14. Fine(mem, mem', e) BY <1>1, SameMemory DEF IInv, Counted
  <2>15. usr'[e].step # "none" => usr'[e].fault \in Vas BY <2>13 DEF IInv, Handling
  <2>16. usr[e].pc \in Building BY <1>1, Counters
  <2>17. IInv' BY <1>1, <1>2, <2>4, <2>13, <2>14, <2>15, <2>16, KeptAlone
  <2> QED BY <1>1, <2>2, <2>7, <2>8, <2>13, <2>17 DEF todo
<1> QED BY <1>3, <1>4

LEMMA Advanced ==
  ASSUME IInv, NEW e \in Envs, usr[e].pc \in AtPage, Advance(e)
  PROVE  /\ usr' \in UsrTypes /\ \A f \in Envs \ {e} : usr'[f] = usr[f]
         /\ usr'[e].pc = "dup" /\ usr'[e].at = usr[e].at + 1
         /\ usr'[e].child = usr[e].child /\ usr'[e].step = usr[e].step
         /\ usr'[e].fault = usr[e].fault /\ usr'[e].handler = usr[e].handler
<1>1. usr[e].at \in 1 .. 5 BY DEF IInv, Children
<1>2. usr' = [usr EXCEPT ![e].pc = "dup", ![e].at = @ + 1] BY DEF Advance
<1> DEFINE k == [usr EXCEPT ![e].pc = "dup"]
<1>3. /\ k \in UsrTypes /\ \A f \in Envs \ {e} : k[f] = usr[f]
      /\ k[e].pc = "dup" /\ k[e].at = usr[e].at
      /\ k[e].child = usr[e].child /\ k[e].step = usr[e].step
      /\ k[e].fault = usr[e].fault /\ k[e].handler = usr[e].handler
  BY Counters DEF IInv, Typed, UsrTypes
<1>4. usr' = [k EXCEPT ![e].at = @ + 1] BY <1>2
<1> HIDE DEF k
<1>5. k[e].at + 1 \in 1 .. 6 BY <1>1, <1>3
<1> QED BY <1>1, <1>3, <1>4, <1>5 DEF UsrTypes

LEMMA AdvanceKeeps ==
  ASSUME IInv, NEW e \in Envs, NEW x \in Envs, usr[e].pc \in AtPage, Advance(e),
         Fine(mem, mem', x), Resume(e), env' = env, program' = program
  PROVE  IInv'
<1>1. /\ usr' \in UsrTypes /\ \A f \in Envs \ {e} : usr'[f] = usr[f]
      /\ usr'[e].pc = "dup" /\ usr'[e].child = usr[e].child
      /\ usr'[e].step = usr[e].step /\ usr'[e].fault = usr[e].fault
  BY Advanced
<1>2. Sound(mem') BY DEF Fine
<1>3. tlb' \in TlbTypes BY <1>2, Typings
<1>4. program' \in ProgramTypes BY DEF IInv, Typed
<1>5. usr'[e].step # "none" => usr'[e].fault \in Vas BY <1>1 DEF IInv, Handling
<1>6. "dup" \notin AtPage /\ usr[e].pc \in Building BY Counters
<1> QED BY <1>1, <1>3, <1>4, <1>5, <1>6, KeptAlone

(* The child of a parent that is building it. *)
LEMMA ChildOfBuilder ==
  ASSUME IInv, NEW e \in Envs, usr[e].pc \in Building
  PROVE  /\ usr[e].child \in Envs \ {e} /\ env[usr[e].child].parent = e
         /\ env[usr[e].child].status = "NOT_RUNNABLE" /\ ~env[usr[e].child].recving
<1>1. env[usr[e].child].parent = e /\ usr[e].child \in Envs \ {e}
  BY DEF IInv, Children
<1>2. Blocked(env, usr[e].child) BY <1>1 DEF IInv, Children
<1> QED BY <1>1, <1>2 DEF Blocked

LEMMA DupChildKeeps ==
  ASSUME IInv, NEW e \in Envs, DupChild(e)
  PROVE  /\ IInv' /\ Fine(mem, mem', usr[e].child)
         /\ OthersKept(mem, mem', usr[e].child, Va(e))
         /\ Mapped(mem, mem', e, Va(e), usr[e].child, Va(e), Shared(usr[e].perm))
         /\ \/ /\ ~EnvPageMapOK(mem, e, Va(e), usr[e].child, Va(e), Shared(usr[e].perm))
               /\ Goto(e, "panic")
            \/ /\ EnvPageMapOK(mem, e, Va(e), usr[e].child, Va(e), Shared(usr[e].perm))
               /\ Shared(usr[e].perm) = "cow" /\ Goto(e, "dup_own")
            \/ /\ EnvPageMapOK(mem, e, Va(e), usr[e].child, Va(e), Shared(usr[e].perm))
               /\ Shared(usr[e].perm) # "cow" /\ Advance(e)
<1> DEFINE d == usr[e].child
           va == Va(e)
           perm == Shared(usr[e].perm)
           m == EnvPageMap(mem, e, va, d, va, perm)
           ok == EnvPageMapOK(mem, e, va, d, va, perm)
<1>1. usr[e].pc = "dup_child" BY DEF DupChild, Calls, At
<1>2. usr[e].pc \in AtPage /\ usr[e].pc \in Building BY <1>1, Counters DEF AtPage
<1>3. d \in Envs /\ va \in Vas BY <1>2, ChildOfBuilder, PageOfLoop
<1>4. perm \in Perms BY DEF Shared, Perms
<1>5. Sound(mem) /\ program \in ProgramTypes BY DEF IInv, Counted, Typed
<1>6. \/ ~ok /\ Panics(e, m)
      \/ /\ ok /\ mem' = m /\ Resume(e) /\ env' = env /\ program' = program
         /\ IF perm = "cow" THEN Goto(e, "dup_own") ELSE Advance(e)
  BY DEF DupChild
<1> HIDE DEF d, va, perm
<1>7. Fine(mem, m, d) /\ OthersKept(mem, m, d, va) /\ Mapped(mem, m, e, va, d, va, perm)
  BY <1>3, <1>4, <1>5, PageMapped
<1> HIDE DEF m, ok
<1>8. CASE ~ok /\ Panics(e, m)
  <2>1. Returns(e, m, "panic") /\ env' = env /\ program' = program BY <1>8 DEF Panics
  <2>2. "panic" \in Counter /\ "panic" \notin Building \cup {"status"} /\ "panic" \notin AtPage
    BY Counters
  <2>3. IInv' /\ mem' = m /\ Goto(e, "panic")
    BY <1>3, <1>5, <1>7, <2>1, <2>2, ReturnKeeps
  <2> QED BY <1>7, <1>8, <2>3 DEF d, va, perm, ok
<1>9. CASE /\ ok /\ mem' = m /\ Resume(e) /\ env' = env /\ program' = program
           /\ perm = "cow" /\ Goto(e, "dup_own")
  <2>1. Returns(e, m, "dup_own") BY <1>9 DEF Returns
  <2>2. "dup_own" \in Counter BY DEF AtPage, Building, Counter
  <2>3. IInv' BY <1>2, <1>3, <1>5, <1>7, <1>9, <2>1, <2>2, ReturnKeeps
  <2> QED BY <1>7, <1>9, <2>3 DEF d, va, perm, ok
<1>10. CASE /\ ok /\ mem' = m /\ Resume(e) /\ env' = env /\ program' = program
            /\ perm # "cow" /\ Advance(e)
  <2>1. IInv' BY <1>2, <1>3, <1>7, <1>10, AdvanceKeeps
  <2> QED BY <1>7, <1>10, <2>1 DEF d, va, perm, ok
<1> QED BY <1>6, <1>8, <1>9, <1>10

LEMMA DupOwnKeeps ==
  ASSUME IInv, NEW e \in Envs, DupOwn(e)
  PROVE  /\ IInv' /\ Fine(mem, mem', e) /\ OthersKept(mem, mem', e, Va(e))
         /\ Mapped(mem, mem', e, Va(e), e, Va(e), "cow")
         /\ Advance(e) /\ Va(e) \in Vas
<1> DEFINE perm == "cow"
           m == EnvPageMap(mem, e, Va(e), e, Va(e), perm)
<1>1. usr[e].pc = "dup_own" BY DEF DupOwn, Calls, At
<1>2. usr[e].pc \in AtPage BY <1>1 DEF AtPage
<1>3. Va(e) \in Vas BY <1>2, PageOfLoop
<1>4. perm \in Perms BY DEF Perms
<1>5. mem' = m /\ Advance(e) /\ Resume(e) /\ env' = env /\ program' = program BY DEF DupOwn
<1>6. Sound(mem) BY DEF IInv, Counted
<1> HIDE DEF perm
<1>7. /\ Fine(mem, m, e) /\ OthersKept(mem, m, e, Va(e))
      /\ Mapped(mem, m, e, Va(e), e, Va(e), perm)
  BY <1>3, <1>4, <1>6, PageMapped
<1> HIDE DEF m
<1>8. IInv' BY <1>2, <1>5, <1>7, AdvanceKeeps
<1> QED BY <1>3, <1>5, <1>7, <1>8 DEF perm

LEMMA ChildXstackKeeps ==
  ASSUME IInv, NEW e \in Envs, ChildXstack(e)
  PROVE  /\ IInv' /\ Fine(mem, mem', usr[e].child)
         /\ OthersKept(mem, mem', usr[e].child, "XSTACK")
         /\ \/ /\ \E p \in Pages : mem'.pte[usr[e].child]["XSTACK"] = Pte(p, "rw")
               /\ Goto(e, "child_upcall")
            \/ /\ mem'.pte = mem.pte /\ mem'.exhausted = TRUE
               /\ Goto(e, "panic")
<1> DEFINE d == usr[e].child
<1>1. usr[e].pc = "xstack" BY DEF ChildXstack, Calls, At
<1>2. usr[e].pc \in Building BY <1>1, Counters
<1>3. d \in Envs BY <1>2, ChildOfBuilder
<1>4. "XSTACK" \in Vas /\ "rw" \in Perms /\ "child_upcall" \in Counter /\ "panic" \in Counter
  BY Addresses, Counters DEF Perms
<1>5. program' \in ProgramTypes /\ program'.npages = program.npages /\ env' = env
  BY DEF ChildXstack, IInv, Typed
<1>6. "child_upcall" \notin AtPage /\ "panic" \notin Building \cup {"status"} BY Counters
<1>7. Returns(e, EnvPageAlloc(mem, d, "XSTACK", "rw"),
              IF EnvPageAllocOK(mem, d, "XSTACK") THEN "child_upcall" ELSE "panic")
  BY DEF ChildXstack
<1> HIDE DEF d
<1>8. /\ IInv' /\ Fine(mem, mem', d) /\ OthersKept(mem, mem', d, "XSTACK")
      /\ \/ /\ \E p \in Pages : mem'.pte[d]["XSTACK"] = Pte(p, "rw")
            /\ Goto(e, "child_upcall")
         \/ /\ mem'.pte = mem.pte /\ mem'.exhausted = TRUE
            /\ Goto(e, "panic")
  BY <1>2, <1>3, <1>4, <1>5, <1>6, <1>7, AllocKeeps
<1> QED BY <1>8 DEF d

LEMMA CopyAllocKeeps ==
  ASSUME IInv, NEW e \in Envs, CopyAlloc(e)
  PROVE  /\ IInv' /\ Fine(mem, mem', usr[e].child)
         /\ OthersKept(mem, mem', usr[e].child, Va(e))
         /\ \/ /\ \E p \in Pages : mem'.pte[usr[e].child][Va(e)] = Pte(p, "rw")
               /\ Goto(e, "copy_map")
            \/ /\ mem'.pte = mem.pte /\ mem'.exhausted = TRUE
               /\ Goto(e, "panic")
<1> DEFINE d == usr[e].child
<1>1. usr[e].pc = "copy_alloc" BY DEF CopyAlloc, Calls, At
<1>2. usr[e].pc \in AtPage /\ usr[e].pc \in Building BY <1>1, Counters DEF AtPage
<1>3. d \in Envs /\ Va(e) \in Vas BY <1>2, ChildOfBuilder, PageOfLoop
<1>4. "rw" \in Perms /\ "copy_map" \in Counter /\ "panic" \in Counter
  BY Counters DEF Perms, AtPage, Building, Counter
<1>5. program' \in ProgramTypes /\ program'.npages = program.npages /\ env' = env
  BY DEF CopyAlloc, IInv, Typed
<1>6. "panic" \notin Building \cup {"status"} BY Counters
<1>7. Returns(e, EnvPageAlloc(mem, d, Va(e), "rw"),
              IF EnvPageAllocOK(mem, d, Va(e)) THEN "copy_map" ELSE "panic")
  BY DEF CopyAlloc
<1> HIDE DEF d
<1>8. /\ IInv' /\ Fine(mem, mem', d) /\ OthersKept(mem, mem', d, Va(e))
      /\ \/ /\ \E p \in Pages : mem'.pte[d][Va(e)] = Pte(p, "rw")
            /\ Goto(e, "copy_map")
         \/ /\ mem'.pte = mem.pte /\ mem'.exhausted = TRUE
            /\ Goto(e, "panic")
  BY <1>2, <1>3, <1>4, <1>5, <1>6, <1>7, AllocKeeps
<1> QED BY <1>8 DEF d

LEMMA ChildUpcallKeeps ==
  ASSUME IInv, NEW e \in Envs, ChildUpcall(e)
  PROVE  /\ IInv' /\ usr[e].child \in Envs \ {e}
         /\ \/ /\ env[e].upcall /\ mem' = mem /\ Goto(e, "status")
               /\ env' = [env EXCEPT ![usr[e].child].upcall = TRUE]
            \/ ~env[e].upcall /\ Gone(mem, mem', usr[e].child)
<1> DEFINE d == usr[e].child
<1>1. usr[e].pc = "child_upcall" BY DEF ChildUpcall, Calls, At
<1>2. usr[e].pc \in Building BY <1>1, Counters
<1>3. /\ d \in Envs \ {e} /\ env[d].parent = e /\ env[d].status = "NOT_RUNNABLE"
      /\ ~env[d].recving
  BY <1>2, ChildOfBuilder
<1>4. Sound(mem) /\ program' = program /\ program \in ProgramTypes
  BY DEF ChildUpcall, IInv, Counted, Typed
<1>5. "status" \in Counter /\ "status" \notin AtPage BY Counters
<1>6. CASE env[e].upcall
  <2>1. /\ env' = [env EXCEPT ![d].upcall = TRUE] /\ Returns(e, mem, "status")
    BY <1>6 DEF ChildUpcall
  <2> HIDE DEF d
  <2>2. mem' = mem /\ Goto(e, "status") /\ Resume(e) BY <2>1 DEF Returns
  <2>3. env' \in EnvTypes BY <1>3, <2>1 DEF IInv, Typed, EnvTypes
  <2>4. \A f \in Envs : /\ env'[f].parent = env[f].parent /\ env'[f].status = env[f].status
                        /\ env'[f].recving = env[f].recving
    BY <1>3, <2>1 DEF IInv, Typed, EnvTypes
  <2>5. \A f \in Envs : /\ env'[f].parent = env[f].parent
                        /\ env'[f].status = "FREE" <=> env[f].status = "FREE"
                        /\ env'[f].recving => env'[f].status = "NOT_RUNNABLE"
                        /\ Blocked(env, f) => Blocked(env', f)
    BY <2>4 DEF IInv, Slots, Blocked
  <2>6. /\ usr' \in UsrTypes /\ \A f \in Envs \ {e} : usr'[f] = usr[f]
        /\ usr'[e].pc = "status" /\ usr'[e].child = usr[e].child
        /\ usr'[e].step = usr[e].step /\ usr'[e].fault = usr[e].fault
    BY <1>5, <2>2, Went
  <2>7. Fine(mem, mem', e) BY <1>4, <2>2, SameMemory
  <2>8. tlb' \in TlbTypes BY <1>4, <2>2, Typings
  <2>9. \A f \in Envs : usr'[f].step # "none" => usr'[f].fault \in Vas
    BY <2>6 DEF IInv, Handling
  <2>10. IInv' BY <1>2, <1>4, <1>5, <2>3, <2>5, <2>6, <2>7, <2>8, <2>9, Kept
  <2> QED BY <1>3, <1>6, <2>1, <2>2, <2>10 DEF d
<1>7. CASE ~env[e].upcall
  <2>1. /\ mem' = EnvFreePages(mem, d) /\ env' = EnvFree(env, d) /\ Resume(e)
        /\ usr' = [usr EXCEPT ![d] = Start("none"), ![e].pc = "status"]
    BY <1>7 DEF ChildUpcall
  <2>d. usr[e].child = d OBVIOUS
  <2> HIDE DEF d
  <2>2. mem.dir[d] \in Pages BY <1>3, <1>4 DEF IInv, Slots, Sound
  <2>3. Gone(mem, mem', d) BY <1>3, <1>4, <2>1, <2>2, PagesFreed
  <2>4. /\ usr' \in UsrTypes /\ \A f \in Envs \ {d, e} : usr'[f] = usr[f]
        /\ usr'[d].pc = "none" /\ usr'[d].step = "none"
        /\ usr'[e].pc = "status" /\ usr'[e].child = d
        /\ usr'[e].step = usr[e].step /\ usr'[e].fault = usr[e].fault
    <3> DEFINE k == [usr EXCEPT ![d] = Start("none")]
    <3>1. usr' = [k EXCEPT ![e].pc = "status"] BY <2>1
    <3>2. Start("none") \in [pc : Counter, handler : BOOLEAN, child : Envs \cup {NoEnv},
                             at : 1 .. 6, perm : Perms, fault : Vas \cup {"none"}, step : Steps]
      BY Typings, Counters
    <3>3. /\ k \in UsrTypes /\ k[d] = Start("none")
          /\ \A f \in Envs \ {d} : k[f] = usr[f]
      BY <1>3, <3>2 DEF IInv, Typed, UsrTypes
    <3> HIDE DEF k
    <3>4. /\ usr' \in UsrTypes /\ \A f \in Envs \ {e} : usr'[f] = k[f]
          /\ usr'[e].pc = "status" /\ usr'[e].child = k[e].child
          /\ usr'[e].step = k[e].step /\ usr'[e].fault = k[e].fault
      BY <1>5, <3>1, <3>3 DEF UsrTypes
    <3>5. Start("none").pc = "none" /\ Start("none").step = "none" BY DEF Start
    <3> QED BY <1>3, <2>d, <3>3, <3>4, <3>5
  <2>5. Sound(mem') BY <2>3 DEF Gone
  <2>6. tlb' \in TlbTypes BY <2>1, <2>5, Typings
  <2>7. \A f \in Envs : usr'[f].step # "none" => usr'[f].fault \in Vas
    BY <2>4 DEF IInv, Handling
  <2>8. "none" \notin Building \cup {"status"} /\ "status" \notin Building BY Counters
  <2>9. IInv' BY <1>3, <1>4, <2>1, <2>3, <2>4, <2>6, <2>7, <2>8, KeptByFree
  <2> QED BY <1>3, <1>7, <2>3, <2>9, <2>d
<1> QED BY <1>6, <1>7

LEMMA CopyMapKeeps ==
  ASSUME IInv, NEW e \in Envs, CopyMap(e)
  PROVE  /\ IInv' /\ Fine(mem, mem', e) /\ OthersKept(mem, mem', e, "TEMP")
         /\ Mapped(mem, mem', usr[e].child, Va(e), e, "TEMP", "rw")
         /\ Goto(e, IF EnvPageMapOK(mem, usr[e].child, Va(e), e, "TEMP", "rw") THEN "copy"
                    ELSE "panic")
<1> DEFINE d == usr[e].child
           m == EnvPageMap(mem, d, Va(e), e, "TEMP", "rw")
           pc == IF EnvPageMapOK(mem, d, Va(e), e, "TEMP", "rw") THEN "copy" ELSE "panic"
<1>1. usr[e].pc = "copy_map" BY DEF CopyMap, Calls, At
<1>2. usr[e].pc \in AtPage /\ usr[e].pc \in Building BY <1>1, Counters DEF AtPage
<1>3. d \in Envs /\ Va(e) \in Vas BY <1>2, ChildOfBuilder, PageOfLoop
<1>4. "rw" \in Perms /\ "TEMP" \in Vas BY Addresses DEF Perms
<1>5. program' \in ProgramTypes /\ program'.npages = program.npages /\ env' = env
  BY DEF CopyMap, IInv, Typed
<1>6. Sound(mem) BY DEF IInv, Counted
<1>7. Returns(e, m, pc) BY DEF CopyMap
<1>8. pc \in {"copy", "panic"} OBVIOUS
<1>d. d = usr[e].child OBVIOUS
<1> HIDE DEF d
<1>9. /\ Fine(mem, m, e) /\ OthersKept(mem, m, e, "TEMP")
      /\ Mapped(mem, m, d, Va(e), e, "TEMP", "rw")
  BY <1>3, <1>4, <1>6, PageMapped
<1>p. pc = IF EnvPageMapOK(mem, d, Va(e), e, "TEMP", "rw") THEN "copy" ELSE "panic"
  OBVIOUS
<1> HIDE DEF m, pc
<1>10. pc \in Counter BY <1>8, Counters DEF AtPage, Building, Counter
<1>11. IInv' /\ mem' = m /\ Goto(e, pc) BY <1>2, <1>5, <1>7, <1>9, <1>10, ReturnKeeps
<1> QED BY <1>9, <1>11, <1>d, <1>p

LEMMA CopyKeeps ==
  ASSUME IInv, NEW e \in Envs, Copy(e)
  PROVE  /\ IInv' /\ mem'.pte = mem.pte /\ mem'.table = mem.table
         /\ mem'.exhausted = mem.exhausted
<1>1. \E f : mem' = [mem EXCEPT !.data = f]
  BY DEF Copy, IInv, Counted, Sound, Fields
<1>2. /\ Fine(mem, mem', e) /\ mem'.pte = mem.pte /\ mem'.table = mem.table
      /\ mem'.exhausted = mem.exhausted
  BY <1>1, ContentsOnly, Addresses DEF IInv, Counted
<1>3. /\ env' = env /\ tlb' = tlb /\ program' = program /\ Goto(e, "copy_unmap")
      /\ usr[e].pc = "copy"
  BY DEF Copy, At
<1>4. "copy_unmap" \in Counter /\ usr[e].pc \in AtPage BY <1>3 DEF AtPage, Building, Counter
<1>5. /\ usr' \in UsrTypes /\ \A f \in Envs \ {e} : usr'[f] = usr[f]
      /\ usr'[e].child = usr[e].child /\ usr'[e].at = usr[e].at
      /\ usr'[e].step = usr[e].step /\ usr'[e].fault = usr[e].fault
  BY <1>3, <1>4, Went
<1>6. tlb' \in TlbTypes /\ program' \in ProgramTypes BY <1>3 DEF IInv, Typed
<1>7. usr'[e].at \in 1 .. 5 BY <1>4, <1>5 DEF IInv, Children
<1>8. usr'[e].step # "none" => usr'[e].fault \in Vas BY <1>5 DEF IInv, Handling
<1>9. usr[e].pc \in Building BY <1>4, Counters
<1>10. IInv' BY <1>2, <1>3, <1>5, <1>6, <1>7, <1>8, <1>9, KeptAlone
<1> QED BY <1>2, <1>10

LEMMA CopyUnmapKeeps ==
  ASSUME IInv, NEW e \in Envs, CopyUnmap(e)
  PROVE  /\ IInv' /\ Fine(mem, mem', e) /\ mem'.table = mem.table
         /\ mem'.pte[e]["TEMP"] = Unmapped
         /\ \A v \in Vas \ {"TEMP"} : mem'.pte[e][v] = mem.pte[e][v]
         /\ Advance(e)
<1>1. Sound(mem) /\ "TEMP" \in Vas BY Addresses DEF IInv, Counted
<1>2. /\ mem' = PageRemove(mem, e, "TEMP") /\ Advance(e) /\ Resume(e)
      /\ env' = env /\ program' = program /\ usr[e].pc = "copy_unmap"
  BY DEF CopyUnmap, Calls, At
<1>3. /\ Fine(mem, mem', e) /\ mem'.table = mem.table
      /\ mem'.pte[e]["TEMP"] = Unmapped
      /\ \A v \in Vas \ {"TEMP"} : mem'.pte[e][v] = mem.pte[e][v]
  BY <1>1, <1>2, RemovedFine
<1>4. usr[e].pc \in AtPage BY <1>2 DEF AtPage
<1>5. IInv' BY <1>2, <1>3, <1>4, AdvanceKeeps
<1> QED BY <1>2, <1>3, <1>5

LEMMA SetStatusKeeps ==
  ASSUME IInv, NEW e \in Envs, SetStatus(e)
  PROVE  /\ IInv' /\ mem' = mem /\ usr[e].child \in Envs \ {e}
         /\ \/ env[usr[e].child].parent # e /\ env' = env /\ Goto(e, "panic")
            \/ /\ env[usr[e].child].parent = e /\ Blocked(env, usr[e].child)
               /\ env' = [env EXCEPT ![usr[e].child].status = "RUNNABLE"]
               /\ \A f \in Envs \ {e} : /\ usr'[f].pc = usr[f].pc /\ usr'[f].child = usr[f].child
                                        /\ usr'[f].at = usr[f].at /\ usr'[f].step = usr[f].step
                                        /\ usr'[f].fault = usr[f].fault
                                        /\ usr'[f].perm = usr[f].perm
               /\ \A f \in Envs \ {e, usr[e].child} : usr'[f] = usr[f]
               /\ usr'[usr[e].child].handler = usr[e].handler
               /\ usr'[e].pc = "user" /\ usr'[e].step = usr[e].step
               /\ usr'[e].fault = usr[e].fault /\ usr'[e].handler = usr[e].handler
<1> DEFINE d == usr[e].child
<1>1. usr[e].pc = "status" BY DEF SetStatus, Calls, At
<1>2. /\ d \in Envs \ {e}
      /\ env[d].parent = e => Blocked(env, d)
  BY <1>1 DEF IInv, Children
<1>3. Sound(mem) /\ program \in ProgramTypes BY DEF IInv, Counted, Typed
<1>4. CASE env[d].parent # e
  <2>1. Returns(e, mem, "panic") /\ env' = env /\ program' = program
    BY <1>4 DEF SetStatus, Panics
  <2>2. "panic" \in Counter /\ "panic" \notin Building \cup {"status"} /\ "panic" \notin AtPage
    BY Counters
  <2>3. Fine(mem, mem, e) BY <1>3, SameMemory
  <2> HIDE DEF d
  <2>4. IInv' /\ mem' = mem /\ Goto(e, "panic")
    BY <1>3, <2>1, <2>2, <2>3, ReturnKeeps
  <2> QED BY <1>2, <1>4, <2>1, <2>4 DEF d
<1>5. CASE env[d].parent = e
  <2>1. /\ env' = [env EXCEPT ![d].status = "RUNNABLE"]
        /\ usr' = [usr EXCEPT ![d].handler = usr[e].handler, ![e].pc = "user",
                              ![e].child = NoEnv]
        /\ mem' = mem /\ program' = program /\ Resume(e)
    BY <1>5 DEF SetStatus
  <2>d. d = usr[e].child OBVIOUS
  <2> HIDE DEF d
  <2>2. /\ env' \in EnvTypes /\ env'[d].status = "RUNNABLE" /\ env'[d].recving = env[d].recving
        /\ env'[d].parent = env[d].parent
        /\ \A f \in Envs \ {d} : env'[f] = env[f]
    BY <1>2, <2>1 DEF IInv, Typed, EnvTypes, Statuses
  <2>3. \A f \in Envs : /\ env'[f].parent = env[f].parent
                        /\ env'[f].status = "FREE" <=> env[f].status = "FREE"
                        /\ env'[f].recving => env'[f].status = "NOT_RUNNABLE"
                        /\ Blocked(env, f) /\ env[f].parent # e => Blocked(env', f)
    BY <1>2, <1>5, <2>2 DEF IInv, Slots, Blocked
  <2>4. /\ usr' \in UsrTypes /\ \A f \in Envs \ {d, e} : usr'[f] = usr[f]
        /\ usr'[d].pc = usr[d].pc /\ usr'[d].child = usr[d].child /\ usr'[d].at = usr[d].at
        /\ usr'[d].step = usr[d].step /\ usr'[d].fault = usr[d].fault
        /\ usr'[d].perm = usr[d].perm /\ usr'[d].handler = usr[e].handler
        /\ usr'[e].pc = "user" /\ usr'[e].step = usr[e].step
        /\ usr'[e].fault = usr[e].fault /\ usr'[e].handler = usr[e].handler
    <3> DEFINE k1 == [usr EXCEPT ![d].handler = usr[e].handler]
               k2 == [k1 EXCEPT ![e].pc = "user"]
    <3>1. usr' = [k2 EXCEPT ![e].child = NoEnv] BY <2>1
    <3>2. /\ k1 \in UsrTypes /\ \A f \in Envs \ {d} : k1[f] = usr[f]
          /\ k1[d].pc = usr[d].pc /\ k1[d].child = usr[d].child /\ k1[d].at = usr[d].at
          /\ k1[d].step = usr[d].step /\ k1[d].fault = usr[d].fault
          /\ k1[d].perm = usr[d].perm /\ k1[d].handler = usr[e].handler
      BY <1>2 DEF IInv, Typed, UsrTypes
    <3> HIDE DEF k1
    <3>3. /\ k2 \in UsrTypes /\ \A f \in Envs \ {e} : k2[f] = k1[f]
          /\ k2[e].pc = "user" /\ k2[e].step = k1[e].step
          /\ k2[e].fault = k1[e].fault /\ k2[e].handler = k1[e].handler
      BY <3>2, Counters DEF UsrTypes
    <3> HIDE DEF k2
    <3>4. /\ usr' \in UsrTypes /\ \A f \in Envs \ {e} : usr'[f] = k2[f]
          /\ usr'[e].pc = "user" /\ usr'[e].step = k1[e].step
          /\ usr'[e].fault = k1[e].fault /\ usr'[e].handler = k1[e].handler
      BY <3>1, <3>3 DEF UsrTypes
    <3> QED BY <1>2, <3>2, <3>3, <3>4
  <2>5. Fine(mem, mem', e) BY <1>3, <2>1, SameMemory
  <2>6. tlb' \in TlbTypes BY <1>3, <2>1, Typings
  <2>7. \A f \in Envs : usr'[f].step # "none" => usr'[f].fault \in Vas
    BY <1>2, <2>4 DEF IInv, Handling
  <2>8. "user" \notin Building \cup {"status"} /\ "user" \notin AtPage BY Counters
  <2>9. \A f \in Envs \ {e} : /\ usr'[f].pc = usr[f].pc /\ usr'[f].child = usr[f].child
                              /\ usr'[f].at = usr[f].at /\ usr'[f].step = usr[f].step
                              /\ usr'[f].fault = usr[f].fault /\ usr'[f].perm = usr[f].perm
    BY <2>4
  <2>10. /\ program' \in ProgramTypes /\ program'.npages = program.npages
         /\ env' \in EnvTypes /\ usr' \in UsrTypes
         /\ usr'[e].pc \notin Building \cup {"status"} /\ usr'[e].pc \notin AtPage
    BY <1>3, <2>1, <2>2, <2>4, <2>8
  <2>11. IInv' BY <2>3, <2>5, <2>6, <2>7, <2>9, <2>10, Kept
  <2> QED BY <1>2, <1>5, <2>1, <2>4, <2>9, <2>11, <2>d
<1> QED BY <1>4, <1>5

LEMMA SetThisenvKeeps ==
  ASSUME IInv, NEW e \in Envs, SetThisenv(e)
  PROVE  IInv'
<1>1. CASE tlb[e]["DATA"].perm # "rw" /\ PageFault(e, "DATA")
  <2>1. program' = program /\ program \in ProgramTypes BY <1>1 DEF PageFault, IInv, Typed
  <2> QED BY <1>1, <2>1, PageFaultKeeps, Addresses
<1>2. CASE Store(e, "DATA") /\ program' = program /\ Goto(e, "user")
  <2>1. program' \in ProgramTypes BY <1>2 DEF IInv, Typed
  <2>2. /\ usr' \in UsrTypes /\ usr'[e].pc = "user"
        /\ usr'[e].step = usr[e].step /\ usr'[e].fault = usr[e].fault
        /\ \A f \in Envs \ {e} : usr'[f] = usr[f]
    BY <1>2, Counters, Went
  <2> QED BY <1>2, <2>1, <2>2, Counters, StoreKeeps
<1> QED BY <1>1, <1>2 DEF SetThisenv

(* The count of system calls. *)
LEMMA Acted ==
  ASSUME IInv, NEW e \in Envs, Acts(e)
  PROVE  /\ program' \in ProgramTypes /\ program'.npages = program.npages
         /\ program'.fork = program.fork
         /\ env[e].status = "RUNNING" /\ usr[e].pc = "user" /\ usr[e].fault = "none"
<1>1. program \in ProgramTypes /\ program.acts > 0 BY DEF Acts, IInv, Typed
<1>2. program' = [program EXCEPT !.acts = @ - 1] BY DEF Acts
<1> QED BY <1>1, <1>2 DEF ProgramTypes, Acts, Calls, At

LEMMA AllocMsgKeeps ==
  ASSUME IInv, NEW e \in Envs, NEW perm \in {"ro", "rw"}, AllocMsg(e, perm)
  PROVE  /\ IInv' /\ Fine(mem, mem', e) /\ OthersKept(mem, mem', e, "MSG")
         /\ (\E p \in Pages : mem'.pte[e]["MSG"] = Pte(p, perm)) \/ mem'.pte = mem.pte
         /\ Goto(e, "user")
<1>1. "MSG" \in Vas /\ perm \in Perms /\ "user" \in Counter
  BY Addresses, Counters DEF Perms
<1>2. "user" \notin Building \cup {"status"} /\ "user" \notin AtPage BY Counters
<1>3. program' \in ProgramTypes /\ program'.npages = program.npages /\ env' = env
  BY Acted DEF AllocMsg
<1>4. Returns(e, EnvPageAlloc(mem, e, "MSG", perm),
              IF EnvPageAllocOK(mem, e, "MSG") THEN "user" ELSE "user")
  BY DEF AllocMsg
<1>5. /\ IInv' /\ Fine(mem, mem', e) /\ OthersKept(mem, mem', e, "MSG")
      /\ \/ /\ \E p \in Pages : mem'.pte[e]["MSG"] = Pte(p, perm)
            /\ Goto(e, "user")
         \/ /\ mem'.pte = mem.pte /\ mem'.exhausted = TRUE
            /\ Goto(e, "user")
  BY <1>1, <1>2, <1>3, <1>4, AllocKeeps
<1> QED BY <1>5

LEMMA UnmapMsgKeeps ==
  ASSUME IInv, NEW e \in Envs, NEW d \in Envs, UnmapMsg(e, d)
  PROVE  /\ IInv' /\ Fine(mem, mem', d) /\ mem'.table = mem.table
         /\ mem'.pte[d]["MSG"] = Unmapped
         /\ \A v \in Vas \ {"MSG"} : mem'.pte[d][v] = mem.pte[d][v]
         /\ Goto(e, "user")
<1> DEFINE m == PageRemove(mem, d, "MSG")
<1>1. "MSG" \in Vas /\ "user" \in Counter BY Addresses, Counters
<1>2. "user" \notin Building \cup {"status"} /\ "user" \notin AtPage BY Counters
<1>3. program' \in ProgramTypes /\ program'.npages = program.npages /\ env' = env
  BY Acted DEF UnmapMsg
<1>4. Sound(mem) BY DEF IInv, Counted
<1>5. /\ Fine(mem, m, d) /\ m.table = mem.table
      /\ m.pte[d]["MSG"] = Unmapped
      /\ \A v \in Vas \ {"MSG"} : m.pte[d][v] = mem.pte[d][v]
  BY <1>1, <1>4, RemovedFine
<1>6. Returns(e, m, "user") BY DEF UnmapMsg
<1> HIDE DEF m
<1>7. IInv' /\ mem' = m /\ Goto(e, "user") BY <1>1, <1>2, <1>3, <1>5, <1>6, ReturnKeeps
<1> QED BY <1>5, <1>7

LEMMA IpcRecvKeeps ==
  ASSUME IInv, NEW e \in Envs, IpcRecv(e)
  PROVE  IInv' /\ mem' = mem /\ usr' = usr
<1>1. /\ program' \in ProgramTypes /\ program'.npages = program.npages
      /\ env[e].status = "RUNNING"
  BY Acted DEF IpcRecv
<1>2. /\ mem' = mem /\ usr' = usr /\ LeaveCPU(e)
      /\ env' = [env EXCEPT ![e].status = "NOT_RUNNABLE", ![e].recving = TRUE]
  BY DEF IpcRecv
<1>3. /\ env' \in EnvTypes /\ env'[e].status = "NOT_RUNNABLE" /\ env'[e].recving = TRUE
      /\ env'[e].parent = env[e].parent
      /\ \A f \in Envs \ {e} : env'[f] = env[f]
  BY <1>2 DEF IInv, Typed, EnvTypes, Statuses
<1>4. \A f \in Envs : /\ env'[f].parent = env[f].parent
                      /\ env'[f].status = "FREE" <=> env[f].status = "FREE"
                      /\ env'[f].recving => env'[f].status = "NOT_RUNNABLE"
                      /\ Blocked(env, f) => Blocked(env', f)
  BY <1>1, <1>3 DEF IInv, Slots, Blocked
<1>5. Fine(mem, mem', e) BY <1>2, SameMemory DEF IInv, Counted
<1>6. tlb' \in TlbTypes BY <1>2, Typings
<1>7. usr' \in UsrTypes BY <1>2 DEF IInv, Typed
<1>8. \A f \in Envs : usr'[f].step # "none" => usr'[f].fault \in Vas
  BY <1>2 DEF IInv, Handling
<1>9. usr'[e].pc \in AtPage => usr'[e].at \in 1 .. 5 BY <1>2 DEF IInv, Children
<1>10. IInv' BY <1>1, <1>2, <1>3, <1>4, <1>5, <1>6, <1>7, <1>8, <1>9, Kept
<1> QED BY <1>2, <1>10

LEMMA FineTwice ==
  ASSUME NEW m, NEW r, NEW s, NEW e, Fine(m, r, e), Fine(r, s, e)
  PROVE  Fine(m, s, e)
  BY DEF Fine, SameExtra

(* What sys_ipc_try_send may do: nothing but a panic; no memory; a page for *)
(* the receiver that the sender had not; or the sender's page.             *)
NotSent(e) ==
  /\ mem' = mem /\ env' = env
  /\ Goto(e, "send_panic") \/ Goto(e, "kernel_panic")
NoMemory(e, d, perm) ==
  /\ ~EnvPageAllocOK(mem, d, "MSG")
  /\ mem' = EnvPageAlloc(mem, d, "MSG", perm) /\ env' = env
  /\ Goto(e, "panic")
OnlyReplaced(e, d, perm) ==
  /\ EnvPageAllocOK(mem, d, "MSG") /\ mem.pte[e]["MSG"] = Unmapped
  /\ mem' = EnvPageAlloc(mem, d, "MSG", perm) /\ env' = env
  /\ Goto(e, "send_panic")
Sent(e, d, perm) ==
  /\ EnvPageAllocOK(mem, d, "MSG") /\ mem.pte[e]["MSG"] # Unmapped
  /\ perm \in {"ro", mem.pte[e]["MSG"].perm}
  /\ mem' = EnvPageMap(EnvPageAlloc(mem, d, "MSG", perm), e, "MSG", d, "MSG", perm)
  /\ env' = [env EXCEPT ![d].recving = FALSE, ![d].status = "RUNNABLE"]
  /\ Goto(e, "user")

LEMMA Sending ==
  ASSUME NEW e \in Envs, NEW d \in Envs, IpcTrySend(e, d)
  PROVE  /\ Calls(e, "user") /\ env[d].recving /\ Resume(e)
         /\ seen' = seen /\ program' = program
         /\ \E perm \in {"ro", "rw"} :
              NotSent(e) \/ NoMemory(e, d, perm) \/ OnlyReplaced(e, d, perm) \/ Sent(e, d, perm)
<1>1. Calls(e, "user") /\ env[d].recving BY DEF IpcTrySend
<1>2. PICK perm \in {"ro", "rw"} :
        \/ mem.pte[e]["MSG"] = Unmapped /\ SendNothing(e, d, perm)
        \/ Refused(e, mem)
        \/ /\ mem.pte[e]["MSG"] # Unmapped /\ perm \in {"ro", mem.pte[e]["MSG"].perm}
           /\ SendPage(e, d, perm)
  BY DEF IpcTrySend
<1>3. CASE Refused(e, mem) BY <1>1, <1>3 DEF Refused, Returns, NotSent
<1>4. CASE mem.pte[e]["MSG"] = Unmapped /\ SendNothing(e, d, perm)
  <2> DEFINE fresh == EnvPageAlloc(mem, d, "MSG", perm)
  <2>1. \/ Refused(e, mem)
        \/ Returns(e, mem, "kernel_panic") /\ UNCHANGED <<env, seen, program>>
        \/ EnvPageAllocOK(mem, d, "MSG") /\ Refused(e, fresh)
        \/ ~EnvPageAllocOK(mem, d, "MSG") /\ Panics(e, fresh)
    BY <1>4 DEF SendNothing
  <2> QED BY <1>1, <1>4, <2>1 DEF Refused, Panics, Returns, NotSent, NoMemory, OnlyReplaced
<1>5. CASE /\ mem.pte[e]["MSG"] # Unmapped /\ perm \in {"ro", mem.pte[e]["MSG"].perm}
           /\ SendPage(e, d, perm)
  <2>1. \/ /\ EnvPageAllocOK(mem, d, "MSG")
           /\ Received(e, d, EnvPageMap(EnvPageAlloc(mem, d, "MSG", perm),
                                       e, "MSG", d, "MSG", perm))
        \/ /\ ~EnvPageAllocOK(mem, d, "MSG")
           /\ Panics(e, EnvPageAlloc(mem, d, "MSG", perm))
    BY <1>5 DEF SendPage
  <2> QED BY <1>1, <1>5, <2>1 DEF Received, Panics, Returns, NoMemory, Sent
<1> QED BY <1>2, <1>3, <1>4, <1>5

(* The receiver gets the sender's page, or a new one from a sender that has *)
(* none and panics, or its mappings stay as they are.                      *)
LEMMA IpcTrySendKeeps ==
  ASSUME IInv, NEW e \in Envs, NEW d \in Envs, IpcTrySend(e, d)
  PROVE  /\ IInv' /\ Fine(mem, mem', d) /\ d # e
         /\ \/ /\ mem'.pte = mem.pte /\ env' = env
               /\ \/ mem' = mem /\ (Goto(e, "send_panic") \/ Goto(e, "kernel_panic"))
                  \/ mem'.exhausted = TRUE /\ Goto(e, "panic")
            \/ /\ \A v \in Vas \ {"MSG"} : mem'.pte[d][v] = mem.pte[d][v]
               /\ \A t \in Tables : mem.table[d][t] # NULL => mem'.table[d][t] # NULL
               /\ \/ /\ Goto(e, "user")
                     /\ env' = [env EXCEPT ![d].recving = FALSE, ![d].status = "RUNNABLE"]
                  \/ /\ Goto(e, "send_panic") /\ env' = env
                     /\ mem.pte[e]["MSG"] = Unmapped /\ mem'.pte[d]["MSG"] # Unmapped
<1>1. /\ env[e].status = "RUNNING" /\ env[d].recving /\ program' = program /\ Resume(e)
  BY Sending DEF Calls
<1>2. PICK perm \in {"ro", "rw"} :
        NotSent(e) \/ NoMemory(e, d, perm) \/ OnlyReplaced(e, d, perm) \/ Sent(e, d, perm)
  BY Sending
<1> DEFINE fresh == EnvPageAlloc(mem, d, "MSG", perm)
           m == EnvPageMap(fresh, e, "MSG", d, "MSG", perm)
<1>3. Sound(mem) /\ program \in ProgramTypes BY DEF IInv, Counted, Typed
<1>4. "MSG" \in Vas /\ perm \in Perms BY Addresses DEF Perms
<1>5. /\ Fine(mem, fresh, d) /\ OthersKept(mem, fresh, d, "MSG")
      /\ ~EnvPageAllocOK(mem, d, "MSG") => fresh.pte = mem.pte /\ fresh.exhausted = TRUE
      /\ EnvPageAllocOK(mem, d, "MSG") => \E p \in Pages : fresh.pte[d]["MSG"] = Pte(p, perm)
  BY <1>3, <1>4, PageAllocated
<1>s. NotSent(e) => mem' = mem /\ env' = env /\ \E pc \in {"send_panic", "kernel_panic"} : Goto(e, pc)
  BY DEF NotSent
<1>t. NoMemory(e, d, perm) =>
        mem' = fresh /\ env' = env /\ Goto(e, "panic") /\ ~EnvPageAllocOK(mem, d, "MSG")
  BY DEF NoMemory
<1>u. OnlyReplaced(e, d, perm) =>
        /\ mem' = fresh /\ env' = env /\ Goto(e, "send_panic") /\ mem.pte[e]["MSG"] = Unmapped
        /\ EnvPageAllocOK(mem, d, "MSG")
  BY DEF OnlyReplaced
<1>v. Sent(e, d, perm) =>
        /\ mem' = m /\ Goto(e, "user")
        /\ env' = [env EXCEPT ![d].recving = FALSE, ![d].status = "RUNNABLE"]
  BY DEF Sent
<1> HIDE DEF fresh
<1>6. Sound(fresh) BY <1>5 DEF Fine
<1>7. Fine(fresh, m, d) /\ OthersKept(fresh, m, d, "MSG")
  BY <1>4, <1>6, PageMapped
<1> HIDE DEF m
<1>8. Fine(mem, m, d) BY <1>5, <1>7, FineTwice
<1>9. d # e /\ env[d].status = "NOT_RUNNABLE" BY <1>1 DEF IInv, Slots
<1>10. \A pc \in {"panic", "send_panic", "kernel_panic", "user"} :
         pc \in Counter /\ pc \notin Building \cup {"status"} /\ pc \notin AtPage
  BY Counters
<1>11. ASSUME env' = env, NEW r, NEW pc \in {"panic", "send_panic", "kernel_panic"},
              mem' = r, Fine(mem, r, d), Goto(e, pc)
       PROVE  IInv'
  <2>1. Returns(e, r, pc) BY <1>1, <1>11 DEF Returns
  <2> QED BY <1>1, <1>3, <1>10, <1>11, <2>1, ReturnKeeps
<1>12. CASE NotSent(e)
  <2>1. Fine(mem, mem, d) BY <1>3, SameMemory
  <2>2. IInv' BY <1>11, <1>12, <1>s, <2>1
  <2> QED BY <1>9, <1>12, <1>s, <2>1, <2>2
<1>13. CASE NoMemory(e, d, perm)
  <2>1. IInv' BY <1>5, <1>11, <1>13, <1>t
  <2> QED BY <1>5, <1>9, <1>13, <1>t, <2>1
<1>14. CASE OnlyReplaced(e, d, perm)
  <2>1. IInv' BY <1>5, <1>11, <1>14, <1>u
  <2>2. mem'.pte[d]["MSG"] # Unmapped
    <3>1. PICK p \in Pages : fresh.pte[d]["MSG"] = Pte(p, perm) BY <1>5, <1>14, <1>u
    <3>2. Pte(p, perm).perm # Unmapped.perm BY DEF Pte, Unmapped
    <3> QED BY <1>14, <1>u, <3>1, <3>2
  <2> QED BY <1>5, <1>9, <1>14, <1>u, <2>1, <2>2 DEF OthersKept
<1>15. CASE Sent(e, d, perm)
  <2>1. mem' = m /\ Goto(e, "user") /\ Resume(e) BY <1>1, <1>15, <1>v
  <2>2. /\ env' \in EnvTypes /\ env'[d].status = "RUNNABLE" /\ env'[d].recving = FALSE
        /\ env'[d].parent = env[d].parent
        /\ \A f \in Envs \ {d} : env'[f] = env[f]
    <3>1. env' = [env EXCEPT ![d].recving = FALSE, ![d].status = "RUNNABLE"] BY <1>15, <1>v
    <3>2. env \in EnvTypes BY DEF IInv, Typed
    <3>3. "RUNNABLE" \in Statuses BY DEF Statuses
    <3> QED BY <3>1, <3>2, <3>3 DEF EnvTypes
  <2>3. \A f \in Envs : /\ env'[f].parent = env[f].parent
                        /\ env'[f].status = "FREE" <=> env[f].status = "FREE"
                        /\ env'[f].recving => env'[f].status = "NOT_RUNNABLE"
                        /\ Blocked(env, f) => Blocked(env', f)
    BY <1>1, <1>9, <2>2 DEF IInv, Slots, Blocked
  <2>4. /\ usr' \in UsrTypes /\ \A f \in Envs \ {e} : usr'[f] = usr[f]
        /\ usr'[e].pc = "user" /\ usr'[e].step = usr[e].step /\ usr'[e].fault = usr[e].fault
    BY <1>10, <2>1, Went
  <2>5. Fine(mem, mem', d) BY <1>8, <2>1
  <2>6. Sound(mem') BY <2>5 DEF Fine
  <2>7. tlb' \in TlbTypes BY <2>1, <2>6, Typings
  <2>8. \A f \in Envs : usr'[f].step # "none" => usr'[f].fault \in Vas
    BY <2>4 DEF IInv, Handling
  <2>9. /\ program' \in ProgramTypes /\ program'.npages = program.npages
        /\ env' \in EnvTypes /\ usr' \in UsrTypes
        /\ usr'[e].pc \notin Building \cup {"status"} /\ usr'[e].pc \notin AtPage
        /\ \A f \in Envs \ {e} : /\ usr'[f].pc = usr[f].pc /\ usr'[f].child = usr[f].child
                                 /\ usr'[f].at = usr[f].at
    BY <1>1, <1>3, <1>10, <2>2, <2>4
  <2>10. IInv' BY <2>3, <2>5, <2>7, <2>8, <2>9, Kept
  <2>11. /\ \A v \in Vas \ {"MSG"} : mem'.pte[d][v] = mem.pte[d][v]
         /\ \A t \in Tables : mem.table[d][t] # NULL => mem'.table[d][t] # NULL
    BY <1>5, <1>7, <2>1 DEF OthersKept
  <2> QED BY <1>9, <1>15, <1>v, <2>1, <2>5, <2>10, <2>11
<1> QED BY <1>2, <1>12, <1>13, <1>14, <1>15

LEMMA ExitKeeps == ASSUME IInv, NEW e \in Envs, Exit(e) PROVE IInv'
<1>1. /\ program' = program /\ program \in ProgramTypes /\ DestroySelf(e, "none")
      /\ env[e].status = "RUNNING"
  BY DEF Exit, Calls, IInv, Typed
<1> QED BY <1>1, DestroySelfKeeps

LEMMA KillKeeps ==
  ASSUME IInv, NEW e \in Envs, NEW d \in Envs, Kill(e, d)
  PROVE  /\ IInv' /\ d # e
         /\ \/ /\ env[d].status = "RUNNING" /\ mem' = mem /\ Goto(e, "user")
               /\ env' = [env EXCEPT ![d].status = "DYING"]
            \/ /\ env[d].status # "RUNNING" /\ Gone(mem, mem', d)
               /\ env' = EnvFree(env, d)
               /\ usr' = [usr EXCEPT ![d] = Start("none")]
<1>1. /\ d # e /\ env[d].parent = e /\ usr[e].pc = "user" /\ program' = program
  BY DEF Kill, Calls, At
<1>2. Sound(mem) /\ program \in ProgramTypes BY DEF IInv, Counted, Typed
<1>3. "user" \in Counter /\ "user" \notin Building \cup {"status"} /\ "user" \notin AtPage
  BY Counters
<1>4. CASE env[d].status = "RUNNING"
  <2>1. env' = [env EXCEPT ![d].status = "DYING"] /\ Returns(e, mem, "user")
    BY <1>4 DEF Kill
  <2>2. mem' = mem /\ Goto(e, "user") /\ Resume(e) BY <2>1 DEF Returns
  <2>3. /\ env' \in EnvTypes /\ env'[d].status = "DYING" /\ env'[d].recving = env[d].recving
        /\ env'[d].parent = env[d].parent
        /\ \A f \in Envs \ {d} : env'[f] = env[f]
    BY <2>1 DEF IInv, Typed, EnvTypes, Statuses
  <2>4. \A f \in Envs : /\ env'[f].parent = env[f].parent
                        /\ env'[f].status = "FREE" <=> env[f].status = "FREE"
                        /\ env'[f].recving => env'[f].status = "NOT_RUNNABLE"
                        /\ Blocked(env, f) => Blocked(env', f)
    BY <1>4, <2>3 DEF IInv, Slots, Blocked
  <2>5. /\ usr' \in UsrTypes /\ \A f \in Envs \ {e} : usr'[f] = usr[f]
        /\ usr'[e].pc = "user" /\ usr'[e].step = usr[e].step /\ usr'[e].fault = usr[e].fault
    BY <1>3, <2>2, Went
  <2>6. Fine(mem, mem', e) BY <1>2, <2>2, SameMemory
  <2>7. tlb' \in TlbTypes BY <1>2, <2>2, Typings
  <2>8. \A f \in Envs : usr'[f].step # "none" => usr'[f].fault \in Vas
    BY <2>5 DEF IInv, Handling
  <2>9. /\ program' \in ProgramTypes /\ program'.npages = program.npages
        /\ usr'[e].pc \notin Building \cup {"status"} /\ usr'[e].pc \notin AtPage
        /\ \A f \in Envs \ {e} : /\ usr'[f].pc = usr[f].pc /\ usr'[f].child = usr[f].child
                                 /\ usr'[f].at = usr[f].at
    BY <1>1, <1>2, <1>3, <2>5
  <2>10. IInv' BY <2>3, <2>4, <2>5, <2>6, <2>7, <2>8, <2>9, Kept
  <2> QED BY <1>1, <1>4, <2>1, <2>2, <2>10
<1>5. CASE env[d].status # "RUNNING"
  <2>1. /\ mem' = EnvFreePages(mem, d) /\ env' = EnvFree(env, d) /\ Resume(e)
        /\ usr' = [usr EXCEPT ![d] = Start("none")]
    BY <1>5 DEF Kill
  <2>2. NoEnv \notin Envs BY AddressSpaceAssumption
  <2>3. mem.dir[d] \in Pages BY <1>1, <1>2, <2>2 DEF IInv, Slots, Sound
  <2>4. Gone(mem, mem', d) BY <1>2, <2>1, <2>3, PagesFreed
  <2>5. "none" \in Counter /\ "none" \notin Building \cup {"status"} BY Counters
  <2>6. /\ usr' \in UsrTypes /\ usr'[d].pc = "none" /\ usr'[d].step = "none"
        /\ \A f \in Envs \ {d} : usr'[f] = usr[f]
    BY <2>1, <2>5, Typings DEF IInv, Typed, UsrTypes, Start
  <2>7. Sound(mem') BY <2>4 DEF Gone
  <2>8. tlb' \in TlbTypes BY <2>1, <2>7, Typings
  <2>9. \A f \in Envs : usr'[f].step # "none" => usr'[f].fault \in Vas
    BY <2>6 DEF IInv, Handling
  <2>10. usr'[e].pc = "user" BY <1>1, <2>6
  <2>11. /\ program' \in ProgramTypes /\ program'.npages = program.npages
         /\ \A f \in Envs \ {d, e} : /\ usr'[f].pc = usr[f].pc /\ usr'[f].child = usr[f].child
                                     /\ usr'[f].at = usr[f].at
         /\ usr'[d].pc \notin Building \cup {"status"}
         /\ usr'[e].pc \notin Building /\ usr'[e].pc # "status"
    BY <1>1, <1>2, <1>3, <2>5, <2>6, <2>10
  <2>12. IInv' BY <1>1, <2>1, <2>4, <2>6, <2>8, <2>9, <2>11, KeptByFree
  <2> QED BY <1>1, <1>5, <2>1, <2>4, <2>12
<1> QED BY <1>4, <1>5

-----------------------------------------------------------------------------
(* The invariant *)

(* The memory of a machine of n pages before there is any environment. *)
Empty(n) ==
  [free  |-> PageInit(n),
   ref   |-> [p \in Pages |-> 0],
   dir   |-> [e \in Envs |-> NULL],
   table |-> [e \in Envs |-> [t \in Tables |-> NULL]],
   pte   |-> [e \in Envs |-> NoVas],
   data  |-> [p \in Pages |-> 0],
   exhausted |-> FALSE,
   panic |-> FALSE]

LEMMA EmptySound ==
  ASSUME NEW n \in Nat, 1 .. n \subseteq Pages
  PROVE  /\ Sound(Empty(n)) /\ \A p \in Pages : Extra(Empty(n), p) = 0
         /\ NoneLost(Empty(n), n, {})
<1> DEFINE m == Empty(n)
<1>1. /\ DOMAIN m = Fields /\ m.free = 1 .. n /\ m.ref = [p \in Pages |-> 0]
      /\ m.dir = [e \in Envs |-> NULL]
      /\ m.table = [e \in Envs |-> [t \in Tables |-> NULL]]
      /\ m.pte = [e \in Envs |-> NoVas]
      /\ m.panic = FALSE
  BY DEF Empty, Fields, PageInit
<1> HIDE DEF m
<1>2. \A e \in Envs, va \in Vas : m.pte[e][va] = Unmapped
  BY <1>1 DEF NoVas
<1>3. \A p \in Pages : Refs(m, p) = 0
  <2>1. SUFFICES ASSUME NEW p \in Pages PROVE Refs(m, p) = 0
    OBVIOUS
  <2>2. p # NULL BY PagesAreNot
  <2>3. DirRefs(m, p) = {} BY <1>1, <2>2 DEF DirRefs
  <2>4. TableRefs(m, p) = {}
    <3>1. \A x \in Envs \X Tables : m.table[x[1]][x[2]] = NULL BY <1>1
    <3> QED BY <2>2, <3>1 DEF TableRefs
  <2>5. PteRefs(m, p) = {}
    <3>1. \A x \in Envs \X Vas : m.pte[x[1]][x[2]] = Unmapped
      <4>1. \A x \in Envs \X Vas : x[1] \in Envs /\ x[2] \in Vas OBVIOUS
      <4> QED BY <1>2, <4>1
    <3>2. Unmapped.page = NULL BY PteKinds
    <3> QED BY <2>2, <3>1, <3>2 DEF PteRefs
  <2> QED BY <2>3, <2>4, <2>5, FS_EmptySet DEF Refs
<1>4. m.pte \in [Envs -> [Vas -> Ptes]] BY <1>1, PteKinds DEF NoVas
<1>5. Sound(m) BY <1>1, <1>2, <1>3, <1>4 DEF Sound
<1>6. \A p \in Pages : Extra(m, p) = 0 BY <1>1, <1>3 DEF Extra
<1>7. NoneLost(m, n, {})
  <2>1. \A p \in Pages : p \in Nat /\ p # 0 BY PagesAreNot DEF NULL
  <2>2. \A p \in Pages : p <= n => p \in 1 .. n BY <2>1
  <2> QED BY <1>1, <2>2 DEF NoneLost
<1> QED BY <1>5, <1>6, <1>7 DEF m

(* env_create at boot. *)
LEMMA Booted ==
  ASSUME NEW n \in Nat, n >= 5, 1 .. n \subseteq Pages
  PROVE  /\ Sound(Boot(n)) /\ \A p \in Pages : Extra(Boot(n), p) = 0
         /\ NoneLost(Boot(n), n, {})
         /\ Boot(n).dir[First] # NULL /\ \A e \in Envs \ {First} : Boot(n).dir[e] = NULL
<1> DEFINE m == Empty(n)
           s == EnvSetupVm(m, First)
           t == EnvPageAlloc(s, First, "DATA", "rw")
           b == EnvPageAlloc(t, First, "STACK", "rw")
<1>1. b = Boot(n) BY DEF Boot, Empty
<1>2. Sound(m) /\ (\A p \in Pages : Extra(m, p) = 0) /\ NoneLost(m, n, {})
  BY EmptySound
<1>3. m.free # {} /\ \A e \in Envs : m.dir[e] = NULL
  <2>1. 1 \in 1 .. n OBVIOUS
  <2> QED BY <2>1 DEF Empty, PageInit
<1> HIDE DEF m
<1>4. First \in Envs /\ "DATA" \in Vas /\ "STACK" \in Vas /\ "rw" \in Perms
  BY AddressSpaceAssumption, Addresses DEF Perms
<1>5. Born(m, s, First) BY <1>2, <1>3, <1>4, VmSetUp DEF Born
<1> HIDE DEF s
<1>6. Sound(s) BY <1>5 DEF Born
<1>7. Fine(s, t, First) BY <1>4, <1>6, PageAllocated
<1> HIDE DEF t
<1>8. Sound(t) BY <1>7 DEF Fine
<1>9. Fine(t, b, First) BY <1>4, <1>8, PageAllocated
<1> HIDE DEF b
<1>10. Fine(s, b, First) BY <1>7, <1>9, FineTwice
<1>11. Sound(b) /\ SameExtra(s, b) /\ b.dir = s.dir BY <1>10 DEF Fine
<1>12. \A p \in Pages : Extra(b, p) = 0 BY <1>2, <1>5, <1>11 DEF Born, SameExtra
<1>13. NoneLost(b, n, {}) BY <1>2, <1>5, <1>10 DEF Born, Fine
<1>14. b.dir[First] # NULL /\ \A e \in Envs \ {First} : b.dir[e] = NULL
  BY <1>3, <1>5, <1>11, PagesAreNot DEF Born
<1> QED BY <1>1, <1>11, <1>12, <1>13, <1>14

LEMMA InitIInv == Init => IInv
<1> SUFFICES ASSUME Init PROVE IInv
  OBVIOUS
<1>1. /\ program \in ProgramTypes /\ program.npages >= 5
      /\ 1 .. program.npages \subseteq Pages
  BY AddressSpaceAssumption DEF Init, ProgramTypes, Pages
<1>2. program.npages \in Nat BY <1>1 DEF ProgramTypes
<1>3. /\ Sound(mem) /\ (\A p \in Pages : Extra(mem, p) = 0)
      /\ NoneLost(mem, program.npages, {})
      /\ mem.dir[First] # NULL /\ \A e \in Envs \ {First} : mem.dir[e] = NULL
  BY <1>1, <1>2, Booted DEF Init
<1>4. Counted BY <1>3 DEF Counted
<1>5. env \in EnvTypes /\ env[First].status = "RUNNABLE"
      /\ (\A e \in Envs \ {First} : env[e].status = "FREE")
      /\ \A e \in Envs : env[e].parent = NoEnv /\ ~env[e].recving
  <2>1. NoEnvAt \in [status : Statuses, parent : Envs \cup {NoEnv}, upcall : BOOLEAN,
                     recving : BOOLEAN]
    BY DEF NoEnvAt, Statuses
  <2>2. [NoEnvAt EXCEPT !.status = "RUNNABLE"]
          \in [status : Statuses, parent : Envs \cup {NoEnv}, upcall : BOOLEAN,
               recving : BOOLEAN]
    BY <2>1 DEF Statuses
  <2>3. env \in EnvTypes BY <2>1, <2>2 DEF Init, EnvTypes
  <2> QED BY <2>3, AddressSpaceAssumption DEF Init, NoEnvAt
<1>6. /\ usr \in UsrTypes
      /\ \A e \in Envs : usr[e].pc \in {"user", "none"} /\ usr[e].step = "none"
  <2>1. \A pc \in Counter : Start(pc) \in [pc : Counter, handler : BOOLEAN,
          child : Envs \cup {NoEnv}, at : 1 .. 6, perm : Perms,
          fault : Vas \cup {"none"}, step : Steps]
    BY DEF Start, Perms, Steps
  <2>2. \A e \in Envs : usr[e] = Start(IF e = First THEN "user" ELSE "none") BY DEF Init
  <2>3. usr = [e \in Envs |-> Start(IF e = First THEN "user" ELSE "none")] BY DEF Init
  <2>4. usr \in UsrTypes BY <2>1, <2>3, Counters DEF UsrTypes
  <2>5. \A e \in Envs : usr[e] = Start("user") \/ usr[e] = Start("none") BY <2>2
  <2>6. /\ Start("user").pc = "user" /\ Start("user").step = "none"
        /\ Start("none").pc = "none" /\ Start("none").step = "none"
    BY DEF Start
  <2>7. \A e \in Envs : usr[e].pc \in {"user", "none"} /\ usr[e].step = "none"
    BY <2>5, <2>6
  <2> QED BY <2>4, <2>7
<1>7. tlb \in TlbTypes BY PteKinds DEF Init, NoVas, TlbTypes
<1>8. Typed BY <1>1, <1>5, <1>6, <1>7 DEF Typed
<1>9. Slots BY <1>3, <1>5 DEF Slots
<1>10. Children BY <1>6, Counters DEF Children
<1>11. Handling BY <1>6 DEF Handling
<1> QED BY <1>4, <1>8, <1>9, <1>10, <1>11 DEF IInv

LEMMA LibraryKeeps == ASSUME IInv, NEW e \in Envs, Library(e) PROVE IInv'
<1>1. CASE PgfaultAlloc(e) BY <1>1, PgfaultAllocKeeps
<1>2. CASE PgfaultCopy(e) BY <1>2, PgfaultCopyKeeps
<1>3. CASE PgfaultMap(e) BY <1>3, PgfaultMapKeeps
<1>4. CASE PgfaultUnmap(e) BY <1>4, PgfaultUnmapKeeps
<1>5. CASE SetPgfaultHandler(e) BY <1>5, SetPgfaultHandlerKeeps
<1>6. CASE SetPgfaultUpcall(e) BY <1>6, SetPgfaultUpcallKeeps
<1>7. CASE SaveHandler(e) BY <1>7, SaveHandlerKeeps
<1>8. CASE Exofork(e) BY <1>8, ExoforkKeeps
<1>9. CASE Dup(e) BY <1>9, DupKeeps
<1>10. CASE DupChild(e) BY <1>10, DupChildKeeps
<1>11. CASE DupOwn(e) BY <1>11, DupOwnKeeps
<1>12. CASE ChildXstack(e) BY <1>12, ChildXstackKeeps
<1>13. CASE ChildUpcall(e) BY <1>13, ChildUpcallKeeps
<1>14. CASE CopyAlloc(e) BY <1>14, CopyAllocKeeps
<1>15. CASE CopyMap(e) BY <1>15, CopyMapKeeps
<1>16. CASE Copy(e) BY <1>16, CopyKeeps
<1>17. CASE CopyUnmap(e) BY <1>17, CopyUnmapKeeps
<1>18. CASE SetStatus(e) BY <1>18, SetStatusKeeps
<1>19. CASE SetThisenv(e) BY <1>19, SetThisenvKeeps
<1> QED BY <1>1, <1>2, <1>3, <1>4, <1>5, <1>6, <1>7, <1>8, <1>9, <1>10, <1>11, <1>12,
           <1>13, <1>14, <1>15, <1>16, <1>17, <1>18, <1>19 DEF Library

LEMMA ProgramKeeps == ASSUME IInv, NEW e \in Envs, Program(e) PROVE IInv'
<1>1. ASSUME NEW va \in {"DATA", "STACK", "MSG"}, WriteMemory(e, va) PROVE IInv'
  BY <1>1, WriteMemoryKeeps
<1>2. CASE Fork(e) BY <1>2, ForkKeeps
<1>3. CASE Exit(e) BY <1>3, ExitKeeps
<1>4. CASE IpcRecv(e) BY <1>4, IpcRecvKeeps
<1>5. ASSUME NEW perm \in {"ro", "rw"}, AllocMsg(e, perm) PROVE IInv'
  BY <1>5, AllocMsgKeeps
<1>6. ASSUME NEW d \in Envs, IpcTrySend(e, d) PROVE IInv' BY <1>6, IpcTrySendKeeps
<1>7. ASSUME NEW d \in Envs, Kill(e, d) PROVE IInv' BY <1>7, KillKeeps
<1>8. ASSUME NEW d \in Envs, UnmapMsg(e, d) PROVE IInv' BY <1>8, UnmapMsgKeeps
<1> QED BY <1>1, <1>2, <1>3, <1>4, <1>5, <1>6, <1>7, <1>8 DEF Program

LEMMA NextIInv == IInv /\ [Next]_vars => IInv'
<1>1. ASSUME IInv, NEW e \in Envs,
             Run(e) \/ Preempt(e) \/ TrapOfZombie(e) \/ Library(e) \/ Program(e)
      PROVE  IInv'
  BY <1>1, RunKeeps, PreemptKeeps, TrapOfZombieKeeps, LibraryKeeps, ProgramKeeps
<1>2. ASSUME IInv, UNCHANGED vars PROVE IInv'
  <2>1. /\ mem' = mem /\ env' = env /\ usr' = usr /\ tlb' = tlb /\ program' = program
    BY <1>2 DEF vars
  <2>2. Typed' BY <1>2, <2>1 DEF IInv, Typed
  <2>3. Slots' BY <1>2, <2>1 DEF IInv, Slots
  <2>4. Children' BY <1>2, <2>1 DEF IInv, Children
  <2>5. Handling' BY <1>2, <2>1 DEF IInv, Handling
  <2>6. Counted' BY <1>2, <2>1 DEF IInv, Counted
  <2> QED BY <2>2, <2>3, <2>4, <2>5, <2>6 DEF IInv
<1> QED BY <1>1, <1>2 DEF Next

(* Of any number of environments, CPUs and pages, and whatever the         *)
(* liberties the programs take, the memory stays sound: an environment has *)
(* a page directory exactly while its slot is in use, a child that fork is *)
(* building stays blocked, and the allocator's counts are those of the     *)
(* pointers in the directories and the page tables.                        *)
THEOREM Invariance == Spec => []IInv
<1>1. Init => IInv BY InitIInv
<1>2. IInv /\ [Next]_vars => IInv' BY NextIInv
<1> QED BY <1>1, <1>2, PTL DEF Spec

(* pp_ref of a page is the number of page directories, page tables and     *)
(* mappings it serves as, for pmap.c's page_insert, page_remove and        *)
(* pgdir_walk and env.c's env_setup_vm and env_free together.              *)
THEOREM RefsCountedHolds == Spec => []RefsCounted
<1>1. IInv => RefsCounted
  <2>1. ASSUME IInv, NEW p \in Pages PROVE mem.ref[p] = References(p)
    <3>1. References(p) = Refs(mem, p)
      BY DEF References, Refs, DirRefs, TableRefs, PteRefs
    <3>2. Extra(mem, p) = 0 /\ mem.ref[p] \in Nat BY <2>1 DEF IInv, Counted, Sound
    <3>3. Refs(mem, p) \in Nat BY FiniteRefs
    <3> QED BY <3>1, <3>2, <3>3 DEF Extra
  <2> QED BY <2>1 DEF RefsCounted
<1> QED BY <1>1, Invariance, PTL

(* page_free is never called of a page in use or free already, what is on  *)
(* page_free_list is not referenced, and no page is lost while memory      *)
(* suffices.                                                               *)
THEOREM FreePagesExactHolds == Spec => []FreePagesExact
<1>1. IInv => FreePagesExact
  <2>1. ASSUME IInv PROVE FreePagesExact
    <3>1. mem.panic = FALSE /\ \A p \in mem.free : mem.ref[p] = 0
      BY <2>1 DEF IInv, Counted, Sound
    <3>2. NoneLost(mem, program.npages, {}) /\ 1 .. program.npages \subseteq Pages
      BY <2>1 DEF IInv, Counted, Typed
    <3>3. program.npages \in Nat BY <2>1 DEF IInv, Typed, ProgramTypes
    <3>4. \A p \in 1 .. program.npages : p \in Pages \ {} /\ p <= program.npages
      BY <3>2, <3>3
    <3>5. mem.exhausted \/ \A p \in 1 .. program.npages : mem.ref[p] = 0 => p \in mem.free
      BY <3>2, <3>4 DEF NoneLost
    <3> QED BY <3>1, <3>5 DEF FreePagesExact
  <2> QED BY <2>1
<1> QED BY <1>1, Invariance, PTL

-----------------------------------------------------------------------------
(* Whose mappings a step changes, when the programs change the address     *)
(* spaces of others only while they build them: those of e, which loads    *)
(* them as it comes back to user mode, or those of an environment that is  *)
(* not in user mode, and not of one that goes on receiving unless e panics  *)
(* for it had nothing to send.                                             *)
ReplacesNothing(e, x) ==
  /\ \A va \in Vas \ {"MSG"} : mem'.pte[x][va] = mem.pte[x][va]
  /\ mem'.pte[x]["MSG"] # Unmapped /\ mem.pte[e]["MSG"] = Unmapped
  /\ usr[e].pc = "user" /\ usr'[e].pc = "send_panic"
Changes(e, x) ==
  /\ \A f \in Envs \ {x} : mem'.pte[f] = mem.pte[f]
  /\ x = e \/ x \notin Running'
  /\ \A f \in Envs \ {e} : f \in Running' => f \in Running
  /\ \/ Resume(e)
     \/ LeaveCPU(e) /\ e \notin Running'
     \/ tlb' = tlb /\ mem'.pte = mem.pte /\ e \in Running
  /\ \/ StillWaits(x) => mem'.pte[x] = mem.pte[x]
     \/ ReplacesNothing(e, x)

(* A system call of e that changes no environment. *)
LEMMA SystemCallChanges ==
  ASSUME IInv, NEW e \in Envs, NEW x \in Envs, Fine(mem, mem', x), env' = env, Resume(e),
         e \in Running, x = e \/ (x \notin Running /\ ~env[x].recving)
  PROVE  Changes(e, x)
<1>1. \A f \in Envs \ {x} : mem'.pte[f] = mem.pte[f] BY DEF Fine
<1>2. Running' = Running BY DEF Running
<1>3. ~env[x].recving BY DEF IInv, Slots, Running
<1> QED BY <1>1, <1>2, <1>3 DEF Changes, StillWaits

(* A step in user mode: it changes no mapping and no environment. *)
LEMMA UserModeChanges ==
  ASSUME NEW e \in Envs, mem'.pte = mem.pte, env' = env, tlb' = tlb, e \in Running
  PROVE  Changes(e, e)
<1>1. Running' = Running BY DEF Running
<1> QED BY <1>1 DEF Changes, StillWaits

LEMMA DestroySelfChanges ==
  ASSUME IInv, NEW e \in Envs, NEW pc \in {"none", "killed"}, DestroySelf(e, pc),
         program' = program, env[e].status \in {"RUNNING", "DYING"}
  PROVE  Changes(e, e)
<1>1. program' \in ProgramTypes /\ program'.npages = program.npages BY DEF IInv, Typed
<1>2. Gone(mem, mem', e) BY <1>1, DestroySelfKeeps
<1>3. LeaveCPU(e) /\ env' = EnvFree(env, e) BY DEF DestroySelf
<1>4. env'[e].status = "FREE" /\ \A f \in Envs \ {e} : env'[f].status = env[f].status
  BY <1>3 DEF EnvFree, NoEnvAt, IInv, Typed, EnvTypes
<1>5. e \notin Running' /\ \A f \in Envs \ {e} : f \in Running' => f \in Running
  BY <1>4 DEF Running
<1>6. ~env[e].recving BY DEF IInv, Slots
<1> QED BY <1>2, <1>3, <1>5, <1>6 DEF Changes, StillWaits, Gone

LEMMA PageFaultChanges ==
  ASSUME IInv, NEW e \in Envs, NEW va \in Vas, PageFault(e, va)
  PROVE  Changes(e, e)
<1>1. program' = program /\ env[e].status = "RUNNING" BY DEF PageFault
<1>2. CASE env[e].upcall /\ UserMemCheck(mem, e, "XSTACK", "rw")
  <2>1. mem' = mem /\ env' = env /\ Resume(e) BY <1>2 DEF PageFault
  <2>2. Fine(mem, mem', e) BY <2>1, SameMemory DEF IInv, Counted
  <2> QED BY <1>1, <2>1, <2>2, SystemCallChanges DEF Running
<1>3. CASE ~(env[e].upcall /\ UserMemCheck(mem, e, "XSTACK", "rw"))
  <2>1. DestroySelf(e, "killed") BY <1>3 DEF PageFault
  <2> QED BY <1>1, <2>1, DestroySelfChanges
<1> QED BY <1>2, <1>3

LEMMA StoreChanges ==
  ASSUME IInv, NEW e \in Envs, NEW va, Store(e, va), e \in Running
  PROVE  Changes(e, e)
<1>1. \E f : mem' = [mem EXCEPT !.data = f]
  BY DEF Store, IInv, Counted, Sound, Fields
<1>2. mem'.pte = mem.pte BY <1>1, ContentsOnly DEF IInv, Counted
<1> QED BY <1>2, UserModeChanges DEF Store

LEMMA RunChanges == ASSUME IInv, NEW e \in Envs, Run(e) PROVE Changes(e, e)
<1>1. mem' = mem /\ Resume(e) /\ env' = [env EXCEPT ![e].status = "RUNNING"]
  BY DEF Run
<1>2. \A f \in Envs \ {e} : env'[f] = env[f] BY <1>1 DEF IInv, Typed, EnvTypes
<1>3. \A f \in Envs \ {e} : f \in Running' => f \in Running BY <1>2 DEF Running
<1> QED BY <1>1, <1>3 DEF Changes, StillWaits

LEMMA PreemptChanges == ASSUME IInv, NEW e \in Envs, Preempt(e) PROVE Changes(e, e)
<1>1. mem' = mem /\ LeaveCPU(e) /\ env' = [env EXCEPT ![e].status = "RUNNABLE"]
  BY DEF Preempt
<1>2. env'[e].status = "RUNNABLE" /\ \A f \in Envs \ {e} : env'[f] = env[f]
  BY <1>1 DEF IInv, Typed, EnvTypes
<1>3. e \notin Running' /\ \A f \in Envs \ {e} : f \in Running' => f \in Running
  BY <1>2 DEF Running
<1> QED BY <1>1, <1>3 DEF Changes, StillWaits

(* The handler and the library of the user. *)
LEMMA LibraryChanges ==
  ASSUME IInv, NEW e \in Envs, Library(e)
  PROVE  \E x \in Envs : Changes(e, x)
<1> DEFINE d == usr[e].child
<1>0. usr[e].pc \in Building => d \in Envs /\ d \notin Running /\ ~env[d].recving
  BY ChildOfBuilder DEF Running
<1>b. {"dup_child", "dup_own", "copy_alloc", "copy_map", "copy", "copy_unmap", "dup",
       "xstack", "child_upcall"} \subseteq Building
  BY DEF Building, AtPage
<1>s. Sound(mem) BY DEF IInv, Counted
<1>r. env[e].status = "RUNNING" => e \in Running BY DEF Running
<1> HIDE DEF d
<1>1. CASE PgfaultAlloc(e)
  <2>1. Fine(mem, mem', e) /\ env' = env /\ Resume(e) /\ env[e].status = "RUNNING"
    BY <1>1, PgfaultAllocKeeps DEF PgfaultAlloc, Handles, InHandler
  <2> QED BY <1>r, <2>1, SystemCallChanges
<1>2. CASE PgfaultCopy(e)
  <2>1. mem'.pte = mem.pte /\ env' = env /\ tlb' = tlb /\ e \in Running
    BY <1>2, PgfaultCopyKeeps DEF PgfaultCopy
  <2> QED BY <2>1, UserModeChanges
<1>3. CASE PgfaultMap(e)
  <2>1. Fine(mem, mem', e) /\ env' = env /\ Resume(e) /\ env[e].status = "RUNNING"
    BY <1>3, PgfaultMapKeeps DEF PgfaultMap, Handles, InHandler
  <2> QED BY <1>r, <2>1, SystemCallChanges
<1>4. CASE PgfaultUnmap(e)
  <2>1. Fine(mem, mem', e) /\ env' = env /\ Resume(e) /\ env[e].status = "RUNNING"
    BY <1>4, PgfaultUnmapKeeps DEF PgfaultUnmap, InHandler
  <2> QED BY <1>r, <2>1, SystemCallChanges
<1>5. CASE SetPgfaultHandler(e)
  <2>1. Fine(mem, mem', e) /\ env' = env /\ Resume(e) /\ env[e].status = "RUNNING"
    BY <1>5, SetPgfaultHandlerKeeps DEF SetPgfaultHandler, Returns, Calls
  <2> QED BY <1>r, <2>1, SystemCallChanges
<1>6. CASE SetPgfaultUpcall(e)
  <2>1. mem' = mem /\ Resume(e) /\ env' = [env EXCEPT ![e].upcall = TRUE]
    BY <1>6 DEF SetPgfaultUpcall, Returns
  <2>2. \A f \in Envs \ {e} : env'[f] = env[f] BY <2>1 DEF IInv, Typed, EnvTypes
  <2>3. \A f \in Envs \ {e} : f \in Running' => f \in Running BY <2>2 DEF Running
  <2>4. Changes(e, e) BY <2>1, <2>3 DEF Changes, StillWaits
  <2> QED BY <2>4
<1>7. CASE SaveHandler(e)
  <2>1. \/ Store(e, "DATA") /\ e \in Running
        \/ PageFault(e, "DATA")
    BY <1>7 DEF SaveHandler
  <2> QED BY <2>1, StoreChanges, PageFaultChanges, Addresses
<1>8. CASE Exofork(e)
  <2>1. Resume(e) /\ env[e].status = "RUNNING"
    BY <1>8 DEF Exofork, Panics, Returns, Calls
  <2>2. CASE mem'.pte = mem.pte /\ env' = env
    <3>1. Running' = Running BY <2>2 DEF Running
    <3>2. Changes(e, e) BY <2>1, <2>2, <3>1 DEF Changes, StillWaits
    <3> QED BY <3>2
  <2>3. ASSUME NEW k \in Envs \ {e}, env[k].status = "FREE", mem'.pte = mem.pte,
               env' = [env EXCEPT ![k] = [NoEnvAt EXCEPT !.status = "NOT_RUNNABLE",
                                                         !.parent = e]]
        PROVE  Changes(e, e)
    <3>1. env'[k].status = "NOT_RUNNABLE" /\ \A f \in Envs \ {k} : env'[f] = env[f]
      BY <2>3 DEF IInv, Typed, EnvTypes, NoEnvAt
    <3>2. \A f \in Envs \ {e} : f \in Running' => f \in Running BY <3>1 DEF Running
    <3> QED BY <2>1, <2>3, <3>2 DEF Changes, StillWaits
  <2> QED BY <1>8, <2>2, <2>3, ExoforkKeeps
<1>9. CASE Dup(e)
  <2>1. mem' = mem /\ env' = env /\ tlb' = tlb /\ e \in Running BY <1>9 DEF Dup
  <2> QED BY <2>1, UserModeChanges
<1>10. CASE DupChild(e)
  <2>1. Fine(mem, mem', d) /\ env' = env /\ Resume(e) /\ env[e].status = "RUNNING"
        /\ usr[e].pc = "dup_child"
    BY <1>10, DupChildKeeps DEF DupChild, Panics, Returns, Calls, At, d
  <2> QED BY <1>0, <1>b, <1>r, <2>1, SystemCallChanges
<1>11. CASE DupOwn(e)
  <2>1. Fine(mem, mem', e) /\ env' = env /\ Resume(e) /\ env[e].status = "RUNNING"
    BY <1>11, DupOwnKeeps DEF DupOwn, Calls
  <2> QED BY <1>r, <2>1, SystemCallChanges
<1>12. CASE ChildXstack(e)
  <2>1. Fine(mem, mem', d) /\ env' = env /\ Resume(e) /\ env[e].status = "RUNNING"
        /\ usr[e].pc = "xstack"
    BY <1>12, ChildXstackKeeps DEF ChildXstack, Returns, Calls, At, d
  <2> QED BY <1>0, <1>b, <1>r, <2>1, SystemCallChanges
<1>13. CASE ChildUpcall(e)
  <2>1. Resume(e) /\ env[e].status = "RUNNING" /\ usr[e].pc = "child_upcall"
    BY <1>13 DEF ChildUpcall, Returns, Calls, At
  <2>2. d \in Envs /\ d \notin Running /\ ~env[d].recving BY <1>0, <1>b, <2>1
  <2>3. CASE env[e].upcall
    <3>1. env' = [env EXCEPT ![d].upcall = TRUE] /\ mem' = mem
      BY <1>13, <2>3 DEF ChildUpcall, Returns, d
    <3>2. \A f \in Envs : env'[f].status = env[f].status
      BY <2>2, <3>1 DEF IInv, Typed, EnvTypes
    <3>3. Running' = Running BY <3>2 DEF Running
    <3>4. Changes(e, e) BY <2>1, <3>1, <3>3 DEF Changes, StillWaits
    <3> QED BY <3>4
  <2>4. CASE ~env[e].upcall
    <3>1. env' = EnvFree(env, d) BY <1>13, <2>4 DEF ChildUpcall, d
    <3>2. Gone(mem, mem', d) BY <1>13, <2>4, ChildUpcallKeeps DEF d
    <3>3. env'[d].status = "FREE" /\ \A f \in Envs \ {d} : env'[f].status = env[f].status
      BY <2>2, <3>1 DEF EnvFree, NoEnvAt, IInv, Typed, EnvTypes
    <3>4. d \notin Running' /\ \A f \in Envs : f \in Running' => f \in Running
      BY <3>3 DEF Running
    <3>5. Changes(e, d) BY <2>1, <2>2, <3>2, <3>4 DEF Changes, StillWaits, Gone
    <3> QED BY <2>2, <3>5
  <2> QED BY <2>3, <2>4
<1>14. CASE CopyAlloc(e)
  <2>1. Fine(mem, mem', d) /\ env' = env /\ Resume(e) /\ env[e].status = "RUNNING"
        /\ usr[e].pc = "copy_alloc"
    BY <1>14, CopyAllocKeeps DEF CopyAlloc, Returns, Calls, At, d
  <2> QED BY <1>0, <1>b, <1>r, <2>1, SystemCallChanges
<1>15. CASE CopyMap(e)
  <2>1. Fine(mem, mem', e) /\ env' = env /\ Resume(e) /\ env[e].status = "RUNNING"
    BY <1>15, CopyMapKeeps DEF CopyMap, Returns, Calls
  <2> QED BY <1>r, <2>1, SystemCallChanges
<1>16. CASE Copy(e)
  <2>1. mem'.pte = mem.pte /\ env' = env /\ tlb' = tlb /\ e \in Running
    BY <1>16, CopyKeeps DEF Copy
  <2> QED BY <2>1, UserModeChanges
<1>17. CASE CopyUnmap(e)
  <2>1. Fine(mem, mem', e) /\ env' = env /\ Resume(e) /\ env[e].status = "RUNNING"
    BY <1>17, CopyUnmapKeeps DEF CopyUnmap, Calls
  <2> QED BY <1>r, <2>1, SystemCallChanges
<1>18. CASE SetStatus(e)
  <2>1. mem' = mem /\ Resume(e) BY <1>18 DEF SetStatus, Panics, Returns
  <2>2. \A f \in Envs : f \in Running' => f \in Running
    <3>1. CASE env' = env BY <3>1 DEF Running
    <3>2. CASE env' = [env EXCEPT ![d].status = "RUNNABLE"]
      <4>1. \A f \in Envs : env'[f].status \in {env[f].status, "RUNNABLE"}
        BY <3>2 DEF IInv, Typed, EnvTypes
      <4> QED BY <4>1 DEF Running
    <3> QED BY <1>18, <3>1, <3>2 DEF SetStatus, Panics, d
  <2>3. Changes(e, e) BY <2>1, <2>2 DEF Changes, StillWaits
  <2> QED BY <2>3
<1>19. CASE SetThisenv(e)
  <2>1. \/ Store(e, "DATA") /\ e \in Running
        \/ PageFault(e, "DATA")
    BY <1>19 DEF SetThisenv
  <2> QED BY <2>1, StoreChanges, PageFaultChanges, Addresses
<1> QED BY <1>1, <1>2, <1>3, <1>4, <1>5, <1>6, <1>7, <1>8, <1>9, <1>10, <1>11, <1>12,
           <1>13, <1>14, <1>15, <1>16, <1>17, <1>18, <1>19 DEF Library

(* The programs of the repository: no liberty is taken. *)
LEMMA ProgramChanges ==
  ASSUME IInv, Liberties = {}, NEW e \in Envs, Program(e)
  PROVE  \E x \in Envs : Changes(e, x)
<1>s. Sound(mem) BY DEF IInv, Counted
<1>r. env[e].status = "RUNNING" => e \in Running BY DEF Running
<1>1. ASSUME NEW va \in {"DATA", "STACK", "MSG"}, WriteMemory(e, va) PROVE Changes(e, e)
  <2>1. (Store(e, va) \/ PageFault(e, va)) /\ e \in Running BY <1>1 DEF WriteMemory
  <2>2. va \in Vas BY Addresses
  <2> QED BY <2>1, <2>2, StoreChanges, PageFaultChanges
<1>2. CASE Fork(e)
  <2>1. mem' = mem /\ env' = env /\ tlb' = tlb /\ e \in Running
    BY <1>2, <1>r DEF Fork, Calls
  <2> QED BY <2>1, UserModeChanges
<1>3. CASE Exit(e)
  <2>1. DestroySelf(e, "none") /\ program' = program /\ env[e].status = "RUNNING"
    BY <1>3 DEF Exit, Calls
  <2> QED BY <2>1, DestroySelfChanges
<1>4. CASE IpcRecv(e)
  <2>1. /\ mem' = mem /\ LeaveCPU(e)
        /\ env' = [env EXCEPT ![e].status = "NOT_RUNNABLE", ![e].recving = TRUE]
    BY <1>4 DEF IpcRecv
  <2>2. env'[e].status = "NOT_RUNNABLE" /\ \A f \in Envs \ {e} : env'[f] = env[f]
    BY <2>1 DEF IInv, Typed, EnvTypes
  <2>3. e \notin Running' /\ \A f \in Envs \ {e} : f \in Running' => f \in Running
    BY <2>2 DEF Running
  <2>4. Changes(e, e) BY <2>1, <2>3 DEF Changes, StillWaits
  <2> QED BY <2>4
<1>5. ASSUME NEW perm \in {"ro", "rw"}, AllocMsg(e, perm) PROVE Changes(e, e)
  <2>1. Fine(mem, mem', e) /\ env' = env /\ Resume(e) /\ env[e].status = "RUNNING"
    BY <1>5, AllocMsgKeeps, Acted DEF AllocMsg, Returns
  <2> QED BY <1>r, <2>1, SystemCallChanges
<1>6. ASSUME NEW d \in Envs, IpcTrySend(e, d) PROVE Changes(e, d)
  <2>1. /\ Resume(e) /\ env[e].status = "RUNNING" /\ usr[e].pc = "user"
        /\ env[d].recving /\ Fine(mem, mem', d) /\ d # e
    BY <1>6, IpcTrySendKeeps, Sending DEF Calls, At
  <2>2. env[d].status = "NOT_RUNNABLE" BY <2>1 DEF IInv, Slots
  <2>3. CASE env' = env
    <3>1. Running' = Running /\ d \notin Running BY <2>2, <2>3 DEF Running
    <3>2. CASE mem'.pte = mem.pte BY <2>1, <2>3, <3>1, <3>2 DEF Changes, StillWaits
    <3>3. CASE mem'.pte # mem.pte
      <4>1. env # [env EXCEPT ![d].recving = FALSE, ![d].status = "RUNNABLE"]
        BY <2>1 DEF IInv, Typed, EnvTypes
      <4>2. /\ \A v \in Vas \ {"MSG"} : mem'.pte[d][v] = mem.pte[d][v]
            /\ Goto(e, "send_panic")
            /\ mem.pte[e]["MSG"] = Unmapped /\ mem'.pte[d]["MSG"] # Unmapped
        BY <1>6, <2>3, <3>3, <4>1, IpcTrySendKeeps
      <4>3. usr'[e].pc = "send_panic" BY <4>2, Counters, Went
      <4>4. ReplacesNothing(e, d) BY <2>1, <4>2, <4>3 DEF ReplacesNothing
      <4> QED BY <2>1, <3>1, <4>4 DEF Changes, Fine
    <3> QED BY <3>2, <3>3
  <2>4. CASE env' = [env EXCEPT ![d].recving = FALSE, ![d].status = "RUNNABLE"]
    <3>1. /\ env'[d].status = "RUNNABLE" /\ env'[d].recving = FALSE
          /\ \A f \in Envs \ {d} : env'[f] = env[f]
      BY <2>4 DEF IInv, Typed, EnvTypes
    <3>2. d \notin Running' /\ \A f \in Envs : f \in Running' => f \in Running
      BY <3>1 DEF Running
    <3> QED BY <2>1, <3>1, <3>2 DEF Changes, StillWaits, Fine
  <2> QED BY <1>6, <2>3, <2>4, IpcTrySendKeeps
<1>7. ASSUME NEW d \in Envs, Kill(e, d) PROVE \E x \in Envs : Changes(e, x)
  <2>1. Resume(e) /\ env[d].status # "DYING" BY <1>7 DEF Kill, Returns
  <2>2. CASE env[d].status = "RUNNING"
    <3>1. mem' = mem /\ env' = [env EXCEPT ![d].status = "DYING"]
      BY <1>7, <2>2 DEF Kill, Returns
    <3>2. \A f \in Envs \ {d} : env'[f] = env[f] BY <3>1 DEF IInv, Typed, EnvTypes
    <3>3. Running' \subseteq Running BY <2>2, <3>2 DEF Running
    <3>4. Changes(e, e) BY <2>1, <3>1, <3>3 DEF Changes, StillWaits
    <3> QED BY <3>4
  <2>3. CASE env[d].status # "RUNNING"
    <3>1. Gone(mem, mem', d) /\ env' = EnvFree(env, d) BY <1>7, <2>3, KillKeeps
    <3>2. /\ env'[d].status = "FREE" /\ env'[d].recving = FALSE
          /\ \A f \in Envs \ {d} : env'[f].status = env[f].status
      BY <3>1 DEF EnvFree, NoEnvAt, IInv, Typed, EnvTypes
    <3>3. d \notin Running' /\ \A f \in Envs : f \in Running' => f \in Running
      BY <3>2 DEF Running
    <3> QED BY <2>1, <3>1, <3>2, <3>3 DEF Changes, StillWaits, Gone
  <2> QED BY <2>2, <2>3
<1>8. ASSUME NEW d \in Envs, UnmapMsg(e, d) PROVE Changes(e, e)
  <2>1. d = e BY <1>8 DEF UnmapMsg
  <2>2. Fine(mem, mem', e) /\ env' = env /\ Resume(e) /\ env[e].status = "RUNNING"
    BY <1>8, <2>1, UnmapMsgKeeps, Acted DEF UnmapMsg, Returns
  <2> QED BY <1>r, <2>2, SystemCallChanges
<1> QED BY <1>1, <1>2, <1>3, <1>4, <1>5, <1>6, <1>7, <1>8 DEF Program

LEMMA NextChanges ==
  ASSUME IInv, Liberties = {}, Next
  PROVE  \E e \in Envs, x \in Envs : Changes(e, x)
<1>1. PICK e \in Envs : Run(e) \/ Preempt(e) \/ TrapOfZombie(e) \/ Library(e) \/ Program(e)
  BY DEF Next
<1>2. CASE TrapOfZombie(e)
  <2>1. DestroySelf(e, "none") /\ program' = program /\ env[e].status = "DYING"
    BY <1>2 DEF TrapOfZombie
  <2> QED BY <2>1, DestroySelfChanges
<1> QED BY <1>1, <1>2, RunChanges, PreemptChanges, LibraryChanges, ProgramChanges

LEMMA CoherentStep ==
  ASSUME IInv, Liberties = {}, TlbCoherent, [Next]_vars
  PROVE  TlbCoherent'
<1>1. CASE UNCHANGED vars BY <1>1 DEF vars, TlbCoherent, Running
<1>2. CASE Next
  <2>1. PICK e \in Envs, x \in Envs : Changes(e, x) BY <1>2, NextChanges
  <2>2. SUFFICES ASSUME NEW f \in Envs, f \in Running' PROVE tlb'[f] = mem'.pte[f]
    BY DEF TlbCoherent, Running
  <2>3. tlb \in TlbTypes BY DEF IInv, Typed
  <2>4. CASE f = e
    <3>1. CASE Resume(e) BY <2>3, <2>4, <3>1 DEF Resume, TlbTypes
    <3>2. CASE tlb' = tlb /\ mem'.pte = mem.pte /\ e \in Running
      BY <2>4, <3>2 DEF TlbCoherent
    <3> QED BY <2>1, <2>2, <2>4, <3>1, <3>2 DEF Changes, StillWaits
  <2>5. CASE f # e
    <3>1. f # x /\ f \in Running BY <2>1, <2>2, <2>5 DEF Changes, StillWaits
    <3>2. mem'.pte[f] = mem.pte[f] BY <2>1, <3>1 DEF Changes, StillWaits
    <3>3. tlb'[f] = tlb[f]
      BY <2>1, <2>3, <2>5 DEF Changes, StillWaits, Resume, LeaveCPU, TlbTypes
    <3> QED BY <3>1, <3>2, <3>3 DEF TlbCoherent
  <2> QED BY <2>4, <2>5
<1> QED BY <1>1, <1>2

(* What the CPU of an environment in user mode may access is what its page *)
(* tables say, although tlb_invalidate flushes on the calling CPU only: of *)
(* any number of CPUs, as long as the programs unmap no page of a running  *)
(* child and kill no zombie.                                               *)
THEOREM TlbCoherentHolds ==
  ASSUME Liberties = {}
  PROVE  Spec => []TlbCoherent
<1>1. Init => TlbCoherent
  <2>1. ASSUME Init PROVE Running = {}
    <3>1. \A e \in Envs : env[e].status \in {"RUNNABLE", "FREE"}
      BY <2>1 DEF Init, NoEnvAt
    <3> QED BY <3>1 DEF Running
  <2> QED BY <2>1 DEF TlbCoherent
<1>2. IInv /\ TlbCoherent /\ [Next]_vars => TlbCoherent' BY CoherentStep
<1> QED BY <1>1, <1>2, Invariance, PTL DEF Spec

(* Whatever fails of a send and all that other environments do meanwhile,  *)
(* an environment blocked in sys_ipc_recv keeps its memory, and a page     *)
(* where it receives if it had one: the one exception is the sender that   *)
(* has nothing to send, whose panic leaves the receiver another, new page. *)
THEOREM ReceiverKeepsMemoryHolds ==
  ASSUME Liberties = {}
  PROVE  Spec => ReceiverKeepsMemory
<1> DEFINE Excused(d, va) ==
             /\ va = "MSG" /\ mem'.pte[d][va] # Unmapped
             /\ \E e \in Envs : /\ mem.pte[e]["MSG"] = Unmapped
                                /\ usr[e].pc = "user" /\ usr'[e].pc = "send_panic"
           Kept1(d, va) == StillWaits(d) /\ mem'.pte[d][va] # mem.pte[d][va] => Excused(d, va)
<1>1. IInv /\ [Next]_vars => [\A d \in Envs, va \in Vas : Kept1(d, va)]_vars
  <2>1. ASSUME IInv, Next PROVE \A d \in Envs, va \in Vas : Kept1(d, va)
    <3>1. PICK e \in Envs, x \in Envs : Changes(e, x) BY <2>1, NextChanges
    <3>2. SUFFICES ASSUME NEW d \in Envs, NEW va \in Vas,
                          StillWaits(d), mem'.pte[d][va] # mem.pte[d][va]
                   PROVE  Excused(d, va)
      OBVIOUS
    <3>3. d = x BY <3>1, <3>2 DEF Changes
    <3>4. ReplacesNothing(e, x) BY <3>1, <3>2, <3>3 DEF Changes
    <3> QED BY <3>2, <3>3, <3>4 DEF ReplacesNothing
  <2> QED BY <2>1
<1> QED BY <1>1, Invariance, PTL DEF Spec, ReceiverKeepsMemory
=============================================================================
