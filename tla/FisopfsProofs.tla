---------------------------- MODULE FisopfsProofs ----------------------------
(***************************************************************************)
(* Proofs about Fisopfs for any number of slots, bytes and links and any   *)
(* paths.  Its types and PrivateContents hold however many threads serve   *)
(* requests; the tree needs requests served one at a time, and writes that *)
(* do not fill an inode to its last byte.  Without these two the code      *)
(* breaks it.                                                              *)
(***************************************************************************)
EXTENDS Fisopfs, TLAPS

(* Requests are served one at a time (fisopfs -s). *)
OneThread == \A t, u \in Threads : t = u

(* No write reaches the last byte of file_content. *)
ShortWrites == MaxEnd < MAX_CONTENT

Superblocks == [Slots -> Inode \cup {FREE}]

(* The invariant any number of threads keep: the types, and nothing in     *)
(* memory while the file system is not mounted.                            *)
Typed ==
  /\ inodes \in Superblocks
  /\ pending \in [Threads -> Pending \cup {NoRequest}]
  /\ disk \in Superblocks \cup {NoImage}
  /\ mount \in {"down", "up", "saving"}
  /\ mount = "down" => \A i \in Slots : inodes[i] = FREE

-----------------------------------------------------------------------------
(* Names: what of an inode says where it is in the tree. *)

SameNames(r, s) == r.type = s.type /\ r.path = s.path /\ r.file_parent = s.file_parent

LEMMA ConstantTypes ==
  /\ MAX_INODES \in Nat \ {0} /\ 0 \in Slots
  /\ MAX_CONTENT \in Nat \ {0} /\ MaxEnd \in Nat \ {0} /\ MaxEnd <= MAX_CONTENT
  /\ Slots \subseteq Nat
  /\ Blank \in Contents
  BY FisopfsAssumption DEF Slots, Blank, Contents

(* A link counts one more: nothing else of the inode changes. *)
LEMMA OneMoreLink ==
  ASSUME NEW r \in Inode
  PROVE  LET s == [r EXCEPT !.nlink = @ + 1]
         IN  s \in Inode /\ SameNames(s, r) /\ Seen(s) = Seen(r)
<1> DEFINE s == [r EXCEPT !.nlink = @ + 1]
<1>1. /\ s.type = r.type /\ s.path = r.path /\ s.file_parent = r.file_parent
      /\ s.file_size = r.file_size /\ s.file_content = r.file_content
      /\ s.nlink = r.nlink + 1
  BY DEF Inode
<1>2. s \in Inode BY DEF Inode
<1> HIDE DEF s
<1>3. Seen(s) = Seen(r) BY <1>1 DEF Seen, Readlink, Read
<1>4. SameNames(s, r) BY <1>1 DEF SameNames
<1> QED BY <1>2, <1>3, <1>4 DEF s

LEMMA CStringTypes ==
  ASSUME NEW content \in Contents PROVE CString(content) \in Contents
<1>1. DOMAIN content = 0 .. MAX_CONTENT - 1 BY DEF Contents
<1>2. \A k \in 0 .. MAX_CONTENT - 1 : content[k] \in Chars \cup {NUL} BY DEF Contents
<1> QED BY <1>1, <1>2 DEF CString, Contents

(* fisopfs_write makes an inode of the written one, of the same name; its  *)
(* parent is lost exactly if its last byte is written.                     *)
LEMMA WriteToTypes ==
  ASSUME NEW r \in Inode, NEW offset \in 0 .. MaxEnd - 1,
         NEW n \in 1 .. MaxEnd - offset, NEW data \in [1 .. n -> Chars \cup {NUL}]
  PROVE  LET w == WriteTo(r, offset, data)
         IN  /\ w \in Inode /\ w.nlink = r.nlink /\ w.path = r.path /\ w.type = r.type
             /\ ShortWrites => SameNames(w, r)
<1> DEFINE w == WriteTo(r, offset, data)
           content == Written(r.file_content, offset, data)
<1>1. Len(data) = n /\ \A k \in 1 .. n : data[k] \in Chars \cup {NUL}
  OBVIOUS
<1>2. DOMAIN r.file_content = 0 .. MAX_CONTENT - 1
      /\ \A k \in 0 .. MAX_CONTENT - 1 : r.file_content[k] \in Chars \cup {NUL}
  BY DEF Inode, Contents
<1>3. content \in Contents
  <2>1. ASSUME NEW k \in 0 .. MAX_CONTENT - 1, k \in offset .. offset + n - 1
        PROVE  data[k - offset + 1] \in Chars \cup {NUL}
    <3>1. k - offset + 1 \in 1 .. n BY <2>1, ConstantTypes
    <3> QED BY <1>1, <3>1
  <2>2. \A k \in 0 .. MAX_CONTENT - 1 :
          (IF k \in offset .. offset + n - 1
           THEN IF \E j \in 1 .. k - offset + 1 : data[j] = NUL THEN NUL ELSE data[k - offset + 1]
           ELSE IF k = offset + n THEN NUL
           ELSE r.file_content[k]) \in Chars \cup {NUL}
    BY <1>2, <2>1
  <2> QED BY <1>1, <1>2, <2>2 DEF Written, Contents
<1>4. offset + n \in 0 .. MAX_CONTENT /\ (ShortWrites => offset + n # MAX_CONTENT)
  BY ConstantTypes DEF ShortWrites
<1>5. w = [r EXCEPT !.file_content = content, !.file_size = offset + n,
                    !.file_parent = IF offset + n = MAX_CONTENT THEN NoParent ELSE @]
  BY <1>1 DEF WriteTo
<1> HIDE DEF w, content
<1>6. /\ w.type = r.type /\ w.path = r.path /\ w.nlink = r.nlink
      /\ w.file_size = offset + n /\ w.file_content = content
      /\ w.file_parent = IF offset + n = MAX_CONTENT THEN NoParent ELSE r.file_parent
  BY <1>5 DEF Inode
<1>7. w \in Inode BY <1>3, <1>4, <1>5 DEF Inode
<1>8. ShortWrites => SameNames(w, r) BY <1>4, <1>6 DEF SameNames
<1> QED BY <1>6, <1>7, <1>8 DEF w

(* The copy that an inode with links gets leaves its name as it is.        *)
LEMMA PropagateTypes ==
  ASSUME NEW r \in Inode, NEW from \in Inode
  PROVE  /\ Propagate(r, from) \in Inode /\ SameNames(Propagate(r, from), r)
         /\ Propagate(r, from).nlink = r.nlink
         /\ r.nlink = 1 => Propagate(r, from) = r
<1> DEFINE p == [r EXCEPT !.file_content = CString(from.file_content),
                          !.file_size = from.file_size]
<1>1. CString(from.file_content) \in Contents BY CStringTypes DEF Inode
<1>2. p \in Inode BY <1>1 DEF Inode
<1>3. p.type = r.type /\ p.path = r.path /\ p.nlink = r.nlink /\ p.file_parent = r.file_parent
  BY DEF Inode
<1>4. Propagate(r, from) = p \/ Propagate(r, from) = r BY DEF Propagate
<1>5. r.nlink = 1 => Propagate(r, from) = r BY DEF Propagate
<1> HIDE DEF p
<1> QED BY <1>2, <1>3, <1>4, <1>5 DEF SameNames

LEMMA TruncateTypes ==
  ASSUME NEW r \in Inode, NEW offset \in 0 .. MaxEnd, NEW content \in Contents
  PROVE  LET s == [r EXCEPT !.file_size = offset, !.file_content = content]
         IN  s \in Inode /\ SameNames(s, r)
<1> DEFINE s == [r EXCEPT !.file_size = offset, !.file_content = content]
<1>1. s.type = r.type /\ s.path = r.path /\ s.file_parent = r.file_parent
  BY DEF Inode
<1>2. offset \in 0 .. MAX_CONTENT BY ConstantTypes
<1>3. s \in Inode BY <1>2 DEF Inode
<1> QED BY <1>1, <1>3 DEF SameNames

LEMMA FreshTypes ==
  ASSUME NEW path \in Paths, NEW type \in Types, NEW size \in 0 .. MAX_CONTENT,
         NEW content \in Contents
  PROVE  LET f == Fresh(path, type, size, content)
         IN  f \in Inode /\ f.path = path /\ f.file_parent = Parent(path)
<1>1. Parent(path) \in Paths \cup {Root} BY FisopfsAssumption
<1> HIDE DEF Parent
<1> QED BY <1>1 DEF Fresh, Inode

(* The copy of an inode under a new name. *)
LEMMA LinkTypes ==
  ASSUME NEW r \in Inode, NEW path \in Paths
  PROVE  LET s == [r EXCEPT !.path = path, !.file_parent = Parent(path), !.nlink = @ + 1]
         IN  s \in Inode /\ s.path = path /\ s.file_parent = Parent(path)
<1>1. PICK parent \in Paths \cup {Root} : Parent(path) = parent BY FisopfsAssumption
<1> DEFINE s == [r EXCEPT !.path = path, !.file_parent = parent, !.nlink = @ + 1]
<1>2. s.path = path /\ s.file_parent = parent BY DEF Inode
<1>3. r.nlink + 1 \in Nat \ {0} BY DEF Inode
<1>4. s \in Inode BY <1>3 DEF Inode
<1> QED BY <1>1, <1>2, <1>4

-----------------------------------------------------------------------------
(* The steps, by what they do to the superblock *)

(* A request starts to make a name that is not there, in a free slot. *)
Begins(t, new) ==
  /\ mount = "up" /\ pending[t] = NoRequest
  /\ new \in Pending
  /\ inodes[new.slot] = FREE
  /\ new.inode.path \in Paths /\ new.inode.file_parent = Parent(new.inode.path)
  /\ MayMake(new.inode.path)
  /\ pending' = [pending EXCEPT ![t] = new]
  /\ UNCHANGED <<inodes, disk, mount>>

(* A file loses its name, or an empty directory. *)
Removes(i, path) ==
  /\ mount = "up"
  /\ MayRemove(path) /\ path \in Paths /\ i \in Slots /\ IsIndex(i, path)
  /\ \/ inodes[i].type # "directory"
     \/ \A j \in Occupied : inodes[j].file_parent # path
  /\ Remove(i)

(* Contents and sizes change, those of files with one link only in slot i. *)
Rewrites(i) ==
  /\ i \in Slots
  /\ inodes' \in Superblocks
  /\ \A j \in Slots : (inodes'[j] = FREE) <=> (inodes[j] = FREE)
  /\ \A j \in Occupied : /\ inodes'[j].path = inodes[j].path
                         /\ inodes'[j].type = inodes[j].type
                         /\ ShortWrites => SameNames(inodes'[j], inodes[j])
                         /\ j # i /\ inodes[j].nlink = 1 => inodes'[j] = inodes[j]
  /\ UNCHANGED <<pending, disk, mount>>

(* The slots that are occupied hold inodes. *)
LEMMA Inodes ==
  ASSUME Typed, NEW i \in Occupied PROVE i \in Slots /\ inodes[i] \in Inode
  BY DEF Typed, Occupied, Superblocks

LEMMA MakingBegins ==
  ASSUME Typed, mount = "up", NEW t \in Threads, Making(t)
  PROVE  \E new : Begins(t, new)
<1> USE ConstantTypes
<1>1. ASSUME NEW path \in Paths, NEW i \in Slots, MayMake(path), IsFree(i),
             NEW inode \in Inode, inode.path = path, inode.file_parent = Parent(path),
             NEW from \in Paths \cup {Root}, Begin(t, i, inode, from)
      PROVE  \E new : Begins(t, new)
  <2> DEFINE new == [slot |-> i, inode |-> inode, from |-> from]
  <2>1. new \in Pending BY DEF Pending
  <2>2. new.slot = i /\ new.inode = inode OBVIOUS
  <2>3. inodes[i] = FREE BY <1>1 DEF IsFree
  <2>4. pending' = [pending EXCEPT ![t] = new] /\ UNCHANGED <<inodes, disk, mount>>
    BY <1>1 DEF Begin
  <2> HIDE DEF new
  <2>5. pending[t] = NoRequest BY DEF Making
  <2>6. Begins(t, new) BY <1>1, <2>1, <2>2, <2>3, <2>4, <2>5 DEF Begins
  <2> QED BY <2>6
<1>2. CASE Create(t)
  <2>1. PICK path \in Paths, type \in {"regular", "directory"}, i \in Slots :
          /\ MayMake(path) /\ IsFree(i)
          /\ Begin(t, i, Fresh(path, type, 0, Blank), Root)
    BY <1>2 DEF Create
  <2>2. type \in Types /\ 0 \in 0 .. MAX_CONTENT BY DEF Types
  <2> QED BY <1>1, <2>1, <2>2, FreshTypes
<1>3. CASE Symlink(t)
  <2>1. PICK path \in Paths, i \in Slots, size \in 1 .. MAX_CONTENT - 1, char \in Chars :
          /\ MayMake(path) /\ IsFree(i)
          /\ Begin(t, i, Fresh(path, "symlink", size,
                               [k \in DOMAIN Blank |-> IF k < size THEN char ELSE NUL]), Root)
    BY <1>3 DEF Symlink
  <2> DEFINE target == [k \in DOMAIN Blank |-> IF k < size THEN char ELSE NUL]
  <2>2. target \in Contents BY DEF Contents, Blank
  <2>3. "symlink" \in Types /\ size \in 0 .. MAX_CONTENT BY DEF Types
  <2> HIDE DEF target
  <2>4. Begin(t, i, Fresh(path, "symlink", size, target), Root) BY <2>1 DEF target
  <2> QED BY <1>1, <2>1, <2>2, <2>3, <2>4, FreshTypes
<1>4. CASE Link(t)
  <2>1. PICK old \in Paths, path \in Paths, i \in Slots, j \in Slots :
          /\ IsIndex(j, old) /\ MayMake(path) /\ IsFree(i)
          /\ Begin(t, i, [inodes[j] EXCEPT !.path = path, !.file_parent = Parent(path),
                                           !.nlink = @ + 1], old)
    BY <1>4 DEF Link
  <2> DEFINE copy == [inodes[j] EXCEPT !.path = path, !.file_parent = Parent(path),
                                       !.nlink = @ + 1]
  <2>2. inodes[j] \in Inode BY <2>1, Inodes DEF IsIndex
  <2>4. copy \in Inode /\ copy.path = path /\ copy.file_parent = Parent(path)
    BY <2>2, LinkTypes
  <2> HIDE DEF copy
  <2>5. Begin(t, i, copy, old) BY <2>1 DEF copy
  <2> QED BY <1>1, <2>1, <2>4, <2>5
<1> QED BY <1>2, <1>3, <1>4 DEF Making

LEMMA RemovingRemoves ==
  ASSUME mount = "up", Unlink \/ Rmdir
  PROVE  \E i \in Slots, path \in Paths : Removes(i, path)
  BY DEF Unlink, Rmdir, Removes

LEMMA WriteRewrites ==
  ASSUME Typed, NEW path \in Paths, WriteFile(path)
  PROVE  \E i \in Slots : inodes[i].path = path /\ Rewrites(i)
<1>0. PICK i \in Slots, offset \in 0 .. MaxEnd - 1 :
        \E data \in UNION {[1 .. n -> Chars \cup {NUL}] : n \in 1 .. MaxEnd - offset} :
          /\ IsIndex(i, path)
          /\ inodes' = [j \in Slots |-> IF j = i THEN WriteTo(inodes[i], offset, data)
                                        ELSE IF j \in Occupied
                                        THEN Propagate(inodes[j], WriteTo(inodes[i], offset, data))
                                        ELSE FREE]
          /\ UNCHANGED <<pending, disk, mount>>
  BY DEF WriteFile
<1>1. PICK data \in UNION {[1 .. n -> Chars \cup {NUL}] : n \in 1 .. MaxEnd - offset} :
        /\ IsIndex(i, path)
        /\ inodes' = [j \in Slots |-> IF j = i THEN WriteTo(inodes[i], offset, data)
                                      ELSE IF j \in Occupied
                                      THEN Propagate(inodes[j], WriteTo(inodes[i], offset, data))
                                      ELSE FREE]
        /\ UNCHANGED <<pending, disk, mount>>
  BY <1>0
<1>2. PICK n \in 1 .. MaxEnd - offset : data \in [1 .. n -> Chars \cup {NUL}]
  OBVIOUS
<1>3. i \in Occupied /\ inodes[i] \in Inode BY <1>1, Inodes DEF IsIndex
<1> DEFINE w == WriteTo(inodes[i], offset, data)
<1>4. /\ w \in Inode /\ w.nlink = inodes[i].nlink
      /\ w.path = inodes[i].path /\ w.type = inodes[i].type
      /\ ShortWrites => SameNames(w, inodes[i])
  BY <1>2, <1>3, WriteToTypes
<1>5. inodes' = [j \in Slots |-> IF j = i THEN w
                                ELSE IF j \in Occupied THEN Propagate(inodes[j], w)
                                ELSE FREE]
  BY <1>1
<1> HIDE DEF w
<1>6. ASSUME NEW j \in Occupied
      PROVE  /\ inodes'[j] \in Inode
             /\ inodes'[j].path = inodes[j].path
             /\ inodes'[j].type = inodes[j].type
             /\ ShortWrites => SameNames(inodes'[j], inodes[j])
             /\ j # i /\ inodes[j].nlink = 1 => inodes'[j] = inodes[j]
  <2>1. CASE j = i BY <1>3, <1>4, <1>5, <2>1
  <2>2. CASE j # i
    <3>1. j \in Slots /\ inodes[j] \in Inode BY Inodes
    <3>2. inodes'[j] = Propagate(inodes[j], w) BY <1>5, <2>2, <3>1
    <3> QED BY <1>4, <3>1, <3>2, PropagateTypes DEF SameNames
  <2> QED BY <2>1, <2>2
<1>7. \A j \in Slots \ Occupied : inodes'[j] = FREE /\ inodes[j] = FREE
  BY <1>3, <1>5 DEF Occupied
<1>8. inodes' \in Superblocks BY <1>5, <1>6, <1>7 DEF Superblocks
<1>9. \A j \in Slots : (inodes'[j] = FREE) <=> (inodes[j] = FREE)
  BY <1>6, <1>7, Inodes, StatusAssumption
<1>10. Rewrites(i) BY <1>1, <1>6, <1>8, <1>9 DEF Rewrites
<1> QED BY <1>1, <1>10 DEF IsIndex

LEMMA TruncateRewrites ==
  ASSUME Typed, NEW path \in Paths, NEW offset \in 0 .. MaxEnd, TruncateTo(path, offset)
  PROVE  \E i \in Slots : inodes[i].path = path /\ Rewrites(i)
<1>0. inodes \in Superblocks BY DEF Typed
<1> DEFINE Cleared(i, k) == \/ k \in offset .. inodes[i].file_size - 1
                            \/ k \in inodes[i].file_size .. offset - 1
           content(i) == [k \in DOMAIN inodes[i].file_content |->
                            IF Cleared(i, k) THEN NUL ELSE inodes[i].file_content[k]]
           cut(i) == [inodes[i] EXCEPT !.file_size = offset, !.file_content = content(i)]
<1>2. PICK i \in Slots :
        /\ IsIndex(i, path)
        /\ inodes' = [inodes EXCEPT ![i].file_size = offset,
                                    ![i].file_content =
                                      [k \in DOMAIN @ |-> IF Cleared(i, k) THEN NUL ELSE @[k]]]
        /\ UNCHANGED <<pending, disk, mount>>
  BY DEF TruncateTo
<1>3. i \in Occupied /\ inodes[i] \in Inode BY <1>2, Inodes DEF IsIndex
<1>4. inodes' = [inodes EXCEPT ![i] = cut(i)]
  BY <1>0, <1>2, <1>3 DEF Superblocks, Inode
<1>5. content(i) \in Contents
  <2>1. /\ DOMAIN inodes[i].file_content = 0 .. MAX_CONTENT - 1
        /\ \A k \in 0 .. MAX_CONTENT - 1 : inodes[i].file_content[k] \in Chars \cup {NUL}
    BY <1>3 DEF Inode, Contents
  <2> HIDE DEF Cleared
  <2> QED BY <2>1 DEF Contents
<1>6. cut(i) \in Inode /\ SameNames(cut(i), inodes[i])
  <2> HIDE DEF content
  <2> QED BY <1>3, <1>5, TruncateTypes
<1> HIDE DEF cut
<1>7. \A j \in Slots : inodes'[j] = IF j = i THEN cut(i) ELSE inodes[j]
  BY <1>0, <1>4 DEF Superblocks
<1>8. inodes' \in Superblocks BY <1>0, <1>4, <1>6 DEF Superblocks
<1>9. Rewrites(i)
  BY <1>2, <1>3, <1>6, <1>7, <1>8, StatusAssumption DEF Rewrites, SameNames, Occupied
<1> QED BY <1>2, <1>9 DEF IsIndex

LEMMA WritingRewrites ==
  ASSUME Typed, Write \/ Truncate
  PROVE  \E i \in Slots : Rewrites(i)
  BY WriteRewrites, TruncateRewrites DEF Write, Truncate

(* A request ends: its slot is filled, and of the others at most a link    *)
(* count changes.                                                          *)
Stores(t) ==
  /\ mount = "up" /\ pending[t] # NoRequest
  /\ inodes' \in Superblocks
  /\ inodes'[pending[t].slot] = pending[t].inode
  /\ \A i \in Slots \ {pending[t].slot} :
       \/ inodes'[i] = inodes[i]
       \/ /\ inodes[i] # FREE /\ inodes'[i] # FREE
          /\ SameNames(inodes'[i], inodes[i]) /\ Seen(inodes'[i]) = Seen(inodes[i])
  /\ pending' = [pending EXCEPT ![t] = NoRequest]
  /\ UNCHANGED <<disk, mount>>

LEMMA StoringStores ==
  ASSUME Typed, mount = "up", NEW t \in Threads, Store(t)
  PROVE  pending[t] \in Pending /\ Stores(t)
<1> DEFINE new == pending[t]
           linked(i) == [inodes[i] EXCEPT !.nlink = @ + 1]
<1>1. new \in Pending BY DEF Typed, Store
<1>2. new.slot \in Slots /\ new.inode \in Inode BY <1>1 DEF Pending
<1>3. inodes' = [i \in Slots |->
          IF i = new.slot THEN new.inode
          ELSE IF new.from # Root /\ IsIndex(i, new.from) THEN linked(i)
          ELSE inodes[i]]
  BY DEF Store
<1>4. ASSUME NEW i \in Slots, i # new.slot
      PROVE  \/ inodes'[i] = inodes[i]
             \/ /\ inodes[i] \in Inode /\ inodes'[i] \in Inode
                /\ SameNames(inodes'[i], inodes[i]) /\ Seen(inodes'[i]) = Seen(inodes[i])
  <2>1. CASE new.from # Root /\ IsIndex(i, new.from)
    <3>1. inodes[i] \in Inode BY <2>1, Inodes DEF IsIndex
    <3>2. inodes'[i] = linked(i) BY <1>3, <1>4, <2>1
    <3> QED BY <3>1, <3>2, OneMoreLink
  <2>2. CASE ~(new.from # Root /\ IsIndex(i, new.from))
    BY <1>3, <1>4, <2>2
  <2> QED BY <2>1, <2>2
<1>5. inodes'[new.slot] = new.inode BY <1>2, <1>3
<1>6. \A i \in Slots : inodes'[i] \in Inode \cup {FREE}
  BY <1>2, <1>4, <1>5 DEF Typed, Superblocks
<1>7. inodes' \in Superblocks BY <1>3, <1>6 DEF Superblocks
<1> QED BY <1>1, <1>4, <1>5, <1>7, StatusAssumption DEF Stores, Store

(* Mounting and what ends it. *)
MountStep == Mount \/ Unmount \/ Saved \/ Crash

LEMMA Steps ==
  ASSUME Typed, [Next]_vars
  PROVE  \/ \E t \in Threads : \E new : Begins(t, new)
         \/ \E t \in Threads : pending[t] \in Pending /\ Stores(t)
         \/ \E i \in Slots, path \in Paths : Removes(i, path)
         \/ \E i \in Slots : Rewrites(i)
         \/ MountStep
         \/ UNCHANGED vars
  BY MakingBegins, StoringStores, RemovingRemoves, WritingRewrites
     DEF Next, Changing, MountStep

-----------------------------------------------------------------------------
(* The types *)

LEMMA NewRootTypes == NewRoot \in Superblocks
<1>1. MAX_CONTENT \in 0 .. MAX_CONTENT /\ "directory" \in Types
  BY ConstantTypes DEF Types
<1>2. [type |-> "directory", path |-> Root, file_parent |-> NoParent, nlink |-> 2,
       file_size |-> MAX_CONTENT, file_content |-> Blank] \in Inode
  BY <1>1, ConstantTypes DEF Inode
<1> QED BY <1>2 DEF NewRoot, Superblocks

LEMMA InitTyped == Init => Typed
  BY DEF Init, Typed, Superblocks

LEMMA NextTyped == Typed /\ [Next]_vars => Typed'
<1> SUFFICES ASSUME Typed, [Next]_vars PROVE Typed'
  OBVIOUS
<1>1. ASSUME NEW t \in Threads, NEW new, Begins(t, new) PROVE Typed'
  BY <1>1 DEF Begins, Typed
<1>2. ASSUME NEW t \in Threads, Stores(t) PROVE Typed'
  BY <1>2 DEF Stores, Typed
<1>3. ASSUME NEW i \in Slots, NEW path \in Paths, Removes(i, path) PROVE Typed'
  BY <1>3 DEF Removes, Remove, Typed, Superblocks
<1>4. ASSUME NEW i \in Slots, Rewrites(i) PROVE Typed'
  BY <1>4 DEF Rewrites, Typed
<1>5. CASE MountStep
  <2>1. CASE Mount BY <2>1, NewRootTypes DEF Mount, Typed
  <2>2. CASE Unmount BY <2>2 DEF Unmount, Typed
  <2>3. CASE Saved BY <2>3 DEF Saved, Typed, Superblocks
  <2>4. CASE Crash BY <2>4 DEF Crash, Typed, Superblocks
  <2> QED BY <1>5, <2>1, <2>2, <2>3, <2>4 DEF MountStep
<1>6. CASE UNCHANGED vars BY <1>6 DEF vars, Typed
<1> QED BY <1>1, <1>2, <1>3, <1>4, <1>5, <1>6, Steps

(* What the other theorems use of the types. *)
THEOREM TypedInvariant == Spec => []Typed
  BY InitTyped, NextTyped, PTL DEF Spec

(* The types, however many threads serve requests: no handler leaves a     *)
(* size beyond file_content, a content of another length or an inode       *)
(* without a link.                                                         *)
THEOREM TypeInvariant == Spec => []TypeOK
<1>1. Typed => TypeOK BY DEF Typed, TypeOK, IsSuperblock, Superblocks
<1> QED BY <1>1, TypedInvariant, PTL

(* A write or a truncation shows in no other file that has a single link,  *)
(* however many links the file it is made to has and however many threads  *)
(* serve requests (fisopfs.c:240-266, 308-318).                            *)
THEOREM PrivateContentsHolds == Spec => PrivateContents
<1>1. ASSUME Typed, NEW path \in Paths,
             NEW i \in Slots, inodes[i].path = path, Rewrites(i),
             NEW j \in Occupied, inodes[j].path # path, inodes[j].nlink = 1
      PROVE  ~ReadsAnother(j)
  <2>1. inodes'[j] = inodes[j] BY <1>1 DEF Rewrites
  <2>2. inodes[j] # FREE BY DEF Occupied
  <2> QED BY <2>1, <2>2 DEF ReadsAnother
<1>2. ASSUME Typed, NEW path \in Paths,
             WriteFile(path) \/ \E offset \in 0 .. MaxEnd : TruncateTo(path, offset)
      PROVE  \A j \in Occupied :
               inodes[j].path # path /\ inodes[j].nlink = 1 => ~ReadsAnother(j)
  <2>1. PICK i \in Slots : inodes[i].path = path /\ Rewrites(i)
    BY <1>2, WriteRewrites, TruncateRewrites
  <2> QED BY <1>1, <1>2, <2>1
<1>3. Typed /\ [Next]_vars => [OthersUndisturbed]_vars BY <1>2 DEF OthersUndisturbed
<1> QED BY <1>3, TypedInvariant, PTL DEF Spec, PrivateContents

-----------------------------------------------------------------------------
(* Requests served one at a time *)

(* Whoever is about to store an inode has a slot that is still FREE, a     *)
(* name that nobody has taken and a directory that is still there.         *)
PendingOK ==
  \A t \in Threads : pending[t] # NoRequest =>
    LET new == pending[t]
    IN  /\ mount = "up"
        /\ inodes[new.slot] = FREE
        /\ new.inode.path \in Paths /\ new.inode.file_parent = Parent(new.inode.path)
        /\ \A i \in Occupied : inodes[i].path # new.inode.path
        /\ \E j \in Occupied : /\ inodes[j].type = "directory"
                               /\ inodes[j].path = Parent(new.inode.path)

LEMMA InitPending == Init => PendingOK
  BY DEF Init, PendingOK

(* What MayMake has found. *)
LEMMA Made ==
  ASSUME NEW path, MayMake(path)
  PROVE  /\ \A i \in Occupied : inodes[i].path # path
         /\ \E j \in Occupied : inodes[j].type = "directory" /\ inodes[j].path = Parent(path)
<1>1. PICK attr \in Getattr(Parent(path)) : attr.type = "directory" BY DEF MayMake
<1>2. PICK j \in Occupied :
        /\ IsIndex(j, Parent(path))
        /\ attr = [type |-> inodes[j].type, nlink |-> inodes[j].nlink,
                   size |-> inodes[j].file_size]
  BY <1>1 DEF Getattr
<1>3. inodes[j].type = "directory" BY <1>1, <1>2
<1>4. inodes[j].path = Parent(path) BY <1>2 DEF IsIndex
<1> QED BY <1>3, <1>4 DEF MayMake, Exists

LEMMA NextPending ==
  ASSUME OneThread, Typed, PendingOK, [Next]_vars
  PROVE  PendingOK'
<1>0. pending \in [Threads -> Pending \cup {NoRequest}] BY DEF Typed
<1>1. ASSUME NEW t \in Threads, NEW new, Begins(t, new) PROVE PendingOK'
  <2>1. pending'[t] = new /\ \A u \in Threads : u = t
    BY <1>0, <1>1 DEF Begins, OneThread
  <2>2. UNCHANGED <<inodes, mount>> /\ mount = "up" BY <1>1 DEF Begins
  <2>3. /\ inodes[new.slot] = FREE /\ new.inode.path \in Paths
        /\ new.inode.file_parent = Parent(new.inode.path)
        /\ MayMake(new.inode.path)
    BY <1>1 DEF Begins
  <2>4. /\ \A i \in Occupied : inodes[i].path # new.inode.path
        /\ \E j \in Occupied : /\ inodes[j].type = "directory"
                               /\ inodes[j].path = Parent(new.inode.path)
    BY <2>3, Made
  <2>5. Occupied' = Occupied BY <2>2 DEF Occupied
  <2> QED BY <2>1, <2>2, <2>3, <2>4, <2>5 DEF PendingOK
<1>2. ASSUME NEW t \in Threads, Stores(t) PROVE PendingOK'
  <2>1. \A u \in Threads : pending'[u] = NoRequest
    BY <1>0, <1>2 DEF Stores, OneThread
  <2> QED BY <2>1 DEF PendingOK
<1>3. ASSUME NEW i \in Slots, NEW path \in Paths, Removes(i, path) PROVE PendingOK'
  <2>1. /\ UNCHANGED <<pending, mount>> /\ MayRemove(path) /\ IsIndex(i, path)
        /\ inodes' = [inodes EXCEPT ![i] = FREE]
    BY <1>3 DEF Removes, Remove
  <2>2. \A j \in Slots : inodes'[j] = IF j = i THEN FREE ELSE inodes[j]
    BY <2>1 DEF Typed, Superblocks
  <2>3. inodes[i].path = path BY <2>1 DEF IsIndex
  <2>4. SUFFICES ASSUME NEW t \in Threads, pending[t] # NoRequest
                 PROVE  LET new == pending[t]
                        IN  /\ inodes'[new.slot] = FREE
                            /\ \A k \in Occupied' : inodes'[k].path # new.inode.path
                            /\ \E j \in Occupied' : /\ inodes'[j].type = "directory"
                                                    /\ inodes'[j].path = Parent(new.inode.path)
    BY <2>1 DEF PendingOK
  <2> DEFINE new == pending[t]
  <2>5. new.slot \in Slots BY <1>0, <2>4 DEF Pending
  <2>6. Parent(new.inode.path) # path BY <2>1, <2>4 DEF MayRemove
  <2>7. /\ inodes[new.slot] = FREE
        /\ \A k \in Occupied : inodes[k].path # new.inode.path
    BY <2>4 DEF PendingOK
  <2>8. PICK j \in Occupied : inodes[j].type = "directory" /\ inodes[j].path = Parent(new.inode.path)
    BY <2>4 DEF PendingOK
  <2>9. j # i BY <2>3, <2>6, <2>8
  <2> HIDE DEF new
  <2>10. \A k \in Occupied' : k \in Occupied /\ inodes'[k] = inodes[k]
    BY <2>2 DEF Occupied
  <2>11. j \in Occupied' /\ inodes'[j] = inodes[j] BY <2>2, <2>8, <2>9 DEF Occupied
  <2> QED BY <2>2, <2>5, <2>7, <2>8, <2>10, <2>11 DEF new
<1>4. ASSUME NEW i \in Slots, Rewrites(i) PROVE PendingOK'
  <2>1. /\ UNCHANGED <<pending, mount>>
        /\ \A j \in Slots : (inodes'[j] = FREE) <=> (inodes[j] = FREE)
        /\ \A j \in Occupied : inodes'[j].path = inodes[j].path /\ inodes'[j].type = inodes[j].type
    BY <1>4 DEF Rewrites
  <2>2. Occupied' = Occupied BY <2>1 DEF Occupied
  <2>3. \A t \in Threads : pending[t] # NoRequest => pending[t].slot \in Slots
    BY <1>0 DEF Pending
  <2> QED BY <2>1, <2>2, <2>3 DEF PendingOK
<1>5. CASE MountStep
  <2>1. \A t \in Threads : pending'[t] = NoRequest
    BY <1>5 DEF MountStep, Mount, Unmount, Saved, Crash, PendingOK
  <2> QED BY <2>1 DEF PendingOK
<1>6. CASE UNCHANGED vars BY <1>6 DEF vars, PendingOK, Occupied
<1> QED BY <1>1, <1>2, <1>3, <1>4, <1>5, <1>6, Steps

(* The slot a request has found is its own: nobody fills it before it      *)
(* does, and the directory of the new name cannot go.                      *)
THEOREM PendingInvariant == ASSUME OneThread PROVE Spec => []PendingOK
<1>1. Typed /\ PendingOK /\ [Next]_vars => PendingOK' BY NextPending
<1> QED BY <1>1, InitPending, TypedInvariant, PTL DEF Spec

-----------------------------------------------------------------------------
(* The tree *)

(* IsTree without the search: what it says of one inode names no other but *)
(* its directory.                                                          *)
Plain(s) ==
  /\ s[0] # FREE /\ s[0].path = Root
  /\ \A i, j \in Slots : s[i] # FREE /\ s[j] # FREE /\ s[i].path = s[j].path => i = j
  /\ \A i \in Slots \ {0} : s[i] # FREE =>
       /\ s[i].file_parent = Parent(s[i].path)
       /\ \E j \in Slots : /\ s[j] # FREE /\ s[j].type = "directory"
                           /\ s[j].path = Parent(s[i].path)

LEMMA TreeIsPlain == ASSUME NEW s PROVE IsTree(s) <=> Plain(s)
<1> DEFINE There == {i \in Slots : s[i] # FREE}
<1>0. 0 \in Slots BY ConstantTypes
<1>1. ASSUME IsTree(s) PROVE Plain(s)
  <2>1. s[0] # FREE /\ s[0].path = Root BY <1>1 DEF IsTree
  <2>2. \A i, j \in Slots : s[i] # FREE /\ s[j] # FREE /\ s[i].path = s[j].path => i = j
    BY <1>1 DEF IsTree
  <2>3. ASSUME NEW i \in Slots \ {0}, s[i] # FREE
        PROVE  /\ s[i].file_parent = Parent(s[i].path)
               /\ \E j \in Slots : /\ s[j] # FREE /\ s[j].type = "directory"
                                   /\ s[j].path = Parent(s[i].path)
    <3>1. PICK j \in There : /\ s[j].type = "directory" /\ s[j].path = Parent(s[i].path)
                             /\ s[i].path \in Readdir(s, s[j].path)
      BY <1>1, <2>3 DEF IsTree
    <3>2. PICK k \in Slots : s[k] # FREE /\ s[k].file_parent = s[j].path /\ s[k].path = s[i].path
      BY <3>1 DEF Readdir
    <3>3. k = i BY <2>2, <2>3, <3>2
    <3> QED BY <3>1, <3>2, <3>3
  <2> QED BY <2>1, <2>2, <2>3 DEF Plain
<1>2. ASSUME Plain(s) PROVE IsTree(s)
  <2>1. 0 \in There /\ s[0].path = Root BY <1>0, <1>2 DEF Plain
  <2>2. \A i, j \in There : s[i].path = s[j].path => i = j BY <1>2 DEF Plain
  <2>3. ASSUME NEW i \in There \ {0}
        PROVE  \E j \in There : /\ s[j].type = "directory" /\ s[j].path = Parent(s[i].path)
                                /\ s[i].path \in Readdir(s, s[j].path)
    <3>1. PICK j \in Slots : /\ s[j] # FREE /\ s[j].type = "directory"
                             /\ s[j].path = Parent(s[i].path)
      BY <1>2 DEF Plain
    <3>2. s[i].file_parent = s[j].path BY <1>2, <3>1 DEF Plain
    <3>3. s[i].path \in Readdir(s, s[j].path) BY <3>2 DEF Readdir
    <3> QED BY <3>1, <3>3
  <2> QED BY <2>1, <2>2, <2>3 DEF IsTree
<1> QED BY <1>1, <1>2

PlainTree ==
  /\ mount # "down" => Plain(inodes)
  /\ disk # NoImage => Plain(disk)

LEMMA InitPlain == Init => PlainTree
  BY DEF Init, PlainTree

LEMMA NewRootPlain == Plain(NewRoot)
<1>1. /\ NewRoot[0] = [type |-> "directory", path |-> Root, file_parent |-> NoParent, nlink |-> 2,
                       file_size |-> MAX_CONTENT, file_content |-> Blank]
      /\ \A i \in Slots \ {0} : NewRoot[i] = FREE
  BY ConstantTypes DEF NewRoot
<1>2. NewRoot[0] # FREE
  BY <1>1, NewRootTypes, StatusAssumption, ConstantTypes DEF Types, Inode
<1> QED BY <1>1, <1>2 DEF Plain

(* A superblock whose inodes keep their names stays a tree. *)
LEMMA SamePlain ==
  ASSUME NEW s, NEW r, Plain(s),
         \A i \in Slots : (r[i] = FREE) <=> (s[i] = FREE),
         \A i \in Slots : s[i] # FREE => SameNames(r[i], s[i])
  PROVE  Plain(r)
  BY ConstantTypes DEF Plain, SameNames

(* A tree with one more name, in a directory that is there, is a tree. *)
LEMMA StoresPlain ==
  ASSUME Typed, PendingOK, Plain(inodes), NEW t \in Threads,
         pending[t] \in Pending, Stores(t)
  PROVE  Plain(inodes')
<1> DEFINE new == pending[t]
<1>1. /\ new.slot \in Slots /\ new.inode \in Inode
  BY DEF Pending
<1>2. /\ inodes[new.slot] = FREE /\ inodes'[new.slot] = new.inode
      /\ new.inode.path \in Paths /\ new.inode.file_parent = Parent(new.inode.path)
      /\ \A i \in Occupied : inodes[i].path # new.inode.path
      /\ \E j \in Occupied : inodes[j].type = "directory" /\ inodes[j].path = Parent(new.inode.path)
  BY DEF Stores, PendingOK
<1>3. \A i \in Slots \ {new.slot} :
        /\ (inodes'[i] = FREE) <=> (inodes[i] = FREE)
        /\ inodes[i] # FREE => SameNames(inodes'[i], inodes[i])
  BY DEF Stores, SameNames
<1>4. inodes'[new.slot] # FREE BY <1>1, <1>2, StatusAssumption
<1> HIDE DEF new
<1>5. new.slot # 0 BY <1>2 DEF Plain
<1>6. inodes'[0] # FREE /\ inodes'[0].path = Root
  BY <1>3, <1>5, ConstantTypes DEF Plain, SameNames
<1>7. ASSUME NEW i \in Slots, NEW j \in Slots, inodes'[i] # FREE, inodes'[j] # FREE,
             inodes'[i].path = inodes'[j].path
      PROVE  i = j
  <2>1. \A k \in Slots \ {new.slot} : inodes'[k] # FREE =>
          inodes[k] # FREE /\ inodes'[k].path = inodes[k].path /\ inodes[k].path # new.inode.path
    BY <1>2, <1>3 DEF SameNames, Occupied
  <2>2. CASE i # new.slot /\ j # new.slot BY <1>7, <2>1, <2>2 DEF Plain
  <2>3. CASE i = new.slot \/ j = new.slot BY <1>2, <1>7, <2>1, <2>3
  <2> QED BY <2>2, <2>3
<1>8. ASSUME NEW i \in Slots \ {0}, inodes'[i] # FREE
      PROVE  /\ inodes'[i].file_parent = Parent(inodes'[i].path)
             /\ \E j \in Slots : /\ inodes'[j] # FREE /\ inodes'[j].type = "directory"
                                 /\ inodes'[j].path = Parent(inodes'[i].path)
  <2>1. \A j \in Slots : inodes[j] # FREE =>
          /\ inodes'[j] # FREE /\ inodes'[j].type = inodes[j].type
          /\ inodes'[j].path = inodes[j].path
    BY <1>2, <1>3 DEF SameNames
  <2>2. CASE i = new.slot BY <1>2, <2>1, <2>2 DEF Occupied
  <2>3. CASE i # new.slot
    <3>1. inodes[i] # FREE /\ SameNames(inodes'[i], inodes[i]) BY <1>3, <1>8, <2>3
    <3>2. /\ inodes[i].file_parent = Parent(inodes[i].path)
          /\ \E j \in Slots : /\ inodes[j] # FREE /\ inodes[j].type = "directory"
                              /\ inodes[j].path = Parent(inodes[i].path)
      BY <1>8, <3>1 DEF Plain
    <3> QED BY <2>1, <3>1, <3>2 DEF SameNames
  <2> QED BY <2>2, <2>3
<1> QED BY <1>6, <1>7, <1>8 DEF Plain

(* Without a file, or a directory nobody has as file_parent, it is one too. *)
LEMMA RemovesPlain ==
  ASSUME Typed, Plain(inodes), NEW i \in Slots, NEW path \in Paths, Removes(i, path)
  PROVE  Plain(inodes')
<1>1. /\ inodes[i] # FREE /\ inodes[i].path = path
      /\ \A j \in Slots : inodes'[j] = IF j = i THEN FREE ELSE inodes[j]
  BY DEF Removes, Remove, IsIndex, Occupied, Typed, Superblocks
<1>2. i # 0 BY <1>1, FisopfsAssumption DEF Plain
<1>3. ASSUME NEW k \in Slots \ {0}, inodes'[k] # FREE
      PROVE  /\ inodes'[k].file_parent = Parent(inodes'[k].path)
             /\ \E j \in Slots : /\ inodes'[j] # FREE /\ inodes'[j].type = "directory"
                                 /\ inodes'[j].path = Parent(inodes'[k].path)
  <2>1. inodes[k] # FREE /\ inodes'[k] = inodes[k] /\ k # i BY <1>1, <1>3
  <2>2. /\ inodes[k].file_parent = Parent(inodes[k].path)
        /\ \E j \in Slots : /\ inodes[j] # FREE /\ inodes[j].type = "directory"
                            /\ inodes[j].path = Parent(inodes[k].path)
    BY <1>3, <2>1 DEF Plain
  <2>3. PICK j \in Slots : /\ inodes[j] # FREE /\ inodes[j].type = "directory"
                           /\ inodes[j].path = Parent(inodes[k].path)
    BY <2>2
  <2>4. j # i
    <3>1. SUFFICES ASSUME j = i PROVE FALSE OBVIOUS
    <3>2. \A l \in Occupied : inodes[l].file_parent # path
      BY <2>3, <3>1 DEF Removes
    <3>3. inodes[k].file_parent = path BY <1>1, <2>2, <2>3, <3>1
    <3> QED BY <2>1, <3>2, <3>3 DEF Occupied
  <2> QED BY <1>1, <2>1, <2>2, <2>3, <2>4
<1>4. inodes'[0] # FREE /\ inodes'[0].path = Root BY <1>1, <1>2, ConstantTypes DEF Plain
<1>5. \A k, j \in Slots : inodes'[k] # FREE /\ inodes'[j] # FREE
                          /\ inodes'[k].path = inodes'[j].path => k = j
  BY <1>1 DEF Plain
<1> QED BY <1>3, <1>4, <1>5 DEF Plain

LEMMA NextPlain ==
  ASSUME ShortWrites, Typed, PendingOK, PlainTree, [Next]_vars
  PROVE  PlainTree'
<1>1. ASSUME NEW t \in Threads, NEW new, Begins(t, new) PROVE PlainTree'
  BY <1>1 DEF Begins, PlainTree
<1>2. ASSUME NEW t \in Threads, pending[t] \in Pending, Stores(t) PROVE PlainTree'
  <2>1. mount = "up" /\ UNCHANGED disk BY <1>2 DEF Stores
  <2> QED BY <1>2, <2>1, StoresPlain DEF PlainTree
<1>3. ASSUME NEW i \in Slots, NEW path \in Paths, Removes(i, path) PROVE PlainTree'
  <2>1. mount = "up" /\ UNCHANGED disk BY <1>3 DEF Removes, Remove
  <2> QED BY <1>3, <2>1, RemovesPlain DEF PlainTree
<1>4. ASSUME NEW i \in Slots, Rewrites(i) PROVE PlainTree'
  <2>1. /\ UNCHANGED <<disk, mount>>
        /\ \A j \in Slots : (inodes'[j] = FREE) <=> (inodes[j] = FREE)
        /\ \A j \in Slots : inodes[j] # FREE => SameNames(inodes'[j], inodes[j])
    BY <1>4 DEF Rewrites, Occupied
  <2> QED BY <2>1, SamePlain DEF PlainTree
<1>5. CASE MountStep
  <2>1. CASE Mount BY <2>1, NewRootPlain DEF Mount, PlainTree
  <2>2. CASE Unmount BY <2>2 DEF Unmount, PlainTree
  <2>3. CASE Saved BY <2>3 DEF Saved, PlainTree
  <2>4. CASE Crash BY <2>4 DEF Crash, PlainTree
  <2> QED BY <1>5, <2>1, <2>2, <2>3, <2>4 DEF MountStep
<1>6. CASE UNCHANGED vars BY <1>6 DEF vars, PlainTree
<1> QED BY <1>1, <1>2, <1>3, <1>4, <1>5, <1>6, Steps

(* Through makes, links, writes, removals, unmounts and crashes at any     *)
(* point the superblock in memory and the image stay trees: the root is in *)
(* slot 0, no path is there twice, and every other inode is in a directory *)
(* that is there (fisopfs.c:92-210, fs_utils.c:52-110).                    *)
THEOREM TreeHolds == ASSUME OneThread, ShortWrites PROVE Spec => []Tree
<1>1. Typed /\ PendingOK /\ PlainTree /\ [Next]_vars => PlainTree' BY NextPlain
<1>2. PlainTree => Tree BY TreeIsPlain DEF PlainTree, Tree
<1> QED BY <1>1, <1>2, InitPlain, TypedInvariant, PendingInvariant, PTL DEF Spec
=============================================================================
