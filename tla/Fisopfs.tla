------------------------------- MODULE Fisopfs -------------------------------
(***************************************************************************)
(* The FUSE file system of 4-fs (fisopfs.c, fs_utils.c): a superblock of   *)
(* inodes in memory, found by path, and its image on disk.  A handler that *)
(* fails changes nothing and is left out; the handlers that only read are  *)
(* operators, in whose terms the properties are stated.  Times, modes and  *)
(* owners are not modelled: one user mounts and uses the file system.      *)
(*                                                                         *)
(* The handlers are called by the kernel's VFS, which looks paths up first *)
(* and keeps the directory of a new name locked; libfuse serves requests   *)
(* on several threads, and the file system has no lock of its own.  A      *)
(* handler that makes a name first searches for a free slot and then fills *)
(* it: two steps.  The others are one.                                     *)
(***************************************************************************)
EXTENDS Naturals, Sequences, FiniteSets

CONSTANTS
  Paths,        \* the paths used, sequences of names; the root is <<>>
  MAX_INODES,
  MAX_CONTENT,  \* the bytes an inode has room for
  Chars,        \* the bytes written, NUL not among them
  Threads,      \* the threads that serve requests
  MaxEnd,       \* bound on how far writes and truncations reach
  MaxLinks,     \* bound on nlink
  Remount,      \* whether the file system is unmounted, or dies, at all
  FREE,         \* the status of a slot without an inode
  NoRequest,    \* a thread that is not making a name
  NoImage       \* a filedisk that is not there, or not whole

Root == <<>>
NUL == 0
NoParent == <<"">>      \* NO_PARENT, the empty string
Parent(path) == SubSeq(path, 1, Len(path) - 1)

(* A write that ends beyond file_content leaves the model. *)
ASSUME FisopfsAssumption ==
  /\ Root \notin Paths /\ \A p \in Paths : Parent(p) \in Paths \cup {Root}
  /\ MAX_INODES \in Nat \ {0} /\ MAX_CONTENT \in Nat \ {0}
  /\ NUL \notin Chars
  /\ MaxEnd \in 1 .. MAX_CONTENT /\ MaxLinks \in Nat \ {0, 1}
  /\ Remount \in BOOLEAN

Slots == 0 .. MAX_INODES - 1
Types == {"regular", "directory", "symlink"}
Contents == [0 .. MAX_CONTENT - 1 -> Chars \cup {NUL}]
Blank == [k \in 0 .. MAX_CONTENT - 1 |-> NUL]

Inode == [type : Types, path : Paths \cup {Root},
          file_parent : Paths \cup {Root, NoParent},
          nlink : Nat \ {0}, file_size : 0 .. MAX_CONTENT, file_content : Contents]

(* status_inodes tells a slot that is FREE from one that holds an inode.   *)
ASSUME StatusAssumption == FREE \notin Inode

VARIABLES
  inodes,         \* superblock.inodes: the OCCUPIED ones, by slot
  pending,        \* what each thread is about to store, and where
  disk,           \* the file filedisk: NoImage, or the image of a superblock
  mount           \* "down", "up" or "saving"

vars == <<inodes, pending, disk, mount>>

Occupied == {i \in Slots : inodes[i] # FREE}

-----------------------------------------------------------------------------
(* Looking up (fs_utils.c) *)

(* search_inode_by_path, get_inode_index: the first slot with the path. *)
IsIndex(i, path) ==
  /\ i \in Occupied /\ inodes[i].path = path
  /\ \A j \in Occupied : inodes[j].path = path => i <= j

Exists(path) == \E i \in Occupied : inodes[i].path = path

(* fisopfs_getattr: the attributes of a path, none if it is not there.     *)
Getattr(path) ==
  {[type |-> inodes[i].type, nlink |-> inodes[i].nlink, size |-> inodes[i].file_size] :
     i \in {j \in Occupied : IsIndex(j, path)}}

(* search_free_inode: the first FREE slot. *)
IsFree(i) == inodes[i] = FREE /\ \A j \in Slots : inodes[j] = FREE => i <= j

(* External: the VFS asks for a new name only in a directory that it has   *)
(* found, that does not have it yet and that it has locked.                *)
MayMake(path) ==
  /\ ~Exists(path)
  /\ \E attr \in Getattr(Parent(path)) : attr.type = "directory"
  /\ \A t \in Threads : pending[t] # NoRequest => Parent(pending[t].inode.path) # Parent(path)

(* External: nor is a name removed, or a file changed, under a request     *)
(* that needs it.  A request takes a thread of its own.                    *)
MayChange(path) ==
  /\ \E t \in Threads : pending[t] = NoRequest
  /\ \A t \in Threads : pending[t] # NoRequest => pending[t].from # path

MayRemove(path) ==
  /\ MayChange(path)
  /\ \A t \in Threads : pending[t] # NoRequest =>
       Parent(pending[t].inode.path) \notin {path, Parent(path)}

-----------------------------------------------------------------------------
(* Reading *)

(* fisopfs_readdir of superblock s: by file_parent, not by path. *)
Readdir(s, path) ==
  {s[i].path : i \in {j \in Slots : s[j] # FREE /\ s[j].file_parent = path}}

(* A C string: what comes before the first NUL, padded. *)
CString(content) ==
  [k \in DOMAIN content |-> IF \E j \in 0 .. k : content[j] = NUL THEN NUL ELSE content[k]]

(* fisopfs_read: no more than there is behind the offset. *)
Read(inode, offset, size) ==
  LET there == IF offset < inode.file_size THEN inode.file_size - offset ELSE 0
  IN  [k \in 1 .. (IF size < there THEN size ELSE there) |-> inode.file_content[offset + k - 1]]

(* fisopfs_readlink, into a buffer that is large enough: the string. *)
Readlink(inode) == CString(inode.file_content)

(* What a program learns of the content of an inode. *)
Seen(inode) ==
  IF inode.type = "symlink" THEN Readlink(inode) ELSE Read(inode, 0, MAX_CONTENT)

-----------------------------------------------------------------------------
(* Making names *)

Fresh(path, type, size, content) ==
  [type |-> type, path |-> path, file_parent |-> Parent(path),
   nlink |-> IF type = "directory" THEN 2 ELSE 1,
   file_size |-> size, file_content |-> content]

Begin(t, i, inode, from) ==
  /\ pending' = [pending EXCEPT ![t] = [slot |-> i, inode |-> inode, from |-> from]]
  /\ UNCHANGED <<inodes, disk, mount>>

(* fisopfs_create, fisopfs_mkdir: new_inode, set_inode_in_superblock.  An  *)
(* inode with the name and the parent already there would get one link     *)
(* more, but MayMake excludes it.                                          *)
Create(t) ==
  \E path \in Paths, type \in {"regular", "directory"}, i \in Slots :
    /\ MayMake(path) /\ IsFree(i)
    /\ Begin(t, i, Fresh(path, type, 0, Blank), Root)

(* fisopfs_symlink: the target, which has no NUL, is the content. *)
Symlink(t) ==
  \E path \in Paths, i \in Slots, size \in 1 .. MAX_CONTENT - 1, char \in Chars :
    /\ MayMake(path) /\ IsFree(i)
    /\ Begin(t, i, Fresh(path, "symlink", size,
                         [k \in DOMAIN Blank |-> IF k < size THEN char ELSE NUL]), Root)

(* fisopfs_link: the new name is a copy of the inode. *)
Link(t) ==
  \E old, path \in Paths, i, j \in Slots :
    /\ IsIndex(j, old) /\ inodes[j].type \in {"regular", "symlink"}
    /\ MayMake(path) /\ IsFree(i)
    /\ inodes[j].nlink < MaxLinks
    /\ Begin(t, i, [inodes[j] EXCEPT !.path = path, !.file_parent = Parent(path),
                                     !.nlink = @ + 1], old)

(* The end of these handlers: the slot is filled, and a link counts the    *)
(* name it was made from.                                                  *)
Store(t) ==
  /\ pending[t] # NoRequest
  /\ LET new == pending[t]
     IN inodes' = [i \in Slots |->
          IF i = new.slot THEN new.inode
          ELSE IF new.from # Root /\ IsIndex(i, new.from) THEN [inodes[i] EXCEPT !.nlink = @ + 1]
          ELSE inodes[i]]
  /\ pending' = [pending EXCEPT ![t] = NoRequest]
  /\ UNCHANGED <<disk, mount>>

-----------------------------------------------------------------------------
(* Removing names *)

Remove(i) ==
  /\ inodes' = [inodes EXCEPT ![i] = FREE]
  /\ UNCHANGED <<pending, disk, mount>>

(* fisopfs_unlink.  Other names keep their nlink. *)
Unlink ==
  \E path \in Paths, i \in Slots :
    /\ MayRemove(path) /\ IsIndex(i, path)
    /\ inodes[i].type # "directory"
    /\ Remove(i)

(* Mutant: a directory that is not empty is removed. *)
RmdirFull ==
  \E path \in Paths, i \in Slots :
    /\ MayRemove(path) /\ IsIndex(i, path)
    /\ inodes[i].type = "directory"
    /\ Remove(i)

(* fisopfs_rmdir *)
Rmdir ==
  \E path \in Paths, i \in Slots :
    /\ MayRemove(path) /\ IsIndex(i, path)
    /\ inodes[i].type = "directory"
    /\ \A j \in Occupied : inodes[j].file_parent # path
    /\ Remove(i)

-----------------------------------------------------------------------------
(* Changing contents *)

(* strncpy to offset and the terminator: nothing after a NUL is copied.    *)
Written(content, offset, data) ==
  [k \in DOMAIN content |->
     IF k \in offset .. offset + Len(data) - 1
     THEN IF \E j \in 1 .. k - offset + 1 : data[j] = NUL THEN NUL ELSE data[k - offset + 1]
     ELSE IF k = offset + Len(data) THEN NUL
     ELSE content[k]]

(* The terminator of a write that fills file_content is the first byte of  *)
(* file_parent.                                                            *)
WriteTo(inode, offset, data) ==
  [inode EXCEPT !.file_content = Written(@, offset, data),
                !.file_size = offset + Len(data),
                !.file_parent = IF offset + Len(data) = MAX_CONTENT THEN NoParent ELSE @]

(* Mutant: the links are not looked at. *)
PropagateToAll(inode, from) ==
  IF inode.nlink > 0 /\ CString(inode.file_content) # CString(from.file_content)
  THEN [inode EXCEPT !.file_content = CString(from.file_content), !.file_size = from.file_size]
  ELSE inode

(* Every inode with more than one link gets the string that was written,   *)
(* whatever file it is a link of.                                          *)
Propagate(inode, from) ==
  IF inode.nlink > 1 /\ CString(inode.file_content) # CString(from.file_content)
  THEN [inode EXCEPT !.file_content = CString(from.file_content), !.file_size = from.file_size]
  ELSE inode

(* fisopfs_write *)
WriteFile(path) ==
  \E i \in Slots, offset \in 0 .. MaxEnd - 1 :
  \E data \in UNION {[1 .. n -> Chars \cup {NUL}] : n \in 1 .. MaxEnd - offset} :
    /\ MayChange(path) /\ IsIndex(i, path) /\ inodes[i].type = "regular"
    /\ LET new == WriteTo(inodes[i], offset, data)
       IN inodes' = [j \in Slots |-> IF j = i THEN new
                                     ELSE IF j \in Occupied THEN Propagate(inodes[j], new)
                                     ELSE FREE]
    /\ UNCHANGED <<pending, disk, mount>>

Write == \E path \in Paths : WriteFile(path)

(* What is cut off, or added, becomes NUL. *)
TruncateTo(path, offset) ==
  \E i \in Slots :
    /\ MayChange(path) /\ IsIndex(i, path) /\ inodes[i].type = "regular"
    /\ LET size == inodes[i].file_size
           Cleared(k) == k \in offset .. size - 1 \/ k \in size .. offset - 1
       IN inodes' = [inodes EXCEPT ![i].file_size = offset,
                                   ![i].file_content =
                                     [k \in DOMAIN @ |-> IF Cleared(k) THEN NUL ELSE @[k]]]
    /\ UNCHANGED <<pending, disk, mount>>

(* fisopfs_truncate: an offset beyond MAX_CONTENT, so beyond MaxEnd, is     *)
(* refused.                                                                *)
Truncate == \E path \in Paths, offset \in 0 .. MaxEnd : TruncateTo(path, offset)

-----------------------------------------------------------------------------
(* Mounting, unmounting, dying *)

(* create_root *)
NewRoot ==
  [i \in Slots |->
     IF i = 0 THEN [type |-> "directory", path |-> Root, file_parent |-> NoParent, nlink |-> 2,
                    file_size |-> MAX_CONTENT, file_content |-> Blank]
     ELSE FREE]

(* fisopfs_init: an image that cannot be read whole is replaced.           *)
Mount ==
  /\ mount = "down"
  /\ mount' = "up"
  /\ IF disk = NoImage
     THEN inodes' = NewRoot /\ disk' = NewRoot
     ELSE inodes' = disk /\ UNCHANGED disk
  /\ UNCHANGED pending

(* fisopfs_destroy: write_persistence first empties the file. *)
Unmount ==
  /\ Remount
  /\ mount = "up" /\ \A t \in Threads : pending[t] = NoRequest
  /\ mount' = "saving"
  /\ disk' = NoImage
  /\ UNCHANGED <<inodes, pending>>

Saved ==
  /\ mount = "saving"
  /\ mount' = "down"
  /\ disk' = inodes
  /\ inodes' = [i \in Slots |-> FREE]
  /\ UNCHANGED pending

(* The process dies, or the machine. *)
Crash ==
  /\ Remount
  /\ mount # "down"
  /\ mount' = "down"
  /\ inodes' = [i \in Slots |-> FREE]
  /\ pending' = [t \in Threads |-> NoRequest]
  /\ UNCHANGED disk

Init ==
  /\ inodes = [i \in Slots |-> FREE]
  /\ pending = [t \in Threads |-> NoRequest]
  /\ disk = NoImage
  /\ mount = "down"

Making(t) == pending[t] = NoRequest /\ (Create(t) \/ Symlink(t) \/ Link(t))
Changing == Unlink \/ Rmdir \/ Write \/ Truncate

Next ==
  \/ mount = "up" /\ ((\E t \in Threads : Making(t) \/ Store(t)) \/ Changing)
  \/ Mount \/ Unmount \/ Saved \/ Crash

Spec == Init /\ [][Next]_vars

-----------------------------------------------------------------------------
(* Properties *)

Pending == [slot : Slots, inode : Inode, from : Paths \cup {Root}]

(* A superblock, without building the set of them. *)
IsSuperblock(s) == DOMAIN s = Slots /\ \A i \in Slots : s[i] = FREE \/ s[i] \in Inode

(* The types: lengths in range, contents of their size, and no inode       *)
(* without a link.                                                         *)
TypeOK ==
  /\ IsSuperblock(inodes)
  /\ \A t \in Threads : pending[t] = NoRequest \/ pending[t] \in Pending
  /\ disk = NoImage \/ IsSuperblock(disk)
  /\ mount \in {"down", "up", "saving"}

IsTree(s) ==
  LET There == {i \in Slots : s[i] # FREE}
  IN /\ 0 \in There /\ s[0].path = Root
     /\ \A i, j \in There : s[i].path = s[j].path => i = j
     /\ \A i \in There \ {0} :
          \E j \in There :
            /\ s[j].type = "directory" /\ s[j].path = Parent(s[i].path)
            /\ s[i].path \in Readdir(s, s[j].path)

(* The superblock, in memory and on disk, is a tree: the root is in slot   *)
(* 0, no path is there twice, and every other inode is listed in a         *)
(* directory that is there, the one its path names ("file_parent: Ruta del *)
(* directorio padre", fisopfs.md:13).  fisopfs_rmdir and fisopfs_readdir   *)
(* go by file_parent, all the rest by path.                                *)
Tree ==
  /\ mount # "down" => IsTree(inodes)
  /\ disk # NoImage => IsTree(disk)

(* A file does not take the slot of another: as long as status_inodes says *)
(* that a slot is OCCUPIED, it is the same file's ("indica si un bloque ya *)
(* esta siendo ocupado o no", fisopfs.md:20).  Two threads break it        *)
(* (fisopfs.c:92-97), so no theorem and no passing run claims it.          *)
NoLostFile ==
  [][\A i \in Occupied : inodes'[i] # FREE => inodes'[i].path = inodes[i].path]_vars

(* Who reads another file after a write or a truncation than before.       *)
ReadsAnother(i) == inodes'[i] = FREE \/ Seen(inodes'[i]) # Seen(inodes[i])

(* A file with a single link is as it was, unless it is the one the step   *)
(* writes or truncates.                                                    *)
OthersUndisturbed ==
  \A path \in Paths :
    WriteFile(path) \/ (\E offset \in 0 .. MaxEnd : TruncateTo(path, offset)) =>
      \A i \in Occupied :
        inodes[i].path # path /\ inodes[i].nlink = 1 => ~ReadsAnother(i)

(* A file with a single link is changed through its own name only, however *)
(* many links the file that is written has: of the inodes a fisopfs_write  *)
(* brings in line with that one, each claims several (fisopfs.c:308-318).  *)
PrivateContents == [][OthersUndisturbed]_vars

(* What is written to a file with a single link shows in no other file     *)
(* ("nlink: Cantidad de enlaces (hard links)", fisopfs.md:16).  The code   *)
(* breaks it: fisopfs_unlink leaves the other names their counts, and      *)
(* fisopfs_write goes by them.                                             *)
SingleLinkWrites ==
  [][\A path \in Paths :
       WriteFile(path) /\ (\E attr \in Getattr(path) : attr.nlink = 1) =>
         \A i \in Occupied :
           inodes[i].path # path /\ inodes[i].type = "regular" => ~ReadsAnother(i)]_vars

=============================================================================
