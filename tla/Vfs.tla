-------------------------------- MODULE Vfs --------------------------------
(***************************************************************************)
(* Names, inodes, open files and descriptors: fs/vfs.c, fs/lookup.c,       *)
(* fs/namecache.c, fs/inocache.c, the directories of fs/ramfs/ramfs.c,     *)
(* fs/fd_table.c, and their callers: unpack_initramfs and kinit_task, then *)
(* the open system call.  One task at a time uses them.                    *)
(*                                                                         *)
(* A component looked up is a step; a call is open in `call', its lookup   *)
(* in `nd'.  Names are sequences of characters, since lookups compare      *)
(* prefixes; a path is the sequence of what stands between its slashes,    *)
(* so it is absolute if its first element is empty.  Lists that grow at    *)
(* the head are sequences with the head last.  Inodes and open files are   *)
(* numbered, 0 is the null pointer.  What a file contains is in FileIO.    *)
(*                                                                         *)
(* alloc_pages clears the pages slabs are made of and no inode is ever     *)
(* freed, so that the counters of new inodes and files start at 0.         *)
(***************************************************************************)
EXTENDS Naturals, Sequences, FiniteSets, SequencesExt

CONSTANTS
  DirPaths, FilePaths,     \* what an archive may hold
  UserPaths,               \* what user code may open
  ConsolePath, InitPath,   \* "/dev/console", "/bin/init"
  FdStart,      \* slots of the first descriptor table: 32
  FdStep,       \* slots more at each growth: 32
  FdExtra,      \* slots that fit in the 32 bytes of the growth's kmalloc: 4
  ObjectSlots,  \* slots that fit in the objects of each kmalloc cache
  MaxInodes, MaxFiles, MaxOpens    \* bounds

Root == 1
Dot == <<".">>
DotDot == <<".", ".">>
Inode == 1 .. MaxInodes
Handle == 1 .. MaxFiles

ASSUME VfsAssumption ==
  /\ <<>> \notin DirPaths \cup FilePaths \cup UserPaths \cup {ConsolePath, InitPath}
  /\ MaxInodes \in Nat \ {0} /\ MaxFiles \in Nat \ {0} /\ MaxOpens \in Nat
  /\ FdStart \in Nat /\ FdStart > 1 /\ FdStep \in Nat \ {0} /\ FdExtra \in Nat
  /\ ObjectSlots \subseteq Nat

VARIABLES
  kind,         \* kind of each inode made: "dir", "reg" or "chr"
  dir,          \* dir_entries: [name, ino]
  refcnt,       \* of inodes
  nameCache,    \* name_cache_list: [parent, name, ino]
  file,         \* open files: [ino, refcnt], ino = 0 when free
  fd,           \* the task's descriptor table
  fdRoom,       \* slots of the memory the table is in
  phase,        \* where kinit_task is
  pc, call, nd, out,
  opens,        \* number of calls of vfs_open
  lost          \* history: references nobody drops

tree == <<kind, dir>>
fds == <<fd, fdRoom>>
vars == <<tree, refcnt, nameCache, file, fds, phase, pc, call, nd, out, opens, lost>>

NoCall == [op |-> "none"]
NoWalk == [todo |-> <<>>, parent |-> 0, current |-> 0, err |-> FALSE, flag |-> "none"]
NoOut == [ino |-> 0, err |-> FALSE]

(* What the initcalls and task_init leave: empty caches, no root, a clear  *)
(* descriptor table.                                                       *)
Init ==
  /\ kind = <<>> /\ dir = <<>> /\ refcnt = <<>> /\ lost = <<>>
  /\ nameCache = <<>>
  /\ file = [h \in Handle |-> [ino |-> 0, refcnt |-> 0]]
  /\ fd = [k \in 1 .. FdStart |-> 0] /\ fdRoom = FdStart
  /\ phase = "root" /\ pc = "idle"
  /\ call = NoCall /\ nd = NoWalk /\ out = NoOut /\ opens = 0

(* struct name_entry, struct ramfs_dir_entry and struct file.              *)
Pointer == 0 .. MaxInodes
Name == Seq(STRING)
NameEntry == [parent : Pointer, name : Name, ino : Pointer]
DirEntry == [name : Name, ino : Pointer]
File == [ino : Pointer, refcnt : Nat]

(* ino_ref and ino_deref.                                                  *)
Ref(r, i) == [r EXCEPT ![i] = @ + 1]
Deref(r, i) == IF i = 0 THEN r ELSE [r EXCEPT ![i] = @ - 1]

(* The list of a new directory: ".." was added first, then ".".            *)
Dots(parent, self) == <<[name |-> DotDot, ino |-> parent], [name |-> Dot, ino |-> self]>>

(* ramfs_read_sb: the root's inode, with refs references.                  *)
ReadSb(refs) == kind' = <<"dir">> /\ dir' = <<Dots(Root, Root)>> /\ refcnt' = <<refs>>

(* vfs_root("ramfs").                                                      *)
VfsRoot ==
  /\ phase = "root"
  /\ ReadSb(2)
  /\ lost' = <<0>>
  /\ phase' = "unpack"
  /\ UNCHANGED <<nameCache, file, fds, pc, call, nd, out, opens>>

-----------------------------------------------------------------------------
(* vfs_lookup, up to its loop: where a path is not absolute, it takes a    *)
(* reference through a null pointer.  The loop skips empty components.     *)
Absolute(path) == path[1] = <<>>
StartWalk(path, flag) ==
  IF Absolute(path)
    THEN /\ refcnt' = Ref(Ref(refcnt, Root), Root)
         /\ nd' = [todo |-> SelectSeq(path, LAMBDA n : n # <<>>), parent |-> Root,
                   current |-> Root, err |-> FALSE, flag |-> flag]
         /\ pc' = "walk"
    ELSE pc' = "fault" /\ UNCHANGED <<refcnt, nd>>

(* memcmp over the length of the name looked for.                          *)
Matches(entry, name) == IsPrefix(name, entry)

(* The entries of the name cache, and of a directory, that match.          *)
Cached(d, name) ==
  {k \in DOMAIN nameCache : nameCache[k].parent = d /\ Matches(nameCache[k].name, name)}
Listed(d, name) == {k \in DOMAIN dir[d] : Matches(dir[d][k].name, name)}

(* The loop takes the entry nearest to the head.                           *)
Newest(S) == CHOOSE k \in S : \A j \in S : j <= k

Walking == pc = "walk" /\ nd.todo # <<>> /\ ~nd.err

(* get_next_component.                                                     *)
Component == Head(nd.todo)
Step(i) == [nd EXCEPT !.todo = Tail(@), !.parent = nd.current, !.current = i]

(* The name cache has it.                                                  *)
WalkCached ==
  /\ Walking
  /\ LET found == Cached(nd.current, Component)
         i == nameCache[Newest(found)].ino
     IN  /\ found # {}
         /\ refcnt' = Deref(Ref(refcnt, i), nd.parent)
         /\ nd' = Step(i)
  /\ UNCHANGED <<tree, nameCache, file, fds, phase, pc, call, out, opens, lost>>

(* The directory has it: ramfs_ino_lookup, then fs_name_cache_add_inode.   *)
NewEntry_WrongParent(d, name, i) == [parent |-> nd.parent, name |-> name, ino |-> i]
NewEntry(d, name, i) == [parent |-> d, name |-> name, ino |-> i]
WalkFound ==
  /\ Walking /\ kind[nd.current] = "dir"
  /\ Cached(nd.current, Component) = {}
  /\ LET d == nd.current
         found == Listed(d, Component)
         i == dir[d][Newest(found)].ino
     IN  /\ found # {}
         /\ refcnt' = Deref(Ref(Ref(Ref(refcnt, i), i), d), nd.parent)
         /\ nameCache' = Append(nameCache, NewEntry(d, Component, i))
         /\ nd' = Step(i)
  /\ UNCHANGED <<tree, file, fds, phase, pc, call, out, opens, lost>>

(* -ENOENT; the loop goes round once more.                                 *)
Missed_NoCode == Step(0)
Missed == [Step(0) EXCEPT !.err = TRUE]
WalkMissing ==
  /\ Walking /\ kind[nd.current] = "dir"
  /\ Cached(nd.current, Component) = {} /\ Listed(nd.current, Component) = {}
  /\ refcnt' = Deref(refcnt, nd.parent)
  /\ nd' = Missed
  /\ UNCHANGED <<tree, nameCache, file, fds, phase, pc, call, out, opens, lost>>

(* The inode is no directory: its list is a null pointer.                  *)
WalkFault ==
  /\ Walking /\ kind[nd.current] # "dir"
  /\ Cached(nd.current, Component) = {}
  /\ pc' = "fault"
  /\ UNCHANGED <<tree, refcnt, nameCache, file, fds, phase, call, nd, out, opens, lost>>

(* The loop's end: a component after a missing one, or none left.          *)
WalkEnd_KeepsParent ==
  /\ out' = [ino |-> nd.current, err |-> nd.err]
  /\ UNCHANGED refcnt
WalkEnd ==
  IF nd.todo # <<>>
    THEN /\ out' = [ino |-> 0, err |-> TRUE]
         /\ refcnt' = Deref(Deref(refcnt, nd.parent), nd.current)
    ELSE IF nd.flag = "parent"
           THEN /\ out' = [ino |-> nd.parent, err |-> FALSE]
                /\ refcnt' = Deref(refcnt, nd.current)
           ELSE /\ out' = [ino |-> nd.current, err |-> nd.err]
                /\ refcnt' = Deref(refcnt, nd.parent)

WalkReturn ==
  /\ pc = "walk" /\ (nd.todo = <<>> \/ nd.err)
  /\ WalkEnd
  /\ pc' = "walked" /\ nd' = NoWalk
  /\ UNCHANGED <<tree, nameCache, file, fds, phase, call, opens, lost>>

-----------------------------------------------------------------------------
(* strrchr: what stands after the last slash, which may be nothing.        *)
LastName == Last(call.path)
Exists_No(d, name) == FALSE
Exists(d, name) == \E k \in DOMAIN dir[d] : dir[d][k].name = name

(* ramfs_ino_create_generic for a name that is new in d, refs the          *)
(* references it takes and k the kind; a directory gets its two entries.  The callers  *)
(* of the operations after it drop their reference to d, or keep it.       *)
MakeInode(d, k, refs, r) ==
  LET new == Len(kind) + 1
  IN  /\ refcnt' = Append(r, refs)
      /\ kind' = Append(kind, k)
      /\ dir' = Append([dir EXCEPT ![d] = Append(@, [name |-> LastName, ino |-> new])],
                       IF k = "dir" THEN Dots(d, new) ELSE <<>>)

RamfsMkdir(d) == MakeInode(d, "dir", 1, Deref(refcnt, d))
RamfsMknod(d) == MakeInode(d, "chr", 1, Deref(refcnt, d))
RamfsCreate(d) == MakeInode(d, "reg", 2, refcnt)

Return == pc' = "idle" /\ call' = NoCall /\ out' = NoOut

(* The rest of vfs_mkdir, with ramfs_ino_mkdir.  An error ends the         *)
(* unpacking.                                                              *)
MkdirFails ==
  /\ pc = "walked" /\ call.op = "mkdir"
  /\ ~out.err => Exists(out.ino, LastName)
  /\ refcnt' = Deref(refcnt, out.ino)
  /\ phase' = "mknod"
  /\ Return
  /\ UNCHANGED <<tree, nameCache, file, fds, nd, opens, lost>>

Mkdir ==
  /\ pc = "walked" /\ call.op = "mkdir"
  /\ ~out.err /\ ~Exists(out.ino, LastName)
  /\ RamfsMkdir(out.ino)
  /\ lost' = Append(lost, 0)
  /\ Return
  /\ UNCHANGED <<nameCache, file, fds, phase, nd, opens>>

(* The rest of vfs_mknod, with ramfs_ino_mknod, whose caller ignores       *)
(* errors; a name that exists makes it write through a null pointer.       *)
MknodFails ==
  /\ pc = "walked" /\ call.op = "mknod" /\ out.err
  /\ phase' = "stdout"
  /\ Return
  /\ UNCHANGED <<tree, refcnt, nameCache, file, fds, nd, opens, lost>>

MknodFault ==
  /\ pc = "walked" /\ call.op = "mknod" /\ ~out.err
  /\ Exists(out.ino, LastName)
  /\ pc' = "fault"
  /\ UNCHANGED <<tree, refcnt, nameCache, file, fds, phase, call, nd, out, opens, lost>>

Mknod ==
  /\ pc = "walked" /\ call.op = "mknod" /\ ~out.err
  /\ ~Exists(out.ino, LastName)
  /\ RamfsMknod(out.ino)
  /\ lost' = Append(lost, 0)
  /\ phase' = "stdout"
  /\ Return
  /\ UNCHANGED <<nameCache, file, fds, nd, opens>>

(* vfs_open: nothing found and nothing to create ...                       *)
OpenFails ==
  /\ pc = "walked" /\ call.op = "open" /\ out.err /\ ~call.creat
  /\ pc' = "opened" /\ out' = NoOut
  /\ UNCHANGED <<tree, refcnt, nameCache, file, fds, phase, call, nd, opens, lost>>

(* ... or a second lookup, for the directory, which may fail as well ...   *)
OpenParent ==
  /\ pc = "walked" /\ call.op = "open" /\ out.err /\ call.creat
  /\ StartWalk(call.path, "parent")
  /\ call' = [call EXCEPT !.op = "create"]
  /\ out' = NoOut
  /\ UNCHANGED <<tree, nameCache, file, fds, phase, opens, lost>>

OpenNoParent ==
  /\ pc = "walked" /\ call.op = "create" /\ out.ino = 0
  /\ pc' = "fault"
  /\ UNCHANGED <<tree, refcnt, nameCache, file, fds, phase, call, nd, out, opens, lost>>

(* ... or lead elsewhere, as the first has left more in the name cache:    *)
(* where the name exists, ramfs_ino_create refers to a null pointer ...    *)
OpenExists ==
  /\ pc = "walked" /\ call.op = "create" /\ out.ino # 0
  /\ Exists(out.ino, LastName)
  /\ pc' = "fault"
  /\ UNCHANGED <<tree, refcnt, nameCache, file, fds, phase, call, nd, out, opens, lost>>

(* ... and where it does not, takes two references to the new inode.  The  *)
(* reference to the directory is never dropped.                            *)
OpenCreate ==
  /\ pc = "walked" /\ call.op = "create" /\ out.ino # 0
  /\ ~Exists(out.ino, LastName)
  /\ RamfsCreate(out.ino)
  /\ lost' = Append(Ref(lost, out.ino), 0)
  /\ call' = [call EXCEPT !.op = "open"]
  /\ out' = [ino |-> Len(kind) + 1, err |-> FALSE]
  /\ UNCHANGED <<nameCache, file, fds, phase, pc, nd, opens>>

(* A new struct file; the reference the lookup took is never dropped.  The *)
(* only character device is the console, whose driver an initcall has      *)
(* registered, and there are no block devices.  The root's default_fops    *)
(* are never set, so that opening the root goes through a null pointer.    *)
FreeHandles == {h \in Handle : file[h].ino = 0}
Opened(h) == [file EXCEPT ![h] = [ino |-> out.ino, refcnt |-> @.refcnt + 1]]
OpenInode ==
  /\ pc = "walked" /\ call.op = "open" /\ ~out.err /\ out.ino # Root
  /\ LET h == CHOOSE f \in FreeHandles : \A g \in FreeHandles : f <= g
     IN  /\ file' = Opened(h)
         /\ out' = [ino |-> h, err |-> FALSE]
  /\ refcnt' = Ref(refcnt, out.ino) /\ lost' = Ref(lost, out.ino)
  /\ pc' = "opened"
  /\ UNCHANGED <<tree, nameCache, fds, phase, call, nd, opens>>

OpenRootFault ==
  /\ pc = "walked" /\ call.op = "open" /\ out.ino = Root
  /\ pc' = "fault"
  /\ UNCHANGED <<tree, refcnt, nameCache, file, fds, phase, call, nd, out, opens, lost>>

-----------------------------------------------------------------------------
(* The callers.  An archive is any sequence of directories and files.      *)
Begin(op, path, creat, flag) ==
  /\ pc = "idle"
  /\ call' = [op |-> op, path |-> path, creat |-> creat]
  /\ StartWalk(path, flag)
  /\ UNCHANGED <<tree, nameCache, file, fds, phase, out, lost>>

(* process_directory.                                                      *)
UnpackDirectory(path) ==
  /\ phase = "unpack" /\ Len(kind) < MaxInodes - 1
  /\ Begin("mkdir", path, FALSE, "parent")
  /\ UNCHANGED opens

(* vfs_open of a file of the archive, of the console, of init, of a user.  *)
BeginOpen(path, creat) ==
  /\ opens < MaxOpens /\ FreeHandles # {}
  /\ creat => Len(kind) < MaxInodes - 1
  /\ Begin("open", path, creat, "inode")
  /\ opens' = opens + 1

(* process_file, up to the write ...                                       *)
UnpackFile(path) == phase = "unpack" /\ opens + 2 < MaxOpens /\ BeginOpen(path, TRUE)

(* ... and its vfs_close: the file goes when its count is down to 0.       *)
Close(h) ==
  LET n == file[h].refcnt - 1
  IN  /\ file' = [file EXCEPT ![h] = [ino |-> IF n = 0 THEN 0 ELSE @.ino, refcnt |-> n]]
      /\ refcnt' = IF n = 0 THEN Deref(refcnt, file[h].ino) ELSE refcnt
UnpackClose ==
  /\ pc = "opened" /\ phase = "unpack"
  /\ Close(out.ino)
  /\ Return
  /\ UNCHANGED <<tree, nameCache, fds, phase, nd, opens, lost>>

UnpackEnd ==
  /\ phase = "unpack" /\ pc = "idle"
  /\ phase' = "mknod"
  /\ UNCHANGED <<tree, refcnt, nameCache, file, fds, pc, call, nd, out, opens, lost>>

(* kinit_task makes the console's node, opens it as descriptor 1 and opens *)
(* init; do_execve does not look whether it could.                         *)
MknodConsole ==
  /\ phase = "mknod" /\ Len(kind) < MaxInodes
  /\ Begin("mknod", ConsolePath, FALSE, "parent")
  /\ UNCHANGED opens

OpenStdout == phase = "stdout" /\ BeginOpen(ConsolePath, FALSE)

SetStdout ==
  /\ pc = "opened" /\ phase = "stdout"
  /\ fd' = [fd EXCEPT ![2] = out.ino]
  /\ phase' = "exec"
  /\ Return
  /\ UNCHANGED <<tree, refcnt, nameCache, file, fdRoom, nd, opens, lost>>

Execve == phase = "exec" /\ BeginOpen(InitPath, FALSE)

(* What elf_load_binary looks at in the file's first bytes, which may be   *)
(* anything; the segments it maps are in AddressSpace.                     *)
ElfHeader == [magic : BOOLEAN, bits : 0 .. 3, endian : 0 .. 3, type : 0 .. 4]
IsValidElf(h) == h.magic /\ h.bits \in {1, 2} /\ h.endian \in {1, 2} /\ h.type = 2
ElfLoadBinary(h) == phase' = IF IsValidElf(h) THEN "user" ELSE "halted"

(* A file that is no program leaves kinit_task to halt.                    *)
ExecveReturn ==
  /\ pc = "opened" /\ phase = "exec"
  /\ IF out.ino = 0
       THEN pc' = "fault" /\ UNCHANGED <<phase, call, out>>
       ELSE (\E h \in ElfHeader : ElfLoadBinary(h)) /\ Return
  /\ UNCHANGED <<tree, refcnt, nameCache, file, fds, nd, opens, lost>>

(* sys_open.                                                               *)
SysOpen(path, creat) == phase = "user" /\ BeginOpen(path, creat)

(* task_fd_table_get_free_fd_slot: the first free slot, or a larger table. *)
FreeSlots == {k \in 1 .. Len(fd) : fd[k] = 0}
Object_Exact(n) == n
Object(n) == CHOOSE m \in ObjectSlots : m >= n /\ \A j \in ObjectSlots : j >= n => m <= j
Grown_Clear == [k \in 1 .. Len(fd) + FdStep |-> 0]
Grown == [k \in 1 .. Len(fd) + FdStep |-> IF k <= Len(fd) THEN fd[k] ELSE 0]
SetSlot(h) ==
  IF FreeSlots # {}
    THEN /\ fd' = [fd EXCEPT ![CHOOSE k \in FreeSlots : \A j \in FreeSlots : k <= j] = h]
         /\ UNCHANGED fdRoom
    ELSE /\ fd' = [Grown EXCEPT ![Len(fd) + 1] = h]
         /\ fdRoom' = Object(Len(fd) + FdExtra)

SysOpenReturn ==
  /\ pc = "opened" /\ phase = "user"
  /\ IF out.ino = 0 THEN UNCHANGED fds ELSE SetSlot(out.ino)
  /\ Return
  /\ UNCHANGED <<tree, refcnt, nameCache, file, phase, nd, opens, lost>>

(* ino_cache_insert has been called for every inode.  ino_cache_reap looks *)
(* for one nobody refers to; it would go on from the entry it has freed.   *)
InoCache == DOMAIN kind
InoCacheReap ==
  /\ pc = "idle" /\ phase \notin {"root", "halted"}
  /\ pc' = IF \E i \in InoCache : refcnt[i] = 0 THEN "fault" ELSE "idle"
  /\ UNCHANGED <<tree, refcnt, nameCache, file, fds, phase, call, nd, out, opens, lost>>

Next ==
  \/ VfsRoot
  \/ \E path \in DirPaths : UnpackDirectory(path)
  \/ \E path \in FilePaths : UnpackFile(path)
  \/ UnpackClose \/ UnpackEnd
  \/ MknodConsole \/ OpenStdout \/ SetStdout \/ Execve \/ ExecveReturn
  \/ \E path \in UserPaths, creat \in BOOLEAN : SysOpen(path, creat)
  \/ SysOpenReturn
  \/ WalkCached \/ WalkFound \/ WalkMissing \/ WalkFault \/ WalkReturn
  \/ Mkdir \/ MkdirFails \/ Mknod \/ MknodFails \/ MknodFault
  \/ OpenFails \/ OpenParent \/ OpenNoParent \/ OpenExists \/ OpenCreate
  \/ OpenInode \/ OpenRootFault
  \/ InoCacheReap

Spec == Init /\ [][Next]_vars

-----------------------------------------------------------------------------
(* Type correctness: pointers are null or point to what has been made, and *)
(* the loop of vfs_lookup never goes on from a null inode: a relative path *)
(* does not get to it, and after a missing component it ends.              *)
TypeOK ==
  /\ kind \in Seq({"dir", "reg", "chr"}) /\ Len(kind) <= MaxInodes
  /\ Len(dir) = Len(kind) /\ Len(refcnt) = Len(kind)
  /\ Len(lost) = Len(kind)
  /\ refcnt \in Seq(Nat)
  /\ \A i \in DOMAIN dir : \A e \in Range(dir[i]) : e \in DirEntry /\ e.ino \in DOMAIN kind
  /\ \A e \in Range(nameCache) : e \in NameEntry /\ {e.parent, e.ino} \subseteq DOMAIN kind
  /\ \A h \in Handle : file[h] \in File /\ file[h].ino \in {0} \cup DOMAIN kind
  /\ pc = "walk" => nd.parent # 0 /\ (nd.current = 0 <=> nd.err)
  /\ pc = "opened" => out.ino \in {0} \cup Handle

(* How many hold a reference to inode i: the file system and the mount,    *)
(* entries of the name cache, open files, and the lookup under way.        *)
One(b) == IF b THEN 1 ELSE 0
Holders(i) ==
  1 + One(i = Root)
    + Cardinality({k \in DOMAIN nameCache : nameCache[k].ino = i})
    + Cardinality({k \in DOMAIN nameCache : nameCache[k].parent = i})
    + Cardinality({h \in Handle : file[h].ino = i})
    + One(nd.parent = i) + One(nd.current = i)
    + One(pc = "walked" /\ out.ino = i)

(* An inode's count is exact up to one reference for each open that met    *)
(* it, which vfs_open never drops: no other path, error paths included,    *)
(* loses or drops one too many.                                            *)
RefsExact ==
  pc # "fault" => \A i \in DOMAIN kind : refcnt[i] = Holders(i) + lost[i]

(* What a lookup of a name in a directory finds, 0 for nothing.            *)
Resolve(d, name) ==
  IF Cached(d, name) # {} THEN nameCache[Newest(Cached(d, name))].ino
  ELSE IF Listed(d, name) # {} THEN dir[d][Newest(Listed(d, name))].ino
  ELSE 0

AllNames == UNION {Range(p) : p \in DirPaths \cup FilePaths \cup UserPaths} \ {<<>>}

(* A name looked up in a directory, through the cache or not, is the       *)
(* inode made there under that name, unless another name there goes on     *)
(* after it; and something is found only where a name begins like it.      *)
LookupRight ==
  \A d \in DOMAIN kind : kind[d] = "dir" =>
    \A name \in AllNames :
      LET entries == Range(dir[d])
          longer == {e \in entries : e.name # name /\ IsPrefix(name, e.name)}
      IN  /\ \A e \in entries : e.name = name /\ longer = {} => Resolve(d, name) = e.ino
          /\ Resolve(d, name) # 0 =>
               \E e \in entries : IsPrefix(name, e.name) /\ e.ino = Resolve(d, name)

(* The directories make a tree of names that only grows (NameTree).        *)
Proper(e) == e.name \notin {Dot, DotDot}
Names == INSTANCE NameTree WITH
  Nodes <- Inode, Names <- AllNames \cup {Last(ConsolePath), <<>>},
  tree <- UNION {{<<d, e.name, e.ino>> : e \in {x \in Range(dir[d]) : Proper(x)}} : d \in DOMAIN dir},
  dirs <- {i \in DOMAIN kind : kind[i] = "dir"}
TreeOfNames == Names!Spec

(* The descriptor table fits the memory it is in, although its growth asks *)
(* for 32 bytes more where it clears 32 slots more.                        *)
TableFits == Len(fd) <= fdRoom

(* A descriptor, once given, keeps its file, which is and stays open,      *)
(* through every growth of the table.                                      *)
DescriptorsKept ==
  [][\A k \in 1 .. Len(fd) : fd[k] # 0 =>
       k <= Len(fd') /\ fd'[k] = fd[k] /\ file'[fd[k]] = file[fd[k]]]_vars
=============================================================================
