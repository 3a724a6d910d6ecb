------------------------------- MODULE Files -------------------------------
(***************************************************************************)
(* Open files: the descriptor table (fs/fd.c), the system calls on files,  *)
(* the VFS (fs/vfs.c), the RAM file system (fs/ramfs.c), the FAT driver    *)
(* (fs/fatfs/fatdrv.c) and the resources that close a task's files when it *)
(* ends (scheduler/resource.c).  System calls run with interrupts off.     *)
(*                                                                         *)
(* Programs use the descriptors that they have opened and not yet closed   *)
(* or deleted, and read within the size that filesize reports; filesize is *)
(* a field of the handle, so it may be out of date.                        *)
(*                                                                         *)
(* Abstraction.  A file is in the root directory.  The bytes of a file in  *)
(* RAM are the task that wrote them, or Junk if nobody did; of a file in   *)
(* FAT only the size is kept.  Of FatFs (ff.c), what handles depend on: a  *)
(* name is searched in the directory (dir_find), and an open file (FIL)    *)
(* knows its entry by place and writes it back when it is closed after a   *)
(* change (f_sync); no locks are configured (FF_FS_LOCK).                  *)
(***************************************************************************)
EXTENDS Integers, Sequences, FiniteSets

CONSTANTS
    Task,      \* tasks; one that ends is replaced by the next program
    RamName,   \* names of files in RAM
    FatName,   \* names of files on FAT volumes
    Volume,    \* FAT drive numbers
    Entry,     \* places in a root directory
    Addr,      \* pages for file_t structures
    PageSize,
    NULL, Junk,
    MaxSize,   \* bound: size of a file in RAM
    MaxFat,    \* bound: size of a file on FAT
    MaxOpens,  \* bound: descriptors in the table
    MaxMade    \* bound: files made on FAT

ASSUME FilesAssumption ==
    /\ PageSize \in Nat \ {0} /\ Volume \cup Entry \cup Addr \subseteq Nat /\ 0 \in Volume
    /\ NULL \notin Addr /\ Junk \notin Task
    /\ NULL \notin [fsize : Nat, fdata : Seq(Task \cup {Junk})] \cup Seq(Task \cup {Junk})
    /\ NULL \notin [name : FatName, size : Nat, id : Nat, by : Nat]

VARIABLES
    fd_table,   \* the pages of the files, by descriptor
    file,       \* what the pages for file_t hold, freed ones included
    live,       \* the pages that are allocated
    resources,  \* task_t.resources of each task
    held,       \* the descriptors a program has in use
    ram,        \* ramfs: for each name [fsize, fdata], or NULL
    fat,        \* for each volume and place, the directory entry, or NULL
    made,       \* the number of files made on FAT, and the next one's identity
    halted,     \* abortf
    cut,        \* history: handles whose file was cut behind their back
    orphaned    \* history: a file was unlinked while another handle had it open

vars == <<fd_table, file, live, resources, held, ram, fat, made, halted, cut, orphaned>>

----------------------------------------------------------------------------
(* FatFs and directories *)

Found(v, n) == {e \in Entry : fat[v][e] # NULL /\ fat[v][e].name = n}

\* The pages of s that hold a changed file whose place is e on volume v.
Changed(s, v, e) ==
    {i \in DOMAIN s : s[i] # NULL /\ file[s[i]].kind = "fat" /\ file[s[i]].modified
                      /\ file[s[i]].vol = v /\ file[s[i]].entry = e}

\* f_close of the pages of s, one after the other: a changed file's size goes to
\* its place in the directory, whatever entry is there now; the last one stays.
Synced(s, v, e) ==
    IF fat[v][e] = NULL \/ Changed(s, v, e) = {} THEN fat[v][e]
    ELSE LET last == CHOOSE i \in Changed(s, v, e) : \A j \in Changed(s, v, e) : j <= i
         IN  [fat[v][e] EXCEPT !.size = file[s[last]].size, !.by = file[s[last]].id]

\* Other open handles of what handle a has open.
Others(a) ==
    {b \in live \ {a} :
        IF file[a].kind = "ram" THEN file[b].kind = "ram" /\ file[b].name = file[a].name
        ELSE file[b].kind = "fat" /\ file[b].id = file[a].id}

HandlesOf(id) == {b \in live : file[b].kind = "fat" /\ file[b].id = id}

----------------------------------------------------------------------------
(* Resources *)

resource_register_self(t, a) ==
    resources' = [resources EXCEPT ![t] =
        IF \E i \in DOMAIN @ : @[i] = NULL
        THEN [@ EXCEPT ![CHOOSE i \in DOMAIN @ : @[i] = NULL /\ \A j \in 1 .. i - 1 : @[j] # NULL] = a]
        ELSE Append(@, a)]

resource_unregister_self(t, a) ==
    resources' = [resources EXCEPT ![t] = [i \in DOMAIN @ |-> IF @[i] = a THEN NULL ELSE @[i]]]

----------------------------------------------------------------------------
(* System calls *)

Running == ~halted

\* vfs_touch on ramfs: nothing if the file exists.
ramfs_touch(n) ==
    /\ Running
    /\ ram' = [ram EXCEPT ![n] = IF @ = NULL THEN [fsize |-> 0, fdata |-> <<>>] ELSE @]
    /\ UNCHANGED <<fd_table, file, live, resources, held, fat, made, halted, cut, orphaned>>

\* On FAT: FA_CREATE_ALWAYS also empties a file that exists.
fatfs_touch(v, n) ==
    /\ Running
    /\ \/ \E e \in Found(v, n) :
              /\ fat' = [fat EXCEPT ![v][e].size = 0]
              /\ cut' = cut \cup HandlesOf(fat[v][e].id)
              /\ UNCHANGED made
       \/ \E e \in Entry :
              /\ Found(v, n) = {} /\ fat[v][e] = NULL /\ made < MaxMade
              /\ \A d \in Entry : d < e => fat[v][d] # NULL
              /\ fat' = [fat EXCEPT ![v][e] = [name |-> n, size |-> 0, id |-> made, by |-> made]]
              /\ made' = made + 1
              /\ UNCHANGED cut
    /\ UNCHANGED <<fd_table, file, live, resources, held, ram, halted, orphaned>>

\* sys_open, after the mount's open has found the file: f goes to a page of its
\* own (the first free one), gets a descriptor and is registered.  No descriptor
\* is ever freed (fd_free has no caller), so the table grows.
sys_open(t, f) ==
    /\ Running /\ Len(fd_table) < MaxOpens
    /\ \E a \in Addr \ live :
        /\ \A b \in Addr \ live : a <= b
        /\ file' = [file EXCEPT ![a] = f]
        /\ live' = live \cup {a}
        /\ fd_table' = Append(fd_table, a)
        /\ held' = [held EXCEPT ![t] = @ \cup {Len(fd_table) + 1}]
        /\ resource_register_self(t, a)
    /\ UNCHANGED <<ram, fat, made, halted, cut, orphaned>>

ramfs_open(t, n) ==
    /\ ram[n] # NULL
    /\ sys_open(t, [kind |-> "ram", name |-> n, size |-> ram[n].fsize])

fatfs_open(t, v, n) ==
    \E e \in Found(v, n) :
        sys_open(t, [kind |-> "fat", name |-> n, size |-> fat[v][e].size,
                     vol |-> v, entry |-> e, id |-> fat[v][e].id, modified |-> FALSE])

\* vfs_close of the pages of s, on either file system.  A FIL is void afterwards:
\* nothing would reach the directory through it again.
vfs_close(s) ==
    LET closed == {s[i] : i \in DOMAIN s} IN
    /\ fat' = [v \in Volume |-> [e \in Entry |-> Synced(s, v, e)]]
    /\ file' = [a \in Addr |-> IF a \in closed THEN [kind |-> "none"] ELSE file[a]]
    /\ live' = live \ closed
    /\ cut' = cut \ closed

sys_close(t, fd) ==
    /\ Running
    /\ vfs_close(<<fd_table[fd]>>)
    /\ resource_unregister_self(t, fd_table[fd])
    /\ held' = [held EXCEPT ![t] = @ \ {fd}]
    /\ UNCHANGED <<fd_table, ram, made, halted, orphaned>>

Wrong_sys_delete(t, fd) ==
    LET a == fd_table[fd] IN
    /\ Running
    /\ file[a].kind = "fat"
    /\ fat' = [fat EXCEPT ![0] = [e \in Entry |-> IF e \in Found(0, file[a].name) THEN NULL ELSE @[e]]]
    /\ orphaned' = (orphaned \/ \E e \in Found(0, file[a].name) : HandlesOf(fat[0][e].id) \ {a} # {})
    /\ cut' = (cut \cup UNION {HandlesOf(fat[0][e].id) : e \in Found(0, file[a].name)}) \ {a}
    /\ live' = live \ {a}
    /\ held' = [held EXCEPT ![t] = @ \ {fd}]
    /\ UNCHANGED <<fd_table, file, resources, ram, made, halted>>

\* sys_delete.  The path that fatfs_delete gives to f_unlink names no drive, so
\* the file of that name on drive 0 goes, whatever volume the handle is on; the
\* handle is freed without f_close.  ramfs_delete is a todo() and aborts.
sys_delete(t, fd) ==
    LET a == fd_table[fd]
        gone == Found(0, file[a].name)
    IN  /\ Running
        /\ IF file[a].kind = "ram"
           THEN halted' = TRUE /\ UNCHANGED <<fat, live, resources, held, cut, orphaned>>
           ELSE /\ fat' = [fat EXCEPT ![0] = [e \in Entry |-> IF e \in gone THEN NULL ELSE @[e]]]
                /\ orphaned' = (orphaned \/ \E e \in gone : HandlesOf(fat[0][e].id) \ {a} # {})
                /\ cut' = (cut \cup UNION {HandlesOf(fat[0][e].id) : e \in gone}) \ {a}
                /\ live' = live \ {a}
                /\ resource_unregister_self(t, a)
                /\ held' = [held EXCEPT ![t] = @ \ {fd}]
                /\ UNCHANGED halted
        /\ UNCHANGED <<fd_table, file, ram, made>>

\* vmm_resize of a file's data: a page more than needed at multiples of the
\* page size; new pages hold whatever they held before.
Capacity(size) == (size \div PageSize + 1) * PageSize

Wrong_vmm_resize(old, new, data) ==
    CASE data = <<>> -> [i \in 1 .. Capacity(new) |-> Junk]
      [] data # <<>> /\ new = 0 -> <<>>
      [] data # <<>> /\ new # 0 /\ Capacity(new) # Capacity(old) ->
             [i \in 1 .. Capacity(new) |-> IF i <= old - PageSize THEN data[i] ELSE Junk]
      [] OTHER -> data

vmm_resize(old, new, data) ==
    CASE data = <<>> -> [i \in 1 .. Capacity(new) |-> Junk]
      [] data # <<>> /\ new = 0 -> <<>>
      [] data # <<>> /\ new # 0 /\ Capacity(new) # Capacity(old) ->
             [i \in 1 .. Capacity(new) |->
                 IF i <= (IF new < old THEN new ELSE old) THEN data[i] ELSE Junk]
      [] OTHER -> data

ramfs_write(t, fd, first, last) ==
    LET a == fd_table[fd]
        node == ram[file[a].name]
        size == IF last > node.fsize THEN last ELSE node.fsize
        data == IF last > node.fsize THEN vmm_resize(node.fsize, last, node.fdata) ELSE node.fdata
    IN  /\ Running /\ file[a].kind = "ram"
        /\ ram' = [ram EXCEPT ![file[a].name] =
                      [fsize |-> size,
                       fdata |-> [i \in DOMAIN data |-> IF i \in first .. last THEN t ELSE data[i]]]]
        /\ file' = [file EXCEPT ![a].size = size]
        /\ cut' = cut \ {a}
        /\ UNCHANGED <<fd_table, live, resources, held, fat, made, halted, orphaned>>

fatfs_write(fd, last) ==
    LET a == fd_table[fd] IN
    /\ Running /\ file[a].kind = "fat"
    /\ file' = [file EXCEPT ![a].modified = TRUE, ![a].size = IF last > @ THEN last ELSE @]
    /\ UNCHANGED <<fd_table, live, resources, held, ram, fat, made, halted, cut, orphaned>>

Wrong_ramfs_truncate(fd, size) ==
    LET a == fd_table[fd] IN
    /\ Running /\ file[a].kind = "ram"
    /\ ram' = [ram EXCEPT ![file[a].name] =
                  [fsize |-> size, fdata |-> vmm_resize(@.fsize, size, @.fdata)]]
    /\ cut' = (cut \cup {b \in Others(a) : file[b].size > size}) \ {a}
    /\ UNCHANGED <<fd_table, file, live, resources, held, fat, made, halted, orphaned>>

ramfs_truncate(fd, size) ==
    LET a == fd_table[fd] IN
    /\ Running /\ file[a].kind = "ram"
    /\ ram' = [ram EXCEPT ![file[a].name] =
                  [fsize |-> size, fdata |-> vmm_resize(@.fsize, size, @.fdata)]]
    /\ file' = [file EXCEPT ![a].size = size]
    /\ cut' = (cut \cup {b \in Others(a) : file[b].size > size}) \ {a}
    /\ UNCHANGED <<fd_table, live, resources, held, fat, made, halted, orphaned>>

fatfs_truncate(fd, size) ==
    LET a == fd_table[fd] IN
    /\ Running /\ file[a].kind = "fat" /\ size # file[a].size
    /\ file' = [file EXCEPT ![a].modified = TRUE, ![a].size = size]
    /\ cut' = IF size < file[a].size THEN cut \cup Others(a) ELSE cut
    /\ UNCHANGED <<fd_table, live, resources, held, ram, fat, made, halted, orphaned>>

\* The end of a task: resource_dealloc closes what is registered.
Ends(t) ==
    /\ vfs_close(resources[t])
    /\ resources' = [resources EXCEPT ![t] = <<>>]
    /\ held' = [held EXCEPT ![t] = {}]
    /\ UNCHANGED <<fd_table, ram, made, halted, orphaned>>

exit_task(t) == Running /\ resources[t] # <<>> /\ Ends(t)

\* A read of all that filesize reports changes something only if an assertion
\* fails, which ends the task.  ramfs_read asserts that the bytes are there;
\* fatfs_read asserts that FatFs has read them, which may fail once the clusters
\* behind the handle are gone.
sys_read(t, fd) ==
    LET a == fd_table[fd] IN
    /\ Running
    /\ \/ file[a].kind = "ram" /\ ram[file[a].name].fsize < file[a].size
       \/ file[a].kind = "fat" /\ a \in cut
    /\ Ends(t)

----------------------------------------------------------------------------
Init ==
    /\ fd_table = <<>> /\ live = {}
    /\ file = [a \in Addr |-> [kind |-> "none"]]
    /\ resources = [t \in Task |-> <<>>] /\ held = [t \in Task |-> {}]
    /\ ram = [n \in RamName |-> NULL]
    /\ fat = [v \in Volume |-> [e \in Entry |-> NULL]]
    /\ made = 0 /\ halted = FALSE /\ cut = {} /\ orphaned = FALSE

Touch ==
    \/ \E n \in RamName : ramfs_touch(n)
    \/ \E v \in Volume, n \in FatName : fatfs_touch(v, n)

Use(t, fd) ==
    \/ sys_close(t, fd) \/ sys_delete(t, fd) \/ sys_read(t, fd)
    \/ \E size \in 0 .. MaxSize : ramfs_truncate(fd, size)
    \/ \E last \in 1 .. MaxSize : \E first \in 1 .. last : ramfs_write(t, fd, first, last)
    \/ \E size \in 0 .. MaxFat : fatfs_truncate(fd, size)
    \/ \E last \in 1 .. MaxFat : fatfs_write(fd, last)

Next ==
    \/ Touch
    \/ \E t \in Task :
        \/ \E n \in RamName : ramfs_open(t, n)
        \/ \E v \in Volume, n \in FatName : fatfs_open(t, v, n)
        \/ \E fd \in held[t] : Use(t, fd)
        \/ exit_task(t)

Spec == Init /\ [][Next]_vars

----------------------------------------------------------------------------
(* Properties *)

\* The resources that hold page a, over all tasks.
Owners(a) == UNION {{<<t, i>> : i \in {j \in DOMAIN resources[t] : resources[t][j] = a}} : t \in Task}

\* Every open file belongs to one resource of one task, so it will be closed
\* once, and nothing that close or delete has freed is still registered or in
\* use by a program, although its page may be another file's by now and its old
\* descriptor stays in the table.
OpenFilesHaveOneOwner ==
    /\ \A a \in Addr : Cardinality(Owners(a)) = IF a \in live THEN 1 ELSE 0
    /\ \A t \in Task : \A fd \in held[t] : \E i \in DOMAIN resources[t] : resources[t][i] = fd_table[fd]

\* The bytes of each file in RAM, up to its size.
Bytes(n) == IF ram[n] = NULL THEN NULL ELSE SubSeq(ram[n].fdata, 1, ram[n].fsize)

Store == INSTANCE FileStore
    WITH Name <- RamName, Value <- Task, Absent <- NULL, files <- [n \in RamName |-> Bytes(n)]

\* The RAM file system is a store of files: growing and cutting a file, moving
\* it to other pages, through any handle, loses and changes no byte that was
\* written and is still inside.
BytesAreKept == Store!Spec

\* filesize of a file in RAM is never more than its file has, so that reading
\* within it does not fail ramfs_read's assertion and end the program, unless
\* another handle has cut the file since.
StaleMeansCut ==
    \A t \in Task : \A fd \in held[t] :
        LET f == file[fd_table[fd]]
        IN  f.kind = "ram" /\ f.size > ram[f.name].fsize => fd_table[fd] \in cut

\* A FAT directory entry gets its size only from handles of its own file, also
\* when a task is killed with files open; the exception is that a file was
\* deleted while another handle had it open, and its place used again.
EntriesAreOwn ==
    \A v \in Volume, e \in Entry :
        fat[v][e] # NULL /\ ~orphaned => fat[v][e].by = fat[v][e].id

=============================================================================
