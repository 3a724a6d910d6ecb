---------------------------- MODULE FilesProofs ----------------------------
(***************************************************************************)
(* Proofs about open files, for any number of tasks, names, volumes and    *)
(* pages and files of every size.                                          *)
(*                                                                         *)
(* The invariant has four parts: who owns an open file, what its handle    *)
(* knows of an entry on FAT, what it knows of a file in RAM, and how many  *)
(* pages a file in RAM has.  The last one is what the refinement of        *)
(* FileStore rests on.                                                     *)
(***************************************************************************)
EXTENDS Files, FiniteSetTheorems, SequenceTheorems, WellFoundedInduction, TLAPS

Byte == Task \cup {Junk}
Node == [fsize : Nat, fdata : Seq(Byte)]
RamFile == [kind : {"ram"}, name : RamName, size : Nat]
FatFile == [kind : {"fat"}, name : FatName, size : Nat, vol : Volume, entry : Entry,
            id : Nat, modified : BOOLEAN]
NoFile == [kind |-> "none"]
DirEntry == [name : FatName, size : Nat, id : Nat, by : Nat]

\* What a page for a file_t can hold.
IsFile(f) == f \in RamFile \/ f \in FatFile \/ f = NoFile

TypeOK ==
    /\ fd_table \in Seq(Addr)
    /\ live \subseteq Addr
    /\ DOMAIN file = Addr /\ \A a \in Addr : IsFile(file[a])
    /\ resources \in [Task -> Seq(Addr \cup {NULL})]
    /\ held \in [Task -> SUBSET Nat]
    /\ ram \in [RamName -> Node \cup {NULL}]
    /\ fat \in [Volume -> [Entry -> DirEntry \cup {NULL}]]
    /\ made \in Nat
    /\ orphaned \in BOOLEAN

\* The inductive invariant of ownership: every page that is registered is
\* allocated and registered once, every page that is allocated is registered,
\* and the descriptors in use are of different files of the task itself.
OwnInv ==
    /\ \A t \in Task : \A i \in DOMAIN resources[t] :
           resources[t][i] # NULL => resources[t][i] \in live
    /\ \A t, u \in Task : \A i \in DOMAIN resources[t], j \in DOMAIN resources[u] :
           resources[t][i] # NULL /\ resources[t][i] = resources[u][j] => t = u /\ i = j
    /\ \A a \in live : \E t \in Task : \E i \in DOMAIN resources[t] : resources[t][i] = a
    /\ \A t \in Task : \A fd \in held[t] :
           /\ fd \in DOMAIN fd_table
           /\ \E i \in DOMAIN resources[t] : resources[t][i] = fd_table[fd]
    /\ \A t \in Task : \A fd, gd \in held[t] : fd_table[fd] = fd_table[gd] => fd = gd

\* Unless a file was deleted under another handle, every handle of a file on FAT
\* is at the place of that file's entry.
FatInv ==
    ~orphaned =>
        /\ \A a \in live : file[a].kind = "fat" =>
               /\ fat[file[a].vol][file[a].entry] # NULL
               /\ fat[file[a].vol][file[a].entry].id = file[a].id
        /\ \A v \in Volume, e \in Entry : fat[v][e] # NULL => fat[v][e].by = fat[v][e].id

\* The file in RAM behind a handle exists, and is as long as the handle says
\* unless it was cut.
RamInv ==
    \A a \in live : file[a].kind = "ram" =>
        /\ ram[file[a].name] # NULL
        /\ file[a].size > ram[file[a].name].fsize => a \in cut

\* The pages of a file in RAM are as many as vmm_resize makes them.
NodeInv ==
    \A n \in RamName : ram[n] # NULL =>
        IF ram[n].fdata = <<>> THEN ram[n].fsize = 0
        ELSE Len(ram[n].fdata) = Capacity(ram[n].fsize)

Inv == TypeOK /\ OwnInv /\ FatInv /\ RamInv /\ NodeInv

----------------------------------------------------------------------------
(* Numbers and sequences *)

\* A set of indexes has a least one.
LEMMA LeastIndex ==
    ASSUME NEW T, T \subseteq Nat, T # {}
    PROVE  \E i \in T : \A j \in T : i <= j
  <1>1. PICK i \in T : \A j \in T : ~ (<<j, i>> \in OpToRel(<, Nat))
    BY WFMin, NatLessThanWellFounded
  <1>2. ASSUME NEW j \in T
        PROVE  i <= j
    <2>1. i \in Nat /\ j \in Nat
      OBVIOUS
    <2>2. ~ (<<j, i>> \in OpToRel(<, Nat))
      BY <1>1
    <2>. QED
      BY <2>1, <2>2 DEF OpToRel
  <1>. QED
    BY <1>2

\* A set of indexes of a sequence has a greatest one.
LEMMA GreatestIndex ==
    ASSUME NEW n \in Nat, NEW T, T \subseteq 1 .. n, T # {}
    PROVE  \E i \in T : \A j \in T : j <= i
  <1>. DEFINE U == {n - i : i \in T}
  <1>1. U \subseteq Nat
    OBVIOUS
  <1>2. U # {}
    OBVIOUS
  <1>. HIDE DEF U
  <1>3. PICK k \in U : \A j \in U : k <= j
    BY <1>1, <1>2, LeastIndex
  <1>4. PICK i \in T : k = n - i
    BY DEF U
  <1>5. \A j \in T : n - i <= n - j
    BY <1>3, <1>4 DEF U
  <1>. QED
    BY <1>5

\* vmm_resize gives more than is asked for.
LEMMA CapacityIs ==
    ASSUME NEW size \in Nat
    PROVE  Capacity(size) \in Nat /\ Capacity(size) > size
  <1>1. PageSize \in Nat \ {0}
    BY FilesAssumption
  <1>2. size \div PageSize \in Nat /\ size % PageSize \in 0 .. PageSize - 1
    BY <1>1
  <1>3. size = PageSize * (size \div PageSize) + (size % PageSize)
    BY <1>1
  <1>. DEFINE q == size \div PageSize
              r == size % PageSize
  <1>4. size = PageSize * q + r /\ q \in Nat /\ r \in 0 .. PageSize - 1
    BY <1>2, <1>3
  <1>. HIDE DEF q, r
  <1>5. PageSize * q \in Nat /\ (q + 1) * PageSize = PageSize * q + PageSize
    BY <1>1, <1>4
  <1>6. (q + 1) * PageSize \in Nat /\ (q + 1) * PageSize > size
    BY <1>1, <1>4, <1>5
  <1>. QED
    BY <1>6 DEF Capacity, q

----------------------------------------------------------------------------
(* Resources *)

Slots == [Task -> Seq(Addr \cup {NULL})]

\* A registered page takes an empty slot or a new one.
LEMMA RegisterIs ==
    ASSUME resources \in Slots, NEW t \in Task, NEW a \in Addr, resource_register_self(t, a)
    PROVE  /\ resources' \in Slots
           /\ \A u \in Task : u # t => resources'[u] = resources[u]
           /\ \E k \in DOMAIN resources'[t] :
                  /\ resources'[t][k] = a
                  /\ \A i \in DOMAIN resources'[t] : i # k =>
                         i \in DOMAIN resources[t] /\ resources'[t][i] = resources[t][i]
                  /\ \A i \in DOMAIN resources[t] : resources[t][i] # NULL =>
                         i # k /\ i \in DOMAIN resources'[t]
  <1>. DEFINE s == resources[t]
              Empty == {i \in DOMAIN s : s[i] = NULL}
  <1>0. s \in Seq(Addr \cup {NULL})
    BY DEF Slots
  <1>1. DOMAIN s = 1 .. Len(s) /\ Len(s) \in Nat
    BY <1>0
  <1>2. CASE Empty # {}
    <2>. DEFINE First(k) == s[k] = NULL /\ \A j \in 1 .. k - 1 : s[j] # NULL
    <2>1. Empty \subseteq Nat
      BY <1>1
    <2>2. PICK m \in Empty : \A j \in Empty : m <= j
      BY <1>2, <2>1, LeastIndex
    <2>3. \A j \in 1 .. m - 1 : s[j] # NULL
      <3>. TAKE j \in 1 .. m - 1
      <3>1. m \in 1 .. Len(s)
        BY <1>1, <2>2
      <3>2. j \in DOMAIN s /\ ~ (m <= j)
        BY <1>1, <3>1
      <3>. QED
        BY <2>2, <3>2
    <2>4. m \in DOMAIN s /\ First(m)
      BY <2>2, <2>3
    <2>. DEFINE k == CHOOSE i \in DOMAIN s : First(i)
    <2>5. k \in DOMAIN s /\ First(k)
      BY <2>4
    <2>6. \E i \in DOMAIN s : s[i] = NULL
      BY <2>4
    <2>7. resources' = [resources EXCEPT ![t] = [s EXCEPT ![k] = a]]
      BY <2>6 DEF resource_register_self
    <2>. HIDE DEF k
    <2>8. [s EXCEPT ![k] = a] \in Seq(Addr \cup {NULL}) /\ DOMAIN [s EXCEPT ![k] = a] = DOMAIN s
      BY <1>0, <2>5
    <2>9. resources'[t] = [s EXCEPT ![k] = a] /\ \A u \in Task : u # t => resources'[u] = resources[u]
      BY <2>7 DEF Slots
    <2>10. resources' \in Slots
      BY <2>7, <2>8 DEF Slots
    <2>. QED
      BY <2>5, <2>8, <2>9, <2>10
  <1>3. CASE Empty = {}
    <2>1. resources' = [resources EXCEPT ![t] = Append(s, a)]
      BY <1>3 DEF resource_register_self
    <2>2. /\ Append(s, a) \in Seq(Addr \cup {NULL})
          /\ DOMAIN Append(s, a) = 1 .. Len(s) + 1
          /\ Append(s, a)[Len(s) + 1] = a
          /\ \A i \in 1 .. Len(s) : Append(s, a)[i] = s[i]
      BY <1>0, <1>1
    <2>3. resources'[t] = Append(s, a) /\ \A u \in Task : u # t => resources'[u] = resources[u]
      BY <2>1 DEF Slots
    <2>4. resources' \in Slots
      BY <2>1, <2>2 DEF Slots
    <2>. QED
      BY <1>1, <2>2, <2>3, <2>4
  <1>. QED
    BY <1>2, <1>3

LEMMA UnregisterIs ==
    ASSUME resources \in Slots, NEW t \in Task, NEW a \in Addr, resource_unregister_self(t, a)
    PROVE  /\ resources' \in Slots
           /\ \A u \in Task : u # t => resources'[u] = resources[u]
           /\ DOMAIN resources'[t] = DOMAIN resources[t]
           /\ \A i \in DOMAIN resources[t] :
                  resources'[t][i] = IF resources[t][i] = a THEN NULL ELSE resources[t][i]
  <1>. DEFINE s == resources[t]
              r == [i \in DOMAIN s |-> IF s[i] = a THEN NULL ELSE s[i]]
  <1>1. s \in Seq(Addr \cup {NULL})
    BY DEF Slots
  <1>2. r \in Seq(Addr \cup {NULL})
    BY <1>1
  <1>3. resources' = [resources EXCEPT ![t] = r]
    BY DEF resource_unregister_self
  <1>. QED
    BY <1>2, <1>3 DEF Slots

\* Registering a page that was not allocated.
LEMMA OpenOwns ==
    ASSUME TypeOK, OwnInv, NEW t \in Task, NEW a \in Addr, a \notin live,
           resource_register_self(t, a), live' = live \cup {a},
           fd_table' = Append(fd_table, a),
           held' = [held EXCEPT ![t] = @ \cup {Len(fd_table) + 1}]
    PROVE  OwnInv' /\ resources' \in Slots
  <1>0. resources \in Slots /\ NULL \notin Addr
    BY FilesAssumption DEF TypeOK, Slots
  <1>1. resources' \in Slots /\ \A u \in Task : u # t => resources'[u] = resources[u]
    BY <1>0, RegisterIs
  <1>2. PICK k \in DOMAIN resources'[t] :
            /\ resources'[t][k] = a
            /\ \A i \in DOMAIN resources'[t] : i # k =>
                   i \in DOMAIN resources[t] /\ resources'[t][i] = resources[t][i]
            /\ \A i \in DOMAIN resources[t] : resources[t][i] # NULL =>
                   i # k /\ i \in DOMAIN resources'[t]
    BY <1>0, RegisterIs
  <1>3. \A u \in Task : \A i \in DOMAIN resources'[u] :
            \/ u = t /\ i = k /\ resources'[u][i] = a
            \/ ~ (u = t /\ i = k) /\ i \in DOMAIN resources[u] /\ resources'[u][i] = resources[u][i]
    BY <1>1, <1>2
  <1>4. \A u \in Task : \A i \in DOMAIN resources[u] : resources[u][i] # NULL =>
            i \in DOMAIN resources'[u] /\ resources'[u][i] = resources[u][i]
    BY <1>1, <1>2
  <1>5. \A u \in Task : \A i \in DOMAIN resources[u] : resources[u][i] # a
    BY <1>0 DEF OwnInv
  <1>6. a # NULL
    BY <1>0
  <1>. DEFINE F == fd_table
  <1>7. /\ F \in Seq(Addr) /\ Len(F) \in Nat /\ DOMAIN F = 1 .. Len(F)
        /\ DOMAIN F' = 1 .. Len(F) + 1 /\ F'[Len(F) + 1] = a
        /\ \A fd \in DOMAIN F : F'[fd] = F[fd]
    BY DEF TypeOK
  <1>8. /\ \A u \in Task : \A fd \in held'[u] : fd \in held[u] \/ (u = t /\ fd = Len(F) + 1)
        /\ \A u \in Task : held[u] \subseteq held'[u]
    BY DEF TypeOK
  <1>9. \A u \in Task : \A fd \in held[u] : fd \in DOMAIN F /\ F'[fd] = F[fd] /\ F[fd] # a /\ F[fd] # NULL
    <2>. TAKE u \in Task
    <2>. TAKE fd \in held[u]
    <2>1. fd \in DOMAIN F /\ \E i \in DOMAIN resources[u] : resources[u][i] = F[fd]
      BY DEF OwnInv
    <2>2. F[fd] \in Addr
      BY <1>7, <2>1
    <2>. QED
      BY <1>0, <1>5, <1>7, <2>1, <2>2
  <1>10. \A u \in Task : \A i \in DOMAIN resources'[u] :
            resources'[u][i] # NULL => resources'[u][i] \in live'
    BY <1>3 DEF OwnInv
  <1>11. \A v, u \in Task : \A i \in DOMAIN resources'[v], j \in DOMAIN resources'[u] :
             resources'[v][i] # NULL /\ resources'[v][i] = resources'[u][j] => v = u /\ i = j
    BY <1>3, <1>5 DEF OwnInv
  <1>12. \A b \in live' : \E u \in Task : \E i \in DOMAIN resources'[u] : resources'[u][i] = b
    <2>. TAKE b \in live'
    <2>1. CASE b = a
      BY <1>2, <2>1
    <2>2. CASE b \in live
      <3>1. PICK u \in Task : \E i \in DOMAIN resources[u] : resources[u][i] = b
        BY <2>2 DEF OwnInv
      <3>2. b # NULL
        BY <1>0, <2>2 DEF TypeOK
      <3>. QED
        BY <1>4, <3>1, <3>2
    <2>. QED
      BY <2>1, <2>2
  <1>13. \A u \in Task : \A fd \in held'[u] :
             fd \in DOMAIN F' /\ \E i \in DOMAIN resources'[u] : resources'[u][i] = F'[fd]
    <2>. TAKE u \in Task
    <2>. TAKE fd \in held'[u]
    <2>1. CASE fd \in held[u]
      <3>1. PICK i \in DOMAIN resources[u] : resources[u][i] = F[fd]
        BY <2>1 DEF OwnInv
      <3>2. i \in DOMAIN resources'[u] /\ resources'[u][i] = F'[fd]
        BY <1>4, <1>9, <2>1, <3>1
      <3>3. fd \in DOMAIN F'
        BY <1>7, <1>9, <2>1
      <3>. QED
        BY <3>2, <3>3
    <2>2. CASE u = t /\ fd = Len(F) + 1
      BY <1>2, <1>7, <2>2
    <2>. QED
      BY <1>8, <2>1, <2>2
  <1>14. \A u \in Task : \A fd, gd \in held'[u] : F'[fd] = F'[gd] => fd = gd
    BY <1>7, <1>8, <1>9 DEF OwnInv
  <1>. QED
    BY <1>1, <1>10, <1>11, <1>12, <1>13, <1>14 DEF OwnInv

\* Freeing a page, taking it from the resources and giving up its descriptor.
LEMMA CloseOwns ==
    ASSUME TypeOK, OwnInv, NEW t \in Task, NEW fd \in held[t],
           resource_unregister_self(t, fd_table[fd]), live' = live \ {fd_table[fd]},
           fd_table' = fd_table,
           held' = [held EXCEPT ![t] = @ \ {fd}]
    PROVE  OwnInv' /\ resources' \in Slots
  <1>. DEFINE a == fd_table[fd]
  <1>0. resources \in Slots /\ NULL \notin Addr
    BY FilesAssumption DEF TypeOK, Slots
  <1>1. fd \in DOMAIN fd_table
    BY DEF OwnInv
  <1>2. a \in Addr
    BY <1>1 DEF TypeOK
  <1>3. PICK k \in DOMAIN resources[t] : resources[t][k] = a
    BY DEF OwnInv
  <1>. HIDE DEF a
  <1>4. resource_unregister_self(t, a)
    BY DEF a
  <1>5. /\ resources' \in Slots
        /\ \A u \in Task : u # t => resources'[u] = resources[u]
        /\ DOMAIN resources'[t] = DOMAIN resources[t]
        /\ \A i \in DOMAIN resources[t] :
               resources'[t][i] = IF resources[t][i] = a THEN NULL ELSE resources[t][i]
    BY <1>0, <1>2, <1>4, UnregisterIs
  <1>6. a # NULL
    BY <1>0, <1>2
  <1>7. \A u \in Task : \A i \in DOMAIN resources[u] : resources[u][i] = a => u = t /\ i = k
    BY <1>3, <1>6 DEF OwnInv
  <1>8. \A u \in Task : DOMAIN resources'[u] = DOMAIN resources[u]
    BY <1>5
  <1>9. \A u \in Task : \A i \in DOMAIN resources[u] :
            resources'[u][i] = IF resources[u][i] = a THEN NULL ELSE resources[u][i]
    BY <1>5, <1>7
  <1>10. \A u \in Task : \A gd \in held'[u] : gd \in held[u] /\ (u = t => gd # fd)
    BY DEF TypeOK
  <1>11. \A u \in Task : \A gd \in held'[u] : fd_table[gd] # a
    <2>. TAKE u \in Task
    <2>. TAKE gd \in held'[u]
    <2>1. PICK i \in DOMAIN resources[u] : resources[u][i] = fd_table[gd]
      BY <1>10 DEF OwnInv
    <2>2. CASE u = t
      BY <1>10, <2>2 DEF OwnInv, a
    <2>. QED
      BY <1>7, <2>1, <2>2
  <1>12. \A u \in Task : \A i \in DOMAIN resources'[u] :
             resources'[u][i] # NULL => resources'[u][i] \in live'
    BY <1>8, <1>9 DEF OwnInv, a
  <1>13. \A v, u \in Task : \A i \in DOMAIN resources'[v], j \in DOMAIN resources'[u] :
             resources'[v][i] # NULL /\ resources'[v][i] = resources'[u][j] => v = u /\ i = j
    BY <1>8, <1>9 DEF OwnInv
  <1>14. \A b \in live' : \E u \in Task : \E i \in DOMAIN resources'[u] : resources'[u][i] = b
    BY <1>8, <1>9 DEF OwnInv, a
  <1>15. \A u \in Task : \A gd \in held'[u] :
             /\ gd \in DOMAIN fd_table'
             /\ \E i \in DOMAIN resources'[u] : resources'[u][i] = fd_table'[gd]
    BY <1>8, <1>9, <1>10, <1>11 DEF OwnInv
  <1>16. \A u \in Task : \A gd, hd \in held'[u] : fd_table'[gd] = fd_table'[hd] => gd = hd
    BY <1>10 DEF OwnInv
  <1>. QED
    BY <1>5, <1>12, <1>13, <1>14, <1>15, <1>16 DEF OwnInv

\* Freeing all that a task has registered.
LEMMA EndOwns ==
    ASSUME TypeOK, OwnInv, NEW t \in Task,
           live' = live \ {resources[t][i] : i \in DOMAIN resources[t]},
           resources' = [resources EXCEPT ![t] = <<>>],
           held' = [held EXCEPT ![t] = {}],
           fd_table' = fd_table
    PROVE  OwnInv' /\ resources' \in Slots
  <1>0. NULL \notin Addr
    BY FilesAssumption
  <1>1. resources' \in Slots /\ resources'[t] = <<>> /\ DOMAIN resources'[t] = {}
    BY DEF TypeOK, Slots
  <1>2. \A u \in Task : u # t => resources'[u] = resources[u] /\ held'[u] = held[u]
    BY DEF TypeOK
  <1>3. held'[t] = {}
    BY DEF TypeOK
  <1>4. \A u \in Task : \A i \in DOMAIN resources'[u] :
            resources'[u][i] # NULL => resources'[u][i] \in live'
    BY <1>1, <1>2 DEF OwnInv
  <1>5. \A v, u \in Task : \A i \in DOMAIN resources'[v], j \in DOMAIN resources'[u] :
            resources'[v][i] # NULL /\ resources'[v][i] = resources'[u][j] => v = u /\ i = j
    BY <1>1, <1>2 DEF OwnInv
  <1>6. \A b \in live' : \E u \in Task : \E i \in DOMAIN resources'[u] : resources'[u][i] = b
    BY <1>2 DEF OwnInv
  <1>7. \A u \in Task : \A fd \in held'[u] :
            /\ fd \in DOMAIN fd_table'
            /\ \E i \in DOMAIN resources'[u] : resources'[u][i] = fd_table'[fd]
    BY <1>2, <1>3 DEF OwnInv
  <1>8. \A u \in Task : \A fd, gd \in held'[u] : fd_table'[fd] = fd_table'[gd] => fd = gd
    BY <1>2, <1>3 DEF OwnInv
  <1>. QED
    BY <1>1, <1>4, <1>5, <1>6, <1>7, <1>8 DEF OwnInv

LEMMA OwnUnchanged ==
    ASSUME OwnInv, UNCHANGED <<fd_table, live, resources, held>>
    PROVE  OwnInv'
  BY DEF OwnInv

----------------------------------------------------------------------------
(* Closing *)

\* A file is what its kind says.
LEMMA KindIs ==
    ASSUME NEW f, IsFile(f)
    PROVE  /\ f.kind = "ram" => f \in RamFile
           /\ f.kind = "fat" => f \in FatFile
           /\ f \in RamFile => f.kind = "ram"
           /\ f \in FatFile => f.kind = "fat"
  BY DEF IsFile, RamFile, FatFile, NoFile

\* f_close leaves an entry an entry of the same file.  A size in it that was not
\* there before comes from a changed handle.
LEMMA SyncedIs ==
    ASSUME TypeOK, NEW s \in Seq(Addr \cup {NULL}), NEW v \in Volume, NEW e \in Entry
    PROVE  /\ fat[v][e] = NULL => Synced(s, v, e) = NULL
           /\ fat[v][e] # NULL =>
                  /\ Synced(s, v, e) \in DirEntry
                  /\ Synced(s, v, e).id = fat[v][e].id
                  /\ \/ Synced(s, v, e).by = fat[v][e].by
                     \/ \E i \in Changed(s, v, e) : Synced(s, v, e).by = file[s[i]].id
  <1>. DEFINE C == Changed(s, v, e)
  <1>1. CASE fat[v][e] = NULL \/ C = {}
    <2>1. Synced(s, v, e) = fat[v][e]
      BY <1>1 DEF Synced
    <2>. QED
      BY <2>1 DEF TypeOK
  <1>2. CASE fat[v][e] # NULL /\ C # {}
    <2>1. Len(s) \in Nat /\ C \subseteq 1 .. Len(s)
      BY DEF Changed
    <2>2. \E i \in C : \A j \in C : j <= i
      BY <1>2, <2>1, GreatestIndex
    <2>. DEFINE last == CHOOSE i \in C : \A j \in C : j <= i
    <2>3. last \in C
      BY <2>2
    <2>4. Synced(s, v, e) = [fat[v][e] EXCEPT !.size = file[s[last]].size, !.by = file[s[last]].id]
      BY <1>2 DEF Synced
    <2>. HIDE DEF last
    <2>5. s[last] \in Addr /\ file[s[last]].kind = "fat"
      BY <2>1, <2>3 DEF Changed
    <2>6. file[s[last]] \in FatFile
      BY <2>5, KindIs DEF TypeOK
    <2>7. fat[v][e] \in DirEntry
      BY <1>2 DEF TypeOK
    <2>8. file[s[last]].size \in Nat /\ file[s[last]].id \in Nat
      BY <2>6 DEF FatFile
    <2>. HIDE DEF C
    <2>9. /\ Synced(s, v, e) \in DirEntry
          /\ Synced(s, v, e).id = fat[v][e].id
          /\ Synced(s, v, e).by = file[s[last]].id
      BY <2>4, <2>7, <2>8 DEF DirEntry
    <2>. QED
      BY <1>2, <2>3, <2>9 DEF C
  <1>. QED
    BY <1>1, <1>2

\* Closing pages that are open.
LEMMA CloseIs ==
    ASSUME TypeOK, NEW s \in Seq(Addr \cup {NULL}), vfs_close(s)
    PROVE  /\ DOMAIN file' = Addr /\ \A a \in Addr : IsFile(file'[a])
           /\ fat' \in [Volume -> [Entry -> DirEntry \cup {NULL}]]
           /\ live' \subseteq live
           /\ \A a \in live' : file'[a] = file[a] /\ (a \in cut <=> a \in cut')
  <1>. DEFINE closed == {s[i] : i \in DOMAIN s}
  <1>1. /\ file' = [a \in Addr |-> IF a \in closed THEN NoFile ELSE file[a]]
        /\ live' = live \ closed /\ cut' = cut \ closed
        /\ fat' = [v \in Volume |-> [e \in Entry |-> Synced(s, v, e)]]
    BY DEF vfs_close, NoFile
  <1>. HIDE DEF closed
  <1>2. \A v \in Volume, e \in Entry : Synced(s, v, e) \in DirEntry \cup {NULL}
    BY SyncedIs
  <1>3. fat' \in [Volume -> [Entry -> DirEntry \cup {NULL}]]
    BY <1>1, <1>2
  <1>4. DOMAIN file' = Addr /\ \A a \in Addr : IsFile(file'[a])
    BY <1>1 DEF TypeOK, IsFile
  <1>5. \A a \in live' : file'[a] = file[a] /\ (a \in cut <=> a \in cut')
    BY <1>1 DEF TypeOK
  <1>. QED
    BY <1>1, <1>3, <1>4, <1>5

LEMMA CloseKeepsFat ==
    ASSUME TypeOK, FatInv, NEW s \in Seq(Addr \cup {NULL}), vfs_close(s),
           \A i \in DOMAIN s : s[i] # NULL => s[i] \in live,
           orphaned' = orphaned
    PROVE  FatInv'
  <1>. SUFFICES ASSUME ~orphaned
                PROVE  /\ \A a \in live' : file'[a].kind = "fat" =>
                              /\ fat'[file'[a].vol][file'[a].entry] # NULL
                              /\ fat'[file'[a].vol][file'[a].entry].id = file'[a].id
                       /\ \A v \in Volume, e \in Entry :
                              fat'[v][e] # NULL => fat'[v][e].by = fat'[v][e].id
    BY DEF FatInv
  <1>0. NULL \notin DirEntry
    BY FilesAssumption DEF DirEntry
  <1>1. \A v \in Volume, e \in Entry : fat'[v][e] = Synced(s, v, e)
    BY DEF vfs_close
  <1>2. live' \subseteq live /\ \A a \in live' : file'[a] = file[a]
    BY CloseIs
  <1>3. \A a \in live : file[a].kind = "fat" =>
            /\ file[a].vol \in Volume /\ file[a].entry \in Entry
            /\ fat[file[a].vol][file[a].entry] # NULL
            /\ fat[file[a].vol][file[a].entry].id = file[a].id
    <2>. SUFFICES ASSUME NEW a \in live, file[a].kind = "fat"
                  PROVE  file[a].vol \in Volume /\ file[a].entry \in Entry
      BY DEF FatInv
    <2>1. file[a] \in FatFile
      BY KindIs DEF TypeOK
    <2>. QED
      BY <2>1 DEF FatFile
  <1>4. ASSUME NEW a \in live', file'[a].kind = "fat"
        PROVE  /\ fat'[file'[a].vol][file'[a].entry] # NULL
               /\ fat'[file'[a].vol][file'[a].entry].id = file'[a].id
    <2>. DEFINE v == file[a].vol
                e == file[a].entry
    <2>1. file'[a] = file[a] /\ a \in live /\ v \in Volume /\ e \in Entry
      BY <1>2, <1>3, <1>4
    <2>2. fat[v][e] # NULL /\ fat[v][e].id = file[a].id
      BY <1>3, <1>4, <2>1
    <2>. HIDE DEF v, e
    <2>3. Synced(s, v, e) \in DirEntry /\ Synced(s, v, e).id = fat[v][e].id
      BY <2>1, <2>2, SyncedIs
    <2>4. fat'[v][e] # NULL /\ fat'[v][e].id = file[a].id
      BY <1>0, <1>1, <2>1, <2>2, <2>3
    <2>. QED
      BY <2>1, <2>4 DEF v, e
  <1>5. ASSUME NEW v \in Volume, NEW e \in Entry, fat'[v][e] # NULL
        PROVE  fat'[v][e].by = fat'[v][e].id
    <2>1. fat[v][e] # NULL
      BY <1>1, <1>5, SyncedIs
    <2>2. /\ Synced(s, v, e).id = fat[v][e].id
          /\ \/ Synced(s, v, e).by = fat[v][e].by
             \/ \E i \in Changed(s, v, e) : Synced(s, v, e).by = file[s[i]].id
      BY <2>1, SyncedIs
    <2>3. fat[v][e].by = fat[v][e].id
      BY <2>1 DEF FatInv
    <2>4. \A i \in Changed(s, v, e) : file[s[i]].id = fat[v][e].id
      BY <1>3 DEF Changed
    <2>. QED
      BY <1>1, <2>2, <2>3, <2>4
  <1>. QED
    BY <1>4, <1>5

LEMMA CloseKeepsRam ==
    ASSUME TypeOK, RamInv, NEW s \in Seq(Addr \cup {NULL}), vfs_close(s), ram' = ram
    PROVE  RamInv'
  BY CloseIs DEF RamInv

----------------------------------------------------------------------------
(* Files in RAM *)

\* Data of a file of this size, as vmm_resize keeps it.
Fits(data, size) ==
    /\ data \in Seq(Byte) /\ size \in Nat
    /\ IF data = <<>> THEN size = 0 ELSE Len(data) = Capacity(size)

LEMMA FitsIs ==
    ASSUME NEW data, NEW size, Fits(data, size)
    PROVE  Len(data) \in Nat /\ DOMAIN data = 1 .. Len(data) /\ size <= Len(data)
  <1>1. Capacity(size) > size /\ Capacity(size) \in Nat /\ size \in Nat
    BY CapacityIs DEF Fits
  <1>2. Len(data) \in Nat /\ DOMAIN data = 1 .. Len(data)
    BY DEF Fits
  <1>3. CASE data = <<>>
    BY <1>1, <1>2, <1>3 DEF Fits
  <1>4. CASE data # <<>>
    BY <1>1, <1>2, <1>4 DEF Fits
  <1>. QED
    BY <1>2, <1>3, <1>4

\* vmm_resize keeps what is inside both sizes.
LEMMA ResizeIs ==
    ASSUME NEW old, NEW new \in Nat, NEW data, Fits(data, old)
    PROVE  /\ Fits(vmm_resize(old, new, data), new)
           /\ \A i \in 1 .. old : i <= new => vmm_resize(old, new, data)[i] = data[i]
  <1>. DEFINE r == vmm_resize(old, new, data)
              low == IF new < old THEN new ELSE old
  <1>0. /\ old \in Nat /\ data \in Seq(Byte) /\ Len(data) \in Nat
        /\ DOMAIN data = 1 .. Len(data) /\ old <= Len(data)
    BY FitsIs DEF Fits
  <1>1. Capacity(new) \in Nat /\ Capacity(new) > new
    BY CapacityIs
  <1>2. CASE data = <<>>
    <2>1. old = 0
      BY <1>2 DEF Fits
    <2>2. r = [i \in 1 .. Capacity(new) |-> Junk]
      BY <1>2 DEF vmm_resize
    <2>3. r \in Seq(Byte) /\ Len(r) = Capacity(new)
      BY <1>1, <2>2 DEF Byte
    <2>4. r # <<>>
      BY <1>1, <2>3
    <2>. QED
      BY <2>1, <2>3, <2>4 DEF Fits
  <1>3. CASE data # <<>> /\ new = 0
    <2>1. r = <<>>
      BY <1>3 DEF vmm_resize
    <2>2. <<>> \in Seq(Byte)
      OBVIOUS
    <2>3. Fits(r, new)
      BY <1>3, <2>1, <2>2 DEF Fits
    <2>4. \A i \in 1 .. old : ~ (i <= new)
      BY <1>0, <1>3
    <2>. QED
      BY <2>3, <2>4
  <1>4. CASE data # <<>> /\ new # 0 /\ Capacity(new) # Capacity(old)
    <2>1. r = [i \in 1 .. Capacity(new) |-> IF i <= low THEN data[i] ELSE Junk]
      BY <1>4 DEF vmm_resize
    <2>2. \A i \in 1 .. Capacity(new) : (IF i <= low THEN data[i] ELSE Junk) \in Byte
      BY <1>0 DEF Byte
    <2>. DEFINE g == [i \in 1 .. Capacity(new) |-> IF i <= low THEN data[i] ELSE Junk]
    <2>3. g \in [1 .. Capacity(new) -> Byte]
      BY <2>2
    <2>4. r \in Seq(Byte) /\ Len(r) = Capacity(new)
      BY <1>1, <2>1, <2>3
    <2>5. r # <<>>
      BY <1>1, <2>4
    <2>6. \A i \in 1 .. old : i <= new => r[i] = data[i]
      BY <1>0, <1>1, <2>1
    <2>. QED
      BY <2>4, <2>5, <2>6 DEF Fits
  <1>5. CASE data # <<>> /\ new # 0 /\ Capacity(new) = Capacity(old)
    <2>1. r = data
      BY <1>5 DEF vmm_resize
    <2>. QED
      BY <1>0, <1>5, <2>1 DEF Fits
  <1>. QED
    BY <1>2, <1>3, <1>4, <1>5

LEMMA NodeIs ==
    ASSUME TypeOK, NodeInv, NEW n \in RamName, ram[n] # NULL
    PROVE  ram[n] \in Node /\ Fits(ram[n].fdata, ram[n].fsize)
  <1>1. ram[n] \in Node
    BY DEF TypeOK
  <1>. QED
    BY <1>1 DEF Node, NodeInv, Fits

\* Another content for one file in RAM.
LEMMA NodeChanges ==
    ASSUME TypeOK, NodeInv, NEW n \in RamName, NEW data, NEW size, Fits(data, size),
           ram' = [ram EXCEPT ![n] = [fsize |-> size, fdata |-> data]]
    PROVE  /\ NodeInv' /\ ram' \in [RamName -> Node \cup {NULL}]
           /\ ram'[n] = [fsize |-> size, fdata |-> data]
           /\ ram'[n] # NULL /\ ram'[n].fsize = size
           /\ \A m \in RamName : m # n => ram'[m] = ram[m]
  <1>0. NULL \notin Node
    BY FilesAssumption DEF Node, Byte
  <1>1. [fsize |-> size, fdata |-> data] \in Node
    BY DEF Fits, Node
  <1>2. /\ ram' \in [RamName -> Node \cup {NULL}]
        /\ ram'[n] = [fsize |-> size, fdata |-> data]
        /\ \A m \in RamName : m # n => ram'[m] = ram[m]
    BY <1>1 DEF TypeOK
  <1>3. ram'[n].fsize = size /\ ram'[n].fdata = data /\ ram'[n] # NULL
    BY <1>0, <1>1, <1>2
  <1>4. NodeInv'
    <2>. SUFFICES ASSUME NEW m \in RamName, ram'[m] # NULL
                  PROVE  IF ram'[m].fdata = <<>> THEN ram'[m].fsize = 0
                         ELSE Len(ram'[m].fdata) = Capacity(ram'[m].fsize)
      BY DEF NodeInv, Capacity
    <2>1. CASE m = n
      BY <1>3, <2>1 DEF Fits
    <2>2. CASE m # n
      BY <1>2, <2>2 DEF NodeInv
    <2>. QED
      BY <2>1, <2>2
  <1>. QED
    BY <1>2, <1>3, <1>4

\* A program uses a descriptor: its file is open.
LEMMA HeldIs ==
    ASSUME TypeOK, OwnInv, NEW t \in Task, NEW fd \in held[t]
    PROVE  /\ fd_table[fd] \in Addr /\ fd_table[fd] \in live
           /\ file[fd_table[fd]].kind = "ram" => file[fd_table[fd]] \in RamFile
           /\ file[fd_table[fd]].kind = "fat" => file[fd_table[fd]] \in FatFile
  <1>1. PICK i \in DOMAIN resources[t] : resources[t][i] = fd_table[fd]
    BY DEF OwnInv
  <1>2. fd \in DOMAIN fd_table
    BY DEF OwnInv
  <1>3. fd_table[fd] \in Addr
    BY <1>2 DEF TypeOK
  <1>4. fd_table[fd] \in live
    BY <1>1, <1>3, FilesAssumption DEF OwnInv
  <1>. QED
    BY <1>3, <1>4, KindIs DEF TypeOK

----------------------------------------------------------------------------
(* The actions *)

LEMMA RamTouch ==
    ASSUME Inv, NEW n \in RamName, ramfs_touch(n)
    PROVE  Inv'
  <1>1. OwnInv' /\ FatInv'
    BY DEF Inv, OwnInv, FatInv, ramfs_touch
  <1>2. CASE ram[n] # NULL
    <2>1. ram' = ram
      BY <1>2 DEF ramfs_touch, Inv, TypeOK
    <2>. QED
      BY <1>1, <2>1 DEF Inv, TypeOK, RamInv, NodeInv, Capacity, ramfs_touch
  <1>3. CASE ram[n] = NULL
    <2>1. ram' = [ram EXCEPT ![n] = [fsize |-> 0, fdata |-> <<>>]]
      BY <1>3 DEF ramfs_touch
    <2>2. Fits(<<>>, 0)
      BY DEF Fits
    <2>3. /\ NodeInv' /\ ram' \in [RamName -> Node \cup {NULL}]
          /\ \A m \in RamName : m # n => ram'[m] = ram[m]
      BY <2>1, <2>2, NodeChanges DEF Inv
    <2>4. TypeOK'
      BY <2>3 DEF Inv, TypeOK, ramfs_touch
    <2>5. \A a \in live : file[a].kind = "ram" => file[a].name \in RamName /\ ram[file[a].name] # NULL
      <3>. TAKE a \in live
      <3>1. file[a].kind = "ram" => file[a] \in RamFile
        BY KindIs DEF Inv, TypeOK
      <3>. QED
        BY <3>1 DEF Inv, RamInv, RamFile
    <2>6. RamInv'
      BY <1>3, <2>3, <2>5 DEF Inv, RamInv, ramfs_touch
    <2>. QED
      BY <1>1, <2>3, <2>4, <2>6 DEF Inv
  <1>. QED
    BY <1>2, <1>3

LEMMA FatTouch ==
    ASSUME Inv, NEW v \in Volume, NEW n \in FatName, fatfs_touch(v, n)
    PROVE  Inv'
  <1>0. NULL \notin DirEntry
    BY FilesAssumption DEF DirEntry
  <1>1. OwnInv' /\ NodeInv'
    BY DEF Inv, OwnInv, NodeInv, Capacity, fatfs_touch
  <1>2. cut \subseteq cut' /\ UNCHANGED <<fd_table, file, live, resources, held, ram, halted, orphaned>>
    BY DEF fatfs_touch
  <1>3. RamInv'
    BY <1>2 DEF Inv, RamInv
  <1>4. \A a \in live : file[a].kind = "fat" => file[a].vol \in Volume /\ file[a].entry \in Entry
    <2>. TAKE a \in live
    <2>1. file[a].kind = "fat" => file[a] \in FatFile
      BY KindIs DEF Inv, TypeOK
    <2>. QED
      BY <2>1 DEF FatFile
  <1>5. CASE \E e \in Found(v, n) : fat' = [fat EXCEPT ![v][e].size = 0] /\ UNCHANGED made
    <2>1. PICK e \in Entry : fat[v][e] # NULL /\ fat' = [fat EXCEPT ![v][e].size = 0] /\ UNCHANGED made
      BY <1>5 DEF Found
    <2>2. fat[v][e] \in DirEntry
      BY <2>1 DEF Inv, TypeOK
    <2>. DEFINE new == [fat[v][e] EXCEPT !.size = 0]
    <2>3. new \in DirEntry /\ new.id = fat[v][e].id /\ new.by = fat[v][e].by
      BY <2>2 DEF DirEntry
    <2>4. fat' = [fat EXCEPT ![v] = [fat[v] EXCEPT ![e] = new]]
      BY <2>1 DEF Inv, TypeOK
    <2>. HIDE DEF new
    <2>5. /\ fat' \in [Volume -> [Entry -> DirEntry \cup {NULL}]]
          /\ fat'[v][e] = new
          /\ \A w \in Volume, d \in Entry : ~ (w = v /\ d = e) => fat'[w][d] = fat[w][d]
      BY <2>3, <2>4 DEF Inv, TypeOK
    <2>6. \A w \in Volume, d \in Entry :
              /\ fat'[w][d] = NULL <=> fat[w][d] = NULL
              /\ fat[w][d] # NULL => fat'[w][d].id = fat[w][d].id /\ fat'[w][d].by = fat[w][d].by
      BY <1>0, <2>1, <2>3, <2>5
    <2>7. TypeOK'
      BY <1>2, <2>1, <2>5 DEF Inv, TypeOK
    <2>8. FatInv'
      BY <1>2, <1>4, <2>6 DEF Inv, FatInv
    <2>. QED
      BY <1>1, <1>3, <2>7, <2>8 DEF Inv
  <1>6. CASE \E e \in Entry :
                /\ fat[v][e] = NULL /\ made' = made + 1
                /\ fat' = [fat EXCEPT ![v][e] = [name |-> n, size |-> 0, id |-> made, by |-> made]]
    <2>. DEFINE new == [name |-> n, size |-> 0, id |-> made, by |-> made]
    <2>1. PICK e \in Entry : fat[v][e] = NULL /\ fat' = [fat EXCEPT ![v][e] = new] /\ made' = made + 1
      BY <1>6
    <2>2. new \in DirEntry /\ new.by = new.id
      BY DEF Inv, TypeOK, DirEntry
    <2>. HIDE DEF new
    <2>3. /\ fat' \in [Volume -> [Entry -> DirEntry \cup {NULL}]]
          /\ fat'[v][e] = new
          /\ \A w \in Volume, d \in Entry : ~ (w = v /\ d = e) => fat'[w][d] = fat[w][d]
      BY <2>1, <2>2 DEF Inv, TypeOK
    <2>4. \A w \in Volume, d \in Entry : fat[w][d] # NULL => fat'[w][d] = fat[w][d]
      BY <2>1, <2>3
    <2>5. TypeOK'
      BY <1>2, <2>1, <2>3 DEF Inv, TypeOK
    <2>6. FatInv'
      BY <1>2, <1>4, <2>2, <2>3, <2>4 DEF Inv, FatInv
    <2>. QED
      BY <1>1, <1>3, <2>5, <2>6 DEF Inv
  <1>. QED
    BY <1>5, <1>6 DEF fatfs_touch

\* A handle in a page of its own.
LEMMA Open ==
    ASSUME Inv, NEW t \in Task, NEW f, f \in RamFile \/ f \in FatFile, sys_open(t, f),
           f \in RamFile => ram[f.name] # NULL /\ f.size <= ram[f.name].fsize,
           f \in FatFile => fat[f.vol][f.entry] # NULL /\ fat[f.vol][f.entry].id = f.id
    PROVE  Inv'
  <1>1. PICK a \in Addr \ live :
            /\ file' = [file EXCEPT ![a] = f]
            /\ live' = live \cup {a}
            /\ fd_table' = Append(fd_table, a)
            /\ held' = [held EXCEPT ![t] = @ \cup {Len(fd_table) + 1}]
            /\ resource_register_self(t, a)
    BY DEF sys_open
  <1>2. UNCHANGED <<ram, fat, made, halted, cut, orphaned>>
    BY DEF sys_open
  <1>3. OwnInv' /\ resources' \in Slots
    BY <1>1, OpenOwns DEF Inv
  <1>4. NodeInv'
    BY <1>2 DEF Inv, NodeInv, Capacity
  <1>5. file'[a] = f /\ \A b \in live : file'[b] = file[b]
    BY <1>1 DEF Inv, TypeOK
  <1>6. TypeOK'
    <2>1. fd_table' \in Seq(Addr) /\ Len(fd_table) \in Nat
      BY <1>1 DEF Inv, TypeOK
    <2>2. held' \in [Task -> SUBSET Nat]
      BY <1>1, <2>1 DEF Inv, TypeOK
    <2>3. DOMAIN file' = Addr /\ \A b \in Addr : IsFile(file'[b])
      BY <1>1 DEF Inv, TypeOK, IsFile
    <2>. QED
      BY <1>1, <1>2, <1>3, <2>1, <2>2, <2>3 DEF Inv, TypeOK, Slots
  <1>7. IsFile(f)
    BY DEF IsFile
  <1>8. FatInv'
    <2>1. f.kind = "fat" => fat[f.vol][f.entry] # NULL /\ fat[f.vol][f.entry].id = f.id
      BY <1>7, KindIs
    <2>. QED
      BY <1>1, <1>2, <1>5, <2>1 DEF Inv, FatInv
  <1>9. RamInv'
    <2>1. f.kind = "ram" => ram[f.name] # NULL /\ ~ (f.size > ram[f.name].fsize)
      <3>. SUFFICES ASSUME f.kind = "ram"
                    PROVE  ram[f.name] # NULL /\ ~ (f.size > ram[f.name].fsize)
        OBVIOUS
      <3>1. f \in RamFile
        BY <1>7, KindIs
      <3>2. f.size \in Nat /\ f.name \in RamName
        BY <3>1 DEF RamFile
      <3>3. ram[f.name].fsize \in Nat
        BY <3>1, <3>2, NodeIs DEF Inv, Node
      <3>. QED
        BY <3>1, <3>2, <3>3
    <2>. QED
      BY <1>1, <1>2, <1>5, <2>1 DEF Inv, RamInv
  <1>. QED
    BY <1>3, <1>4, <1>6, <1>8, <1>9 DEF Inv

LEMMA RamOpen ==
    ASSUME Inv, NEW t \in Task, NEW n \in RamName, ramfs_open(t, n)
    PROVE  Inv'
  <1>. DEFINE f == [kind |-> "ram", name |-> n, size |-> ram[n].fsize]
  <1>1. ram[n] # NULL /\ sys_open(t, f)
    BY DEF ramfs_open
  <1>2. ram[n].fsize \in Nat
    BY <1>1, NodeIs DEF Inv, Node
  <1>3. f \in RamFile /\ f \notin FatFile
    BY <1>2 DEF RamFile, FatFile
  <1>4. f.name = n /\ f.size = ram[n].fsize
    OBVIOUS
  <1>. HIDE DEF f
  <1>. QED
    BY <1>1, <1>2, <1>3, <1>4, Open

LEMMA FatOpen ==
    ASSUME Inv, NEW t \in Task, NEW v \in Volume, NEW n \in FatName, fatfs_open(t, v, n)
    PROVE  Inv'
  <1>1. PICK e \in Entry :
            /\ fat[v][e] # NULL
            /\ sys_open(t, [kind |-> "fat", name |-> n, size |-> fat[v][e].size,
                            vol |-> v, entry |-> e, id |-> fat[v][e].id, modified |-> FALSE])
    BY DEF fatfs_open, Found
  <1>. DEFINE f == [kind |-> "fat", name |-> n, size |-> fat[v][e].size,
                    vol |-> v, entry |-> e, id |-> fat[v][e].id, modified |-> FALSE]
  <1>2. fat[v][e] \in DirEntry
    BY <1>1 DEF Inv, TypeOK
  <1>3. f \in FatFile /\ f \notin RamFile
    BY <1>2 DEF DirEntry, RamFile, FatFile
  <1>4. f.vol = v /\ f.entry = e /\ f.id = fat[v][e].id
    OBVIOUS
  <1>5. sys_open(t, f)
    BY <1>1
  <1>. HIDE DEF f
  <1>. QED
    BY <1>1, <1>3, <1>4, <1>5, Open

LEMMA Close ==
    ASSUME Inv, NEW t \in Task, NEW fd \in held[t], sys_close(t, fd)
    PROVE  Inv'
  <1>. DEFINE s == <<fd_table[fd]>>
  <1>1. /\ vfs_close(s) /\ resource_unregister_self(t, fd_table[fd])
        /\ held' = [held EXCEPT ![t] = @ \ {fd}]
        /\ UNCHANGED <<fd_table, ram, made, halted, orphaned>>
    BY DEF sys_close
  <1>2. fd_table[fd] \in live /\ fd_table[fd] \in Addr
    BY HeldIs DEF Inv
  <1>3. s \in Seq(Addr \cup {NULL}) /\ DOMAIN s = {1} /\ s[1] = fd_table[fd]
    BY <1>2
  <1>. HIDE DEF s
  <1>4. live' = live \ {fd_table[fd]}
    <2>1. {s[i] : i \in DOMAIN s} = {fd_table[fd]}
      BY <1>3
    <2>. QED
      BY <1>1, <2>1 DEF vfs_close
  <1>5. OwnInv' /\ resources' \in Slots
    BY <1>1, <1>4, CloseOwns DEF Inv
  <1>6. FatInv'
    BY <1>1, <1>2, <1>3, CloseKeepsFat DEF Inv
  <1>7. RamInv' /\ NodeInv'
    BY <1>1, <1>3, CloseKeepsRam DEF Inv, NodeInv, Capacity
  <1>8. /\ DOMAIN file' = Addr /\ \A a \in Addr : IsFile(file'[a])
        /\ fat' \in [Volume -> [Entry -> DirEntry \cup {NULL}]]
        /\ live' \subseteq live
    BY <1>1, <1>3, CloseIs DEF Inv
  <1>9. held' \in [Task -> SUBSET Nat]
    BY <1>1 DEF Inv, TypeOK
  <1>10. TypeOK'
    BY <1>1, <1>5, <1>8, <1>9 DEF Inv, TypeOK, Slots
  <1>. QED
    BY <1>5, <1>6, <1>7, <1>10 DEF Inv

LEMMA TaskEnds ==
    ASSUME Inv, NEW t \in Task, Ends(t)
    PROVE  Inv'
  <1>1. /\ vfs_close(resources[t])
        /\ resources' = [resources EXCEPT ![t] = <<>>]
        /\ held' = [held EXCEPT ![t] = {}]
        /\ UNCHANGED <<fd_table, ram, made, halted, orphaned>>
    BY DEF Ends
  <1>2. resources[t] \in Seq(Addr \cup {NULL})
    BY DEF Inv, TypeOK
  <1>3. live' = live \ {resources[t][i] : i \in DOMAIN resources[t]}
    BY <1>1 DEF vfs_close
  <1>4. OwnInv' /\ resources' \in Slots
    BY <1>1, <1>3, EndOwns DEF Inv
  <1>5. \A i \in DOMAIN resources[t] : resources[t][i] # NULL => resources[t][i] \in live
    BY DEF Inv, OwnInv
  <1>6. FatInv'
    BY <1>1, <1>2, <1>5, CloseKeepsFat DEF Inv
  <1>7. RamInv' /\ NodeInv'
    BY <1>1, <1>2, CloseKeepsRam DEF Inv, NodeInv, Capacity
  <1>8. /\ DOMAIN file' = Addr /\ \A a \in Addr : IsFile(file'[a])
        /\ fat' \in [Volume -> [Entry -> DirEntry \cup {NULL}]]
        /\ live' \subseteq live
    BY <1>1, <1>2, CloseIs DEF Inv
  <1>9. held' \in [Task -> SUBSET Nat]
    BY <1>1 DEF Inv, TypeOK
  <1>10. TypeOK'
    BY <1>1, <1>4, <1>8, <1>9 DEF Inv, TypeOK, Slots
  <1>. QED
    BY <1>4, <1>6, <1>7, <1>10 DEF Inv

LEMMA Delete ==
    ASSUME Inv, NEW t \in Task, NEW fd \in held[t], sys_delete(t, fd)
    PROVE  Inv'
  <1>. DEFINE a == fd_table[fd]
              gone == Found(0, file[a].name)
  <1>0. 0 \in Volume /\ NULL \notin DirEntry
    BY FilesAssumption DEF DirEntry
  <1>1. UNCHANGED <<fd_table, file, ram, made>>
    BY DEF sys_delete
  <1>2. a \in live /\ a \in Addr
    BY HeldIs DEF Inv
  <1>3. CASE file[a].kind = "ram"
    <2>1. UNCHANGED <<fat, live, resources, held, cut, orphaned>>
      BY <1>3 DEF sys_delete
    <2>. QED
      BY <1>1, <2>1 DEF Inv, TypeOK, OwnInv, FatInv, RamInv, NodeInv, Capacity
  <1>4. CASE file[a].kind # "ram"
    <2>1. /\ fat' = [fat EXCEPT ![0] = [e \in Entry |-> IF e \in gone THEN NULL ELSE @[e]]]
          /\ orphaned' = (orphaned \/ \E e \in gone : HandlesOf(fat[0][e].id) \ {a} # {})
          /\ cut' = (cut \cup UNION {HandlesOf(fat[0][e].id) : e \in gone}) \ {a}
          /\ live' = live \ {a}
          /\ resource_unregister_self(t, a)
          /\ held' = [held EXCEPT ![t] = @ \ {fd}]
      BY <1>4 DEF sys_delete
    <2>2. OwnInv' /\ resources' \in Slots
      BY <1>1, <2>1, CloseOwns DEF Inv
    <2>. HIDE DEF a, gone
    <2>3. \A e \in Entry : fat'[0][e] = IF e \in gone THEN NULL ELSE fat[0][e]
      BY <1>0, <2>1 DEF Inv, TypeOK
    <2>4. \A v \in Volume : v # 0 => fat'[v] = fat[v]
      BY <1>0, <2>1 DEF Inv, TypeOK
    <2>5. fat' \in [Volume -> [Entry -> DirEntry \cup {NULL}]]
      BY <1>0, <2>1 DEF Inv, TypeOK
    <2>6. TypeOK'
      <3>1. held' \in [Task -> SUBSET Nat]
        BY <2>1 DEF Inv, TypeOK
      <3>2. live' \subseteq Addr /\ orphaned' \in BOOLEAN
        BY <2>1 DEF Inv, TypeOK
      <3>. QED
        BY <1>1, <2>2, <2>5, <3>1, <3>2 DEF Inv, TypeOK, Slots
    <2>7. FatInv'
      <3>. SUFFICES ASSUME ~orphaned'
                    PROVE  /\ \A b \in live' : file'[b].kind = "fat" =>
                                  /\ fat'[file'[b].vol][file'[b].entry] # NULL
                                  /\ fat'[file'[b].vol][file'[b].entry].id = file'[b].id
                           /\ \A v \in Volume, e \in Entry :
                                  fat'[v][e] # NULL => fat'[v][e].by = fat'[v][e].id
        BY DEF FatInv
      <3>1. ~orphaned /\ \A e \in gone : HandlesOf(fat[0][e].id) \subseteq {a}
        BY <2>1
      <3>2. ASSUME NEW b \in live', file[b].kind = "fat"
            PROVE  /\ fat'[file[b].vol][file[b].entry] # NULL
                   /\ fat'[file[b].vol][file[b].entry].id = file[b].id
        <4>. DEFINE v == file[b].vol
                    e == file[b].entry
        <4>1. b \in live /\ b # a
          BY <2>1
        <4>2. file[b] \in FatFile
          BY <3>2, <4>1, KindIs DEF Inv, TypeOK
        <4>3. v \in Volume /\ e \in Entry
          BY <4>2 DEF FatFile
        <4>4. fat[v][e] # NULL /\ fat[v][e].id = file[b].id
          BY <3>1, <3>2, <4>1 DEF Inv, FatInv
        <4>. HIDE DEF v, e
        <4>5. ~ (v = 0 /\ e \in gone)
          <5>. SUFFICES ASSUME v = 0, e \in gone
                        PROVE  FALSE
            OBVIOUS
          <5>1. b \in HandlesOf(fat[0][e].id)
            BY <3>2, <4>1, <4>4 DEF HandlesOf
          <5>. QED
            BY <3>1, <4>1, <5>1
        <4>6. fat'[v][e] = fat[v][e]
          BY <2>3, <2>4, <4>3, <4>5
        <4>. QED
          BY <4>4, <4>6 DEF v, e
      <3>3. \A v \in Volume, e \in Entry : fat'[v][e] # NULL => fat'[v][e] = fat[v][e]
        BY <2>3, <2>4
      <3>4. \A v \in Volume, e \in Entry : fat'[v][e] # NULL => fat'[v][e].by = fat'[v][e].id
        BY <3>1, <3>3 DEF Inv, FatInv
      <3>. QED
        BY <1>1, <3>2, <3>4
    <2>8. RamInv' /\ NodeInv'
      BY <1>1, <2>1 DEF Inv, RamInv, NodeInv, Capacity
    <2>. QED
      BY <2>2, <2>6, <2>7, <2>8 DEF Inv
  <1>. QED
    BY <1>3, <1>4

\* A handle that only gets another size.
LEMMA Resized ==
    ASSUME Inv, NEW a \in live, file[a].kind = "ram", NEW size \in Nat,
           file' = [file EXCEPT ![a].size = size]
    PROVE  /\ DOMAIN file' = Addr /\ \A b \in Addr : IsFile(file'[b])
           /\ \A b \in live : b # a => file'[b] = file[b]
           /\ file'[a].kind = "ram" /\ file'[a].size = size /\ file'[a].name = file[a].name
  <1>1. a \in Addr /\ file[a] \in RamFile
    BY KindIs DEF Inv, TypeOK
  <1>. DEFINE f == [file[a] EXCEPT !.size = size]
  <1>2. f \in RamFile /\ f.kind = "ram" /\ f.size = size /\ f.name = file[a].name
    BY <1>1 DEF RamFile
  <1>3. DOMAIN file' = Addr /\ file'[a] = f /\ \A b \in Addr : b # a => file'[b] = file[b]
    BY <1>1 DEF Inv, TypeOK
  <1>. HIDE DEF f
  <1>4. \A b \in Addr : IsFile(file'[b])
    BY <1>2, <1>3 DEF Inv, TypeOK, IsFile
  <1>. QED
    BY <1>2, <1>3, <1>4 DEF Inv, TypeOK

\* A handle of a file on FAT that has changed the file.
LEMMA Modified ==
    ASSUME Inv, NEW a \in live, file[a].kind = "fat", NEW size \in Nat,
           file' = [file EXCEPT ![a].modified = TRUE, ![a].size = size],
           cut \subseteq cut',
           UNCHANGED <<fd_table, live, resources, held, ram, fat, made, orphaned>>
    PROVE  Inv'
  <1>1. a \in Addr /\ file[a] \in FatFile
    BY KindIs DEF Inv, TypeOK
  <1>. DEFINE f == [file[a] EXCEPT !.modified = TRUE, !.size = size]
  <1>2. /\ f \in FatFile /\ f.kind = "fat" /\ f.id = file[a].id
        /\ f.vol = file[a].vol /\ f.entry = file[a].entry
    BY <1>1 DEF FatFile
  <1>3. DOMAIN file' = Addr /\ file'[a] = f /\ \A b \in Addr : b # a => file'[b] = file[b]
    BY <1>1 DEF Inv, TypeOK
  <1>. HIDE DEF f
  <1>4. \A b \in Addr : IsFile(file'[b])
    BY <1>2, <1>3 DEF Inv, TypeOK, IsFile
  <1>5. live \subseteq Addr
    BY DEF Inv, TypeOK
  <1>6. TypeOK'
    BY <1>3, <1>4 DEF Inv, TypeOK
  <1>7. OwnInv' /\ NodeInv'
    BY DEF Inv, OwnInv, NodeInv, Capacity
  <1>8. FatInv'
    BY <1>2, <1>3, <1>5 DEF Inv, FatInv
  <1>9. RamInv'
    BY <1>2, <1>3, <1>5 DEF Inv, RamInv
  <1>. QED
    BY <1>6, <1>7, <1>8, <1>9 DEF Inv

LEMMA FatWrite ==
    ASSUME Inv, NEW t \in Task, NEW fd \in held[t], NEW last \in Nat, fatfs_write(fd, last)
    PROVE  Inv'
  <1>. DEFINE a == fd_table[fd]
              size == IF last > file[a].size THEN last ELSE file[a].size
  <1>1. a \in live /\ a \in Addr /\ file[a].kind = "fat" /\ file[a] \in FatFile
    BY HeldIs DEF Inv, fatfs_write
  <1>2. size \in Nat
    BY <1>1 DEF FatFile
  <1>3. file' = [file EXCEPT ![a].modified = TRUE, ![a].size = size]
    <2>1. file' = [file EXCEPT ![a].modified = TRUE, ![a].size = IF last > @ THEN last ELSE @]
      BY DEF fatfs_write
    <2>2. [file[a] EXCEPT !.modified = TRUE, !.size = IF last > @ THEN last ELSE @]
            = [file[a] EXCEPT !.modified = TRUE, !.size = size]
      BY <1>1 DEF FatFile
    <2>. QED
      BY <1>1, <2>1, <2>2 DEF Inv, TypeOK
  <1>. HIDE DEF a, size
  <1>. QED
    BY <1>1, <1>2, <1>3, Modified DEF fatfs_write

LEMMA FatTruncate ==
    ASSUME Inv, NEW t \in Task, NEW fd \in held[t], NEW size \in Nat, fatfs_truncate(fd, size)
    PROVE  Inv'
  <1>1. fd_table[fd] \in live
    BY HeldIs DEF Inv
  <1>. QED
    BY <1>1, Modified DEF fatfs_truncate

\* The size and the data of a file in RAM after ramfs_write.
WrittenSize(n, last) == IF last > ram[n].fsize THEN last ELSE ram[n].fsize

Grown(n, last) ==
    IF last > ram[n].fsize THEN vmm_resize(ram[n].fsize, last, ram[n].fdata) ELSE ram[n].fdata

Written(n, first, last, t) ==
    [i \in DOMAIN Grown(n, last) |-> IF i \in first .. last THEN t ELSE Grown(n, last)[i]]

LEMMA WrittenIs ==
    ASSUME TypeOK, NodeInv, NEW n \in RamName, ram[n] # NULL, NEW t \in Task,
           NEW last \in Nat \ {0}, NEW first \in 1 .. last
    PROVE  /\ WrittenSize(n, last) \in Nat
           /\ last <= WrittenSize(n, last) /\ ram[n].fsize <= WrittenSize(n, last)
           /\ Fits(Written(n, first, last, t), WrittenSize(n, last))
           /\ \A i \in first .. last : Written(n, first, last, t)[i] = t
           /\ \A i \in 1 .. ram[n].fsize :
                  i \notin first .. last => Written(n, first, last, t)[i] = ram[n].fdata[i]
  <1>. DEFINE old == ram[n].fsize
              size == WrittenSize(n, last)
              data == Grown(n, last)
              new == Written(n, first, last, t)
  <1>1. Fits(ram[n].fdata, old) /\ old \in Nat
    BY NodeIs DEF Fits
  <1>2. size \in Nat /\ last <= size /\ old <= size
    BY <1>1 DEF WrittenSize
  <1>3. Fits(data, size) /\ \A i \in 1 .. old : data[i] = ram[n].fdata[i]
    <2>1. CASE last > old
      <3>1. data = vmm_resize(old, last, ram[n].fdata) /\ size = last
        BY <2>1 DEF Grown, WrittenSize
      <3>2. \A i \in 1 .. old : i <= last
        BY <1>1, <2>1
      <3>. QED
        BY <1>1, <3>1, <3>2, ResizeIs
    <2>2. CASE ~ (last > old)
      <3>1. data = ram[n].fdata /\ size = old
        BY <2>2 DEF Grown, WrittenSize
      <3>. QED
        BY <1>1, <3>1
    <2>. QED
      BY <2>1, <2>2
  <1>. HIDE DEF data, size
  <1>4. Len(data) \in Nat /\ DOMAIN data = 1 .. Len(data) /\ size <= Len(data)
    BY <1>3, FitsIs
  <1>5. data \in Seq(Byte) /\ t \in Byte
    BY <1>3 DEF Fits, Byte
  <1>6. new = [i \in 1 .. Len(data) |-> IF i \in first .. last THEN t ELSE data[i]]
    BY <1>4 DEF Written, data
  <1>. HIDE DEF new
  <1>7. new \in [1 .. Len(data) -> Byte]
    BY <1>5, <1>6
  <1>8. new \in Seq(Byte) /\ Len(new) = Len(data)
    BY <1>4, <1>7
  <1>9. size # 0 /\ data # <<>> /\ new # <<>>
    <2>1. Len(data) > 0 /\ size # 0
      BY <1>2, <1>4
    <2>2. Len(<<>>) = 0
      OBVIOUS
    <2>. QED
      BY <1>8, <2>1, <2>2
  <1>10. Fits(new, size)
    BY <1>3, <1>8, <1>9 DEF Fits
  <1>11. \A i \in first .. last : new[i] = t
    BY <1>2, <1>4, <1>6
  <1>12. \A i \in 1 .. old : i \notin first .. last => new[i] = ram[n].fdata[i]
    BY <1>1, <1>2, <1>3, <1>4, <1>6
  <1>. QED
    BY <1>2, <1>10, <1>11, <1>12 DEF new, size

\* What ramfs_write and ramfs_truncate do to the file and to the handle.
LEMMA RamWriteIs ==
    ASSUME Inv, NEW t \in Task, NEW fd \in held[t], NEW last \in Nat \ {0}, NEW first \in 1 .. last,
           ramfs_write(t, fd, first, last)
    PROVE  \E a \in live, n \in RamName :
               /\ file[a].kind = "ram" /\ file[a].name = n /\ ram[n] # NULL
               /\ ram' = [ram EXCEPT ![n] = [fsize |-> WrittenSize(n, last),
                                             fdata |-> Written(n, first, last, t)]]
               /\ file' = [file EXCEPT ![a].size = WrittenSize(n, last)]
               /\ cut' = cut \ {a}
  <1>1. fd_table[fd] \in live /\ file[fd_table[fd]].kind = "ram" /\ file[fd_table[fd]] \in RamFile
    BY HeldIs DEF Inv, ramfs_write
  <1>2. file[fd_table[fd]].name \in RamName /\ ram[file[fd_table[fd]].name] # NULL
    BY <1>1 DEF Inv, RamInv, RamFile
  <1>. QED
    BY <1>1, <1>2 DEF ramfs_write, WrittenSize, Written, Grown

LEMMA RamTruncateIs ==
    ASSUME Inv, NEW t \in Task, NEW fd \in held[t], NEW size \in Nat, ramfs_truncate(fd, size)
    PROVE  \E a \in live, n \in RamName :
               /\ file[a].kind = "ram" /\ file[a].name = n /\ ram[n] # NULL
               /\ ram' = [ram EXCEPT ![n] = [fsize |-> size,
                                             fdata |-> vmm_resize(ram[n].fsize, size, ram[n].fdata)]]
               /\ file' = [file EXCEPT ![a].size = size]
               /\ cut' = (cut \cup {b \in Others(a) : file[b].size > size}) \ {a}
  <1>1. fd_table[fd] \in live /\ file[fd_table[fd]].kind = "ram" /\ file[fd_table[fd]] \in RamFile
    BY HeldIs DEF Inv, ramfs_truncate
  <1>2. file[fd_table[fd]].name \in RamName /\ ram[file[fd_table[fd]].name] # NULL
    BY <1>1 DEF Inv, RamInv, RamFile
  <1>3. ram' = [ram EXCEPT ![file[fd_table[fd]].name] =
                   [fsize |-> size, fdata |-> vmm_resize(ram[file[fd_table[fd]].name].fsize, size,
                                                         ram[file[fd_table[fd]].name].fdata)]]
    BY <1>2 DEF ramfs_truncate, Inv, TypeOK
  <1>. QED
    BY <1>1, <1>2, <1>3 DEF ramfs_truncate

\* A file in RAM and the handle through which it changed have the same new size;
\* the other handles that it leaves too long are recorded.
LEMMA RamChanges ==
    ASSUME Inv, NEW a \in live, NEW n \in RamName, file[a].kind = "ram", file[a].name = n,
           ram[n] # NULL,
           NEW data, NEW size, Fits(data, size),
           ram' = [ram EXCEPT ![n] = [fsize |-> size, fdata |-> data]],
           file' = [file EXCEPT ![a].size = size],
           \A b \in live : b # a => /\ b \in cut => b \in cut'
                                    /\ file[b].kind = "ram" /\ file[b].name = n /\ file[b].size > size
                                           => b \in cut',
           UNCHANGED <<fd_table, live, resources, held, fat, made, orphaned>>
    PROVE  Inv'
  <1>0. size \in Nat /\ live \subseteq Addr
    BY DEF Fits, Inv, TypeOK
  <1>1. /\ DOMAIN file' = Addr /\ \A b \in Addr : IsFile(file'[b])
        /\ \A b \in live : b # a => file'[b] = file[b]
        /\ file'[a].kind = "ram" /\ file'[a].size = size /\ file'[a].name = n
    BY <1>0, Resized
  <1>2. /\ NodeInv' /\ ram' \in [RamName -> Node \cup {NULL}]
        /\ ram'[n] # NULL /\ ram'[n].fsize = size
        /\ \A m \in RamName : m # n => ram'[m] = ram[m]
    BY NodeChanges DEF Inv
  <1>3. TypeOK'
    BY <1>1, <1>2 DEF Inv, TypeOK
  <1>4. OwnInv'
    BY DEF Inv, OwnInv
  <1>5. FatInv'
    BY <1>1 DEF Inv, FatInv
  <1>6. RamInv'
    <2>. SUFFICES ASSUME NEW b \in live, file'[b].kind = "ram"
                  PROVE  /\ ram'[file'[b].name] # NULL
                         /\ file'[b].size > ram'[file'[b].name].fsize => b \in cut'
      BY DEF RamInv
    <2>1. CASE b = a
      BY <1>0, <1>1, <1>2, <2>1
    <2>2. CASE b # a
      <3>1. file'[b] = file[b] /\ file[b].kind = "ram"
        BY <1>1, <2>2
      <3>2. file[b] \in RamFile
        BY <1>0, <3>1, KindIs DEF Inv, TypeOK
      <3>3. file[b].name \in RamName
        BY <3>2 DEF RamFile
      <3>4. /\ ram[file[b].name] # NULL
            /\ file[b].size > ram[file[b].name].fsize => b \in cut
        BY <3>1 DEF Inv, RamInv
      <3>5. CASE file[b].name = n
        BY <1>2, <2>2, <3>1, <3>5
      <3>6. CASE file[b].name # n
        BY <1>2, <2>2, <3>1, <3>3, <3>4, <3>6
      <3>. QED
        BY <3>5, <3>6
    <2>. QED
      BY <2>1, <2>2
  <1>. QED
    BY <1>2, <1>3, <1>4, <1>5, <1>6 DEF Inv

LEMMA RamWrite ==
    ASSUME Inv, NEW t \in Task, NEW fd \in held[t], NEW last \in Nat \ {0}, NEW first \in 1 .. last,
           ramfs_write(t, fd, first, last)
    PROVE  Inv'
  <1>1. PICK a \in live, n \in RamName :
               /\ file[a].kind = "ram" /\ file[a].name = n /\ ram[n] # NULL
               /\ ram' = [ram EXCEPT ![n] = [fsize |-> WrittenSize(n, last),
                                             fdata |-> Written(n, first, last, t)]]
               /\ file' = [file EXCEPT ![a].size = WrittenSize(n, last)]
               /\ cut' = cut \ {a}
    BY RamWriteIs
  <1>. DEFINE size == WrittenSize(n, last)
              data == Written(n, first, last, t)
  <1>2. size \in Nat /\ ram[n].fsize <= size /\ Fits(data, size) /\ ram[n].fsize \in Nat
    BY <1>1, WrittenIs, NodeIs DEF Inv, Fits
  <1>3. ram' = [ram EXCEPT ![n] = [fsize |-> size, fdata |-> data]] /\ file' = [file EXCEPT ![a].size = size]
    BY <1>1
  <1>. HIDE DEF size, data
  <1>4. ASSUME NEW b \in live, b # a, file[b].kind = "ram", file[b].name = n, file[b].size > size
        PROVE  b \in cut'
    <2>1. file[b] \in RamFile
      BY <1>4, KindIs DEF Inv, TypeOK
    <2>2. file[b].size \in Nat
      BY <2>1 DEF RamFile
    <2>3. file[b].size > ram[n].fsize
      BY <1>2, <1>4, <2>2
    <2>. QED
      BY <1>1, <1>4, <2>3 DEF Inv, RamInv
  <1>5. UNCHANGED <<fd_table, live, resources, held, fat, made, orphaned>>
    BY DEF ramfs_write
  <1>. QED
    BY <1>1, <1>2, <1>3, <1>4, <1>5, RamChanges

LEMMA RamTruncate ==
    ASSUME Inv, NEW t \in Task, NEW fd \in held[t], NEW size \in Nat, ramfs_truncate(fd, size)
    PROVE  Inv'
  <1>1. PICK a \in live, n \in RamName :
               /\ file[a].kind = "ram" /\ file[a].name = n /\ ram[n] # NULL
               /\ ram' = [ram EXCEPT ![n] = [fsize |-> size,
                                             fdata |-> vmm_resize(ram[n].fsize, size, ram[n].fdata)]]
               /\ file' = [file EXCEPT ![a].size = size]
               /\ cut' = (cut \cup {b \in Others(a) : file[b].size > size}) \ {a}
    BY RamTruncateIs
  <1>. DEFINE data == vmm_resize(ram[n].fsize, size, ram[n].fdata)
  <1>2. Fits(data, size)
    BY <1>1, NodeIs, ResizeIs DEF Inv
  <1>3. /\ file[a].kind = "ram" /\ file[a].name = n /\ ram[n] # NULL
        /\ ram' = [ram EXCEPT ![n] = [fsize |-> size, fdata |-> data]]
        /\ file' = [file EXCEPT ![a].size = size]
    BY <1>1
  <1>. HIDE DEF data
  <1>4. ASSUME NEW b \in live, b # a, file[b].kind = "ram", file[b].name = n, file[b].size > size
        PROVE  b \in cut'
    BY <1>1, <1>4 DEF Others
  <1>5. \A b \in live : b # a /\ b \in cut => b \in cut'
    BY <1>1
  <1>6. UNCHANGED <<fd_table, live, resources, held, fat, made, orphaned>>
    BY DEF ramfs_truncate
  <1>. QED
    BY <1>2, <1>3, <1>4, <1>5, <1>6, RamChanges

----------------------------------------------------------------------------
(* The theorems *)

LEMMA InvInit == Init => Inv
  <1>. SUFFICES ASSUME Init
                PROVE  Inv
    OBVIOUS
  <1>1. fd_table \in Seq(Addr) /\ live \subseteq Addr
    BY DEF Init
  <1>2. DOMAIN file = Addr /\ \A a \in Addr : IsFile(file[a])
    BY DEF Init, IsFile, NoFile
  <1>3. resources \in Slots /\ \A t \in Task : DOMAIN resources[t] = {}
    BY DEF Init, Slots
  <1>4. held \in [Task -> SUBSET Nat] /\ \A t \in Task : held[t] = {}
    BY DEF Init
  <1>5. ram \in [RamName -> Node \cup {NULL}] /\ \A n \in RamName : ram[n] = NULL
    BY DEF Init
  <1>6. /\ fat \in [Volume -> [Entry -> DirEntry \cup {NULL}]]
        /\ \A v \in Volume, e \in Entry : fat[v][e] = NULL
    BY DEF Init
  <1>7. made \in Nat /\ orphaned \in BOOLEAN
    BY DEF Init
  <1>8. TypeOK
    BY <1>1, <1>2, <1>3, <1>4, <1>5, <1>6, <1>7 DEF TypeOK, Slots
  <1>9. live = {}
    BY DEF Init
  <1>. QED
    BY <1>3, <1>4, <1>5, <1>6, <1>8, <1>9 DEF Inv, OwnInv, FatInv, RamInv, NodeInv

LEMMA InvNext == Inv /\ [Next]_vars => Inv'
  <1>. SUFFICES ASSUME Inv, [Next]_vars
                PROVE  Inv'
    OBVIOUS
  <1>1. CASE Touch
    BY <1>1, RamTouch, FatTouch DEF Touch
  <1>2. ASSUME NEW t \in Task, NEW n \in RamName, ramfs_open(t, n)
        PROVE  Inv'
    BY <1>2, RamOpen
  <1>3. ASSUME NEW t \in Task, NEW v \in Volume, NEW n \in FatName, fatfs_open(t, v, n)
        PROVE  Inv'
    BY <1>3, FatOpen
  <1>4. ASSUME NEW t \in Task, NEW fd \in held[t], Use(t, fd)
        PROVE  Inv'
    <2>1. CASE sys_close(t, fd)
      BY <2>1, Close
    <2>2. CASE sys_delete(t, fd)
      BY <2>2, Delete
    <2>3. CASE sys_read(t, fd)
      BY <2>3, TaskEnds DEF sys_read
    <2>4. ASSUME NEW size \in 0 .. MaxSize, ramfs_truncate(fd, size)
          PROVE  Inv'
      BY <2>4, RamTruncate
    <2>5. ASSUME NEW last \in 1 .. MaxSize, NEW first \in 1 .. last, ramfs_write(t, fd, first, last)
          PROVE  Inv'
      <3>1. last \in Nat \ {0}
        OBVIOUS
      <3>. QED
        BY <2>5, <3>1, RamWrite
    <2>6. ASSUME NEW size \in 0 .. MaxFat, fatfs_truncate(fd, size)
          PROVE  Inv'
      BY <2>6, FatTruncate
    <2>7. ASSUME NEW last \in 1 .. MaxFat, fatfs_write(fd, last)
          PROVE  Inv'
      BY <2>7, FatWrite
    <2>. QED
      BY <1>4, <2>1, <2>2, <2>3, <2>4, <2>5, <2>6, <2>7 DEF Use
  <1>5. ASSUME NEW t \in Task, exit_task(t)
        PROVE  Inv'
    BY <1>5, TaskEnds DEF exit_task
  <1>6. CASE UNCHANGED vars
    BY <1>6 DEF vars, Inv, TypeOK, OwnInv, FatInv, RamInv, NodeInv, Capacity
  <1>. QED
    BY <1>1, <1>2, <1>3, <1>4, <1>5, <1>6 DEF Next

LEMMA FilesInvariant == Spec => []Inv
  BY InvInit, InvNext, PTL DEF Spec

\* Every open file is registered once, by one task, and programs hold no
\* descriptor of a file that close, delete or the end of a task has freed, for
\* any number of tasks, pages and files opened.
THEOREM FilesHaveOneOwner == Spec => []OpenFilesHaveOneOwner
  <1>1. Inv => OpenFilesHaveOneOwner
    <2>. SUFFICES ASSUME Inv
                  PROVE  OpenFilesHaveOneOwner
      OBVIOUS
    <2>0. NULL \notin Addr
      BY FilesAssumption
    <2>1. ASSUME NEW a \in Addr
          PROVE  Cardinality(Owners(a)) = IF a \in live THEN 1 ELSE 0
      <3>1. CASE a \in live
        <4>1. PICK t \in Task : \E i \in DOMAIN resources[t] : resources[t][i] = a
          BY <3>1 DEF Inv, OwnInv
        <4>2. PICK i \in DOMAIN resources[t] : resources[t][i] = a
          BY <4>1
        <4>3. \A u \in Task : \A j \in DOMAIN resources[u] : resources[u][j] = a => u = t /\ j = i
          BY <2>0, <4>2 DEF Inv, OwnInv
        <4>4. Owners(a) = {<<t, i>>}
          BY <4>2, <4>3 DEF Owners
        <4>. QED
          BY <3>1, <4>4, FS_Singleton
      <3>2. CASE a \notin live
        <4>1. \A u \in Task : \A j \in DOMAIN resources[u] : resources[u][j] # a
          BY <2>0, <3>2 DEF Inv, OwnInv
        <4>2. Owners(a) = {}
          BY <4>1 DEF Owners
        <4>. QED
          BY <3>2, <4>2, FS_EmptySet
      <3>. QED
        BY <3>1, <3>2
    <2>2. \A t \in Task : \A fd \in held[t] : \E i \in DOMAIN resources[t] : resources[t][i] = fd_table[fd]
      BY DEF Inv, OwnInv
    <2>. QED
      BY <2>1, <2>2 DEF OpenFilesHaveOneOwner
  <1>. QED
    BY <1>1, FilesInvariant, PTL

\* A handle of a file in RAM reports more than the file has only if another
\* handle has cut it.
THEOREM FilesStaleMeansCut == Spec => []StaleMeansCut
  <1>1. Inv => StaleMeansCut
    BY HeldIs DEF Inv, RamInv, StaleMeansCut
  <1>. QED
    BY <1>1, FilesInvariant, PTL

\* A directory entry gets its size only from handles of its own file, whatever
\* the order of closing, killing, deleting and making files, as long as no file
\* is deleted under another handle.
THEOREM FilesEntriesAreOwn == Spec => []EntriesAreOwn
  <1>1. Inv => EntriesAreOwn
    BY DEF Inv, FatInv, EntriesAreOwn
  <1>. QED
    BY <1>1, FilesInvariant, PTL

----------------------------------------------------------------------------
(* The RAM file system is a store of files *)

LEMMA BytesAre ==
    ASSUME NEW data, NEW size, Fits(data, size)
    PROVE  /\ SubSeq(data, 1, size) \in Seq(Byte)
           /\ Len(SubSeq(data, 1, size)) = size
           /\ DOMAIN SubSeq(data, 1, size) = 1 .. size
           /\ \A i \in 1 .. size : SubSeq(data, 1, size)[i] = data[i]
           /\ SubSeq(data, 1, size) # NULL
  <1>1. /\ Len(data) \in Nat /\ DOMAIN data = 1 .. Len(data) /\ size <= Len(data)
        /\ size \in Nat /\ data \in Seq(Byte)
    BY FitsIs DEF Fits
  <1>2. \A i \in 1 .. size : data[i] \in Byte
    BY <1>1
  <1>3. /\ SubSeq(data, 1, size) \in Seq(Byte)
        /\ Len(SubSeq(data, 1, size)) = IF 1 <= size THEN size - 1 + 1 ELSE 0
        /\ \A i \in 1 .. size - 1 + 1 : SubSeq(data, 1, size)[i] = data[1 + i - 1]
    BY <1>1, <1>2, SubSeqProperties
  <1>. HIDE DEF Byte
  <1>4. Len(SubSeq(data, 1, size)) = size /\ \A i \in 1 .. size : SubSeq(data, 1, size)[i] = data[i]
    BY <1>1, <1>3
  <1>5. DOMAIN SubSeq(data, 1, size) = 1 .. size
    BY <1>3, <1>4
  <1>6. SubSeq(data, 1, size) # NULL
    BY <1>3, FilesAssumption DEF Byte
  <1>. QED
    BY <1>3, <1>4, <1>5, <1>6

\* The bytes of all files.
Contents == [n \in RamName |-> Bytes(n)]

LEMMA ContentsAre ==
    ASSUME TypeOK, NodeInv, NEW n \in RamName
    PROVE  /\ ram[n] = NULL => Contents[n] = NULL
           /\ ram[n] # NULL =>
                  /\ Contents[n] # NULL
                  /\ Len(Contents[n]) = ram[n].fsize /\ DOMAIN Contents[n] = 1 .. ram[n].fsize
                  /\ \A i \in 1 .. ram[n].fsize : Contents[n][i] = ram[n].fdata[i]
  BY NodeIs, BytesAre DEF Contents, Bytes

\* One file gets another content.
LEMMA ContentsChange ==
    ASSUME TypeOK, NodeInv, NEW n \in RamName, NEW data, NEW size, Fits(data, size),
           ram' = [ram EXCEPT ![n] = [fsize |-> size, fdata |-> data]]
    PROVE  /\ Contents' = [Contents EXCEPT ![n] = Contents'[n]]
           /\ Contents'[n] = SubSeq(data, 1, size)
  <1>1. /\ ram'[n] = [fsize |-> size, fdata |-> data] /\ ram'[n] # NULL
        /\ \A m \in RamName : m # n => ram'[m] = ram[m]
    BY NodeChanges
  <1>2. Contents' = [m \in RamName |-> IF ram'[m] = NULL THEN NULL
                                       ELSE SubSeq(ram'[m].fdata, 1, ram'[m].fsize)]
    BY DEF Contents, Bytes
  <1>3. Contents = [m \in RamName |-> IF ram[m] = NULL THEN NULL
                                      ELSE SubSeq(ram[m].fdata, 1, ram[m].fsize)]
    BY DEF Contents, Bytes
  <1>4. Contents'[n] = SubSeq(data, 1, size)
    <2>1. ram'[n].fdata = data /\ ram'[n].fsize = size
      BY <1>1
    <2>2. Contents'[n] = SubSeq(ram'[n].fdata, 1, ram'[n].fsize)
      BY <1>1, <1>2
    <2>. QED
      BY <2>1, <2>2
  <1>5. \A m \in RamName : m # n => Contents'[m] = Contents[m]
    BY <1>1, <1>2, <1>3
  <1>6. DOMAIN Contents = RamName /\ DOMAIN Contents' = RamName
    BY <1>2, <1>3
  <1>7. /\ Contents = [m \in RamName |-> Contents[m]]
        /\ Contents' = [m \in RamName |-> Contents'[m]]
    BY <1>2, <1>3
  <1>. HIDE DEF Contents
  <1>8. Contents' = [Contents EXCEPT ![n] = Contents'[n]]
    BY <1>5, <1>6, <1>7
  <1>. QED
    BY <1>4, <1>8

LEMMA ContentsBecome ==
    ASSUME TypeOK, NodeInv, NEW n \in RamName, NEW data, NEW size, Fits(data, size),
           ram' = [ram EXCEPT ![n] = [fsize |-> size, fdata |-> data]]
    PROVE  /\ Contents' = [Contents EXCEPT ![n] = Contents'[n]]
           /\ Len(Contents'[n]) = size /\ DOMAIN Contents'[n] = 1 .. size
           /\ \A i \in 1 .. size : Contents'[n][i] = data[i]
           /\ Contents'[n] # NULL
  <1>. DEFINE b == SubSeq(data, 1, size)
  <1>1. Len(b) = size /\ DOMAIN b = 1 .. size /\ (\A i \in 1 .. size : b[i] = data[i]) /\ b # NULL
    BY BytesAre
  <1>2. Contents' = [Contents EXCEPT ![n] = Contents'[n]] /\ Contents'[n] = b
    BY ContentsChange
  <1>. HIDE DEF b, Contents
  <1>. QED
    BY <1>1, <1>2

LEMMA StoreCreate ==
    ASSUME Inv, NEW n \in RamName, ramfs_touch(n)
    PROVE  Store!Next \/ Contents' = Contents
  <1>1. CASE ram[n] # NULL
    <2>1. ram' = ram
      BY <1>1 DEF ramfs_touch, Inv, TypeOK
    <2>. QED
      BY <2>1 DEF Contents, Bytes
  <1>2. CASE ram[n] = NULL
    <2>1. ram' = [ram EXCEPT ![n] = [fsize |-> 0, fdata |-> <<>>]]
      BY <1>2 DEF ramfs_touch
    <2>2. Fits(<<>>, 0)
      BY DEF Fits
    <2>3. /\ Contents' = [Contents EXCEPT ![n] = Contents'[n]]
          /\ Contents'[n] = SubSeq(<<>>, 1, 0)
      BY <2>1, <2>2, ContentsChange DEF Inv
    <2>4. SubSeq(<<>>, 1, 0) = <<>>
      BY SubSeqEmpty
    <2>5. Contents[n] = NULL
      BY <1>2, ContentsAre DEF Inv
    <2>6. Contents' = [Contents EXCEPT ![n] = <<>>]
      BY <2>3, <2>4
    <2>7. Store!Create(n)
      BY <2>5, <2>6 DEF Store!Create, Contents
    <2>. QED
      BY <2>7 DEF Store!Next
  <1>. QED
    BY <1>1, <1>2

LEMMA StoreWrite ==
    ASSUME Inv, NEW t \in Task, NEW fd \in held[t], NEW last \in Nat \ {0}, NEW first \in 1 .. last,
           ramfs_write(t, fd, first, last)
    PROVE  Store!Next
  <1>1. PICK a \in live, n \in RamName :
               /\ ram[n] # NULL
               /\ ram' = [ram EXCEPT ![n] = [fsize |-> WrittenSize(n, last),
                                             fdata |-> Written(n, first, last, t)]]
    BY RamWriteIs
  <1>. DEFINE old == ram[n].fsize
              size == WrittenSize(n, last)
              data == Written(n, first, last, t)
  <1>2. /\ size \in Nat /\ last <= size /\ old <= size /\ Fits(data, size)
        /\ \A i \in first .. last : data[i] = t
        /\ \A i \in 1 .. old : i \notin first .. last => data[i] = ram[n].fdata[i]
    BY <1>1, WrittenIs DEF Inv
  <1>3. old \in Nat /\ size = IF last > old THEN last ELSE old
    BY <1>1, NodeIs DEF Inv, Fits, WrittenSize
  <1>4. /\ Contents' = [Contents EXCEPT ![n] = Contents'[n]]
        /\ Len(Contents'[n]) = size /\ DOMAIN Contents'[n] = 1 .. size
        /\ \A i \in 1 .. size : Contents'[n][i] = data[i]
        /\ Contents'[n] # NULL
    <2>1. ram' = [ram EXCEPT ![n] = [fsize |-> size, fdata |-> data]]
      BY <1>1
    <2>. HIDE DEF size, data
    <2>. QED
      BY <1>2, <2>1, ContentsBecome DEF Inv
  <1>. HIDE DEF size, data
  <1>5. /\ Contents[n] # NULL /\ Len(Contents[n]) = old /\ DOMAIN Contents[n] = 1 .. old
        /\ \A i \in 1 .. old : Contents[n][i] = ram[n].fdata[i]
    BY <1>1, ContentsAre DEF Inv
  <1>. HIDE DEF old
  <1>6. /\ Len(Contents'[n]) = IF last > Len(Contents[n]) THEN last ELSE Len(Contents[n])
        /\ \A i \in first .. last : Contents'[n][i] = t
        /\ \A i \in DOMAIN Contents[n] \cap DOMAIN Contents'[n] :
               i \in first .. last \/ Contents'[n][i] = Contents[n][i]
    <2>1. \A i \in first .. last : i \in 1 .. size
      BY <1>2
    <2>2. \A i \in DOMAIN Contents[n] : i \in 1 .. old /\ i \in 1 .. size
      BY <1>2, <1>3, <1>5
    <2>3. \A i \in 1 .. old : i \notin first .. last => data[i] = ram[n].fdata[i]
      BY <1>2 DEF old
    <2>. QED
      BY <1>2, <1>3, <1>4, <1>5, <2>1, <2>2, <2>3
  <1>7. last \in 1 .. Len(Contents'[n])
    BY <1>2, <1>4
  <1>8. Store!Write(n, first, last, t)
    BY <1>6 DEF Store!Write, Store!KeptOutside, Contents
  <1>9. \E l \in 1 .. Len(Contents'[n]) : \E f \in 1 .. l, v \in Task : Store!Write(n, f, l, v)
    BY <1>7, <1>8
  <1>. QED
    BY <1>4, <1>5, <1>9 DEF Store!Next, Contents

LEMMA StoreTruncate ==
    ASSUME Inv, NEW t \in Task, NEW fd \in held[t], NEW size \in Nat, ramfs_truncate(fd, size)
    PROVE  Store!Next
  <1>1. PICK a \in live, n \in RamName :
               /\ ram[n] # NULL
               /\ ram' = [ram EXCEPT ![n] = [fsize |-> size,
                                             fdata |-> vmm_resize(ram[n].fsize, size, ram[n].fdata)]]
    BY RamTruncateIs
  <1>. DEFINE old == ram[n].fsize
              data == vmm_resize(old, size, ram[n].fdata)
  <1>2. /\ Fits(data, size) /\ old \in Nat
        /\ \A i \in 1 .. old : i <= size => data[i] = ram[n].fdata[i]
    <2>1. Fits(ram[n].fdata, old)
      BY <1>1, NodeIs DEF Inv
    <2>2. old \in Nat
      BY <2>1 DEF Fits
    <2>. QED
      BY <2>1, <2>2, ResizeIs
  <1>3. /\ Contents' = [Contents EXCEPT ![n] = Contents'[n]]
        /\ Len(Contents'[n]) = size /\ DOMAIN Contents'[n] = 1 .. size
        /\ \A i \in 1 .. size : Contents'[n][i] = data[i]
        /\ Contents'[n] # NULL
    <2>1. ram' = [ram EXCEPT ![n] = [fsize |-> size, fdata |-> data]]
      BY <1>1
    <2>. HIDE DEF data
    <2>. QED
      BY <1>2, <2>1, ContentsBecome DEF Inv
  <1>. HIDE DEF data
  <1>4. /\ Contents[n] # NULL /\ Len(Contents[n]) = old /\ DOMAIN Contents[n] = 1 .. old
        /\ \A i \in 1 .. old : Contents[n][i] = ram[n].fdata[i]
    BY <1>1, ContentsAre DEF Inv
  <1>5. \A i \in DOMAIN Contents[n] \cap DOMAIN Contents'[n] : Contents'[n][i] = Contents[n][i]
    BY <1>2, <1>3, <1>4
  <1>6. Store!Truncate(n)
    BY <1>5 DEF Store!Truncate, Store!KeptOutside, Contents
  <1>. QED
    BY <1>3, <1>4, <1>6 DEF Store!Next, Contents

LEMMA StoreNext == Inv /\ [Next]_vars => [Store!Next]_Contents
  <1>. SUFFICES ASSUME Inv, [Next]_vars
                PROVE  Store!Next \/ Contents' = Contents
    OBVIOUS
  <1>0. ram' = ram => Contents' = Contents
    BY DEF Contents, Bytes
  <1>. HIDE DEF Contents
  <1>1. ASSUME NEW n \in RamName, ramfs_touch(n)
        PROVE  Store!Next \/ Contents' = Contents
    BY <1>1, StoreCreate
  <1>2. ASSUME NEW v \in Volume, NEW n \in FatName, fatfs_touch(v, n)
        PROVE  ram' = ram
    BY <1>2 DEF fatfs_touch
  <1>3. ASSUME NEW t \in Task, NEW f, sys_open(t, f)
        PROVE  ram' = ram
    BY <1>3 DEF sys_open
  <1>4. ASSUME NEW t \in Task, NEW fd \in held[t], Use(t, fd)
        PROVE  Store!Next \/ ram' = ram
    <2>1. CASE sys_close(t, fd) \/ sys_delete(t, fd) \/ sys_read(t, fd)
      BY <2>1 DEF sys_close, sys_delete, sys_read, Ends
    <2>2. ASSUME NEW size \in 0 .. MaxSize, ramfs_truncate(fd, size)
          PROVE  Store!Next
      BY <2>2, StoreTruncate
    <2>3. ASSUME NEW last \in 1 .. MaxSize, NEW first \in 1 .. last, ramfs_write(t, fd, first, last)
          PROVE  Store!Next
      <3>1. last \in Nat \ {0}
        OBVIOUS
      <3>. QED
        BY <2>3, <3>1, StoreWrite
    <2>4. ASSUME NEW size \in 0 .. MaxFat, fatfs_truncate(fd, size)
          PROVE  ram' = ram
      BY <2>4 DEF fatfs_truncate
    <2>5. ASSUME NEW last \in 1 .. MaxFat, fatfs_write(fd, last)
          PROVE  ram' = ram
      BY <2>5 DEF fatfs_write
    <2>. QED
      BY <1>4, <2>1, <2>2, <2>3, <2>4, <2>5 DEF Use
  <1>5. ASSUME NEW t \in Task, exit_task(t)
        PROVE  ram' = ram
    BY <1>5 DEF exit_task, Ends
  <1>6. CASE UNCHANGED vars
    BY <1>0, <1>6 DEF vars
  <1>. QED
    BY <1>0, <1>1, <1>2, <1>3, <1>4, <1>5, <1>6 DEF Next, Touch, ramfs_open, fatfs_open

\* The RAM file system implements the store of files, for files and pages of
\* every size and any number of handles: growing and cutting a file loses and
\* changes no byte that was written and is still inside.
THEOREM FilesBytesAreKept == Spec => BytesAreKept
  <1>1. Init => Store!Init
    BY DEF Init, Store!Init, Bytes
  <1>2. Inv /\ [Next]_vars => [Store!Next]_[n \in RamName |-> Bytes(n)]
    BY StoreNext DEF Contents
  <1>. QED
    BY <1>1, <1>2, FilesInvariant, PTL DEF Spec, BytesAreKept, Store!Spec

=============================================================================
