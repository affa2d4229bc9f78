-------------------------- MODULE Fat32StoreProofs --------------------------
(***************************************************************************)
(* The driver implements FileStore, for every size of the volume and of    *)
(* the tables: what a caller who keeps to the interface is promised, a     *)
(* tree of named files and directories, is what the tables and chains on   *)
(* the disk amount to, call by call.                                       *)
(***************************************************************************)
EXTENDS Fat32Store, Fat32RootProofs

(***************************************************************************)
(* The mapping as a function of a volume, so that it can be said of the    *)
(* volume before a call and of the one after it.                           *)
(***************************************************************************)
ContentAt(f, dk, c) ==
  LET lengths == ChainLengths(f, c)
  IN  Content(dk, f, c,
              IF lengths = {} THEN 0 ELSE CHOOSE k \in lengths : TRUE)

ObjectAt(f, dk, entry) ==
  IF entry.attr = "dir"
    THEN [kind |-> "folder", handle |-> entry.cluster]
    ELSE [kind |-> "file", content |-> ContentAt(f, dk, entry.cluster)]

KidsAt(f, dk, t) ==
  [key \in Listing(t) |-> ObjectAt(f, dk, t[CHOOSE s \in Children(t) : KeyOf(t[s]) = key])]

DirectoryAt(f, dk, t) == [self |-> KeyOf(t[SelfSlot]), kids |-> KidsAt(f, dk, t)]

TreeAt(f, dk, ds) == [d \in ds |-> DirectoryAt(f, dk, dk[d])]

LEMMA TreeIs ==
  /\ TreeOnDisk = TreeAt(fat, disk, dirs)
  /\ TreeOnDisk' = TreeAt(fat', disk', dirs')
BY DEF TreeOnDisk, TreeAt, DirectoryOf, DirectoryAt, KidsAt, ObjectOf, ObjectAt,
       ContentOf, ContentAt

(***************************************************************************)
(* What the tables of a tree have to be besides: no key is used twice in   *)
(* one, a directory's own included, and no entry for an object carries the *)
(* mark at which delete() gives up.                                        *)
(***************************************************************************)
Keyed(t) ==
  \A r, s \in Slots : t[r].name # NoName /\ KeyOf(t[r]) = KeyOf(t[s]) => r = s

Unmarked(t) == \A s \in ChildSlots : ~ t[s].notEmpty

Tidy == Orderly /\ \A d \in dirs : Keyed(disk[d]) /\ Unmarked(disk[d])

\* The children of a directory are its entries, each under its key.
LEMMA KidsOf ==
  ASSUME NEW f, NEW dk, NEW t, Keyed(t)
  PROVE  /\ DOMAIN KidsAt(f, dk, t) = Listing(t)
         /\ \A s \in Children(t) : /\ KeyOf(t[s]) \in Listing(t)
                                   /\ KidsAt(f, dk, t)[KeyOf(t[s])] = ObjectAt(f, dk, t[s])
         /\ \A key \in Listing(t) : \E s \in Children(t) : key = KeyOf(t[s])
<1>1. \A key \in Listing(t) : \E s \in Children(t) : key = KeyOf(t[s])
  BY DEF Listing, KeyOf
<1>2. ASSUME NEW s \in Children(t)
      PROVE  /\ KeyOf(t[s]) \in Listing(t)
             /\ KidsAt(f, dk, t)[KeyOf(t[s])] = ObjectAt(f, dk, t[s])
  <2>1. KeyOf(t[s]) \in Listing(t)
    BY DEF Listing, KeyOf
  <2>2. \A r \in Children(t) : KeyOf(t[r]) = KeyOf(t[s]) => r = s
    BY SlotNumbers DEF Keyed, Children
  <2>3. (CHOOSE r \in Children(t) : KeyOf(t[r]) = KeyOf(t[s])) = s
    BY <2>2
  <2>. QED BY <2>1, <2>3 DEF KidsAt
<1>. QED BY <1>1, <1>2 DEF KidsAt

\* A directory is known by its children and its own key.
LEMMA KidsAre ==
  ASSUME NEW f, NEW dk, NEW t, Keyed(t),
         NEW kids, kids = [key \in DOMAIN kids |-> kids[key]],
         DOMAIN kids = Listing(t),
         \A s \in Children(t) : kids[KeyOf(t[s])] = ObjectAt(f, dk, t[s])
  PROVE  KidsAt(f, dk, t) = kids
<1>1. \A key \in Listing(t) : KidsAt(f, dk, t)[key] = kids[key]
  BY KidsOf
<1>2. KidsAt(f, dk, t) = [key \in Listing(t) |-> KidsAt(f, dk, t)[key]]
  BY DEF KidsAt
<1>. QED BY <1>1, <1>2

(***************************************************************************)
(* Objects.                                                                *)
(***************************************************************************)
LEMMA WholeContent ==
  ASSUME NEW f, NEW dk, NEW n, NEW c, FileAt(f, dk, c, n)
  PROVE  /\ n \in 1 .. ClusterMapSize
         /\ ContentAt(f, dk, c) = Content(dk, f, c, n)
         /\ \E d \in Datas : /\ ContentAt(f, dk, c) = Stored(d, n)
                             /\ Begins(dk[c], d)
<1>1. (CHOOSE k \in {n} : TRUE) = n
  OBVIOUS
<1>. QED BY <1>1, StoredContent DEF ContentAt

\* A directory of a volume, one level down.
LEMMA FolderOf ==
  ASSUME NEW f, NEW dk, NEW ds, Volume(f, dk, ds),
         NEW d \in ds, NEW s \in ChildSlots, dk[d][s].attr = "dir"
  PROVE  dk[d][s].cluster \in ds
BY BelowIs DEF Volume, Tree, Closed

\* An object is the same when its entry is, and its clusters are.
LEMMA ObjectKept ==
  ASSUME NEW f, NEW dk, NEW ds, Volume(f, dk, ds),
         NEW f2, NEW dk2, NEW ds2, Volume(f2, dk2, ds2),
         \A c \in DataClusters : f[c] \in DataClusters => dk2[c] = dk[c],
         NEW d \in ds, d \in ds2, NEW s \in Children(dk[d]), dk2[d][s] = dk[d][s]
  PROVE  ObjectAt(f2, dk2, dk[d][s]) = ObjectAt(f, dk, dk[d][s])
<1>1. s \in ChildSlots /\ dk[d][s].name # NoName
  BY DEF Children
<1>2. CASE dk[d][s].attr = "dir"
  BY <1>2 DEF ObjectAt
<1>3. CASE dk[d][s].attr # "dir"
  <2>1. dk[d][s].attr = "file"
    BY <1>1, <1>3 DEF Volume, Tables
  <2>2. PICK entry, n, c : entry = dk[d][s] /\ n = entry.size /\ c = entry.cluster
    OBVIOUS
  <2>3. /\ c \in DataClusters /\ f[c] \in DataClusters
        /\ FileAt(f, dk, c, n)
    BY <1>1, <2>1, <2>2, FileOf
  <2>4. FileAt(f2, dk2, c, n)
    <3>1. d \in ds2 /\ dk2[d][s].attr = "file" /\ dk2[d][s] = entry
      BY <2>1, <2>2
    <3>2. FileAt(f2, dk2, dk2[d][s].cluster, dk2[d][s].size)
      BY <1>1, <3>1, FileOf
    <3>. QED BY <2>2, <3>1, <3>2
  <2>5. dk2[c] = dk[c]
    BY <2>3
  <2>6. PICK x \in Datas : /\ ContentAt(f, dk, c) = Stored(x, n)
                           /\ Begins(dk[c], x)
    BY <2>3, WholeContent
  <2>7. PICK y \in Datas : /\ ContentAt(f2, dk2, c) = Stored(y, n)
                           /\ Begins(dk2[c], y)
    BY <2>4, WholeContent
  <2>8. x = y
    BY <2>5, <2>6, <2>7 DEF Begins
  <2>. QED BY <1>3, <2>2, <2>6, <2>7, <2>8 DEF ObjectAt
<1>. QED BY <1>2, <1>3

\* So is a directory whose table is.
LEMMA DirectoryKept ==
  ASSUME NEW f, NEW dk, NEW ds, Volume(f, dk, ds),
         NEW f2, NEW dk2, NEW ds2, Volume(f2, dk2, ds2),
         \A c \in DataClusters : f[c] \in DataClusters => dk2[c] = dk[c],
         NEW d \in ds, d \in ds2, dk2[d] = dk[d], Keyed(dk[d])
  PROVE  DirectoryAt(f2, dk2, dk2[d]) = DirectoryAt(f, dk, dk[d])
<1>1. PICK t : t = dk[d]
  OBVIOUS
<1>2. PICK kids : kids = KidsAt(f2, dk2, t)
  OBVIOUS
<1>3. kids = [key \in DOMAIN kids |-> kids[key]] /\ DOMAIN kids = Listing(t)
  BY <1>2 DEF KidsAt
<1>4. \A s \in Children(t) : kids[KeyOf(t[s])] = ObjectAt(f2, dk2, t[s])
  BY <1>1, <1>2, KidsOf
<1>5. \A s \in Children(t) : ObjectAt(f2, dk2, t[s]) = ObjectAt(f, dk, t[s])
  BY <1>1, ObjectKept
<1>6. KidsAt(f, dk, t) = kids
  BY <1>1, <1>3, <1>4, <1>5, KidsAre
<1>. QED BY <1>1, <1>2, <1>6 DEF DirectoryAt

\* Of two versions of a table, the second has an entry more.
LEMMA KidsPut ==
  ASSUME NEW f, NEW dk, NEW ds, Volume(f, dk, ds),
         NEW f2, NEW dk2, NEW ds2, Volume(f2, dk2, ds2),
         \A c \in DataClusters : f[c] \in DataClusters => dk2[c] = dk[c],
         NEW p \in ds, p \in ds2, Keyed(dk[p]), Keyed(dk2[p]),
         NEW s \in ChildSlots, dk[p][s].name = NoName, dk2[p][s].name # NoName,
         \A r \in ChildSlots : r # s => dk2[p][r] = dk[p][r],
         NEW key, key = KeyOf(dk2[p][s]), NEW object, object = ObjectAt(f2, dk2, dk2[p][s])
  PROVE  KidsAt(f2, dk2, dk2[p]) = Store!Put(KidsAt(f, dk, dk[p]), key, object)
<1>1. PICK old, new : old = dk[p] /\ new = dk2[p]
  OBVIOUS
<1>2. PICK kids : kids = Store!Put(KidsAt(f, dk, old), key, object)
  OBVIOUS
<1>3. /\ DOMAIN kids = Listing(old) \cup {key} /\ kids = [k \in DOMAIN kids |-> kids[k]]
      /\ kids[key] = object
      /\ \A k \in Listing(old) : k # key => kids[k] = KidsAt(f, dk, old)[k]
  BY <1>1, <1>2, KidsOf DEF Store!Put
<1>4. /\ s \in Children(new) /\ s \notin Children(old)
      /\ Children(new) = Children(old) \cup {s}
      /\ \A r \in Children(old) : r # s /\ new[r] = old[r]
  BY <1>1 DEF Children
<1>5. Listing(new) = Listing(old) \cup {key}
  <2>1. \A t : Listing(t) = {KeyOf(t[r]) : r \in Children(t)}
    BY DEF Listing, KeyOf
  <2>. QED BY <1>1, <1>4, <2>1
<1>6. ASSUME NEW r \in Children(new)
      PROVE  kids[KeyOf(new[r])] = ObjectAt(f2, dk2, new[r])
  <2>1. CASE r = s
    BY <1>1, <1>3, <2>1
  <2>2. CASE r # s
    <3>1. r \in Children(old) /\ new[r] = old[r]
      BY <1>4, <2>2
    <3>2. KeyOf(old[r]) \in Listing(old)
          /\ KidsAt(f, dk, old)[KeyOf(old[r])] = ObjectAt(f, dk, old[r])
      BY <1>1, <3>1, KidsOf
    <3>3. KeyOf(old[r]) # key
      BY <1>1, <1>4, <2>2, <3>1, SlotNumbers DEF Keyed, Children
    <3>4. ObjectAt(f2, dk2, old[r]) = ObjectAt(f, dk, old[r])
      BY <1>1, <3>1, ObjectKept
    <3>. QED BY <1>3, <3>1, <3>2, <3>3, <3>4
  <2>. QED BY <2>1, <2>2
<1>7. KidsAt(f2, dk2, new) = kids
  BY <1>1, <1>3, <1>5, <1>6, KidsAre, SMTT(40)
<1>. QED BY <1>1, <1>2, <1>7

\* Of two versions of a table, the second has an entry less.
LEMMA KidsDrop ==
  ASSUME NEW f, NEW dk, NEW ds, Volume(f, dk, ds),
         NEW f2, NEW dk2, NEW ds2, Volume(f2, dk2, ds2),
         \A c \in DataClusters : f[c] \in DataClusters => dk2[c] = dk[c],
         NEW p \in ds, p \in ds2, Keyed(dk[p]), Keyed(dk2[p]),
         NEW s \in Children(dk[p]), dk2[p][s].name = NoName,
         \A r \in ChildSlots : r # s => dk2[p][r] = dk[p][r],
         NEW key, key = KeyOf(dk[p][s])
  PROVE  KidsAt(f2, dk2, dk2[p]) = Store!Drop(KidsAt(f, dk, dk[p]), key)
<1>1. PICK old, new : old = dk[p] /\ new = dk2[p]
  OBVIOUS
<1>2. PICK kids : kids = Store!Drop(KidsAt(f, dk, old), key)
  OBVIOUS
<1>3. /\ DOMAIN kids = Listing(old) \ {key} /\ kids = [k \in DOMAIN kids |-> kids[k]]
      /\ \A k \in Listing(old) : k # key => kids[k] = KidsAt(f, dk, old)[k]
  BY <1>1, <1>2, KidsOf DEF Store!Drop
<1>4. /\ Children(new) = Children(old) \ {s}
      /\ \A r \in Children(new) : new[r] = old[r]
  BY <1>1 DEF Children
<1>5. \A r \in Children(old) : r # s => KeyOf(old[r]) # key
  BY <1>1, SlotNumbers DEF Keyed, Children
<1>6. Listing(new) = Listing(old) \ {key}
  <2>1. \A t : Listing(t) = {KeyOf(t[r]) : r \in Children(t)}
    BY DEF Listing, KeyOf
  <2>. QED BY <1>1, <1>4, <1>5, <2>1
<1>7. ASSUME NEW r \in Children(new)
      PROVE  kids[KeyOf(new[r])] = ObjectAt(f2, dk2, new[r])
  <2>1. r \in Children(old) /\ new[r] = old[r] /\ r # s
    BY <1>4
  <2>2. KeyOf(old[r]) \in Listing(old)
        /\ KidsAt(f, dk, old)[KeyOf(old[r])] = ObjectAt(f, dk, old[r])
    BY <1>1, <2>1, KidsOf
  <2>3. r \in ChildSlots /\ dk2[p][r] = dk[p][r]
    BY <1>1, <2>1 DEF Children
  <2>4. ObjectAt(f2, dk2, old[r]) = ObjectAt(f, dk, old[r])
    BY <1>1, <2>1, <2>3, ObjectKept
  <2>. QED BY <1>3, <1>5, <2>1, <2>2, <2>4
<1>8. KidsAt(f2, dk2, new) = kids
  BY <1>1, <1>3, <1>6, <1>7, KidsAre, SMTT(40)
<1>. QED BY <1>1, <1>2, <1>8

(***************************************************************************)
(* The state of the store, and what a search for a key finds of it.        *)
(***************************************************************************)
Mapped == Tidy /\ tree = TreeOnDisk

LEMMA MappedState ==
  ASSUME Mapped
  PROVE  /\ Volume(fat, disk, dirs)
         /\ Store!Live = dirs
         /\ \A d \in dirs : /\ Keyed(disk[d]) /\ Unmarked(disk[d])
                            /\ tree[d].self = KeyOf(disk[d][SelfSlot])
                            /\ tree[d].kids = KidsAt(fat, disk, disk[d])
                            /\ DOMAIN tree[d].kids = Listing(disk[d])
BY TreeIs, OrderlyVolume, KidsOf DEF Mapped, Tidy, TreeAt, DirectoryAt, Store!Live

LEMMA FirstOf ==
  ASSUME NEW T \in SUBSET Nat
  PROVE  First(T) \subseteq T /\ (T # {} => First(T) # {})
BY LeastOf DEF First

LEMMA SlotsAreNumbers ==
  ASSUME NEW t, NEW name, NEW ext
  PROVE  KeyedSlots(t, name, ext) \in SUBSET Nat /\ NamedSlots(t, name) \in SUBSET Nat
BY SlotAssumption DEF KeyedSlots, NamedSlots, Slots

\* A key in use is the directory's own or that of one of its children.
LEMMA KeyFound ==
  ASSUME Mapped, NEW p \in dirs, NEW name, name # NoName, NEW ext,
         NEW s \in KeyedSlots(disk[p], name, ext)
  PROVE  /\ KeyOf(disk[p][s]) = <<name, ext>>
         /\ s = SelfSlot => /\ tree[p].self = <<name, ext>>
                            /\ disk[p][s].attr = "dir" /\ disk[p][s].cluster = p
         /\ s # SelfSlot => /\ s \in ChildSlots
                            /\ <<name, ext>> \in DOMAIN tree[p].kids
                            /\ tree[p].kids[<<name, ext>>] = ObjectAt(fat, disk, disk[p][s])
                            /\ disk[p][s].attr \in {"file", "dir"}
<1>1. s \in Slots /\ disk[p][s].name = name /\ disk[p][s].ext = ext
  BY DEF KeyedSlots
<1>2. KeyOf(disk[p][s]) = <<name, ext>>
  BY <1>1 DEF KeyOf
<1>3. CASE s = SelfSlot
  BY <1>2, <1>3, MappedState DEF Volume, Tables
<1>4. CASE s # SelfSlot
  <2>1. s \in ChildSlots /\ s \in Children(disk[p])
    BY <1>1, <1>4 DEF ChildSlots, Children
  <2>2. /\ <<name, ext>> \in Listing(disk[p])
        /\ KidsAt(fat, disk, disk[p])[<<name, ext>>] = ObjectAt(fat, disk, disk[p][s])
    BY <1>2, <2>1, KidsOf, MappedState
  <2>3. disk[p][s].attr \in {"file", "dir"}
    BY <1>1, <2>1, MappedState DEF Volume, Tables
  <2>. QED BY <1>2, <1>4, <2>1, <2>2, <2>3, MappedState
<1>. QED BY <1>2, <1>3, <1>4

LEMMA KeyTaken ==
  ASSUME Mapped, NEW p \in dirs, NEW name, name # NoName, NEW ext
  PROVE  Exists(p, name, ext) <=> Store!Taken(p, <<name, ext>>)
<1>1. Exists(p, name, ext) <=> KeyedSlots(disk[p], name, ext) # {}
  BY FirstOf, SlotsAreNumbers DEF Exists, dir_table_search
<1>2. ASSUME NEW s \in KeyedSlots(disk[p], name, ext)
      PROVE  Store!Taken(p, <<name, ext>>)
  BY KeyFound DEF Store!Taken
<1>3. ASSUME Store!Taken(p, <<name, ext>>)
      PROVE  KeyedSlots(disk[p], name, ext) # {}
  <2>1. CASE <<name, ext>> = tree[p].self
    BY <2>1, MappedState, SlotNumbers DEF KeyOf, KeyedSlots
  <2>2. CASE <<name, ext>> \in DOMAIN tree[p].kids
    BY <2>2, MappedState, SlotNumbers DEF Listing, Children, KeyedSlots
  <2>. QED BY <1>3, <2>1, <2>2 DEF Store!Taken
<1>. QED BY <1>1, <1>2, <1>3

\* A caller who keeps to the interface names a live directory and, to read
\* or to delete, something in it.
LEMMA NoMisuse ==
  ASSUME Misuse = {}, NEW p, NEW name, NEW ext
  PROVE  /\ \A size : MayWrite(p, name, ext, size) =>
              /\ p \in dirs /\ FreeSlots(disk[p]) # {}
              /\ ~ (Cardinality(FreeClusters(fat)) < Needed(size))
         /\ MayRead(p, name) => p \in dirs /\ name # NoName
         /\ MayDelete(p, name, ext) =>
              /\ p \in dirs /\ name # NoName /\ disk[p][SelfSlot].name # name
              /\ KeyedSlots(disk[p], name, ext) \cap ChildSlots # {}
              /\ NamedSlots(disk[p], name) = KeyedSlots(disk[p], name, ext)
BY DEF MayWrite, MayRead, MayDelete

\* The calls of the store, one by one.
LEMMA StoreCall ==
  ASSUME Mapped, NEW p \in dirs, NEW name \in Callable, NEW ext \in Exts,
         NEW key, key = <<name, ext>>,
         \/ Store!RefuseWrite(p, key)
         \/ \E d \in Datas, size \in 1 .. MaxFileClusters : Store!MakeFile(p, key, d, size)
         \/ \E g \in Clusters : Store!MakeFolder(p, key, g)
         \/ Store!Remove(p, key)
         \/ \E size \in 0 .. MaxFileClusters : Store!Read(p, key, size)
         \/ Store!ReadDirectory(p, name)
  PROVE  Store!Next
<1>1. p \in Store!Live /\ key \in (Names \cup {NoName}) \X Exts /\ key[1] = name
  BY MappedState DEF Callable
<1>. QED BY <1>1 DEF Store!Next

(***************************************************************************)
(* Calls that change nothing.                                              *)
(***************************************************************************)
LEMMA RefusedWrites ==
  ASSUME Mapped, Misuse = {}, UNCHANGED tree,
         NEW p \in Parents, NEW name \in Callable, NEW ext \in Exts,
         NEW size \in FileSizes, WriteRefused(p, name, ext, size)
  PROVE  p \in dirs /\ Store!RefuseWrite(p, <<name, ext>>)
<1>1. /\ p \in dirs /\ FreeSlots(disk[p]) # {}
      /\ ~ (Cardinality(FreeClusters(fat)) < Needed(size))
  BY NoMisuse DEF WriteRefused
<1>2. ~ \E s \in find_empty_entry(disk[p]) : disk[p][s].attr = "dir"
  BY <1>1, MappedState
  DEF find_empty_entry, First, FreeSlots, Volume, Tables, ChildSlots
<1>3. FreeClusters(fat) # {}
  BY <1>1, FS_EmptySet, SizeAssumption DEF Needed, FileSizes
<1>4. \/ name = NoName /\ ret' = -1
      \/ name # NoName /\ Exists(p, name, ext) /\ ret' = 1
  BY <1>2, <1>3 DEF WriteRefused, WriteCode
<1>5. got' = Store!Nothing
  BY DEF WriteRefused, Nothing, Store!Nothing
<1>. QED BY <1>1, <1>4, <1>5, KeyTaken DEF Store!RefuseWrite, Store!Answer

LEMMA FileReads ==
  ASSUME Mapped, Misuse = {}, UNCHANGED tree,
         NEW p \in Parents, NEW name \in Callable, NEW ext \in Exts,
         NEW size \in FileSizes,
         ReadFile(p, name, ext, size) \/ ReadRefused(p, name, ext, size)
  PROVE  p \in dirs /\ Store!Read(p, <<name, ext>>, size)
<1>1. p \in dirs /\ name # NoName
  BY NoMisuse DEF ReadFile, ReadRefused
<1>2. PICK key : key = <<name, ext>>
  OBVIOUS
<1>. SUFFICES Store!Read(p, key, size)
  BY <1>1, <1>2
<1>3. /\ Store!Nothing = Nothing
      /\ \A content : Store!Data(content) = Data(content)
  BY DEF Store!Nothing, Nothing, Store!Data, Data
<1>4. size \in Nat
  BY SizeAssumption DEF FileSizes
<1>5. CASE ReadRefused(p, name, ext, size) /\ ~ Exists(p, name, ext) /\ ret' = 3
  <2>1. ~ Store!Taken(p, key) /\ got' = Store!Nothing
    BY <1>1, <1>2, <1>3, <1>5, KeyTaken DEF ReadRefused
  <2>. QED BY <1>5, <2>1 DEF Store!Read, Store!Answer
<1>6. ASSUME NEW s \in dir_table_search(disk[p], name, ext),
             \/ /\ ReadCode(disk[p][s], size) # 0
                /\ ret' = ReadCode(disk[p][s], size) /\ got' = Nothing
             \/ /\ ReadCode(disk[p][s], size) = 0
                /\ ret' = 0
                /\ \E k \in ChainLengths(fat, disk[p][s].cluster) :
                     got' = Data(Content(disk, fat, disk[p][s].cluster, k))
      PROVE  Store!Read(p, key, size)
  <2>1. s \in KeyedSlots(disk[p], name, ext)
    BY DEF dir_table_search, First
  <2>2. CASE s = SelfSlot
    <3>1. tree[p].self = key /\ disk[p][s].attr = "dir"
      BY <1>1, <1>2, <2>1, <2>2, KeyFound
    <3>2. ret' = 1 /\ got' = Nothing
      BY <1>6, <3>1 DEF ReadCode
    <3>. QED BY <1>3, <3>1, <3>2 DEF Store!Read, Store!Answer
  <2>3. CASE s # SelfSlot
    <3>1. PICK entry, c, n : entry = disk[p][s] /\ c = entry.cluster /\ n = entry.size
      OBVIOUS
    <3>2. /\ s \in ChildSlots
          /\ key \in DOMAIN tree[p].kids
          /\ tree[p].kids[key] = ObjectAt(fat, disk, entry)
          /\ entry.attr \in {"file", "dir"}
      BY <1>1, <1>2, <2>1, <2>3, <3>1, KeyFound
    <3>3. CASE entry.attr = "dir"
      <4>1. tree[p].kids[key].kind = "folder"
        BY <3>2, <3>3 DEF ObjectAt
      <4>2. ret' = 1 /\ got' = Nothing
        BY <1>6, <3>1, <3>3 DEF ReadCode
      <4>. QED BY <1>3, <3>2, <4>1, <4>2 DEF Store!Read, Store!Answer
    <3>4. CASE entry.attr = "file"
      <4>1. c \in DataClusters /\ FileAt(fat, disk, c, n)
        BY <1>1, <3>1, <3>2, <3>4, FileOf, MappedState
      <4>2. PICK content : content = ContentAt(fat, disk, c)
        OBVIOUS
      <4>3. tree[p].kids[key].kind = "file" /\ tree[p].kids[key].content = content
        BY <3>1, <3>2, <3>4, <4>2 DEF ObjectAt
      <4>4. n \in 1 .. ClusterMapSize /\ content = Content(disk, fat, c, n)
            /\ \E d \in Datas : content = Stored(d, n)
        BY <4>1, <4>2, WholeContent
      <4>5. Len(content) = n
        BY <4>4, ClusterMapAssumption DEF Stored
      <4>6. c # 0
        BY <4>1, ClusterMapAssumption DEF DataClusters, FirstCluster
      <4>7. CASE size < n
        <5>1. ret' = 2 /\ got' = Nothing
          BY <1>6, <3>1, <3>4, <4>7 DEF ReadCode
        <5>. QED BY <1>3, <3>2, <4>3, <4>5, <4>7, <5>1 DEF Store!Read, Store!Answer
      <4>8. CASE ~ (size < n)
        <5>1. ReadCode(disk[p][s], size) = 0
          BY <3>1, <3>4, <4>6, <4>8 DEF ReadCode
        <5>2. ret' = 0 /\ \E k \in ChainLengths(fat, c) : got' = Data(Content(disk, fat, c, k))
          BY <1>6, <3>1, <5>1
        <5>3. got' = Data(content)
          BY <4>1, <4>4, <5>2 DEF FileAt
        <5>. QED BY <1>3, <3>2, <4>3, <4>5, <4>8, <5>2, <5>3 DEF Store!Read, Store!Answer
      <4>. QED BY <4>7, <4>8
    <3>. QED BY <3>2, <3>3, <3>4
  <2>. QED BY <2>2, <2>3
<1>. QED BY <1>5, <1>6 DEF ReadFile, ReadRefused

LEMMA DirectoryReads ==
  ASSUME Mapped, Misuse = {}, UNCHANGED tree,
         NEW p \in Parents, NEW name \in Callable, NEW ext \in Exts,
         ReadDirectory(p, name, ext)
  PROVE  p \in dirs /\ Store!ReadDirectory(p, name)
<1>1. p \in dirs /\ name # NoName /\ NamedSlots(disk[p], name) = KeyedSlots(disk[p], name, ext)
  BY NoMisuse DEF ReadDirectory, MayList
<1>2. PICK key : key = <<name, ext>>
  OBVIOUS
<1>. SUFFICES Store!ReadDirectory(p, name)
  BY <1>1
<1>3. /\ Store!Nothing = Nothing
      /\ \A keys : Store!List(keys) = List(keys)
  BY DEF Store!Nothing, Nothing, Store!List, List
<1>4. CASE ~ Exists(p, name, ext) /\ ret' = 2 /\ got' = Nothing
  <2>1. NamedSlots(disk[p], name) = {}
    <3>1. KeyedSlots(disk[p], name, ext) = {}
      BY <1>4, FirstOf, SlotsAreNumbers DEF Exists, dir_table_search
    <3>. QED BY <1>1, <3>1
  <2>2. \A s \in Slots : disk[p][s].name # name
    BY <2>1 DEF NamedSlots
  <2>3. name # tree[p].self[1]
    BY <1>1, <2>2, MappedState, SlotNumbers DEF KeyOf
  <2>4. \A k \in DOMAIN tree[p].kids : k[1] # name
    BY <1>1, <2>2, MappedState, SlotNumbers DEF Listing, Children
  <2>. QED BY <1>3, <1>4, <2>3, <2>4 DEF Store!ReadDirectory, Store!Answer
<1>5. ASSUME NEW s \in dir_table_search(disk[p], name, ext),
             \/ /\ disk[p][s].attr = "dir"
                /\ ret' = 0 /\ got' = List(Listing(disk[disk[p][s].cluster]))
             \/ disk[p][s].attr # "dir" /\ ret' = 1 /\ got' = Nothing
      PROVE  Store!ReadDirectory(p, name)
  <2>1. s \in KeyedSlots(disk[p], name, ext)
    BY DEF dir_table_search, First
  <2>2. CASE s = SelfSlot
    <3>1. tree[p].self = key /\ disk[p][s].attr = "dir" /\ disk[p][s].cluster = p
      BY <1>1, <1>2, <2>1, <2>2, KeyFound
    <3>2. ret' = 0 /\ got' = List(DOMAIN tree[p].kids)
      BY <1>1, <1>5, <3>1, MappedState
    <3>3. name = tree[p].self[1]
      BY <1>2, <3>1
    <3>. QED BY <1>3, <3>2, <3>3 DEF Store!ReadDirectory, Store!Answer
  <2>3. CASE s # SelfSlot
    <3>1. /\ s \in ChildSlots
          /\ key \in DOMAIN tree[p].kids
          /\ tree[p].kids[key] = ObjectAt(fat, disk, disk[p][s])
          /\ disk[p][s].attr \in {"file", "dir"}
      BY <1>1, <1>2, <2>1, <2>3, KeyFound
    <3>2. CASE disk[p][s].attr = "dir"
      <4>1. PICK x : x = disk[p][s].cluster
        OBVIOUS
      <4>2. x \in dirs
        BY <1>1, <3>1, <3>2, <4>1, FolderOf, MappedState
      <4>3. tree[p].kids[key].kind = "folder" /\ tree[p].kids[key].handle = x
        BY <3>1, <3>2, <4>1 DEF ObjectAt
      <4>4. ret' = 0 /\ got' = List(DOMAIN tree[x].kids)
        BY <1>5, <3>2, <4>1, <4>2, MappedState
      <4>. QED BY <1>2, <1>3, <3>1, <4>3, <4>4 DEF Store!ReadDirectory, Store!Answer
    <3>3. CASE disk[p][s].attr = "file"
      <4>1. tree[p].kids[key].kind = "file"
        BY <3>1, <3>3 DEF ObjectAt
      <4>. QED BY <1>2, <1>3, <1>5, <3>1, <3>3, <4>1 DEF Store!ReadDirectory, Store!Answer
    <3>. QED BY <3>1, <3>2, <3>3
  <2>. QED BY <2>2, <2>3
<1>. QED BY <1>4, <1>5 DEF ReadDirectory

\* Calls that never take these ways out.
LEMMA NeverSo ==
  ASSUME Mapped, Misuse = {}, NEW p \in Parents, NEW name \in Callable, NEW ext \in Exts
  PROVE  /\ \A size \in FileSizes : ~ WriteOverrun(p, name, ext, size)
         /\ \A size \in FileSizes : ~ ReadOverrun(p, name, ext, size)
         /\ ~ DeleteMissing(p, name, ext)
         /\ ~ DeleteRefused(p, name, ext)
         /\ ~ DeleteChain(p, name, ext)
         /\ ~ DeleteOverrun(p, name, ext)
<1>0. Sound /\ Misuse \subseteq BenignKinds /\ p \in Nat
  BY DEF Mapped, Tidy, Orderly, Parents, BOOT_SECTOR, RootCluster
<1>1. ASSUME NEW size \in FileSizes, WriteOverrun(p, name, ext, size)
      PROVE  FALSE
  BY <1>1, NoMisuse DEF WriteOverrun
<1>2. ASSUME NEW size \in FileSizes, ReadOverrun(p, name, ext, size)
      PROVE  FALSE
  <2>1. p \in dirs /\ name # NoName
    BY <1>2, NoMisuse DEF ReadOverrun
  <2>2. PICK s \in dir_table_search(disk[p], name, ext) :
          /\ ReadCode(disk[p][s], size) = 0
          /\ \A k \in ChainLengths(fat, disk[p][s].cluster) : k > size + 1
    BY <1>2 DEF ReadOverrun
  <2>3. disk[p][s].attr = "file" /\ ~ (size < disk[p][s].size)
    BY <2>2 DEF ReadCode
  <2>4. s \in KeyedSlots(disk[p], name, ext)
    BY DEF dir_table_search, First
  <2>5. s \in ChildSlots
    BY <2>1, <2>3, <2>4, KeyFound
  <2>6. PICK c, n : c = disk[p][s].cluster /\ n = disk[p][s].size
    OBVIOUS
  <2>7. FileAt(fat, disk, c, n)
    BY <2>1, <2>3, <2>5, <2>6, FileOf, MappedState
  <2>8. n \in 1 .. ClusterMapSize
    BY <2>7, WholeContent
  <2>9. n > size + 1
    BY <2>2, <2>6, <2>7 DEF FileAt
  <2>. QED BY <2>3, <2>6, <2>8, <2>9, SizeAssumption, ClusterMapAssumption DEF FileSizes
<1>3. ASSUME DeleteMissing(p, name, ext)
      PROVE  FALSE
  <2>1. p \in dirs /\ KeyedSlots(disk[p], name, ext) # {}
    BY <1>3, NoMisuse DEF DeleteMissing
  <2>2. fat[p] = EOF /\ NamedSlots(disk[p], name) # {}
    BY <2>1, MappedState DEF Volume, KeyedSlots, NamedSlots
  <2>3. p \in p .. ClusterMapSize - 1
    BY <1>0, ClusterMapAssumption DEF Parents, BOOT_SECTOR, RootCluster, FirstCluster
  <2>4. p \in Hits(p, name, ext)
    BY <2>2, <2>3 DEF Hits
  <2>. QED BY <1>3, <2>4 DEF DeleteMissing
<1>4. ASSUME DeleteRefused(p, name, ext)
      PROVE  FALSE
  <2>1. MayDelete(p, name, ext)
    BY <1>4 DEF DeleteRefused
  <2>2. PICK c \in First(Hits(p, name, ext)) :
          \E s \in First(NamedSlots(disk[c], name)) : disk[c][s].notEmpty
    BY <1>4 DEF DeleteRefused
  <2>3. PICK s \in First(NamedSlots(disk[c], name)) : disk[c][s].notEmpty
    BY <2>2
  <2>4. c = p /\ p \in dirs /\ <<p, s>> \in Entries
    BY <1>0, <2>1, BenignCalls, DeletedEntry
  <2>5. s \in ChildSlots
    BY <2>4 DEF Entries
  <2>. QED BY <2>3, <2>4, <2>5, MappedState DEF Unmarked
<1>5. ASSUME DeleteChain(p, name, ext) \/ DeleteOverrun(p, name, ext)
      PROVE  FALSE
  <2>1. MayDelete(p, name, ext)
    BY <1>5 DEF DeleteChain, DeleteOverrun
  <2>2. PICK c \in First(Hits(p, name, ext)) : fat[c] # EOF
    BY <1>5 DEF DeleteChain, DeleteOverrun
  <2>. QED BY <1>0, <2>1, <2>2, BenignCalls, NoChainDeleted
<1>. QED BY <1>1, <1>2, <1>3, <1>4, <1>5

(***************************************************************************)
(* Calls that change the tree.                                             *)
(***************************************************************************)
\* A caller who keeps to the interface is a careful one.
LEMMA NoMisuseIsCareful ==
  ASSUME Misuse = {}
  PROVE  Misuse \subseteq BenignKinds /\ Misuse \subseteq CarefulKinds
OBVIOUS

\* A name that is not in use in a table is no key of an entry of it.
LEMMA FreshKey ==
  ASSUME NEW t, NEW name, NEW ext, KeyedSlots(t, name, ext) = {}
  PROVE  \A s \in Slots : KeyOf(t[s]) # <<name, ext>>
BY DEF KeyedSlots, KeyOf

LEMMA NewTableOf ==
  ASSUME NEW name, name # NoName, NEW c
  PROVE  /\ Keyed(NewTable(name, c)) /\ Unmarked(NewTable(name, c))
         /\ KeyOf(NewTable(name, c)[SelfSlot]) = <<name, NoExt>>
         /\ Children(NewTable(name, c)) = {}
<1>1. /\ NewTable(name, c)[SelfSlot] = DirEntry(name, NoExt, c)
      /\ \A s \in ChildSlots : NewTable(name, c)[s] = BlankEntry
  BY SlotNumbers DEF NewTable, BlankTable
<1>2. /\ KeyOf(DirEntry(name, NoExt, c)) = <<name, NoExt>>
      /\ KeyOf(BlankEntry) = <<NoName, NoExt>>
      /\ DirEntry(name, NoExt, c).name = name
      /\ BlankEntry.name = NoName /\ ~ BlankEntry.notEmpty
  BY DEF KeyOf, DirEntry, BlankEntry
<1>3. \A s \in Slots : s = SelfSlot \/ s \in ChildSlots
  BY DEF ChildSlots
<1>4. Keyed(NewTable(name, c))
  <2>. SUFFICES ASSUME NEW r \in Slots, NEW s \in Slots,
                       NewTable(name, c)[r].name # NoName,
                       KeyOf(NewTable(name, c)[r]) = KeyOf(NewTable(name, c)[s])
                PROVE  r = s
    BY DEF Keyed
  <2>. QED BY <1>1, <1>2, <1>3
<1>5. Unmarked(NewTable(name, c))
  BY <1>1, <1>2 DEF Unmarked
<1>6. Children(NewTable(name, c)) = {}
  BY <1>1, <1>2 DEF Children
<1>. QED BY <1>1, <1>2, <1>4, <1>5, <1>6

LEMMA NoKids ==
  ASSUME NEW f, NEW dk, NEW t, Children(t) = {}
  PROVE  KidsAt(f, dk, t) = <<>>
<1>1. Listing(t) = {}
  BY DEF Listing
<1>. QED BY <1>1 DEF KidsAt

LEMMA KeyedPut ==
  ASSUME NEW t, NEW t2, Keyed(t), NEW s \in Slots,
         \A r \in Slots : r # s => KeyOf(t2[r]) = KeyOf(t[r]),
         \A r \in Slots : KeyOf(t[r]) # KeyOf(t2[s])
  PROVE  Keyed(t2)
<1>1. \A e : KeyOf(e)[1] = e.name
  BY DEF KeyOf
<1>. SUFFICES ASSUME NEW q \in Slots, NEW r \in Slots,
                     t2[q].name # NoName, KeyOf(t2[q]) = KeyOf(t2[r])
              PROVE  q = r
  BY DEF Keyed
<1>2. CASE q # s /\ r # s
  <2>1. KeyOf(t[q]) = KeyOf(t2[q]) /\ KeyOf(t[r]) = KeyOf(t2[r])
    BY <1>2
  <2>2. t[q].name # NoName
    BY <1>1, <2>1
  <2>. QED BY <2>1, <2>2 DEF Keyed
<1>. QED BY <1>2

LEMMA KeyedDrop ==
  ASSUME NEW t, NEW t2, Keyed(t), NEW s \in Slots,
         \A r \in Slots : r # s => t2[r] = t[r], t2[s].name = NoName
  PROVE  Keyed(t2)
<1>1. \A e : KeyOf(e)[1] = e.name
  BY DEF KeyOf
<1>. SUFFICES ASSUME NEW q \in Slots, NEW r \in Slots,
                     t2[q].name # NoName, KeyOf(t2[q]) = KeyOf(t2[r])
              PROVE  q = r
  BY DEF Keyed
<1>2. t2[r].name # NoName
  BY <1>1
<1>. QED BY <1>2 DEF Keyed

\* A folder: one entry more in the parent, and a directory of its own.
LEMMA FolderMade ==
  ASSUME Mapped, Orderly', Misuse = {}, tree' = TreeOnDisk',
         NEW p \in Parents, NEW name \in Callable, NEW ext \in Exts,
         WriteFolder(p, name, ext)
  PROVE  /\ \A d \in dirs' : Keyed(disk'[d]) /\ Unmarked(disk'[d])
         /\ p \in dirs /\ \E g \in Clusters : Store!MakeFolder(p, <<name, ext>>, g)
<1>1. Orderly /\ Sound /\ Misuse \subseteq BenignKinds
  BY DEF Mapped, Tidy, Orderly
<1>2. PICK ch \in Chains(fat, 1), s \in ChildSlots :
        /\ ch[1] \in DataClusters /\ ch[1] \notin dirs /\ fat[ch[1]] = EMPTY
        /\ p \in dirs /\ dirs' = dirs \cup {ch[1]}
        /\ disk[p][s].name = NoName /\ name # NoName
        /\ disk'[ch[1]] = NewTable(name, ch[1])
        /\ disk'[p][s] = DirEntry(name, ext, ch[1])
        /\ \A r \in Slots : r # s => disk'[p][r] = disk[p][r]
        /\ \A c \in Clusters : c # p /\ c # ch[1] => disk'[c] = disk[c]
  BY <1>1, BenignCalls, FolderTables DEF Orderly
<1>3. PICK g, key, f2, dk2, ds2 :
        /\ g = ch[1] /\ key = <<name, ext>>
        /\ f2 = fat' /\ dk2 = disk' /\ ds2 = dirs'
  OBVIOUS
<1>4. Volume(fat, disk, dirs) /\ Volume(f2, dk2, ds2)
  <2>1. (Orderly => Volume(fat, disk, dirs))'
    BY OrderlyVolume, PTL
  <2>. QED BY <1>3, <2>1, MappedState
<1>5. /\ g \in DataClusters /\ g \in Clusters /\ g \notin dirs /\ fat[g] = EMPTY /\ g # p
      /\ p \in dirs /\ ds2 = dirs \cup {g} /\ dirs \subseteq Clusters
      /\ s \in Slots /\ SelfSlot \in Slots /\ s # SelfSlot
  BY <1>2, <1>3, <1>4, SlotNumbers, ClusterMapAssumption
  DEF Volume, DataClusters, Clusters, FirstCluster
<1>6. ~ Exists(p, name, ext) /\ KeyedSlots(disk[p], name, ext) = {}
  <2>1. ~ Exists(p, name, ext)
    BY <1>2 DEF WriteFolder, WriteCode
  <2>. QED BY <2>1, FirstOf, SlotsAreNumbers DEF Exists, dir_table_search
<1>7. KeyOf(dk2[p][s]) = key /\ dk2[p][s].name # NoName /\ ~ dk2[p][s].notEmpty
      /\ ObjectAt(f2, dk2, dk2[p][s]) = Store!Folder(g)
  BY <1>2, <1>3 DEF KeyOf, DirEntry, BlankEntry, ObjectAt, Store!Folder
<1>8. /\ \A r \in Slots : r # s => dk2[p][r] = disk[p][r]
      /\ \A d \in dirs : d # p => dk2[d] = disk[d]
      /\ dk2[g] = NewTable(name, g)
  BY <1>2, <1>3, <1>5
<1>9. Keyed(dk2[p])
  <2>1. \A r \in Slots : KeyOf(disk[p][r]) # KeyOf(dk2[p][s])
    BY <1>3, <1>6, <1>7, FreshKey
  <2>2. Keyed(disk[p]) /\ \A r \in Slots : r # s => KeyOf(dk2[p][r]) = KeyOf(disk[p][r])
    BY <1>2, <1>8, MappedState
  <2>. QED BY <1>5, <2>1, <2>2, KeyedPut
<1>10. Unmarked(dk2[p])
  BY <1>2, <1>7, <1>8, SlotNumbers, MappedState DEF Unmarked
<1>11. \A d \in ds2 : Keyed(dk2[d]) /\ Unmarked(dk2[d])
  <2>1. Keyed(dk2[g]) /\ Unmarked(dk2[g])
    <3>1. dk2[g] = NewTable(name, g) /\ name # NoName
      BY <1>2, <1>8
    <3>2. Keyed(NewTable(name, g)) /\ Unmarked(NewTable(name, g))
      BY ONLY <3>1, NewTableOf
    <3>. QED BY ONLY <3>1, <3>2
  <2>2. \A d \in dirs : d # p => Keyed(dk2[d]) /\ Unmarked(dk2[d])
    BY <1>8, MappedState
  <2>. QED BY <1>5, <1>9, <1>10, <2>1, <2>2
<1>12. \A c \in DataClusters : fat[c] \in DataClusters => dk2[c] = disk[c]
  <2>1. DataClusters \subseteq Clusters /\ EMPTY \notin DataClusters /\ EOF \notin DataClusters
    BY ClusterMapAssumption DEF DataClusters, Clusters, FirstCluster, EMPTY, EOF
  <2>2. fat[p] = EOF
    BY <1>4, <1>5 DEF Volume
  <2>. QED BY <1>2, <1>3, <1>5, <2>1, <2>2
<1>. DEFINE T == TreeAt(f2, dk2, ds2)
<1>13. tree' = T
  BY <1>3, TreeIs
<1>14. T[p] = [self |-> tree[p].self, kids |-> Store!Put(tree[p].kids, key, Store!Folder(g))]
  <2>1. KidsAt(f2, dk2, dk2[p]) = Store!Put(KidsAt(fat, disk, disk[p]), key, Store!Folder(g))
    <3>1. PICK object : object = Store!Folder(g)
      OBVIOUS
    <3>2. /\ object = ObjectAt(f2, dk2, dk2[p][s]) /\ key = KeyOf(dk2[p][s])
          /\ p \in ds2 /\ Keyed(disk[p])
          /\ \A r \in ChildSlots : r # s => dk2[p][r] = disk[p][r]
      BY <1>5, <1>7, <1>8, <3>1, MappedState, SlotNumbers
    <3>3. KidsAt(f2, dk2, dk2[p]) = Store!Put(KidsAt(fat, disk, disk[p]), key, object)
      BY <1>2, <1>4, <1>7, <1>9, <1>12, <3>2, KidsPut
    <3>. QED BY <3>1, <3>3
  <2>2. KeyOf(dk2[p][SelfSlot]) = KeyOf(disk[p][SelfSlot])
    BY <1>5, <1>8
  <2>. QED BY <1>5, <2>1, <2>2, MappedState DEF TreeAt, DirectoryAt
<1>15. T[g] = Store!NewDirectory(name)
  <2>1. KidsAt(f2, dk2, dk2[g]) = <<>> /\ KeyOf(dk2[g][SelfSlot]) = <<name, NoExt>>
    BY <1>2, <1>8, NewTableOf, NoKids
  <2>. QED BY <1>5, <2>1 DEF TreeAt, DirectoryAt, Store!NewDirectory
<1>16. \A d \in dirs : d # p => T[d] = tree[d]
  <2>. SUFFICES ASSUME NEW d \in dirs, d # p PROVE T[d] = tree[d]
    OBVIOUS
  <2>1. dk2[d] = disk[d] /\ Keyed(disk[d]) /\ d \in ds2
    BY <1>5, <1>8, MappedState
  <2>2. DirectoryAt(f2, dk2, dk2[d]) = DirectoryAt(fat, disk, disk[d])
    BY <1>4, <1>12, <2>1, DirectoryKept
  <2>3. tree = TreeAt(fat, disk, dirs)
    BY TreeIs DEF Mapped
  <2>. QED BY <2>1, <2>2, <2>3 DEF TreeAt
<1>. HIDE DEF T
<1>17. DOMAIN T = dirs \cup {g} /\ T = [d \in DOMAIN T |-> T[d]]
  BY <1>5 DEF T, TreeAt
<1>18. DOMAIN tree = dirs /\ tree = [d \in dirs |-> tree[d]]
       /\ tree[p] = [self |-> tree[p].self, kids |-> tree[p].kids]
  BY <1>5, TreeIs DEF Mapped, TreeAt, DirectoryAt
<1>19. PICK linked : linked = [tree EXCEPT ![p].kids = Store!Put(@, key, Store!Folder(g))]
  OBVIOUS
<1>20. /\ linked = [d \in dirs |-> linked[d]]
       /\ linked[p] = [self |-> tree[p].self, kids |-> Store!Put(tree[p].kids, key, Store!Folder(g))]
       /\ \A d \in dirs : d # p => linked[d] = tree[d]
  BY <1>5, <1>18, <1>19
<1>21. T = Store!Put(linked, g, Store!NewDirectory(name))
  <2>1. \A d \in dirs \cup {g} :
          T[d] = IF d = g THEN Store!NewDirectory(name) ELSE linked[d]
    BY <1>5, <1>14, <1>15, <1>16, <1>20
  <2>2. DOMAIN linked = dirs
    BY <1>20
  <2>. QED BY <1>17, <2>1, <2>2 DEF Store!Put
<1>22. Store!MakeFolder(p, key, g)
  <2>1. ~ Store!Taken(p, key) /\ key[1] # NoName /\ g \notin Store!Live
    BY <1>2, <1>3, <1>5, <1>6, KeyTaken, MappedState
  <2>2. Store!Answer(0, Store!Nothing)
    BY DEF WriteFolder, Store!Answer, Store!Nothing, Nothing
  <2>3. key[1] = name
    BY <1>3
  <2>. QED BY <1>13, <1>19, <1>21, <2>1, <2>2, <2>3 DEF Store!MakeFolder
<1>. QED BY <1>3, <1>5, <1>11, <1>22

\* A file: one entry more in the parent, and the content that was handed over.
LEMMA FileMade ==
  ASSUME Mapped, Orderly', Misuse = {}, tree' = TreeOnDisk',
         NEW p \in Parents, NEW name \in Callable, NEW ext \in Exts,
         NEW size \in FileSizes, NEW d \in Datas, WriteFile(p, name, ext, size, d)
  PROVE  /\ \A h \in dirs' : Keyed(disk'[h]) /\ Unmarked(disk'[h])
         /\ p \in dirs /\ size \in 1 .. MaxFileClusters
         /\ Store!MakeFile(p, <<name, ext>>, d, size)
<1>1. Orderly /\ Sound /\ Misuse \subseteq BenignKinds
  BY DEF Mapped, Tidy, Orderly
<1>0. p \in dirs
  BY <1>1, BenignCalls
<1>2. size \in Nat \ {0} /\ Needed(size) = size + 1 /\ p \in dirs /\ UNCHANGED dirs
  BY <1>0, <1>1, FileTables DEF Orderly
<1>3. PICK ch \in Chains(fat, Needed(size)), s \in ChildSlots :
        /\ disk[p][s].name = NoName /\ name # NoName
        /\ disk'[p][s] = FileEntry(name, ext, ch[1], size)
        /\ \A r \in Slots : r # s => Same(disk'[p][r], disk[p][r])
        /\ \A r \in ChildSlots : r # s => disk'[p][r] = disk[p][r]
        /\ \A i \in 1 .. size : disk'[ch[i]] = DataTable(d, i)
        /\ \A c \in Clusters :
             c # p /\ (\A i \in 1 .. size : c # ch[i]) => disk'[c] = disk[c]
  BY <1>0, <1>1, FileTables DEF Orderly
<1>4. PICK c, key, f2, dk2, object :
        /\ c = ch[1] /\ key = <<name, ext>>
        /\ f2 = fat' /\ dk2 = disk' /\ object = Store!File(Stored(d, size))
  OBVIOUS
<1>5. Volume(fat, disk, dirs) /\ Volume(f2, dk2, dirs)
  <2>1. (Orderly => Volume(fat, disk, dirs))'
    BY OrderlyVolume, PTL
  <2>. QED BY <1>2, <1>4, <2>1, MappedState
<1>6. /\ 1 \in 1 .. size /\ \A i \in 1 .. size : fat[ch[i]] = EMPTY
      /\ s \in Slots /\ SelfSlot \in Slots /\ s # SelfSlot /\ dirs \subseteq Clusters
  <2>1. \A i \in 1 .. size : i \in 1 .. Needed(size) /\ Needed(size) \in Nat \ {0}
    BY <1>2
  <2>2. \A i \in 1 .. size : fat[ch[i]] = EMPTY
    BY <2>1, ChainClusters
  <2>. QED BY <1>2, <1>5, <2>2, SlotNumbers DEF Volume
<1>7. ~ Exists(p, name, ext) /\ KeyedSlots(disk[p], name, ext) = {}
  <2>1. ~ Exists(p, name, ext)
    BY <1>3 DEF WriteFile, WriteCode
  <2>. QED BY <2>1, FirstOf, SlotsAreNumbers DEF Exists, dir_table_search
<1>8. /\ KeyOf(dk2[p][s]) = key /\ dk2[p][s].name # NoName /\ ~ dk2[p][s].notEmpty
      /\ dk2[p][s].attr = "file" /\ dk2[p][s].cluster = c /\ dk2[p][s].size = size
  BY <1>3, <1>4 DEF KeyOf, FileEntry
<1>9. /\ \A r \in Slots : r # s => KeyOf(dk2[p][r]) = KeyOf(disk[p][r])
      /\ \A r \in ChildSlots : r # s => dk2[p][r] = disk[p][r]
      /\ \A h \in dirs : h # p => dk2[h] = disk[h]
  <2>1. \A h \in dirs, i \in 1 .. size : h # ch[i]
    BY <1>5, <1>6 DEF Volume, EMPTY, EOF
  <2>. QED BY <1>3, <1>4, <1>6, <2>1 DEF Same, KeyOf
<1>10. Keyed(dk2[p])
  <2>1. \A r \in Slots : KeyOf(disk[p][r]) # KeyOf(dk2[p][s])
    BY <1>4, <1>7, <1>8, FreshKey
  <2>2. Keyed(disk[p])
    BY <1>2, MappedState
  <2>. QED BY <1>6, <1>9, <2>1, <2>2, KeyedPut
<1>11. \A h \in dirs : Keyed(dk2[h]) /\ Unmarked(dk2[h])
  <2>1. Unmarked(dk2[p])
    BY <1>2, <1>8, <1>9, MappedState DEF Unmarked
  <2>2. \A h \in dirs : h # p => Keyed(dk2[h]) /\ Unmarked(dk2[h])
    BY <1>9, MappedState
  <2>. QED BY <1>10, <2>1, <2>2
<1>12. \A b \in DataClusters : fat[b] \in DataClusters => dk2[b] = disk[b]
  <2>1. DataClusters \subseteq Clusters /\ EMPTY \notin DataClusters /\ EOF \notin DataClusters
    BY ClusterMapAssumption DEF DataClusters, Clusters, FirstCluster, EMPTY, EOF
  <2>2. fat[p] = EOF
    BY <1>2, <1>5 DEF Volume
  <2>. QED BY <1>3, <1>4, <1>6, <2>1, <2>2
<1>13. ObjectAt(f2, dk2, dk2[p][s]) = object
  <2>1. FileAt(f2, dk2, c, size)
    <3>1. FileAt(f2, dk2, dk2[p][s].cluster, dk2[p][s].size)
      BY <1>2, <1>5, <1>8, FileOf
    <3>. QED BY <1>8, <3>1
  <2>2. PICK x \in Datas : ContentAt(f2, dk2, c) = Stored(x, size) /\ Begins(dk2[c], x)
    BY <2>1, WholeContent
  <2>3. dk2[c] = DataTable(d, 1)
    BY <1>3, <1>4, <1>6
  <2>4. dk2[c][SelfSlot].unread = <<d, 1>>
    <3>1. 1 \in 1 .. MaxFileClusters
      BY <1>2, SizeAssumption DEF FileSizes
    <3>2. <<d, 1>> \in Pieces /\ Reading[<<d, 1>>] \in Table
      BY <3>1, ReadingAssumption DEF Pieces
    <3>. QED BY <1>6, <2>3, <3>2 DEF DataTable, Table, Entry
  <2>5. x = d
    BY <2>2, <2>4 DEF Begins
  <2>. QED BY <1>4, <1>8, <2>2, <2>5 DEF ObjectAt, Store!File
<1>. DEFINE T == TreeAt(f2, dk2, dirs)
<1>14. tree' = T
  BY <1>2, <1>4, TreeIs
<1>15. T[p] = [self |-> tree[p].self, kids |-> Store!Put(tree[p].kids, key, object)]
  <2>1. KidsAt(f2, dk2, dk2[p]) = Store!Put(KidsAt(fat, disk, disk[p]), key, object)
    <3>1. /\ object = ObjectAt(f2, dk2, dk2[p][s]) /\ key = KeyOf(dk2[p][s])
          /\ Keyed(disk[p])
      BY <1>2, <1>8, <1>13, MappedState
    <3>. QED BY <1>2, <1>3, <1>5, <1>8, <1>9, <1>10, <1>12, <3>1, KidsPut
  <2>2. KeyOf(dk2[p][SelfSlot]) = KeyOf(disk[p][SelfSlot])
    BY <1>6, <1>9
  <2>. QED BY <1>2, <2>1, <2>2, MappedState DEF TreeAt, DirectoryAt
<1>16. ASSUME NEW h \in dirs, h # p
       PROVE  T[h] = tree[h]
  <2>1. dk2[h] = disk[h] /\ Keyed(disk[h])
    BY <1>9, <1>16, MappedState
  <2>2. DirectoryAt(f2, dk2, dk2[h]) = DirectoryAt(fat, disk, disk[h])
    BY <1>5, <1>12, <2>1, DirectoryKept
  <2>3. tree = TreeAt(fat, disk, dirs)
    BY TreeIs DEF Mapped
  <2>. QED BY <2>2, <2>3 DEF TreeAt
<1>. HIDE DEF T
<1>17. DOMAIN T = dirs /\ T = [h \in dirs |-> T[h]]
  BY DEF T, TreeAt
<1>18. DOMAIN tree = dirs /\ tree = [h \in dirs |-> tree[h]]
       /\ tree[p] = [self |-> tree[p].self, kids |-> tree[p].kids]
  BY <1>2, TreeIs DEF Mapped, TreeAt, DirectoryAt
<1>19. T = [tree EXCEPT ![p].kids = Store!Put(@, key, object)]
  BY <1>2, <1>15, <1>16, <1>17, <1>18
<1>20. Store!MakeFile(p, key, d, size)
  <2>1. ~ Store!Taken(p, key) /\ key[1] # NoName
    BY <1>2, <1>3, <1>4, <1>7, KeyTaken
  <2>2. Store!Answer(0, Store!Nothing)
    BY DEF WriteFile, Store!Answer, Store!Nothing, Nothing
  <2>. QED BY <1>4, <1>14, <1>19, <2>1, <2>2 DEF Store!MakeFile, Stored
<1>21. size \in 1 .. MaxFileClusters
  BY <1>2, SizeAssumption DEF FileSizes
<1>. QED BY <1>2, <1>4, <1>11, <1>20, <1>21

\* A delete: one entry less in the parent, and no directory where it led.
LEMMA EntryRemoved ==
  ASSUME Mapped, Orderly', Misuse = {}, tree' = TreeOnDisk',
         NEW p \in Parents, NEW name \in Callable, NEW ext \in Exts,
         DeleteEntry(p, name, ext)
  PROVE  /\ \A h \in dirs' : Keyed(disk'[h]) /\ Unmarked(disk'[h])
         /\ p \in dirs /\ Store!Remove(p, <<name, ext>>)
<1>1. Orderly /\ Sound /\ Misuse \subseteq BenignKinds
  BY DEF Mapped, Tidy, Orderly
<1>2. PICK s \in ChildSlots :
        LET x == disk[p][s].cluster
        IN  /\ p \in dirs /\ <<p, s>> \in Entries /\ disk[p][s].name = name
            /\ x \in DataClusters
            /\ dirs' = dirs \ {x}
            /\ disk' = [disk EXCEPT ![p] = [disk[p] EXCEPT ![s] = BlankEntry]]
            /\ Filled(disk[p][s]) => "filled_folder" \in Misuse
  BY <1>1, BenignCalls, DeleteTables
<1>3. PICK x, key, f2, dk2, ds2, entry :
        /\ x = disk[p][s].cluster /\ key = <<name, ext>>
        /\ f2 = fat' /\ dk2 = disk' /\ ds2 = dirs' /\ entry = disk[p][s]
  OBVIOUS
<1>4. Volume(fat, disk, dirs) /\ Volume(f2, dk2, ds2)
  <2>1. (Orderly => Volume(fat, disk, dirs))'
    BY OrderlyVolume, PTL
  <2>. QED BY <1>3, <2>1, MappedState
<1>5. /\ p \in dirs /\ ds2 = dirs \ {x} /\ x \in DataClusters /\ dirs \subseteq Clusters
      /\ disk \in [Clusters -> Table] /\ s \in Slots /\ SelfSlot \in Slots /\ s # SelfSlot
  BY <1>2, <1>3, <1>4, SlotNumbers DEF Volume
<1>6. entry.name = name /\ name # NoName /\ entry.ext = ext /\ KeyOf(entry) = key
  <2>1. name # NoName /\ NamedSlots(disk[p], name) = KeyedSlots(disk[p], name, ext)
    BY NoMisuse DEF DeleteEntry
  <2>2. s \in NamedSlots(disk[p], name)
    BY <1>2, <1>5 DEF NamedSlots
  <2>. QED BY <1>2, <1>3, <2>1, <2>2 DEF KeyedSlots, KeyOf
<1>7. /\ dk2[p][s] = BlankEntry /\ BlankEntry.name = NoName /\ ~ BlankEntry.notEmpty
      /\ \A r \in Slots : r # s => dk2[p][r] = disk[p][r]
      /\ \A c \in Clusters : c # p => dk2[c] = disk[c]
  <2>1. dk2 = [disk EXCEPT ![p] = [disk[p] EXCEPT ![s] = BlankEntry]]
    BY <1>2, <1>3
  <2>2. /\ dk2[p] = [disk[p] EXCEPT ![s] = BlankEntry]
        /\ \A c \in Clusters : c # p => dk2[c] = disk[c]
    BY <1>5, <2>1
  <2>. QED BY <1>5, <2>2 DEF Table, BlankEntry
<1>8. Keyed(dk2[p]) /\ Keyed(disk[p])
  <2>1. Keyed(disk[p]) /\ dk2[p][s].name = NoName
    BY <1>5, <1>7, MappedState
  <2>. QED BY <1>5, <1>7, <2>1, KeyedDrop
<1>9. \A h \in dirs : Keyed(dk2[h]) /\ Unmarked(dk2[h])
  <2>1. Unmarked(dk2[p])
    BY <1>5, <1>7, SlotNumbers, MappedState DEF Unmarked
  <2>2. \A h \in dirs : h # p => Keyed(dk2[h]) /\ Unmarked(dk2[h])
    BY <1>5, <1>7, MappedState
  <2>. QED BY <1>8, <2>1, <2>2
<1>10. \A b \in DataClusters : fat[b] \in DataClusters => dk2[b] = disk[b]
  <2>1. DataClusters \subseteq Clusters /\ EOF \notin DataClusters
    BY ClusterMapAssumption DEF DataClusters, Clusters, FirstCluster, EOF
  <2>2. fat[p] = EOF
    BY <1>4, <1>5 DEF Volume
  <2>. QED BY <1>7, <2>1, <2>2
<1>11. /\ key \in DOMAIN tree[p].kids
       /\ tree[p].kids[key] = ObjectAt(fat, disk, entry)
       /\ entry.attr \in {"file", "dir"}
  <2>1. s \in KeyedSlots(disk[p], name, ext)
    BY <1>3, <1>5, <1>6 DEF KeyedSlots
  <2>. QED BY <1>3, <1>5, <1>6, <2>1, KeyFound
\* A directory has no entries left, and so is not the parent.
<1>12. ASSUME entry.attr = "dir"
       PROVE  x \in dirs /\ tree[x].kids = <<>> /\ x # p
  <2>1. x \in dirs
    BY <1>3, <1>4, <1>5, <1>12, FolderOf
  <2>2. Children(disk[x]) = {}
    BY <1>2, <1>3, <1>12, <2>1 DEF Filled
  <2>3. tree[x].kids = <<>>
    BY <2>1, <2>2, NoKids, MappedState
  <2>4. s \in Children(disk[p])
    BY <1>3, <1>6 DEF Children
  <2>. QED BY <2>1, <2>2, <2>3, <2>4
<1>13. ASSUME entry.attr = "file"
       PROVE  x \notin dirs /\ x # p
  BY <1>3, <1>4, <1>5, <1>13, FileOf
<1>14. x # p /\ p \in ds2
  BY <1>5, <1>11, <1>12, <1>13
<1>. DEFINE T == TreeAt(f2, dk2, ds2)
<1>15. tree' = T
  BY <1>3, TreeIs
<1>16. T[p] = [self |-> tree[p].self, kids |-> Store!Drop(tree[p].kids, key)]
  <2>1. KidsAt(f2, dk2, dk2[p]) = Store!Drop(KidsAt(fat, disk, disk[p]), key)
    <3>1. /\ s \in Children(disk[p]) /\ dk2[p][s].name = NoName
          /\ \A r \in ChildSlots : r # s => dk2[p][r] = disk[p][r]
          /\ key = KeyOf(disk[p][s])
      BY <1>3, <1>6, <1>7, SlotNumbers DEF Children
    <3>. QED BY <1>4, <1>5, <1>8, <1>10, <1>14, <3>1, KidsDrop
  <2>2. KeyOf(dk2[p][SelfSlot]) = KeyOf(disk[p][SelfSlot])
    BY <1>5, <1>7
  <2>. QED BY <1>5, <1>14, <2>1, <2>2, MappedState DEF TreeAt, DirectoryAt
<1>17. ASSUME NEW h \in ds2, h # p
       PROVE  T[h] = tree[h]
  <2>1. h \in dirs /\ dk2[h] = disk[h] /\ Keyed(disk[h])
    BY <1>5, <1>7, <1>17, MappedState
  <2>2. DirectoryAt(f2, dk2, dk2[h]) = DirectoryAt(fat, disk, disk[h])
    BY <1>4, <1>10, <2>1, DirectoryKept
  <2>3. tree = TreeAt(fat, disk, dirs)
    BY TreeIs DEF Mapped
  <2>. QED BY <2>1, <2>2, <2>3 DEF TreeAt
<1>. HIDE DEF T
<1>18. DOMAIN T = ds2 /\ T = [h \in ds2 |-> T[h]]
  BY DEF T, TreeAt
<1>19. DOMAIN tree = dirs /\ tree = [h \in dirs |-> tree[h]]
       /\ tree[p] = [self |-> tree[p].self, kids |-> tree[p].kids]
  BY <1>5, TreeIs DEF Mapped, TreeAt, DirectoryAt
<1>20. PICK unlinked : unlinked = [tree EXCEPT ![p].kids = Store!Drop(@, key)]
  OBVIOUS
<1>21. /\ unlinked = [h \in dirs |-> unlinked[h]]
       /\ \A h \in ds2 : T[h] = unlinked[h]
  BY <1>5, <1>16, <1>17, <1>19, <1>20
<1>22. Store!Answer(0, Store!Nothing)
  BY DEF DeleteEntry, Store!Answer, Store!Nothing, Nothing
<1>23. Store!Remove(p, key)
  <2>1. CASE entry.attr = "file"
    <3>1. ds2 = dirs
      BY <1>5, <1>13, <2>1
    <3>2. T = unlinked
      BY <1>18, <1>21, <3>1
    <3>3. tree[p].kids[key].kind = "file"
      BY <1>11, <2>1 DEF ObjectAt
    <3>. QED BY <1>11, <1>15, <1>20, <1>22, <3>2, <3>3 DEF Store!Remove
  <2>2. CASE entry.attr = "dir"
    <3>1. T = Store!Drop(unlinked, x)
      <4>1. DOMAIN unlinked = dirs
        BY <1>21
      <4>. QED BY <1>5, <1>18, <1>21, <4>1 DEF Store!Drop
    <3>2. tree[p].kids[key].kind = "folder" /\ tree[p].kids[key].handle = x
      BY <1>3, <1>11, <2>2 DEF ObjectAt
    <3>3. tree[x].kids = <<>>
      BY <1>12, <2>2
    <3>. QED BY <1>11, <1>15, <1>20, <1>22, <3>1, <3>2, <3>3 DEF Store!Remove
  <2>. QED BY <1>11, <2>1, <2>2
<1>24. \A h \in ds2 : Keyed(dk2[h]) /\ Unmarked(dk2[h])
  BY <1>5, <1>9
<1>. QED BY <1>3, <1>5, <1>23, <1>24

(***************************************************************************)
(* Every step.                                                             *)
(***************************************************************************)
LEMMA InitMapped == MappedInit => Mapped /\ Store!Init
<1>. SUFFICES ASSUME MappedInit PROVE Mapped /\ Store!Init
  OBVIOUS
<1>1. RootCluster \in Clusters
  BY ClusterMapAssumption DEF Clusters, RootCluster, FirstCluster
<1>2. dirs = {RootCluster} /\ disk[RootCluster] = RootTable
  BY <1>1 DEF MappedInit, Init
<1>3. /\ RootTable[SelfSlot] = [DirEntry(RootName, NoExt, RootCluster) EXCEPT !.notEmpty = TRUE]
      /\ \A s \in ChildSlots : RootTable[s] = BlankEntry
      /\ \A s \in Slots : s = SelfSlot \/ s \in ChildSlots
  BY SlotNumbers DEF RootTable, BlankTable, ChildSlots
<1>4. /\ KeyOf(RootTable[SelfSlot]) = <<RootName, NoExt>>
      /\ \A s \in ChildSlots : /\ RootTable[s].name = NoName /\ ~ RootTable[s].notEmpty
                               /\ KeyOf(RootTable[s]) = <<NoName, NoExt>>
  BY <1>3 DEF KeyOf, DirEntry, BlankEntry
<1>5. Keyed(RootTable) /\ Unmarked(RootTable) /\ Children(RootTable) = {}
  <2>1. Keyed(RootTable)
    <3>. SUFFICES ASSUME NEW r \in Slots, NEW s \in Slots, RootTable[r].name # NoName,
                         KeyOf(RootTable[r]) = KeyOf(RootTable[s])
                  PROVE  r = s
      BY DEF Keyed
    <3>1. r = SelfSlot
      BY <1>3, <1>4
    <3>2. s = SelfSlot
      BY <1>3, <1>4, <3>1, NameAssumption
    <3>. QED BY <3>1, <3>2
  <2>. QED BY <1>4, <2>1 DEF Unmarked, Children
<1>6. Mapped
  BY <1>2, <1>5, InitOrderly DEF Mapped, Tidy, MappedInit
<1>7. Store!Init
  <2>1. KidsAt(fat, disk, RootTable) = <<>>
    BY <1>5, NoKids
  <2>2. DirectoryAt(fat, disk, RootTable) = Store!NewDirectory(RootName)
    BY <1>4, <2>1 DEF DirectoryAt, Store!NewDirectory
  <2>3. tree = TreeAt(fat, disk, {RootCluster})
    BY <1>2, TreeIs DEF MappedInit
  <2>4. tree = [h \in {RootCluster} |-> Store!NewDirectory(RootName)]
    BY <1>2, <2>2, <2>3 DEF TreeAt
  <2>5. ret = 0 /\ got = Store!Nothing
    BY DEF MappedInit, Init, Nothing, Store!Nothing
  <2>. QED BY <2>4, <2>5 DEF Store!Init
<1>. QED BY <1>6, <1>7

LEMMA StoreStep ==
  ASSUME Misuse = {}
  PROVE  Mapped /\ [MappedNext]_<<vars, tree>> => Mapped' /\ [Store!Next]_(Store!storeVars)
<1>. SUFFICES ASSUME Mapped, [MappedNext]_<<vars, tree>>
              PROVE  Mapped' /\ [Store!Next]_(Store!storeVars)
  OBVIOUS
<1>1. CASE UNCHANGED <<vars, tree>>
  <2>1. UNCHANGED vars /\ UNCHANGED tree
    BY <1>1
  <2>2. UNCHANGED <<fat, disk, dirs, ret, got>>
    BY <2>1 DEF vars
  <2>3. Orderly'
    BY <2>1, NoMisuseIsCareful, OrderlyStep DEF Mapped, Tidy
  <2>4. Tidy'
    BY <2>2, <2>3 DEF Mapped, Tidy
  <2>5. tree' = TreeOnDisk'
    BY <2>1, <2>2, TreeIs DEF Mapped
  <2>6. UNCHANGED Store!storeVars
    BY <2>1, <2>2 DEF Store!storeVars
  <2>. QED BY <2>4, <2>5, <2>6 DEF Mapped
<1>2. CASE MappedNext
  <2>1. Orderly'
    BY <1>2, NoMisuseIsCareful, OrderlyStep DEF Mapped, Tidy, MappedNext
  <2>2. tree' = TreeOnDisk' /\ (UNCHANGED <<fat, disk, dirs>> => UNCHANGED tree)
    <3>1. UNCHANGED <<fat, disk, dirs>> => TreeOnDisk' = TreeOnDisk
      BY TreeIs
    <3>. QED BY <1>2, <3>1 DEF MappedNext, Mapped
  <2>. SUFFICES ASSUME NEW p \in Parents, NEW name \in Callable, NEW ext \in Exts,
                       Call(p, name, ext)
                PROVE  (\A d \in dirs' : Keyed(disk'[d]) /\ Unmarked(disk'[d])) /\ Store!Next
    BY <1>2, <2>1, <2>2 DEF MappedNext, Next, Mapped, Tidy
  <2>. DEFINE key == <<name, ext>>
  <2>3. ASSUME UNCHANGED <<fat, disk, dirs>>
        PROVE  UNCHANGED tree /\ \A d \in dirs' : Keyed(disk'[d]) /\ Unmarked(disk'[d])
    BY <2>2, <2>3 DEF Mapped, Tidy
  <2>4. ASSUME NEW size \in FileSizes, WriteRefused(p, name, ext, size)
        PROVE  (\A d \in dirs' : Keyed(disk'[d]) /\ Unmarked(disk'[d])) /\ Store!Next
    <3>1. UNCHANGED tree /\ \A d \in dirs' : Keyed(disk'[d]) /\ Unmarked(disk'[d])
      BY <2>3, <2>4 DEF WriteRefused
    <3>. QED BY <2>4, <3>1, RefusedWrites, StoreCall
  <2>5. ASSUME NEW size \in FileSizes,
               ReadFile(p, name, ext, size) \/ ReadRefused(p, name, ext, size)
        PROVE  (\A d \in dirs' : Keyed(disk'[d]) /\ Unmarked(disk'[d])) /\ Store!Next
    <3>1. UNCHANGED tree /\ \A d \in dirs' : Keyed(disk'[d]) /\ Unmarked(disk'[d])
      BY <2>3, <2>5 DEF ReadFile, ReadRefused
    <3>2. p \in dirs /\ Store!Read(p, key, size)
      BY <2>5, <3>1, FileReads
    <3>. QED BY <3>1, <3>2, StoreCall DEF FileSizes
  <2>6. ASSUME ReadDirectory(p, name, ext)
        PROVE  (\A d \in dirs' : Keyed(disk'[d]) /\ Unmarked(disk'[d])) /\ Store!Next
    <3>1. UNCHANGED tree /\ \A d \in dirs' : Keyed(disk'[d]) /\ Unmarked(disk'[d])
      BY <2>3, <2>6 DEF ReadDirectory
    <3>. QED BY <2>6, <3>1, DirectoryReads, StoreCall
  <2>7. CASE WriteFolder(p, name, ext)
    <3>1. /\ \A d \in dirs' : Keyed(disk'[d]) /\ Unmarked(disk'[d])
          /\ p \in dirs /\ \E g \in Clusters : Store!MakeFolder(p, key, g)
      BY <2>1, <2>2, <2>7, FolderMade
    <3>. QED BY <3>1, StoreCall
  <2>8. ASSUME NEW size \in FileSizes, NEW d \in Datas, WriteFile(p, name, ext, size, d)
        PROVE  (\A h \in dirs' : Keyed(disk'[h]) /\ Unmarked(disk'[h])) /\ Store!Next
    <3>1. /\ \A h \in dirs' : Keyed(disk'[h]) /\ Unmarked(disk'[h])
          /\ p \in dirs /\ size \in 1 .. MaxFileClusters
          /\ Store!MakeFile(p, key, d, size)
      BY <2>1, <2>2, <2>8, FileMade
    <3>. QED BY <3>1, StoreCall
  <2>9. CASE DeleteEntry(p, name, ext)
    <3>1. /\ \A h \in dirs' : Keyed(disk'[h]) /\ Unmarked(disk'[h])
          /\ p \in dirs /\ Store!Remove(p, key)
      BY <2>1, <2>2, <2>9, EntryRemoved
    <3>. QED BY <3>1, StoreCall
  <2>. QED BY <2>4, <2>5, <2>6, <2>7, <2>8, <2>9, NeverSo DEF Call
<1>. QED BY <1>1, <1>2

\* For a caller who makes none of the uses in Misuse, on a volume of every size:
\* each call creates, removes or answers exactly what the interface says, and a
\* read hands back what the last write of that name stored.  Such a caller lists
\* a directory by its own extension; the interface has it unused.
THEOREM StoreImplemented ==
  ASSUME Misuse = {}
  PROVE  MappedSpec => ImplementsStore
<1>1. MappedInit => Mapped /\ Store!Init
  BY InitMapped
<1>2. Mapped /\ [MappedNext]_<<vars, tree>> => Mapped' /\ [Store!Next]_(Store!storeVars)
  BY StoreStep
<1>. QED BY <1>1, <1>2, PTL DEF MappedSpec, ImplementsStore, Store!Spec
=============================================================================
