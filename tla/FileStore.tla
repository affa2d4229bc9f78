----------------------------- MODULE FileStore -----------------------------
(***************************************************************************)
(* What the CRUD interface of the driver promises a caller who keeps to    *)
(* it (src/src/lib-header/filesystem/fat32.h, "CRUD Operation"): a tree    *)
(* of directories, known by handle, that hold files and directories by     *)
(* name.  Nothing of clusters, tables or chains is seen here.              *)
(***************************************************************************)
EXTENDS Integers, Sequences

CONSTANTS
  Handles, Root,              \* numbers by which directories are known
  Names, RootName, NoName,
  Exts, NoExt,
  Datas, MaxSize

VARIABLES
  tree,   \* handle of a live directory -> its own key and its children
  ret,    \* result of the last call
  got     \* what the last call handed to the caller

storeVars == <<tree, ret, got>>

Nothing == [data |-> <<>>, list |-> {}]
Data(content) == [Nothing EXCEPT !.data = content]
List(keys) == [Nothing EXCEPT !.list = keys]

Folder(h) == [kind |-> "folder", handle |-> h]
File(content) == [kind |-> "file", content |-> content]

Live == DOMAIN tree
NewDirectory(name) == [self |-> <<name, NoExt>>, kids |-> <<>>]
Taken(h, key) == key = tree[h].self \/ key \in DOMAIN tree[h].kids

Put(f, key, v) == [k \in DOMAIN f \cup {key} |-> IF k = key THEN v ELSE f[k]]
Drop(f, key) == [k \in DOMAIN f \ {key} |-> f[k]]

Init ==
  /\ tree = [h \in {Root} |-> NewDirectory(RootName)]
  /\ ret = 0
  /\ got = Nothing

Answer(code, what) == ret' = code /\ got' = what
-----------------------------------------------------------------------------
RefuseWrite(h, key) ==
  /\ \/ Answer(-1, Nothing) /\ key[1] = NoName
     \/ Answer(1, Nothing) /\ key[1] # NoName /\ Taken(h, key)
  /\ UNCHANGED tree

MakeFile(h, key, d, size) ==
  /\ Answer(0, Nothing)
  /\ key[1] # NoName /\ ~Taken(h, key)
  /\ tree' = [tree EXCEPT ![h].kids = Put(@, key, File([i \in 1 .. size |-> <<d, i>>]))]

MakeFolder(h, key, g) ==
  /\ Answer(0, Nothing)
  /\ key[1] # NoName /\ ~Taken(h, key)
  /\ g \notin Live
  /\ LET linked == [tree EXCEPT ![h].kids = Put(@, key, Folder(g))]
     IN  tree' = Put(linked, g, NewDirectory(key[1]))

\* A file, or a directory with nothing in it.
Remove(h, key) ==
  /\ Answer(0, Nothing)
  /\ key \in DOMAIN tree[h].kids
  /\ LET unlinked == [tree EXCEPT ![h].kids = Drop(@, key)]
         object   == tree[h].kids[key]
     IN  \/ /\ object.kind = "file"
            /\ tree' = unlinked
         \/ /\ object.kind = "folder"
            /\ tree[object.handle].kids = <<>>
            /\ tree' = Drop(unlinked, object.handle)
-----------------------------------------------------------------------------
Read(h, key, size) ==
  /\ UNCHANGED tree
  /\ \/ Answer(3, Nothing) /\ ~Taken(h, key)
     \/ Answer(1, Nothing) /\ key = tree[h].self
     \/ /\ key \in DOMAIN tree[h].kids
        /\ LET object == tree[h].kids[key]
           IN  \/ object.kind = "folder" /\ Answer(1, Nothing)
               \/ /\ object.kind = "file"
                  /\ IF size < Len(object.content)
                       THEN Answer(2, Nothing)
                       ELSE Answer(0, Data(object.content))

\* "ext is unused": the directory itself, or a child of that name.
ReadDirectory(h, name) ==
  /\ UNCHANGED tree
  /\ \/ /\ name # tree[h].self[1]
        /\ \A key \in DOMAIN tree[h].kids : key[1] # name
        /\ Answer(2, Nothing)
     \/ name = tree[h].self[1] /\ Answer(0, List(DOMAIN tree[h].kids))
     \/ \E key \in DOMAIN tree[h].kids :
          /\ key[1] = name
          /\ LET object == tree[h].kids[key]
             IN  \/ object.kind = "file" /\ Answer(1, Nothing)
                 \/ object.kind = "folder" /\ Answer(0, List(DOMAIN tree[object.handle].kids))
-----------------------------------------------------------------------------
Next ==
  \E h \in Live, key \in (Names \cup {NoName}) \X Exts :
    \/ RefuseWrite(h, key)
    \/ \E d \in Datas, size \in 1 .. MaxSize : MakeFile(h, key, d, size)
    \/ \E g \in Handles : MakeFolder(h, key, g)
    \/ Remove(h, key)
    \/ \E size \in 0 .. MaxSize : Read(h, key, size)
    \/ ReadDirectory(h, key[1])

Spec == Init /\ [][Next]_storeVars
=============================================================================
