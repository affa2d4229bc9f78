-------------------------- MODULE Fat32RootProofs --------------------------
(***************************************************************************)
(* The tree of directories, for every size of the volume: a walk from the  *)
(* root finds the live directories and no other, as long as nobody deletes *)
(* a directory that still has entries.                                     *)
(***************************************************************************)
EXTENDS Fat32Proofs, FiniteSetTheorems, SequenceTheorems

CarefulKinds == BenignKinds \ {"filled_folder"}

(***************************************************************************)
(* Trees.  ds are the directories of a tree in the clusters dk: the root,  *)
(* what the entries of a member lead to, and nothing beyond what that      *)
(* takes.                                                                  *)
(***************************************************************************)
Below(dk, D) ==
  {dk[e[1]][e[2]].cluster : e \in {e \in D \X ChildSlots : dk[e[1]][e[2]].attr = "dir"}}

Closed(dk, D) == RootCluster \in D /\ Below(dk, D) \subseteq D

Tree(dk, ds) ==
  /\ Closed(dk, ds)
  /\ \A D \in SUBSET ds : Closed(dk, D) => D = ds

\* r is a walk from the root, level by level, as long as it stays in ds.
Levels(dk, ds, r) ==
  /\ r[0] = {RootCluster}
  /\ \A n \in Nat : r[n] \subseteq ds => r[n + 1] = r[n] \cup Below(dk, r[n])

\* Such a walk has found a tree when it has taken as many steps as there are
\* clusters: each step finds a directory, or there is none left to find.
LEMMA TreeFound ==
  ASSUME NEW dk, NEW ds \in SUBSET Clusters, Tree(dk, ds), NEW r, Levels(dk, ds, r)
  PROVE  /\ r[ClusterMapSize] = ds
         /\ \A n \in Nat : r[n] \subseteq ds
<1>1. \A n \in Nat : r[n] \subseteq ds /\ RootCluster \in r[n]
  <2>. DEFINE Bad == {n \in Nat : ~ (r[n] \subseteq ds /\ RootCluster \in r[n])}
  <2>. SUFFICES ASSUME Bad # {} PROVE FALSE
    OBVIOUS
  <2>1. PICK n \in Bad : \A m \in Bad : n <= m
    <3>1. Bad \subseteq Nat
      OBVIOUS
    <3>. HIDE DEF Bad
    <3>. QED BY <3>1, LeastOf
  <2>2. n # 0
    BY <2>1 DEF Levels, Tree, Closed
  <2>3. n - 1 \in Nat /\ (n - 1) + 1 = n /\ n - 1 \notin Bad
    BY <2>1, <2>2
  <2>4. r[n - 1] \subseteq ds /\ RootCluster \in r[n - 1]
    BY <2>3
  <2>5. r[n] = r[n - 1] \cup Below(dk, r[n - 1])
    BY <2>3, <2>4 DEF Levels
  <2>6. Below(dk, r[n - 1]) \subseteq Below(dk, ds)
    BY <2>4 DEF Below
  <2>7. Below(dk, ds) \subseteq ds
    BY DEF Tree, Closed
  <2>. QED BY <2>1, <2>4, <2>5, <2>6, <2>7
<1>2. \A n \in Nat : r[n + 1] = r[n] \cup Below(dk, r[n])
  BY <1>1 DEF Levels
<1>3. \A n \in Nat : r[n + 1] = r[n] => r[n] = ds
  <2>. SUFFICES ASSUME NEW n \in Nat, r[n + 1] = r[n] PROVE r[n] = ds
    OBVIOUS
  <2>1. Closed(dk, r[n])
    BY <1>1, <1>2 DEF Closed
  <2>. QED BY <1>1, <2>1 DEF Tree
<1>4. IsFiniteSet(ds) /\ Cardinality(ds) <= ClusterMapSize /\ Cardinality(ds) \in Nat
  <2>1. IsFiniteSet(Clusters) /\ Cardinality(Clusters) = ClusterMapSize
    BY FS_Interval, ClusterMapAssumption DEF Clusters, FirstCluster
  <2>2. IsFiniteSet(ds) /\ Cardinality(ds) <= Cardinality(Clusters)
    BY <2>1, FS_Subset
  <2>. QED BY <2>1, <2>2, FS_CardinalityType
<1>5. \A n \in Nat : IsFiniteSet(r[n]) /\ Cardinality(r[n]) \in Nat
                     /\ Cardinality(r[n]) <= Cardinality(ds)
  <2>. SUFFICES ASSUME NEW n \in Nat
                PROVE  /\ IsFiniteSet(r[n]) /\ Cardinality(r[n]) \in Nat
                       /\ Cardinality(r[n]) <= Cardinality(ds)
    OBVIOUS
  <2>1. r[n] \in SUBSET ds
    BY <1>1
  <2>2. IsFiniteSet(r[n]) /\ Cardinality(r[n]) <= Cardinality(ds)
    BY <1>4, <2>1, FS_Subset
  <2>. QED BY <2>2, FS_CardinalityType
\* As long as something is left to find, n steps have found more than n.
<1>6. \A n \in Nat : r[n] = ds \/ Cardinality(r[n]) > n
  <2>. DEFINE Bad == {n \in Nat : ~ (r[n] = ds \/ Cardinality(r[n]) > n)}
  <2>. SUFFICES ASSUME Bad # {} PROVE FALSE
    OBVIOUS
  <2>1. PICK n \in Bad : \A m \in Bad : n <= m
    <3>1. Bad \subseteq Nat
      OBVIOUS
    <3>. HIDE DEF Bad
    <3>. QED BY <3>1, LeastOf
  <2>2. n # 0
    <3>1. Cardinality(r[0]) = 1
      BY FS_Singleton DEF Levels
    <3>. QED BY <2>1, <3>1
  <2>3. n - 1 \in Nat /\ (n - 1) + 1 = n /\ n - 1 \notin Bad /\ n \in Nat
    BY <2>1, <2>2
  <2>4. r[n] = r[n - 1] \cup Below(dk, r[n - 1])
    BY <1>2, <2>3
  <2>5. CASE r[n - 1] = ds
    <3>1. r[n] = ds
      BY <1>1, <2>3, <2>4, <2>5
    <3>. QED BY <2>1, <3>1
  <2>6. CASE r[n - 1] # ds
    <3>1. Cardinality(r[n - 1]) > n - 1
      BY <2>3, <2>6
    <3>2. r[n] # r[n - 1]
      BY <1>3, <2>3, <2>6
    <3>3. PICK x \in r[n] : x \notin r[n - 1]
      BY <2>4, <3>2
    <3>4. Cardinality(r[n - 1] \cup {x}) = Cardinality(r[n - 1]) + 1
      BY <1>5, <2>3, <3>3, FS_AddElement
    <3>5. Cardinality(r[n - 1] \cup {x}) <= Cardinality(r[n])
      <4>1. r[n - 1] \cup {x} \in SUBSET r[n]
        BY <2>4, <3>3
      <4>. QED BY <1>5, <2>3, <4>1, FS_Subset
    <3>6. Cardinality(r[n]) > n
      BY <1>5, <2>3, <3>1, <3>4, <3>5
    <3>. QED BY <2>1, <3>6
  <2>. QED BY <2>5, <2>6
<1>. QED BY <1>1, <1>4, <1>5, <1>6, ClusterMapAssumption

(***************************************************************************)
(* That there is such a walk: its first n levels, and then all of them.    *)
(***************************************************************************)
Levelled(dk, g, n) ==
  g = [k \in 0 .. n |-> IF k = 0 THEN {RootCluster} ELSE g[k - 1] \cup Below(dk, g[k - 1])]

LEMMA LevelledExists ==
  ASSUME NEW dk
  PROVE  \A n \in Nat : \E g : Levelled(dk, g, n)
<1>. DEFINE Bad == {n \in Nat : ~ \E g : Levelled(dk, g, n)}
<1>. SUFFICES ASSUME Bad # {} PROVE FALSE
  OBVIOUS
<1>1. PICK n \in Bad : \A m \in Bad : n <= m
  <2>1. Bad \subseteq Nat
    OBVIOUS
  <2>. HIDE DEF Bad
  <2>. QED BY <2>1, LeastOf
<1>2. CASE n = 0
  <2>. DEFINE g == [k \in 0 .. 0 |-> {RootCluster}]
  <2>1. Levelled(dk, g, 0)
    BY DEF Levelled
  <2>. QED BY <1>1, <1>2, <2>1
<1>3. CASE n > 0
  <2>1. n \in Nat /\ n - 1 \in Nat /\ n - 1 \notin Bad
    BY <1>1, <1>3
  <2>2. PICK h : Levelled(dk, h, n - 1)
    BY <2>1
  <2>. DEFINE g == [k \in 0 .. n |-> IF k < n THEN h[k]
                                     ELSE h[n - 1] \cup Below(dk, h[n - 1])]
  <2>3. \A k \in 0 .. n - 1 :
          h[k] = IF k = 0 THEN {RootCluster} ELSE h[k - 1] \cup Below(dk, h[k - 1])
    BY <2>1, <2>2 DEF Levelled
  <2>4. ASSUME NEW k \in 0 .. n
        PROVE  g[k] = IF k = 0 THEN {RootCluster} ELSE g[k - 1] \cup Below(dk, g[k - 1])
    <3>1. CASE k = n
      <4>1. g[k] = h[n - 1] \cup Below(dk, h[n - 1]) /\ g[k - 1] = h[n - 1] /\ k # 0
        BY <1>3, <2>1, <3>1
      <4>. QED BY <3>1, <4>1
    <3>2. CASE k = 0
      <4>1. 0 \in 0 .. n - 1
        BY <1>3, <2>1
      <4>2. h[0] = {RootCluster}
        BY <2>3, <4>1
      <4>3. g[0] = h[0]
        BY <1>3, <2>1
      <4>. QED BY <3>2, <4>2, <4>3
    <3>3. CASE k < n /\ k # 0
      <4>1. g[k] = h[k] /\ g[k - 1] = h[k - 1] /\ k \in 0 .. n - 1
        BY <2>1, <3>3
      <4>. QED BY <2>3, <3>3, <4>1
    <3>. QED BY <2>1, <3>1, <3>2, <3>3
  <2>5. Levelled(dk, g, n)
    BY <2>4 DEF Levelled
  <2>. QED BY <1>1, <2>5
<1>. QED BY <1>1, <1>2, <1>3

LEMMA LevelledAgree ==
  ASSUME NEW dk, NEW m \in Nat, NEW n \in Nat, m <= n,
         NEW g, Levelled(dk, g, m), NEW h, Levelled(dk, h, n)
  PROVE  \A k \in 0 .. m : g[k] = h[k]
<1>. DEFINE Bad == {k \in 0 .. m : g[k] # h[k]}
<1>. SUFFICES ASSUME Bad # {} PROVE FALSE
  OBVIOUS
<1>1. PICK k \in Bad : \A j \in Bad : k <= j
  <2>1. Bad \subseteq Nat
    OBVIOUS
  <2>. HIDE DEF Bad
  <2>. QED BY <2>1, LeastOf
<1>2. /\ \A i \in 0 .. m :
           g[i] = IF i = 0 THEN {RootCluster} ELSE g[i - 1] \cup Below(dk, g[i - 1])
      /\ \A i \in 0 .. n :
           h[i] = IF i = 0 THEN {RootCluster} ELSE h[i - 1] \cup Below(dk, h[i - 1])
  BY DEF Levelled
<1>3. k \in 0 .. m /\ k \in 0 .. n /\ k # 0
  <2>1. k \in 0 .. m /\ k \in 0 .. n /\ g[k] # h[k]
    OBVIOUS
  <2>2. 0 \in 0 .. m /\ 0 \in 0 .. n
    OBVIOUS
  <2>3. g[0] = {RootCluster} /\ h[0] = {RootCluster}
    BY <1>2, <2>2
  <2>. QED BY <2>1, <2>3
<1>4. k - 1 \in 0 .. m /\ ~ (k <= k - 1)
  BY <1>3
<1>5. g[k - 1] = h[k - 1]
  BY <1>1, <1>4
<1>. QED BY <1>1, <1>2, <1>3, <1>5

LEMMA LevelsExist ==
  ASSUME NEW dk
  PROVE  \E r : r = [n \in Nat |-> IF n = 0 THEN {RootCluster}
                                   ELSE r[n - 1] \cup Below(dk, r[n - 1])]
<1>. DEFINE upto(n) == CHOOSE g : Levelled(dk, g, n)
            r == [n \in Nat |-> upto(n)[n]]
<1>1. \A n \in Nat : Levelled(dk, upto(n), n)
  BY LevelledExists
<1>. HIDE DEF upto
<1>2. ASSUME NEW n \in Nat
      PROVE  r[n] = IF n = 0 THEN {RootCluster} ELSE r[n - 1] \cup Below(dk, r[n - 1])
  <2>1. upto(n)[n] = IF n = 0 THEN {RootCluster}
                     ELSE upto(n)[n - 1] \cup Below(dk, upto(n)[n - 1])
    <3>1. PICK g : g = upto(n)
      OBVIOUS
    <3>2. Levelled(dk, g, n) /\ n \in 0 .. n
      BY <1>1, <3>1
    <3>3. g[n] = IF n = 0 THEN {RootCluster} ELSE g[n - 1] \cup Below(dk, g[n - 1])
      BY <3>2 DEF Levelled
    <3>. QED BY <3>1, <3>3
  <2>2. CASE n = 0
    BY <2>1, <2>2
  <2>3. CASE n # 0
    <3>1. n - 1 \in Nat /\ n - 1 <= n /\ n - 1 \in 0 .. n - 1
      BY <2>3
    <3>2. upto(n - 1)[n - 1] = upto(n)[n - 1]
      BY <1>1, <3>1, LevelledAgree
    <3>. QED BY <2>1, <2>3, <3>1, <3>2
  <2>. QED BY <2>2, <2>3
<1>3. r = [n \in Nat |-> IF n = 0 THEN {RootCluster}
                         ELSE r[n - 1] \cup Below(dk, r[n - 1])]
  <2>1. r = [n \in Nat |-> r[n]]
    OBVIOUS
  <2>. HIDE DEF r
  <2>. QED BY <1>2, <2>1
<1>. QED BY <1>3

(***************************************************************************)
(* What becomes of a tree when an entry comes or goes.                     *)
(***************************************************************************)
LEMMA BelowIs ==
  ASSUME NEW dk, NEW D, NEW y
  PROVE  y \in Below(dk, D) <=>
           \E d \in D, s \in ChildSlots : dk[d][s].attr = "dir" /\ dk[d][s].cluster = y
<1>1. ASSUME y \in Below(dk, D)
      PROVE  \E d \in D, s \in ChildSlots : dk[d][s].attr = "dir" /\ dk[d][s].cluster = y
  <2>1. PICK e \in D \X ChildSlots : dk[e[1]][e[2]].attr = "dir" /\ y = dk[e[1]][e[2]].cluster
    BY <1>1 DEF Below
  <2>2. e[1] \in D /\ e[2] \in ChildSlots
    BY <2>1
  <2>. QED BY <2>1, <2>2
<1>2. ASSUME NEW d \in D, NEW s \in ChildSlots, dk[d][s].attr = "dir", dk[d][s].cluster = y
      PROVE  y \in Below(dk, D)
  <2>1. <<d, s>> \in D \X ChildSlots /\ <<d, s>>[1] = d /\ <<d, s>>[2] = s
    OBVIOUS
  <2>. QED BY <1>2, <2>1 DEF Below
<1>. QED BY <1>1, <1>2

\* A cluster without such entries has nothing below it.
LEMMA BelowWithout ==
  ASSUME NEW dk, NEW D, NEW x, \A r \in ChildSlots : dk[x][r].attr # "dir"
  PROVE  Below(dk, D \cup {x}) = Below(dk, D)
<1>. SUFFICES ASSUME NEW y
              PROVE  y \in Below(dk, D \cup {x}) <=> y \in Below(dk, D)
  OBVIOUS
<1>. QED BY BelowIs

\* The same entries lead to the same directories.
LEMMA TreeKept ==
  ASSUME NEW dk, NEW dk2, NEW ds, Tree(dk, ds),
         \A d \in ds, s \in ChildSlots :
           /\ dk2[d][s].attr = "dir" <=> dk[d][s].attr = "dir"
           /\ dk[d][s].attr = "dir" => dk2[d][s].cluster = dk[d][s].cluster
  PROVE  Tree(dk2, ds)
<1>1. \A D \in SUBSET ds : Below(dk2, D) = Below(dk, D)
  <2>. SUFFICES ASSUME NEW D \in SUBSET ds, NEW y
                PROVE  y \in Below(dk2, D) <=> y \in Below(dk, D)
    OBVIOUS
  <2>. QED BY BelowIs
<1>. QED BY <1>1 DEF Tree, Closed

\* An entry for a new directory, which has no entries yet.
LEMMA TreeGrows ==
  ASSUME NEW dk, NEW dk2, NEW ds, Tree(dk, ds),
         NEW n, n \notin ds, NEW p \in ds, NEW s \in ChildSlots,
         dk[p][s].attr # "dir",
         dk2[p][s].attr = "dir", dk2[p][s].cluster = n,
         \A d \in ds, r \in ChildSlots :
           ~ (d = p /\ r = s) => /\ dk2[d][r].attr = dk[d][r].attr
                                 /\ dk2[d][r].cluster = dk[d][r].cluster,
         \A r \in ChildSlots : dk2[n][r].attr # "dir"
  PROVE  Tree(dk2, ds \cup {n})
<1>1. \A D \in SUBSET ds :
        Below(dk2, D) = IF p \in D THEN Below(dk, D) \cup {n} ELSE Below(dk, D)
  <2>. SUFFICES ASSUME NEW D \in SUBSET ds, NEW y
                PROVE  y \in Below(dk2, D) <=>
                         y \in Below(dk, D) \/ (p \in D /\ y = n)
    OBVIOUS
  <2>1. ASSUME y \in Below(dk2, D) PROVE y \in Below(dk, D) \/ (p \in D /\ y = n)
    <3>1. PICK d \in D, r \in ChildSlots : dk2[d][r].attr = "dir" /\ dk2[d][r].cluster = y
      BY <2>1, BelowIs
    <3>. QED BY <3>1, BelowIs
  <2>2. ASSUME y \in Below(dk, D) PROVE y \in Below(dk2, D)
    <3>1. PICK d \in D, r \in ChildSlots : dk[d][r].attr = "dir" /\ dk[d][r].cluster = y
      BY <2>2, BelowIs
    <3>2. ~ (d = p /\ r = s)
      BY <3>1
    <3>3. d \in ds
      OBVIOUS
    <3>4. dk2[d][r].attr = "dir" /\ dk2[d][r].cluster = y
      BY <3>1, <3>2, <3>3
    <3>. QED BY <3>4, BelowIs
  <2>3. ASSUME p \in D, y = n PROVE y \in Below(dk2, D)
    BY <2>3, BelowIs
  <2>. QED BY <2>1, <2>2, <2>3
<1>2. \A D : Below(dk2, D \cup {n}) = Below(dk2, D)
  BY BelowWithout
<1>3. Closed(dk2, ds \cup {n})
  BY <1>1, <1>2 DEF Tree, Closed
<1>4. ASSUME NEW D \in SUBSET (ds \cup {n}), Closed(dk2, D)
      PROVE  D = ds \cup {n}
  <2>. DEFINE E == D \ {n}
  <2>1. E \in SUBSET ds
    OBVIOUS
  <2>2. Below(dk2, D) = Below(dk2, E)
    <3>1. D = E \/ D = E \cup {n}
      OBVIOUS
    <3>. HIDE DEF E
    <3>. QED BY <1>2, <3>1
  <2>. HIDE DEF E
  <2>3. Below(dk, E) \subseteq Below(dk2, E)
    BY <1>1, <2>1
  <2>4. Below(dk, E) \subseteq ds
    <3>1. Below(dk, E) \subseteq Below(dk, ds)
      BY <2>1, BelowIs
    <3>. QED BY <3>1 DEF Tree, Closed
  <2>5. RootCluster \in E
    BY <1>4 DEF Closed, Tree, E
  <2>6. Below(dk, E) \subseteq E
    BY <1>4, <2>2, <2>3, <2>4 DEF Closed, E
  <2>7. E = ds
    BY <2>1, <2>5, <2>6 DEF Tree, Closed
  <2>8. n \in Below(dk2, E)
    BY <1>1, <2>7
  <2>. QED BY <1>4, <2>2, <2>7, <2>8 DEF Closed, E
<1>. QED BY <1>3, <1>4 DEF Tree

\* The only entry for a directory without entries goes.
LEMMA TreePruned ==
  ASSUME NEW dk, NEW dk2, NEW ds, Tree(dk, ds),
         NEW p \in ds, NEW s \in ChildSlots, NEW x, x # RootCluster, x # p,
         dk[p][s].attr = "dir", dk[p][s].cluster = x, dk2[p][s].attr # "dir",
         \A d \in ds, r \in ChildSlots :
           ~ (d = p /\ r = s) => /\ dk2[d][r].attr = dk[d][r].attr
                                 /\ dk2[d][r].cluster = dk[d][r].cluster
                                 /\ ~ (dk[d][r].attr = "dir" /\ dk[d][r].cluster = x),
         \A r \in ChildSlots : dk[x][r].attr # "dir"
  PROVE  Tree(dk2, ds \ {x})
<1>0. \A D : Below(dk, D \cup {x}) = Below(dk, D)
  <2>1. \A r \in ChildSlots : dk[x][r].attr # "dir"
    OBVIOUS
  <2>. QED BY ONLY <2>1, BelowWithout
<1>1. \A D \in SUBSET ds : Below(dk2, D) = Below(dk, D) \ {x}
  <2>. SUFFICES ASSUME NEW D \in SUBSET ds, NEW y
                PROVE  y \in Below(dk2, D) <=> y \in Below(dk, D) /\ y # x
    OBVIOUS
  <2>1. ASSUME y \in Below(dk2, D) PROVE y \in Below(dk, D) /\ y # x
    <3>1. PICK d \in D, r \in ChildSlots : dk2[d][r].attr = "dir" /\ dk2[d][r].cluster = y
      BY <2>1, BelowIs
    <3>2. ~ (d = p /\ r = s) /\ d \in ds
      BY <3>1
    <3>3. dk[d][r].attr = "dir" /\ dk[d][r].cluster = y /\ y # x
      BY <3>1, <3>2
    <3>. QED BY <3>3, BelowIs
  <2>2. ASSUME y \in Below(dk, D), y # x PROVE y \in Below(dk2, D)
    <3>1. PICK d \in D, r \in ChildSlots : dk[d][r].attr = "dir" /\ dk[d][r].cluster = y
      BY <2>2, BelowIs
    <3>2. ~ (d = p /\ r = s) /\ d \in ds
      BY <2>2, <3>1
    <3>3. dk2[d][r].attr = "dir" /\ dk2[d][r].cluster = y
      BY <3>1, <3>2
    <3>. QED BY <3>3, BelowIs
  <2>. QED BY <2>1, <2>2
<1>2. Closed(dk2, ds \ {x})
  <2>1. Below(dk2, ds \ {x}) \subseteq Below(dk2, ds)
    BY BelowIs
  <2>2. Below(dk2, ds) \subseteq ds \ {x}
    BY <1>1 DEF Tree, Closed
  <2>. QED BY <2>1, <2>2 DEF Tree, Closed
<1>3. ASSUME NEW D \in SUBSET (ds \ {x}), Closed(dk2, D)
      PROVE  D = ds \ {x}
  <2>0. x \in ds
    <3>1. x \in Below(dk, ds)
      BY BelowIs
    <3>. QED BY <3>1 DEF Tree, Closed
  <2>1. Below(dk, D \cup {x}) = Below(dk, D)
    BY <1>0
  <2>2. Below(dk, D) \subseteq Below(dk2, D) \cup {x}
    BY <1>1
  <2>3. Closed(dk, D \cup {x})
    BY <1>3, <2>1, <2>2 DEF Closed
  <2>4. D \cup {x} = ds
    BY <2>0, <2>3 DEF Tree
  <2>. QED BY <2>4
<1>. QED BY <1>2, <1>3 DEF Tree

(***************************************************************************)
(* The tables of live directories.  A directory's own entry is named and   *)
(* carries its cluster, so that no entry takes its slot; the others are    *)
(* files, directories, or free.                                            *)
(***************************************************************************)
Tables(dk, ds) ==
  \A d \in ds :
    /\ dk[d][SelfSlot].name # NoName
    /\ dk[d][SelfSlot].cluster = d
    /\ dk[d][SelfSlot].attr = "dir"
    /\ \A s \in ChildSlots :
         IF dk[d][s].name = NoName THEN dk[d][s].attr = "none"
                                   ELSE dk[d][s].attr \in {"file", "dir"}

\* Entries that differ in their mark at most.
Same(e, f) ==
  /\ e.name = f.name /\ e.ext = f.ext /\ e.attr = f.attr
  /\ e.cluster = f.cluster /\ e.size = f.size

LEMMA SlotNumbers == SelfSlot \in Slots /\ ChildSlots \subseteq Slots /\ SelfSlot \notin ChildSlots
BY SlotAssumption DEF SelfSlot, Slots, ChildSlots

\* What a new folder changes in the tables.
LEMMA FolderTables ==
  ASSUME Sound, Tables(disk, dirs),
         NEW p \in dirs, NEW name \in Callable, NEW ext \in Exts,
         WriteFolder(p, name, ext)
  PROVE  \E ch \in Chains(fat, 1), s \in ChildSlots :
           /\ fat' = Linked(fat, ch, 1)
           /\ ch[1] \in DataClusters /\ ch[1] \notin dirs /\ fat[ch[1]] = EMPTY
           /\ p \in dirs /\ dirs' = dirs \cup {ch[1]}
           /\ disk[p][s].name = NoName /\ name # NoName
           /\ disk'[ch[1]] = NewTable(name, ch[1])
           /\ disk'[p][s] = DirEntry(name, ext, ch[1])
           /\ \A r \in Slots : r # s => disk'[p][r] = disk[p][r]
           /\ \A c \in Clusters : c # p /\ c # ch[1] => disk'[c] = disk[c]
<1>. USE DEF Sound
<1>0. Needed(0) = 1 /\ 1 \in Nat \ {0}
  BY DEF Needed
<1>1. PICK ch \in Chains(fat, 1), s \in find_empty_entry(disk[p]) :
        /\ fat' = Linked(fat, ch, 1)
        /\ disk' = [disk EXCEPT ![p]     = [@ EXCEPT ![s] = DirEntry(name, ext, ch[1])],
                                ![ch[1]] = NewTable(name, ch[1])]
        /\ dirs' = IF p \in dirs THEN dirs \cup {ch[1]} ELSE dirs
  BY <1>0 DEF WriteFolder
<1>2. p \in dirs /\ name # NoName
  BY DEF WriteFolder, WriteCode
<1>3. p \in Clusters /\ disk[p] \in Table /\ s \in Slots /\ disk[p][s].name = NoName
  BY <1>2 DEF TypeOK, find_empty_entry, First, FreeSlots
<1>4. /\ ch[1] \in DataClusters /\ fat[ch[1]] = EMPTY /\ ch[1] \in Clusters
  BY ChainClusters, ClusterMapAssumption DEF DataClusters, Clusters, FirstCluster
<1>5. ch[1] \notin dirs /\ p # ch[1]
  BY <1>2, <1>4 DEF DirsAreEnds, EMPTY, EOF
<1>6. s \in ChildSlots
  BY <1>2, <1>3 DEF Tables, ChildSlots
<1>7. disk'[ch[1]] = NewTable(name, ch[1])
  BY <1>1, <1>4 DEF TypeOK
<1>8. disk'[p] = [disk[p] EXCEPT ![s] = DirEntry(name, ext, ch[1])]
  BY <1>1, <1>3, <1>5 DEF TypeOK
<1>9. /\ disk'[p][s] = DirEntry(name, ext, ch[1])
      /\ \A r \in Slots : r # s => disk'[p][r] = disk[p][r]
  BY <1>3, <1>8 DEF Table
<1>10. \A c \in Clusters : c # p /\ c # ch[1] => disk'[c] = disk[c]
  BY <1>1 DEF TypeOK
<1>. QED BY <1>1, <1>2, <1>3, <1>4, <1>5, <1>6, <1>7, <1>9, <1>10

\* What a new file changes in the tables.
LEMMA FileTables ==
  ASSUME Sound, Tables(disk, dirs),
         NEW p \in dirs, NEW name \in Callable, NEW ext \in Exts,
         NEW size \in FileSizes, NEW d \in Datas,
         WriteFile(p, name, ext, size, d)
  PROVE  /\ size \in Nat \ {0} /\ Needed(size) = size + 1
         /\ p \in dirs /\ UNCHANGED dirs
         /\ \E ch \in Chains(fat, Needed(size)), s \in ChildSlots :
              /\ fat' = Linked(fat, ch, Needed(size))
              /\ disk[p][s].name = NoName /\ name # NoName
              /\ Same(disk'[p][s], FileEntry(name, ext, ch[1], size))
              /\ \A r \in Slots : r # s => Same(disk'[p][r], disk[p][r])
              /\ disk'[p][s] = FileEntry(name, ext, ch[1], size)
              /\ \A r \in ChildSlots : r # s => disk'[p][r] = disk[p][r]
              /\ \A i \in 1 .. size : disk'[ch[i]] = DataTable(d, i)
              /\ \A c \in Clusters :
                   c # p /\ (\A i \in 1 .. size : c # ch[i]) => disk'[c] = disk[c]
<1>. USE DEF Sound
<1>0. size \in Nat \ {0} /\ Needed(size) = size + 1 /\ Needed(size) \in Nat \ {0} /\ 1 \in 1 .. Needed(size)
  BY SizeAssumption DEF FileSizes, Needed, WriteFile
<1>1. PICK ch \in Chains(fat, Needed(size)), s \in find_empty_entry(disk[p]) :
        /\ fat' = Linked(fat, ch, Needed(size))
        /\ disk' = [c \in Clusters |->
             IF c = p
               THEN MarkNotEmpty([disk[p] EXCEPT ![s] = FileEntry(name, ext, ch[1], size)], p)
             ELSE IF \E i \in 1 .. size : c = ch[i]
               THEN DataTable(d, CHOOSE i \in 1 .. size : c = ch[i])
             ELSE disk[c]]
  BY DEF WriteFile
<1>2. p \in dirs /\ UNCHANGED dirs /\ name # NoName
  BY DEF WriteFile, WriteCode
<1>3. p \in Clusters /\ disk[p] \in Table /\ s \in Slots /\ disk[p][s].name = NoName
  BY <1>2 DEF TypeOK, find_empty_entry, First, FreeSlots
<1>4. \A i \in 1 .. Needed(size) : ch[i] \in DataClusters /\ ch[i] \in Nat /\ fat[ch[i]] = EMPTY
  BY <1>0, ChainClusters, ClusterMapAssumption DEF DataClusters, FirstCluster
<1>5. \A i \in 1 .. size : ch[i] # p /\ ch[i] \in Clusters
  BY <1>0, <1>2, <1>4, ClusterMapAssumption
  DEF DirsAreEnds, EMPTY, EOF, DataClusters, Clusters, FirstCluster
<1>6. s \in ChildSlots
  BY <1>2, <1>3 DEF Tables, ChildSlots
<1>7. ASSUME NEW i \in 1 .. size
      PROVE  disk'[ch[i]] = DataTable(d, i)
  <2>1. \A j \in 1 .. size : ch[i] = ch[j] => i = j
    BY <1>0, ChainClusters
  <2>2. (CHOOSE j \in 1 .. size : ch[i] = ch[j]) = i
    BY <2>1
  <2>. QED BY <1>1, <1>5, <2>2
<1>8. \A c \in Clusters :
        c # p /\ (\A i \in 1 .. size : c # ch[i]) => disk'[c] = disk[c]
  BY <1>1
<1>. DEFINE new == FileEntry(name, ext, ch[1], size)
            t == [disk[p] EXCEPT ![s] = new]
<1>9. new \in Entry
  BY <1>0, <1>4, NewEntryTypes
<1>10. /\ t \in Table /\ t[s] = new
       /\ \A r \in Slots : r # s => t[r] = disk[p][r]
  <2>. HIDE DEF new
  <2>. QED BY <1>3, <1>9 DEF Table
<1>11. disk'[p] = MarkNotEmpty(t, p)
  BY <1>1, <1>3
<1>. HIDE DEF t
<1>12. \A r \in Slots : Same(disk'[p][r], t[r])
  BY <1>10, <1>11, MarkedEntries DEF Same
<1>13. /\ Same(disk'[p][s], new)
       /\ \A r \in Slots : r # s => Same(disk'[p][r], disk[p][r])
  <2>. HIDE DEF new
  <2>. QED BY <1>3, <1>10, <1>12
\* The mark goes to the directory's own entry, which the first slot holds.
<1>14. ASSUME NEW r \in ChildSlots
       PROVE  disk'[p][r] = t[r]
  <2>1. t[SelfSlot].cluster = p
    BY <1>2, <1>6, <1>10, SlotNumbers DEF Tables
  <2>2. r \in Slots /\ r \notin First({x \in Slots : t[x].cluster = p})
    BY <2>1, SlotAssumption DEF First, Slots, ChildSlots, SelfSlot
  <2>. QED BY <1>11, <2>2 DEF MarkNotEmpty
<1>15. /\ disk'[p][s] = new
       /\ \A r \in ChildSlots : r # s => disk'[p][r] = disk[p][r]
  <2>. HIDE DEF new
  <2>. QED BY <1>6, <1>10, <1>14, SlotNumbers
<1>. QED BY <1>0, <1>1, <1>2, <1>3, <1>6, <1>7, <1>8, <1>13, <1>15

\* What the removal of an entry changes in the tables.
LEMMA DeleteTables ==
  ASSUME Sound, NEW p \in Parents, NEW name, NEW ext, Aimed(p, name, ext),
         DeleteEntry(p, name, ext)
  PROVE  \E s \in ChildSlots :
           LET x == disk[p][s].cluster
           IN  /\ p \in dirs /\ <<p, s>> \in Entries /\ disk[p][s].name = name
               /\ x \in DataClusters
               /\ fat' = [fat EXCEPT ![x] = EMPTY]
               /\ dirs' = dirs \ {x}
               /\ disk' = [disk EXCEPT ![p] = [disk[p] EXCEPT ![s] = BlankEntry]]
               /\ Filled(disk[p][s]) => "filled_folder" \in Misuse
<1>. USE DEF Sound
<1>0. PICK c \in First(Hits(p, name, ext)) :
        \E s \in First(NamedSlots(disk[c], name)) :
          /\ fat' = [fat EXCEPT ![disk[c][s].cluster] = EMPTY]
          /\ disk' = [disk EXCEPT ![c] = [@ EXCEPT ![s] = BlankEntry]]
          /\ dirs' = IF c \in dirs /\ s # SelfSlot
                       THEN dirs \ {disk[c][s].cluster}
                       ELSE dirs
  BY DEF DeleteEntry
<1>1. PICK s \in First(NamedSlots(disk[c], name)) :
        /\ fat' = [fat EXCEPT ![disk[c][s].cluster] = EMPTY]
        /\ disk' = [disk EXCEPT ![c] = [@ EXCEPT ![s] = BlankEntry]]
        /\ dirs' = IF c \in dirs /\ s # SelfSlot
                     THEN dirs \ {disk[c][s].cluster}
                     ELSE dirs
  BY <1>0
<1>2. c = p /\ p \in dirs /\ <<p, s>> \in Entries
  BY DeletedEntry
<1>3. s \in ChildSlots /\ s # SelfSlot /\ disk[p][s].name = name /\ s \in NamedSlots(disk[p], name)
  BY <1>2 DEF Entries, ChildSlots, First, NamedSlots
<1>4. disk[p][s].cluster \in DataClusters
  BY <1>2 DEF NoDangling, Target
<1>5. Filled(disk[p][s]) => "filled_folder" \in Misuse
  BY <1>3 DEF DeleteEntry, MayDelete
<1>6. disk' = [disk EXCEPT ![p] = [disk[p] EXCEPT ![s] = BlankEntry]]
  BY <1>1, <1>2
<1>. QED BY <1>1, <1>2, <1>3, <1>4, <1>5, <1>6

(***************************************************************************)
(* The inductive invariant.  Rooted alone is none: that delete() of a file *)
(* removes no directory takes whole files, whose first cluster is linked   *)
(* on, and the rest takes that no two entries lead to one cluster.         *)
(***************************************************************************)
Orderly == Sound /\ FilesWhole /\ Tables(disk, dirs) /\ Tree(disk, dirs)

LEMMA InitOrderly == Init => Orderly
<1>. SUFFICES ASSUME Init PROVE Tables(disk, dirs) /\ Tree(disk, dirs)
  BY InitSound, InitWhole DEF Orderly
<1>1. RootCluster \in Clusters
  BY ClusterMapAssumption DEF Clusters, RootCluster, FirstCluster
<1>2. dirs = {RootCluster} /\ disk[RootCluster] = RootTable
  BY <1>1 DEF Init
<1>3. /\ RootTable[SelfSlot].name = RootName
      /\ RootTable[SelfSlot].cluster = RootCluster
      /\ RootTable[SelfSlot].attr = "dir"
      /\ \A s \in ChildSlots : RootTable[s] = BlankEntry
  BY SlotNumbers DEF RootTable, BlankTable, DirEntry, BlankEntry
<1>4. Tables(disk, dirs)
  BY <1>2, <1>3, NameAssumption DEF Tables, BlankEntry
<1>5. Below(disk, dirs) = {}
  <2>1. \A s \in ChildSlots : disk[RootCluster][s].attr # "dir"
    BY <1>2, <1>3 DEF BlankEntry
  <2>. QED BY <1>2, <2>1 DEF Below
<1>6. Tree(disk, dirs)
  BY <1>2, <1>5 DEF Tree, Closed
<1>. QED BY <1>4, <1>6

LEMMA FolderOrderly ==
  ASSUME Orderly,
         NEW p \in dirs, NEW name \in Callable, NEW ext \in Exts,
         WriteFolder(p, name, ext)
  PROVE  Tables(disk', dirs') /\ Tree(disk', dirs')
<1>1. PICK ch \in Chains(fat, 1), s \in ChildSlots :
        /\ ch[1] \in DataClusters /\ ch[1] \notin dirs
        /\ p \in dirs /\ dirs' = dirs \cup {ch[1]}
        /\ disk[p][s].name = NoName /\ name # NoName
        /\ disk'[ch[1]] = NewTable(name, ch[1])
        /\ disk'[p][s] = DirEntry(name, ext, ch[1])
        /\ \A r \in Slots : r # s => disk'[p][r] = disk[p][r]
        /\ \A c \in Clusters : c # p /\ c # ch[1] => disk'[c] = disk[c]
  BY FolderTables DEF Orderly
<1>2. PICK n : n = ch[1]
  OBVIOUS
<1>3. /\ disk'[n][SelfSlot] = DirEntry(name, NoExt, n)
      /\ \A r \in ChildSlots : disk'[n][r] = BlankEntry
  BY <1>1, <1>2, SlotNumbers DEF NewTable, BlankTable
<1>4. \A d \in dirs, r \in Slots : ~ (d = p /\ r = s) => disk'[d][r] = disk[d][r]
  BY <1>1 DEF Orderly, Sound, TypeOK
<1>5. \A c, x, e : /\ DirEntry(x, e, c).name = x
                   /\ DirEntry(x, e, c).attr = "dir"
                   /\ DirEntry(x, e, c).cluster = c
  BY DEF DirEntry, BlankEntry
<1>6. BlankEntry.name = NoName /\ BlankEntry.attr = "none"
  BY DEF BlankEntry
<1>7. Tables(disk', dirs')
  <2>1. ASSUME NEW d \in dirs
        PROVE  /\ disk'[d][SelfSlot] = disk[d][SelfSlot]
               /\ \A r \in ChildSlots : disk'[d][r] = disk[d][r]
                                        \/ disk'[d][r] = DirEntry(name, ext, n)
    BY <1>1, <1>2, <1>4, SlotNumbers
  <2>. QED BY <1>1, <1>2, <1>3, <1>5, <1>6, <2>1 DEF Orderly, Tables
<1>8. Tree(disk', dirs \cup {n})
  <2>1. /\ Tree(disk, dirs) /\ n \notin dirs /\ p \in dirs
        /\ disk[p][s].attr # "dir"
        /\ disk'[p][s].attr = "dir" /\ disk'[p][s].cluster = n
        /\ \A r \in ChildSlots : disk'[n][r].attr # "dir"
    BY <1>1, <1>2, <1>3, <1>5, <1>6 DEF Orderly, Tables
  <2>2. \A d \in dirs, r \in ChildSlots :
          ~ (d = p /\ r = s) => /\ disk'[d][r].attr = disk[d][r].attr
                                /\ disk'[d][r].cluster = disk[d][r].cluster
    BY <1>4, SlotNumbers
  <2>3. PICK dk : dk = disk'
    OBVIOUS
  <2>4. Tree(dk, dirs \cup {n})
    BY <2>1, <2>2, <2>3, TreeGrows
  <2>. QED BY <2>3, <2>4
<1>. QED BY <1>1, <1>2, <1>7, <1>8

LEMMA FileOrderly ==
  ASSUME Orderly,
         NEW p \in dirs, NEW name \in Callable, NEW ext \in Exts,
         NEW size \in FileSizes, NEW d \in Datas,
         WriteFile(p, name, ext, size, d)
  PROVE  Tables(disk', dirs') /\ Tree(disk', dirs')
<1>1. size \in Nat \ {0} /\ Needed(size) = size + 1 /\ p \in dirs /\ UNCHANGED dirs
  BY FileTables DEF Orderly
<1>2. PICK ch \in Chains(fat, Needed(size)), s \in ChildSlots :
        /\ disk[p][s].name = NoName /\ name # NoName
        /\ Same(disk'[p][s], FileEntry(name, ext, ch[1], size))
        /\ \A r \in Slots : r # s => Same(disk'[p][r], disk[p][r])
        /\ \A c \in Clusters :
             c # p /\ (\A i \in 1 .. size : c # ch[i]) => disk'[c] = disk[c]
  BY FileTables DEF Orderly
<1>3. \A i \in 1 .. size : ch[i] \notin dirs
  <2>1. \A i \in 1 .. size : i \in 1 .. Needed(size) /\ Needed(size) \in Nat \ {0}
    BY <1>1
  <2>2. \A i \in 1 .. size : fat[ch[i]] = EMPTY
    BY <2>1, ChainClusters
  <2>. QED BY <2>2 DEF Orderly, Sound, DirsAreEnds, EMPTY, EOF
<1>4. ASSUME NEW c \in dirs, NEW r \in Slots, ~ (c = p /\ r = s)
      PROVE  Same(disk'[c][r], disk[c][r])
  <2>1. CASE c = p
    BY <1>2, <1>4, <2>1
  <2>2. CASE c # p
    <3>1. disk'[c] = disk[c]
      BY <1>2, <1>3, <2>2 DEF Orderly, Sound, TypeOK
    <3>. QED BY <3>1 DEF Same
  <2>. QED BY <2>1, <2>2
<1>5. disk'[p][s].name = name /\ disk'[p][s].attr = "file"
  BY <1>2 DEF Same, FileEntry
<1>6. Tables(disk', dirs)
  <2>. SUFFICES ASSUME NEW c \in dirs
                PROVE  /\ disk'[c][SelfSlot].name # NoName
                       /\ disk'[c][SelfSlot].cluster = c
                       /\ disk'[c][SelfSlot].attr = "dir"
                       /\ \A r \in ChildSlots :
                            IF disk'[c][r].name = NoName THEN disk'[c][r].attr = "none"
                            ELSE disk'[c][r].attr \in {"file", "dir"}
    BY DEF Tables
  <2>1. Same(disk'[c][SelfSlot], disk[c][SelfSlot])
    BY <1>4, SlotNumbers
  <2>2. \A r \in ChildSlots : ~ (c = p /\ r = s) => Same(disk'[c][r], disk[c][r])
    BY <1>4, SlotNumbers
  <2>. QED BY <1>2, <1>5, <2>1, <2>2 DEF Orderly, Tables, Same
<1>7. Tree(disk', dirs)
  <2>1. \A c \in dirs, r \in ChildSlots :
          /\ disk'[c][r].attr = "dir" <=> disk[c][r].attr = "dir"
          /\ disk[c][r].attr = "dir" => disk'[c][r].cluster = disk[c][r].cluster
    <3>1. disk[p][s].attr # "dir"
      BY <1>1, <1>2 DEF Orderly, Tables
    <3>. QED BY <1>4, <1>5, <3>1, SlotNumbers DEF Same
  <2>2. PICK dk : dk = disk'
    OBVIOUS
  <2>3. Tree(disk, dirs)
    BY DEF Orderly
  <2>4. Tree(dk, dirs)
    BY <2>1, <2>2, <2>3, TreeKept
  <2>. QED BY <2>2, <2>4
<1>. QED BY <1>1, <1>6, <1>7

LEMMA DeleteOrderly ==
  ASSUME Orderly, Misuse \subseteq CarefulKinds,
         NEW p \in Parents, NEW name \in Callable, NEW ext \in Exts,
         DeleteEntry(p, name, ext)
  PROVE  Tables(disk', dirs') /\ Tree(disk', dirs')
<1>0. Misuse \subseteq BenignKinds /\ "filled_folder" \notin Misuse
  BY DEF CarefulKinds
<1>1. PICK s \in ChildSlots :
        LET x == disk[p][s].cluster
        IN  /\ p \in dirs /\ <<p, s>> \in Entries
            /\ x \in DataClusters
            /\ dirs' = dirs \ {x}
            /\ disk' = [disk EXCEPT ![p] = [disk[p] EXCEPT ![s] = BlankEntry]]
            /\ ~ Filled(disk[p][s])
  BY <1>0, BenignCalls, DeleteTables DEF Orderly
<1>2. PICK x : x = disk[p][s].cluster
  OBVIOUS
<1>3. /\ p \in dirs /\ <<p, s>> \in Entries /\ x \in DataClusters /\ dirs' = dirs \ {x}
      /\ disk[p][s].name # NoName
      /\ dirs \subseteq Clusters /\ disk \in [Clusters -> Table] /\ s \in Slots
  BY <1>1, <1>2, SlotNumbers DEF Orderly, Sound, TypeOK, Entries
<1>4. /\ disk'[p][s] = BlankEntry
      /\ \A d \in dirs, r \in Slots : ~ (d = p /\ r = s) => disk'[d][r] = disk[d][r]
  BY <1>1, <1>3 DEF Table
<1>5. BlankEntry.name = NoName /\ BlankEntry.attr = "none"
  BY DEF BlankEntry
<1>6. Tables(disk', dirs')
  <2>1. ASSUME NEW d \in dirs
        PROVE  /\ disk'[d][SelfSlot] = disk[d][SelfSlot]
               /\ \A r \in ChildSlots : disk'[d][r] = disk[d][r]
                                        \/ disk'[d][r] = BlankEntry
    BY <1>4, SlotNumbers
  <2>. QED BY <1>3, <1>5, <2>1 DEF Orderly, Tables
\* The entry is the only one that leads to x.
<1>7. ASSUME NEW d \in dirs, NEW r \in ChildSlots,
             disk[d][r].attr = "dir", disk[d][r].cluster = x
      PROVE  d = p /\ r = s
  <2>1. <<d, r>> \in Entries
    BY <1>7 DEF Orderly, Tables, Entries
  <2>2. Target(<<d, r>>) = x /\ Target(<<p, s>>) = x
    BY <1>2, <1>7 DEF Target
  <2>3. <<d, r>> = <<p, s>>
    BY <1>3, <2>1, <2>2 DEF Orderly, Sound, UniqueOwner
  <2>. QED BY <2>3
<1>8. CASE disk[p][s].attr = "dir"
  <2>1. x # RootCluster
    BY <1>3, ClusterMapAssumption DEF DataClusters, FirstCluster, RootCluster
  <2>2. x \in dirs
    <3>1. x \in Below(disk, dirs)
      BY <1>2, <1>3, <1>8, BelowIs
    <3>. QED BY <3>1 DEF Orderly, Tree, Closed
  <2>3. \A r \in ChildSlots : disk[x][r].attr # "dir"
    <3>1. \A r \in ChildSlots : disk[x][r].name = NoName
      BY <1>1, <1>2, <1>8, <2>2 DEF Filled, Children
    <3>. QED BY <2>2, <3>1 DEF Orderly, Tables
  <2>4. x # p
    BY <1>2, <1>8, <2>3
  <2>5. \A d \in dirs, r \in ChildSlots :
          ~ (d = p /\ r = s) => /\ disk'[d][r].attr = disk[d][r].attr
                                /\ disk'[d][r].cluster = disk[d][r].cluster
                                /\ ~ (disk[d][r].attr = "dir" /\ disk[d][r].cluster = x)
    BY <1>4, <1>7, SlotNumbers
  <2>6. PICK dk : dk = disk'
    OBVIOUS
  <2>7. Tree(disk, dirs) /\ dk[p][s].attr # "dir"
    BY <1>4, <1>5, <2>6 DEF Orderly
  <2>8. Tree(dk, dirs \ {x})
    BY <1>2, <1>3, <1>8, <2>1, <2>3, <2>4, <2>5, <2>6, <2>7, TreePruned
  <2>. QED BY <1>3, <1>6, <2>6, <2>8
\* A file's first cluster is linked on; a directory's is not.
<1>9. CASE disk[p][s].attr # "dir"
  <2>1. disk[p][s].attr = "file"
    BY <1>3, <1>9 DEF Orderly, Tables
  <2>2. x \notin dirs
    <3>1. FileAt(fat, disk, x, disk[p][s].size)
      BY <1>2, <1>3, <2>1, WholeFiles DEF Orderly, Target
    <3>2. disk[p][s].size \in ChainLengths(fat, Target(<<p, s>>)) /\ Target(<<p, s>>) = x
      BY <1>2, <3>1 DEF FileAt, Target
    <3>3. PICK k : k = disk[p][s].size
      OBVIOUS
    <3>4. k \in 1 .. ClusterMapSize /\ k \in ChainLengths(fat, x)
      BY <3>2, <3>3, ChainWalked
    <3>5. 0 \in 0 .. k - 1
      BY <3>4, ClusterMapAssumption
    <3>6. fat[Walk(fat, x)[0]] \in DataClusters
      BY <1>3, <3>2, <3>3, <3>5, LiveChain DEF Orderly
    <3>7. fat[x] \in DataClusters
      BY <3>6, WalkLinks
    <3>8. EOF \notin DataClusters
      BY ClusterMapAssumption DEF DataClusters, EOF
    <3>. QED BY <3>7, <3>8 DEF Orderly, Sound, DirsAreEnds
  <2>3. dirs' = dirs
    BY <1>3, <2>2
  <2>4. \A d \in dirs, r \in ChildSlots :
          /\ disk'[d][r].attr = "dir" <=> disk[d][r].attr = "dir"
          /\ disk[d][r].attr = "dir" => disk'[d][r].cluster = disk[d][r].cluster
    BY <1>4, <1>5, <1>9, SlotNumbers
  <2>5. PICK dk : dk = disk'
    OBVIOUS
  <2>6. Tree(disk, dirs)
    BY DEF Orderly
  <2>7. Tree(dk, dirs)
    BY <2>4, <2>5, <2>6, TreeKept
  <2>. QED BY <1>6, <2>3, <2>5, <2>7
<1>. QED BY <1>8, <1>9

\* What Orderly says of the tables and the tree reads the disk and the
\* directories alone.
LEMMA OrderlyStep ==
  ASSUME Misuse \subseteq CarefulKinds
  PROVE  Orderly /\ [Next]_vars => Orderly'
<1>. SUFFICES ASSUME Orderly, [Next]_vars PROVE Orderly'
  OBVIOUS
<1>0. Misuse \subseteq BenignKinds
  BY DEF CarefulKinds
<1>. SUFFICES Tables(disk', dirs') /\ Tree(disk', dirs')
  <2>1. Sound' /\ FilesWhole'
    BY <1>0, BenignStep, WholeStep DEF Orderly
  <2>. QED BY <2>1 DEF Orderly
<1>1. CASE UNCHANGED <<fat, disk, dirs>>
  BY <1>1 DEF Orderly
<1>2. CASE UNCHANGED vars
  BY <1>1, <1>2 DEF vars
<1>. SUFFICES ASSUME NEW p \in Parents, NEW name \in Callable, NEW ext \in Exts,
                     Call(p, name, ext)
     PROVE  Tables(disk', dirs') /\ Tree(disk', dirs')
  BY <1>2 DEF Next
<1>3. CASE WriteFolder(p, name, ext)
  BY <1>0, <1>3, BenignCalls, FolderOrderly
<1>4. ASSUME NEW size \in FileSizes, NEW d \in Datas, WriteFile(p, name, ext, size, d)
      PROVE  Tables(disk', dirs') /\ Tree(disk', dirs')
  BY <1>0, <1>4, BenignCalls, FileOrderly
<1>5. CASE DeleteEntry(p, name, ext)
  BY <1>5, DeleteOrderly
<1>6. CASE DeleteChain(p, name, ext)
  BY <1>0, <1>6, BenignCalls, NoChainDeleted DEF DeleteChain, Orderly
<1>7. CASE \/ \E size \in FileSizes : WriteRefused(p, name, ext, size)
           \/ \E size \in FileSizes : WriteOverrun(p, name, ext, size)
           \/ \E size \in FileSizes : ReadFile(p, name, ext, size)
           \/ \E size \in FileSizes : ReadRefused(p, name, ext, size)
           \/ \E size \in FileSizes : ReadOverrun(p, name, ext, size)
           \/ ReadDirectory(p, name, ext)
           \/ DeleteMissing(p, name, ext)
           \/ DeleteRefused(p, name, ext)
           \/ DeleteOverrun(p, name, ext)
  BY <1>1, <1>7 DEF WriteRefused, WriteOverrun, ReadFile, ReadRefused, ReadOverrun,
                    ReadDirectory, DeleteMissing, DeleteRefused, DeleteOverrun
<1>. QED BY <1>3, <1>4, <1>5, <1>6, <1>7 DEF Call

\* The entries that lead to directories are those with the attribute.
LEMMA SubfoldersBelow ==
  ASSUME Tables(disk, dirs), NEW D \in SUBSET dirs
  PROVE  Subfolders(D) = Below(disk, D)
<1>1. ASSUME NEW y \in Subfolders(D)
      PROVE  y \in Below(disk, D)
  <2>1. PICK e \in Entries : e[1] \in D /\ disk[e[1]][e[2]].attr = "dir" /\ y = Target(e)
    BY DEF Subfolders
  <2>2. e[2] \in ChildSlots
    BY <2>1 DEF Entries
  <2>. QED BY <2>1, <2>2, BelowIs DEF Target
<1>2. ASSUME NEW y \in Below(disk, D)
      PROVE  y \in Subfolders(D)
  <2>1. PICK d \in D, s \in ChildSlots : disk[d][s].attr = "dir" /\ disk[d][s].cluster = y
    BY BelowIs
  <2>2. disk[d][s].name # NoName
    BY <2>1 DEF Tables
  <2>3. PICK e : e = <<d, s>>
    OBVIOUS
  <2>4. e \in Entries /\ e[1] = d /\ e[2] = s
    BY <2>2, <2>3 DEF Entries
  <2>. QED BY <2>1, <2>4 DEF Subfolders, Target
<1>. QED BY <1>1, <1>2

LEMMA ReachedLevels ==
  ASSUME Orderly
  PROVE  Levels(disk, dirs, Reached)
<1>1. PICK r : r = [n \in Nat |-> IF n = 0 THEN {RootCluster}
                                  ELSE r[n - 1] \cup Below(disk, r[n - 1])]
  BY LevelsExist
<1>2. Levels(disk, dirs, r)
  <2>1. r[0] = {RootCluster}
    BY <1>1
  <2>2. ASSUME NEW n \in Nat
        PROVE  r[n + 1] = r[n] \cup Below(disk, r[n])
    <3>1. n + 1 \in Nat /\ n + 1 # 0 /\ (n + 1) - 1 = n
      OBVIOUS
    <3>. QED BY <1>1, <3>1
  <2>. QED BY <2>1, <2>2 DEF Levels
<1>3. \A n \in Nat : r[n] \subseteq dirs
  BY <1>2, TreeFound DEF Orderly, Sound, TypeOK
<1>4. r = [n \in Nat |-> IF n = 0 THEN {RootCluster}
                         ELSE r[n - 1] \cup Subfolders(r[n - 1])]
  <2>1. ASSUME NEW n \in Nat
        PROVE  r[n] = IF n = 0 THEN {RootCluster} ELSE r[n - 1] \cup Subfolders(r[n - 1])
    <3>1. CASE n = 0
      BY <1>1, <3>1
    <3>2. CASE n # 0
      <4>1. n - 1 \in Nat
        BY <3>2
      <4>2. Subfolders(r[n - 1]) = Below(disk, r[n - 1])
        BY <1>3, <4>1, SubfoldersBelow DEF Orderly
      <4>. QED BY <1>1, <3>2, <4>2
    <3>. QED BY <3>1, <3>2
  <2>2. r = [n \in Nat |-> r[n]]
    BY <1>1
  <2>. QED BY <2>1, <2>2
<1>5. Reached = [n \in Nat |-> IF n = 0 THEN {RootCluster}
                               ELSE Reached[n - 1] \cup Subfolders(Reached[n - 1])]
  BY <1>4 DEF Reached
<1>6. Reached[0] = {RootCluster}
  BY <1>5
<1>7. ASSUME NEW n \in Nat, Reached[n] \subseteq dirs
      PROVE  Reached[n + 1] = Reached[n] \cup Below(disk, Reached[n])
  <2>1. n + 1 \in Nat /\ n + 1 # 0 /\ (n + 1) - 1 = n
    OBVIOUS
  <2>2. Reached[n + 1] = Reached[n] \cup Subfolders(Reached[n])
    BY <1>5, <2>1
  <2>. QED BY <1>7, <2>2, SubfoldersBelow DEF Orderly
<1>. QED BY <1>6, <1>7 DEF Levels

LEMMA OrderlyRooted == Orderly => Rooted
<1>. SUFFICES ASSUME Orderly PROVE Rooted
  OBVIOUS
<1>1. Reached[ClusterMapSize] = dirs
  BY ReachedLevels, TreeFound DEF Orderly, Sound, TypeOK
<1>. QED BY <1>1 DEF Rooted, Orderly, Sound, DirsAreEnds, Tables

\* A walk from the root finds the live directories and no others, each under
\* the number in its own entry, whatever has been made and deleted, if no
\* directory was deleted with entries in it.
THEOREM CarefulRooted ==
  ASSUME Misuse \subseteq CarefulKinds
  PROVE  Spec => []Rooted
BY OrderlyRooted, InitOrderly, OrderlyStep, PTL DEF Spec

(***************************************************************************)
(* A volume is an allocation table, clusters, and the directories in them: *)
(* the driver's, or what is on the disk.  It is what Orderly says of the   *)
(* driver's.                                                               *)
(***************************************************************************)
Used(dk, ds) == {e \in ds \X ChildSlots : dk[e[1]][e[2]].name # NoName}
Lead(dk, e) == dk[e[1]][e[2]].cluster

Allotted(f, dk, ds) ==
  /\ \A c \in Clusters : f[c] \in DataClusters => f[f[c]] # EMPTY
  /\ \A b, c \in Clusters : f[b] \in DataClusters /\ f[b] = f[c] => b = c
  /\ \A e \in Used(dk, ds) :
       /\ Lead(dk, e) \in DataClusters /\ f[Lead(dk, e)] # EMPTY
       /\ \A c \in Clusters : f[c] # Lead(dk, e)
  /\ \A e, g \in Used(dk, ds) : Lead(dk, e) = Lead(dk, g) => e = g

Whole(f, dk, ds) ==
  \A e \in Used(dk, ds) :
    dk[e[1]][e[2]].attr = "file" => FileAt(f, dk, Lead(dk, e), dk[e[1]][e[2]].size)

Volume(f, dk, ds) ==
  /\ f \in [Clusters -> FatEntry] /\ dk \in [Clusters -> Table] /\ ds \in SUBSET Clusters
  /\ \A d \in ds : f[d] = EOF
  /\ Allotted(f, dk, ds)
  /\ Whole(f, dk, ds)
  /\ Tables(dk, ds) /\ Tree(dk, ds)

LEMMA OrderlyVolume ==
  Orderly <=> /\ Volume(fat, disk, dirs)
              /\ ret \in -1 .. 3 /\ overrun \in BOOLEAN
<1>1. Entries = Used(disk, dirs) /\ \A e : Target(e) = Lead(disk, e)
  BY DEF Entries, Used, Target, Lead
<1>2. FilesWhole <=> Whole(fat, disk, dirs)
  BY <1>1, WholeFiles DEF Whole
<1>3. NoDangling /\ UniqueOwner <=> Allotted(fat, disk, dirs)
  <2>. USE <1>1 DEF NoDangling, UniqueOwner, Allotted
  <2>1. NoDangling /\ UniqueOwner => Allotted(fat, disk, dirs)
    OBVIOUS
  <2>2. Allotted(fat, disk, dirs) => NoDangling /\ UniqueOwner
    OBVIOUS
  <2>. QED BY <2>1, <2>2
<1>. QED BY <1>2, <1>3 DEF Orderly, Sound, TypeOK, DirsAreEnds, Volume, Tree, Closed

\* The directories of a volume are the root and data clusters.
LEMMA VolumeDirs ==
  ASSUME NEW f, NEW dk, NEW ds, Volume(f, dk, ds)
  PROVE  ds \subseteq {RootCluster} \cup DataClusters /\ RootCluster \in ds
<1>. DEFINE D == ds \cap ({RootCluster} \cup DataClusters)
<1>1. RootCluster \in ds
  BY DEF Volume, Tree, Closed
<1>2. ASSUME NEW y \in Below(dk, D)
      PROVE  y \in D
  <2>1. PICK d \in D, s \in ChildSlots : dk[d][s].attr = "dir" /\ dk[d][s].cluster = y
    BY BelowIs
  <2>2. <<d, s>> \in Used(dk, ds) /\ Lead(dk, <<d, s>>) = y
    BY <2>1 DEF Volume, Tables, Used, Lead
  <2>3. y \in DataClusters
    BY <2>2 DEF Volume, Allotted
  <2>4. y \in ds
    BY <2>1, BelowIs DEF Volume, Tree, Closed
  <2>. QED BY <2>3, <2>4
<1>3. D \in SUBSET ds /\ Closed(dk, D)
  BY <1>1, <1>2 DEF Closed
<1>4. D = ds
  <2>. HIDE DEF D
  <2>. QED BY <1>3 DEF Volume, Tree
<1>. QED BY <1>1, <1>4

\* As LiveChain says of the driver's tables.
LEMMA VolumeChain ==
  ASSUME NEW f, NEW dk, NEW ds, Volume(f, dk, ds),
         NEW e \in Used(dk, ds), NEW k \in ChainLengths(f, Lead(dk, e))
  PROVE  /\ k \in 1 .. ClusterMapSize
         /\ \A j \in 0 .. k - 1 : /\ Walk(f, Lead(dk, e))[j] \in DataClusters
                                  /\ f[Walk(f, Lead(dk, e))[j]] \in DataClusters
<1>. DEFINE w == Walk(f, Lead(dk, e))
<1>1. /\ k \in 1 .. ClusterMapSize
      /\ \A j \in 0 .. k : w[j] \in Clusters
      /\ \A j \in 0 .. k - 1 : w[j + 1] = f[w[j]]
  BY ChainWalked
<1>2. w[0] = Lead(dk, e) /\ Lead(dk, e) \in DataClusters /\ f[Lead(dk, e)] # EMPTY
  BY WalkLinks DEF Volume, Allotted
<1>. HIDE DEF w
<1>3. \A j \in 0 .. k : w[j] \in DataClusters /\ f[w[j]] # EMPTY
  <2>. DEFINE Bad == {j \in 0 .. k : ~ (w[j] \in DataClusters /\ f[w[j]] # EMPTY)}
  <2>. SUFFICES ASSUME Bad # {} PROVE FALSE
    OBVIOUS
  <2>0. Bad \subseteq Nat
    BY <1>1, ClusterMapAssumption
  <2>1. PICK n \in Bad : \A m \in Bad : n <= m
    <3>. HIDE DEF Bad
    <3>. QED BY <2>0, LeastOf
  <2>2. n # 0
    BY <1>2
  <2>3. n - 1 \in 0 .. k - 1 /\ n - 1 \in 0 .. k /\ (n - 1) + 1 = n /\ ~ (n <= n - 1)
    BY <1>1, <2>2, ClusterMapAssumption
  <2>4. w[n - 1] \in Clusters /\ f[w[n - 1]] # EMPTY
    BY <1>1, <2>1, <2>3
  <2>5. w[n] = f[w[n - 1]] /\ w[n] \in Clusters
    BY <1>1, <2>1, <2>3
  <2>6. f[w[n - 1]] \in FatEntry
    BY <2>4 DEF Volume
  <2>7. w[n] \in DataClusters
    BY <2>4, <2>5, <2>6, ClusterMapAssumption
    DEF FatEntry, EMPTY, EOF, CLUSTER_0_VALUE, Clusters
  <2>8. f[w[n]] # EMPTY
    BY <2>4, <2>5, <2>7 DEF Volume, Allotted
  <2>. QED BY <2>1, <2>7, <2>8
<1>4. ASSUME NEW j \in 0 .. k - 1
      PROVE  w[j] \in DataClusters /\ f[w[j]] \in DataClusters
  <2>1. j + 1 \in 0 .. k /\ j \in 0 .. k
    BY <1>1, ClusterMapAssumption
  <2>. QED BY <1>1, <1>3, <2>1
<1>. QED BY <1>1, <1>4 DEF w

\* The content of a whole file is told by its first cluster.
Stored(d, n) == [i \in 1 .. n |-> <<d, i>>]
Begins(t, d) == t[SelfSlot].unread = <<d, 1>>

LEMMA StoredContent ==
  ASSUME NEW f, NEW dk, NEW n, NEW c, FileAt(f, dk, c, n)
  PROVE  /\ n \in 1 .. ClusterMapSize
         /\ ChainLengths(f, c) = {n}
         /\ \E d \in Datas : /\ Content(dk, f, c, n) = Stored(d, n)
                             /\ Begins(dk[c], d)
<1>1. ChainLengths(f, c) = {n}
  BY DEF FileAt
<1>2. n \in 1 .. ClusterMapSize
  BY <1>1, ChainWalked
<1>3. PICK d \in Datas : Content(dk, f, c, n) = [i \in 1 .. n |-> <<d, i>>]
  BY DEF FileAt
<1>4. dk[c][SelfSlot].unread = <<d, 1>>
  <2>1. 1 \in 1 .. n /\ 1 - 1 = 0
    BY <1>2, ClusterMapAssumption
  <2>2. Content(dk, f, c, n)[1] = dk[Walk(f, c)[0]][SelfSlot].unread
    BY <2>1 DEF Content
  <2>3. Walk(f, c)[0] = c
    BY WalkLinks
  <2>. QED BY <1>3, <2>1, <2>2, <2>3
<1>. QED BY <1>1, <1>2, <1>3, <1>4 DEF Stored, Begins

\* A file of a volume: where it begins and what the entry says of it.
LEMMA FileOf ==
  ASSUME NEW f, NEW dk, NEW ds, Volume(f, dk, ds),
         NEW d \in ds, NEW s \in ChildSlots, dk[d][s].attr = "file"
  PROVE  /\ dk[d][s].cluster \in DataClusters
         /\ f[dk[d][s].cluster] \in DataClusters
         /\ dk[d][s].cluster \notin ds
         /\ FileAt(f, dk, dk[d][s].cluster, dk[d][s].size)
<1>1. PICK e : e = <<d, s>>
  OBVIOUS
<1>2. dk[d][s].name # NoName
  BY DEF Volume, Tables
<1>3. e \in Used(dk, ds) /\ Lead(dk, e) = dk[d][s].cluster
  BY <1>1, <1>2 DEF Used, Lead
<1>4. PICK n : n = dk[d][s].size
  OBVIOUS
<1>5. FileAt(f, dk, Lead(dk, e), n)
  BY <1>1, <1>3, <1>4 DEF Volume, Whole
<1>6. n \in ChainLengths(f, Lead(dk, e))
  BY <1>5 DEF FileAt
<1>7. n \in 1 .. ClusterMapSize /\ f[Walk(f, Lead(dk, e))[0]] \in DataClusters
  <2>1. /\ n \in 1 .. ClusterMapSize
        /\ \A j \in 0 .. n - 1 : f[Walk(f, Lead(dk, e))[j]] \in DataClusters
    BY <1>3, <1>6, VolumeChain
  <2>2. 0 \in 0 .. n - 1
    BY <2>1, ClusterMapAssumption
  <2>. QED BY <2>1, <2>2
<1>8. f[Lead(dk, e)] \in DataClusters /\ Lead(dk, e) \in DataClusters
  BY <1>3, <1>7, WalkLinks DEF Volume, Allotted
<1>9. EOF \notin DataClusters
  BY ClusterMapAssumption DEF DataClusters, EOF
<1>. QED BY <1>3, <1>4, <1>5, <1>8, <1>9 DEF Volume

(***************************************************************************)
(* Searches.                                                               *)
(***************************************************************************)
\* A free slot of a directory leads nowhere.
Blanks(dk, ds) ==
  \A d \in ds, s \in ChildSlots : dk[d][s].name = NoName => dk[d][s].cluster = 0

LEMMA BlankFields ==
  /\ BlankEntry.name = NoName /\ BlankEntry.attr = "none" /\ BlankEntry.cluster = 0
  /\ BlankEntry.ext = NoExt
BY DEF BlankEntry

\* A search that finds nothing has nothing to find.
LEMMA SearchFails ==
  ASSUME NEW t, NEW name, NEW ext, dir_table_search(t, name, ext) = {}
  PROVE  KeyedSlots(t, name, ext) = {}
<1>1. KeyedSlots(t, name, ext) \subseteq Nat
  BY SlotAssumption DEF KeyedSlots, Slots
<1>. QED BY <1>1, LeastOf DEF dir_table_search, First

\* A search stops at one slot at most.
LEMMA SearchStops ==
  ASSUME NEW t, NEW name, NEW ext,
         NEW r \in dir_table_search(t, name, ext), NEW s \in dir_table_search(t, name, ext)
  PROVE  r = s
<1>1. KeyedSlots(t, name, ext) \subseteq Nat
  BY SlotAssumption DEF KeyedSlots, Slots
<1>. QED BY <1>1 DEF dir_table_search, First

\* A file begins at no directory: its first cluster is linked on.
LEMMA FileCluster ==
  ASSUME Sound, FilesWhole, NEW p, NEW s, <<p, s>> \in Entries, disk[p][s].attr = "file"
  PROVE  /\ disk[p][s].cluster \notin dirs
         /\ FileAt(fat, disk, disk[p][s].cluster, disk[p][s].size)
<1>1. PICK n : n = disk[p][s].size
  OBVIOUS
<1>2. PICK e : e = <<p, s>>
  OBVIOUS
<1>3. e \in Entries /\ Target(e) = disk[p][s].cluster /\ FileAt(fat, disk, Target(e), n)
  BY <1>1, <1>2, WholeFiles DEF Target
<1>4. n \in ChainLengths(fat, Target(e))
  BY <1>3 DEF FileAt
<1>5. n \in 1 .. ClusterMapSize
  BY <1>4, ChainWalked
<1>6. 0 \in 0 .. n - 1
  BY <1>5, ClusterMapAssumption
<1>7. fat[Walk(fat, Target(e))[0]] \in DataClusters
  BY <1>3, <1>4, <1>6, LiveChain
<1>8. fat[Target(e)] \in DataClusters
  BY <1>7, WalkLinks
<1>9. EOF \notin DataClusters
  BY ClusterMapAssumption DEF DataClusters, EOF
<1>. QED BY <1>1, <1>3, <1>8, <1>9 DEF Sound, DirsAreEnds

(***************************************************************************)
(* Where a path leads, and trails: from directory to directory, each the   *)
(* one its name finds in the table of the one before.                      *)
(***************************************************************************)
\* Directory d has, as its first entry of that key, one of directory y.
Leading(dk, d, key, y) ==
  \E s \in dir_table_search(dk[d], key[1], key[2]) : dk[d][s].attr = "dir" /\ dk[d][s].cluster = y

\* The directories that entries of that key lead to from those in D.
Onward(dk, key, D) ==
  UNION {{dk[d][s].cluster :
            s \in {s \in dir_table_search(dk[d], key[1], key[2]) : dk[d][s].attr = "dir"}} :
         d \in D}

\* g is the walk along the first n components of the path.
Paced(dk, c, path, g, n) ==
  g = [i \in 0 .. n |-> IF i = 0 THEN {c} ELSE Onward(dk, path[i], g[i - 1])]

LEMMA OnwardIs ==
  ASSUME NEW dk, NEW key, NEW D, NEW y
  PROVE  y \in Onward(dk, key, D) <=> \E d \in D : Leading(dk, d, key, y)
BY DEF Onward, Leading

LEMMA PacedExists ==
  ASSUME NEW dk, NEW c, NEW path
  PROVE  \A n \in Nat : \E g : Paced(dk, c, path, g, n)
<1>. DEFINE Bad == {n \in Nat : ~ \E g : Paced(dk, c, path, g, n)}
<1>. SUFFICES ASSUME Bad # {} PROVE FALSE
  OBVIOUS
<1>1. PICK n \in Bad : \A m \in Bad : n <= m
  <2>1. Bad \subseteq Nat
    OBVIOUS
  <2>. HIDE DEF Bad
  <2>. QED BY <2>1, LeastOf
<1>2. CASE n = 0
  <2>. DEFINE g == [k \in 0 .. 0 |-> {c}]
  <2>1. Paced(dk, c, path, g, 0)
    BY DEF Paced
  <2>. QED BY <1>1, <1>2, <2>1
<1>3. CASE n > 0
  <2>1. n \in Nat /\ n - 1 \in Nat /\ n - 1 \notin Bad
    BY <1>1, <1>3
  <2>2. PICK h : Paced(dk, c, path, h, n - 1)
    BY <2>1
  <2>. DEFINE g == [k \in 0 .. n |-> IF k < n THEN h[k] ELSE Onward(dk, path[n], h[n - 1])]
  <2>3. \A k \in 0 .. n - 1 : h[k] = IF k = 0 THEN {c} ELSE Onward(dk, path[k], h[k - 1])
    BY <2>1, <2>2 DEF Paced
  <2>4. ASSUME NEW k \in 0 .. n
        PROVE  g[k] = IF k = 0 THEN {c} ELSE Onward(dk, path[k], g[k - 1])
    <3>1. CASE k = n
      <4>1. g[k] = Onward(dk, path[n], h[n - 1]) /\ g[k - 1] = h[n - 1] /\ k # 0
        BY <1>3, <2>1, <3>1
      <4>. QED BY <3>1, <4>1
    <3>2. CASE k < n
      <4>1. g[k] = h[k] /\ k \in 0 .. n - 1
        BY <2>1, <3>2
      <4>2. k # 0 => g[k - 1] = h[k - 1]
        BY <2>1, <3>2
      <4>. QED BY <2>3, <4>1, <4>2
    <3>. QED BY <2>1, <3>1, <3>2
  <2>5. Paced(dk, c, path, g, n)
    BY <2>4 DEF Paced
  <2>. QED BY <1>1, <2>5
<1>. QED BY <1>1, <1>2, <1>3

LEMMA PacedSteps ==
  ASSUME NEW dk, NEW c, NEW path, NEW g, NEW n \in Nat, Paced(dk, c, path, g, n)
  PROVE  /\ g[0] = {c}
         /\ \A i \in 1 .. n : g[i] = Onward(dk, path[i], g[i - 1])
<1>1. \A i \in 0 .. n : g[i] = IF i = 0 THEN {c} ELSE Onward(dk, path[i], g[i - 1])
  BY DEF Paced
<1>. QED BY <1>1

Trail(dk, ds, c, path, y) ==
  \E q \in [0 .. Len(path) -> ds] :
    /\ q[0] = c /\ q[Len(path)] = y
    /\ \A i \in 1 .. Len(path) : Leading(dk, q[i - 1], path[i], q[i])

LEMMA TrailEmpty ==
  ASSUME NEW dk, NEW ds, NEW c \in ds
  PROVE  \A y : Trail(dk, ds, c, <<>>, y) <=> y = c
<1>1. PICK path \in Seq(Nat) : path = <<>> /\ Len(path) = 0
  BY EmptySeq
<1>2. Trail(dk, ds, c, path, c)
  <2>1. PICK q : q = [i \in 0 .. 0 |-> c]
    OBVIOUS
  <2>2. q \in [0 .. 0 -> ds] /\ q[0] = c /\ \A i \in 1 .. 0 : FALSE
    BY <2>1
  <2>. QED BY <1>1, <2>2 DEF Trail
<1>3. \A y : Trail(dk, ds, c, path, y) => y = c
  BY <1>1 DEF Trail
<1>. QED BY <1>1, <1>2, <1>3

\* A trail goes on by one step.
LEMMA TrailOn ==
  ASSUME NEW dk, NEW ds, NEW c, NEW y, NEW S, NEW path \in Seq(S), NEW key \in S, NEW z \in ds,
         Trail(dk, ds, c, path, y), Leading(dk, y, key, z)
  PROVE  Trail(dk, ds, c, Append(path, key), z)
<1>0. PICK longer : longer = Append(path, key)
  OBVIOUS
<1>1. PICK n \in Nat : n = Len(path)
  BY LenProperties
<1>2. Len(longer) = n + 1 /\ longer[n + 1] = key /\ \A i \in 1 .. n : longer[i] = path[i]
  BY <1>0, <1>1, AppendProperties
<1>3. PICK q \in [0 .. n -> ds] :
        /\ q[0] = c /\ q[n] = y
        /\ \A i \in 1 .. n : Leading(dk, q[i - 1], path[i], q[i])
  BY <1>1 DEF Trail
<1>4. PICK r : r = [i \in 0 .. n + 1 |-> IF i <= n THEN q[i] ELSE z]
  OBVIOUS
<1>5. r \in [0 .. n + 1 -> ds] /\ r[0] = c /\ r[n + 1] = z
  BY <1>1, <1>3, <1>4
<1>6. ASSUME NEW i \in 1 .. n + 1
      PROVE  Leading(dk, r[i - 1], longer[i], r[i])
  <2>1. CASE i = n + 1
    <3>1. r[i - 1] = y /\ longer[i] = key /\ r[i] = z
      BY <1>1, <1>2, <1>3, <1>4, <2>1
    <3>. QED BY <3>1
  <2>2. CASE i # n + 1
    <3>1. i \in 1 .. n
      BY <1>1, <2>2
    <3>2. r[i - 1] = q[i - 1] /\ longer[i] = path[i] /\ r[i] = q[i]
      BY <1>1, <1>2, <1>4, <3>1
    <3>. QED BY <1>3, <3>1, <3>2
  <2>. QED BY <2>1, <2>2
<1>7. Trail(dk, ds, c, longer, z)
  BY <1>2, <1>5, <1>6 DEF Trail
<1>. QED BY <1>0, <1>7

\* A walk along a longer path passes where a trail along its beginning ends.
LEMMA TrailPaced ==
  ASSUME NEW dk, NEW ds, NEW c, NEW y, NEW path, NEW n \in Nat, n = Len(path),
         Trail(dk, ds, c, path, y),
         NEW longer, NEW m \in Nat, n <= m, \A i \in 1 .. n : longer[i] = path[i],
         NEW w, Paced(dk, c, longer, w, m)
  PROVE  y \in w[n]
<1>1. w[0] = {c} /\ \A i \in 1 .. n : w[i] = Onward(dk, path[i], w[i - 1])
  BY PacedSteps
<1>2. PICK q \in [0 .. n -> ds] :
        /\ q[0] = c /\ q[n] = y
        /\ \A i \in 1 .. n : Leading(dk, q[i - 1], path[i], q[i])
  BY DEF Trail
<1>. DEFINE Bad == {i \in 0 .. n : q[i] \notin w[i]}
<1>3. SUFFICES ASSUME Bad # {} PROVE FALSE
  BY <1>2
<1>4. PICK k \in Bad : \A i \in Bad : k <= i
  <2>1. Bad \subseteq Nat
    OBVIOUS
  <2>. HIDE DEF Bad
  <2>. QED BY <1>3, <2>1, LeastOf
<1>5. k # 0
  BY <1>1, <1>2, <1>4
<1>6. k \in 1 .. n /\ k - 1 \in 0 .. n /\ ~ (k <= k - 1)
  BY <1>4, <1>5
<1>7. q[k - 1] \in w[k - 1]
  BY <1>4, <1>6
<1>8. PICK key, D, z : key = path[k] /\ D = w[k - 1] /\ z = q[k]
  OBVIOUS
<1>9. Leading(dk, q[k - 1], key, z) /\ w[k] = Onward(dk, key, D)
  BY <1>1, <1>2, <1>6, <1>8
<1>10. z \in Onward(dk, key, D)
  BY <1>7, <1>8, <1>9, OnwardIs
<1>. QED BY <1>4, <1>8, <1>9, <1>10

=============================================================================
