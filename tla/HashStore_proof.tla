---------------------------- MODULE HashStore_proof ----------------------------
(***************************************************************************)
(* The store of HashStore, for any files, contents, trees and bounds: it   *)
(* accepts nothing stale, has every tree it knows, and implements          *)
(* TreeStore.                                                              *)
(***************************************************************************)
EXTENDS HashStore, SequenceTheorems, TLAPS

(* What an index has of a file is older than its last change, or it is what the file holds. *)
Current(f, entry) ==
    /\ entry.stamp =< stamp[f]
    /\ entry.stamp = stamp[f] /\ entry.root \in Contents => entry.root = content[f]

EntriesCurrent ==
    /\ \A f \in Files : fileIndex[f] # None => Current(f, fileIndex[f])
    /\ \A f \in Files : saved.files[f] # None => Current(f, saved.files[f])
    /\ hashing # None => hashing.stamp =< stamp[hashing.file]

HashingType == [file : Files, stamp : 1 .. MaxStamp]

(* What TypeOK says of a data file. *)
DataType(dat) == dat \in Seq(Roots) /\ Len(dat) =< MaxTrees

-----------------------------------------------------------------------------
LEMMA OrdersAreData ==
    ASSUME NEW S \in SUBSET Roots, NEW order \in Orders(S)
    PROVE  /\ DataType(order)
           /\ DOMAIN order = 1 .. Len(order)
           /\ \A i \in 1 .. Len(order) : order[i] \in S
           /\ \A r \in S : \E i \in 1 .. Len(order) : order[i] = r
  <1>1. PICK n \in 0 .. MaxTrees : order \in [1 .. n -> S]
    BY DEF Orders
  <1>2. n \in Nat /\ n =< MaxTrees
    BY HashStoreAssumption
  <1>3. order \in Seq(S) /\ Len(order) = n
    BY <1>1, <1>2
  <1>4. order \in Seq(Roots)
    BY <1>3, SeqMonotonic
  <1> QED
    BY <1>1, <1>2, <1>3, <1>4 DEF Orders, DataType

LEMMA RebuiltTreesType ==
    ASSUME NEW order \in Orders(Kept \ SmallRoots)
    PROVE  /\ RebuiltTrees(order) \in TreeIndex
           /\ \A r \in Roots : Known(RebuiltTrees(order), r) => r \in Kept /\ Loadable(RebuiltTrees(order), order, r)
  <1>1. Kept \ SmallRoots \in SUBSET Roots
    BY DEF Kept, stored
  <1>2. /\ DataType(order)
        /\ DOMAIN order = 1 .. Len(order)
        /\ \A r \in Kept \ SmallRoots : \E i \in 1 .. Len(order) : order[i] = r
    BY <1>1, OrdersAreData
  <1>3. Len(order) \in Nat /\ Len(order) =< MaxTrees
    BY <1>2, LenProperties DEF DataType
  <1>4. ASSUME NEW r \in Roots
        PROVE  /\ RebuiltTrees(order)[r] \in Positions
               /\ Known(RebuiltTrees(order), r) => r \in Kept /\ Loadable(RebuiltTrees(order), order, r)
    <2>1. CASE r \notin Kept
      BY <2>1 DEF RebuiltTrees, Known, Positions, Unknown
    <2>2. CASE r \in Kept /\ r \in SmallRoots
      BY <2>2 DEF RebuiltTrees, Loadable, Positions
    <2>3. CASE r \in Kept \ SmallRoots
      <3>1. PICK i \in DOMAIN order : order[i] = r
        BY <1>2, <2>3
      <3> DEFINE p == CHOOSE j \in DOMAIN order : order[j] = r
      <3>2. p \in DOMAIN order /\ order[p] = r
        BY <3>1
      <3>3. RebuiltTrees(order)[r] = p
        BY <2>3 DEF RebuiltTrees
      <3> HIDE DEF p
      <3> QED
        BY <1>2, <1>3, <2>3, <3>2, <3>3, HashStoreAssumption DEF Loadable, Positions
    <2> QED
      BY <2>1, <2>2, <2>3
  <1>5. RebuiltTrees(order) \in TreeIndex
    <2>1. RebuiltTrees(order) = [r \in Roots |-> RebuiltTrees(order)[r]]
      BY DEF RebuiltTrees
    <2> QED
      BY <1>4, <2>1 DEF TreeIndex
  <1> QED
    BY <1>4, <1>5

-----------------------------------------------------------------------------
(* A file that has been given an entry, or lost it. *)
LEMMA WrittenType ==
    ASSUME NEW files \in FileIndex
    PROVE  /\ Written(files) \in FileIndex
           /\ \A f \in Files : Written(files)[f] # None =>
                /\ files[f] # None
                /\ Written(files)[f].root = files[f].root /\ Written(files)[f].stamp = files[f].stamp
  BY NoneAssumption DEF Written, FileIndex, FileInfo

LEMMA RebuiltFilesType ==
    ASSUME fileIndex \in FileIndex
    PROVE  /\ RebuiltFiles \in FileIndex
           /\ \A f \in Files : RebuiltFiles[f] # None => RebuiltFiles[f] = fileIndex[f]
  BY DEF RebuiltFiles, FileIndex

LEMMA EmptyType ==
    /\ Empty \in [files : FileIndex, trees : TreeIndex]
    /\ \A f \in Files : Empty.files[f] = None
    /\ \A r \in Roots : ~Known(Empty.trees, r)
  BY DEF Empty, FileIndex, TreeIndex, Positions, Known, Unknown

LEMMA AddTreeType ==
    ASSUME TypeOK, NEW r \in Roots, AddTree(r)
    PROVE  treeIndex' \in TreeIndex /\ DataType(data)'
  <1>1. Len(data) \in Nat
    BY LenProperties DEF TypeOK
  <1>2. CASE r \in SmallRoots /\ treeIndex' = [treeIndex EXCEPT ![r] = SMALL_TREE] /\ UNCHANGED data
    BY <1>2 DEF TypeOK, TreeIndex, Positions, DataType
  <1>3. CASE /\ Len(data) < MaxTrees
             /\ data' = Append(data, r)
             /\ treeIndex' = [treeIndex EXCEPT ![r] = Len(data) + 1]
    <2>1. data' \in Seq(Roots) /\ Len(data') = Len(data) + 1
      BY <1>3 DEF TypeOK
    <2>2. Len(data) + 1 \in Positions
      BY <1>1, <1>3, HashStoreAssumption DEF Positions
    <2> QED
      BY <1>1, <1>3, <2>1, <2>2, HashStoreAssumption DEF TypeOK, TreeIndex, DataType
  <1>4. CASE UNCHANGED <<data, treeIndex>>
    BY <1>4 DEF TypeOK, DataType
  <1> QED
    BY <1>2, <1>3, <1>4 DEF AddTree

LEMMA StartType ==
    ASSUME TypeOK, NEW dat, DataType(dat), NEW sav \in [files : FileIndex, trees : TreeIndex],
           NEW fits \in BOOLEAN, Start(dat, sav, fits)
    PROVE  TypeOK'
  BY DEF Start, TypeOK, DataType, disk

LEMMA InitType == Init => TypeOK
  <1> SUFFICES ASSUME Init PROVE TypeOK
    OBVIOUS
  <1>1. stamp \in [Files -> 1 .. MaxStamp]
    BY HashStoreAssumption DEF Init
  <1>2. fileIndex \in FileIndex /\ treeIndex \in TreeIndex
    BY EmptyType DEF Init
  <1>3. data \in Seq(Roots) /\ Len(data) =< MaxTrees
    BY HashStoreAssumption, EmptySeq DEF Init
  <1> QED
    BY <1>1, <1>2, <1>3, EmptyType DEF Init, TypeOK

LEMMA ChangeType ==
    ASSUME TypeOK, NEW f \in Files, NEW c \in Contents \cup {None}, Change(f, c)
    PROVE  TypeOK'
  BY HashStoreAssumption DEF Change, TypeOK, index

LEMMA HashStepType ==
    ASSUME TypeOK, HashStep
    PROVE  TypeOK'
  <1> USE DEF disk, index
  <1>1. ASSUME NEW f \in Files, StartHash(f) PROVE TypeOK'
    BY <1>1 DEF StartHash, TypeOK
  <1>2. ASSUME NEW f \in Files, GetTTH(f) PROVE TypeOK'
    <2>1. fileIndex' \in FileIndex
      BY <1>2 DEF GetTTH, TypeOK, FileIndex, FileInfo
    <2> QED
      BY <1>2, <2>1 DEF GetTTH, TypeOK
  <1>3. ASSUME NEW f \in Files, NEW time, CheckTTH(f, time) PROVE TypeOK'
    <2>1. fileIndex' \in FileIndex
      BY <1>3 DEF CheckTTH, TypeOK, FileIndex
    <2> QED
      BY <1>3, <2>1 DEF CheckTTH, TypeOK
  <1>4. CASE FinishHash
    <2>1. PICK r \in Read(hashing.file, hashing.stamp) :
            /\ AddTree(r)
            /\ fileIndex' = [fileIndex EXCEPT ![hashing.file] =
                                [root |-> r, stamp |-> hashing.stamp, used |-> TRUE]]
      BY <1>4 DEF FinishHash
    <2>2. hashing \in HashingType
      BY <1>4 DEF FinishHash, TypeOK, HashingType
    <2>3. r \in Roots
      BY <2>2 DEF Read, Roots, TypeOK, HashingType
    <2>4. fileIndex' \in FileIndex
      BY <2>1, <2>2, <2>3 DEF TypeOK, FileIndex, FileInfo, HashingType
    <2>5. treeIndex' \in TreeIndex /\ DataType(data)'
      BY <2>1, <2>3, AddTreeType
    <2> QED
      BY <1>4, <2>4, <2>5 DEF FinishHash, TypeOK, DataType
  <1>5. CASE GiveUp
    BY <1>5 DEF GiveUp, TypeOK
  <1>6. ASSUME NEW r \in Roots, PutTree(r) PROVE TypeOK'
    <2>1. treeIndex' \in TreeIndex /\ DataType(data)'
      BY <1>6, AddTreeType DEF PutTree
    <2> QED
      BY <1>6, <2>1 DEF PutTree, TypeOK, DataType
  <1> QED
    BY <1>1, <1>2, <1>3, <1>4, <1>5, <1>6 DEF HashStep

LEMMA RebuildType ==
    ASSUME TypeOK, NEW order \in Orders(Kept \ SmallRoots), Rebuild(order)
    PROVE  TypeOK'
  <1>1. treeIndex' \in TreeIndex
    BY RebuiltTreesType DEF Rebuild
  <1>2. fileIndex' \in FileIndex
    BY RebuiltFilesType DEF Rebuild, TypeOK
  <1>3. DataType(data)'
    <2>1. Kept \ SmallRoots \in SUBSET Roots
      BY DEF Kept, stored
    <2>2. DataType(order)
      BY <2>1, OrdersAreData
    <2> QED
      BY <2>2 DEF Rebuild, DataType
  <1>4. saved' \in [files : FileIndex, trees : TreeIndex]
    <2>1. Written(RebuiltFiles) \in FileIndex
      BY RebuiltFilesType, WrittenType DEF TypeOK
    <2>2. [files |-> Written(RebuiltFiles), trees |-> RebuiltTrees(order)] \in [files : FileIndex, trees : TreeIndex]
      BY <2>1, RebuiltTreesType
    <2> QED
      BY <2>2, EmptyType DEF Rebuild, TypeOK
  <1> QED
    BY <1>1, <1>2, <1>3, <1>4 DEF Rebuild, TypeOK, DataType, disk

LEMMA StoreStepType ==
    ASSUME TypeOK, StoreStep
    PROVE  TypeOK'
  <1> USE DEF disk, index
  <1>1. CASE Save
    <2>1. Written(fileIndex) \in FileIndex
      BY WrittenType DEF TypeOK
    <2> QED
      BY <1>1, <2>1 DEF Save, TypeOK, WithDisk
  <1>2. CASE SaveFails
    BY <1>2, EmptyType DEF SaveFails, TypeOK, WithDisk
  <1>3. CASE RebuildFails
    BY <1>3, EmptySeq, HashStoreAssumption DEF RebuildFails, TypeOK
  <1>4. CASE \E order \in Orders(Kept \ SmallRoots) : Rebuild(order)
    BY <1>4, RebuildType
  <1> QED
    BY <1>1, <1>2, <1>3, <1>4 DEF StoreStep

LEMMA RestartType ==
    ASSUME TypeOK, Restart
    PROVE  TypeOK'
  <1>1. DataType(data) /\ DataType(<<>>) /\ saved \in [files : FileIndex, trees : TreeIndex]
    BY EmptySeq, HashStoreAssumption DEF TypeOK, DataType
  <1>2. CASE Crash
    BY <1>1, <1>2, StartType DEF Crash
  <1>3. CASE CrashInSave
    BY <1>1, <1>3, StartType, EmptyType DEF CrashInSave
  <1>4. ASSUME NEW order \in Orders(Kept \ SmallRoots), CrashInRebuild(order)
        PROVE  TypeOK'
    <2>1. Kept \ SmallRoots \in SUBSET Roots
      BY DEF Kept, stored
    <2>2. DataType(order)
      BY <2>1, OrdersAreData
    <2> QED
      BY <1>1, <1>4, <2>2, StartType, EmptyType DEF CrashInRebuild
  <1> QED
    BY <1>2, <1>3, <1>4 DEF Restart

(* Every variable keeps its type: also what is loaded after a crash in the middle of a rebuild. *)
THEOREM TypeCorrect == Spec => []TypeOK
  <1>1. TypeOK /\ [Next]_vars => TypeOK'
    <2> SUFFICES ASSUME TypeOK, [Next]_vars PROVE TypeOK'
      OBVIOUS
    <2>1. CASE UNCHANGED vars
      BY <2>1 DEF vars, disk, index, TypeOK
    <2>2. CASE \E f \in Files : DiskStep(f)
      BY <2>2, ChangeType DEF DiskStep
    <2> QED
      BY <2>1, <2>2, HashStepType, StoreStepType, RestartType DEF Next
  <1> QED
    BY <1>1, InitType, PTL DEF Spec

-----------------------------------------------------------------------------
(* The entry of f is one that an index had already. *)
Had(f, entry) ==
    \E old \in {fileIndex[f], saved.files[f]} :
        old # None /\ entry.root = old.root /\ entry.stamp = old.stamp

(* A step that makes up no entry and leaves the files alone. *)
LEMMA EntriesKept ==
    ASSUME EntriesCurrent, UNCHANGED disk, hashing' \in {hashing, None},
           \A f \in Files : fileIndex'[f] # None => Had(f, fileIndex'[f]),
           \A f \in Files : saved'.files[f] # None => Had(f, saved'.files[f])
    PROVE  EntriesCurrent'
  BY DEF EntriesCurrent, Current, Had, disk

LEMMA ChangeCurrent ==
    ASSUME TypeOK, EntriesCurrent, NEW f \in Files, NEW c \in Contents \cup {None}, Change(f, c)
    PROVE  EntriesCurrent'
  <1>1. stamp'[f] = stamp[f] + 1 /\ stamp[f] \in Nat
    BY DEF Change, TypeOK
  <1>2. \A g \in Files : g # f => stamp'[g] = stamp[g] /\ content'[g] = content[g]
    BY DEF Change, TypeOK
  <1>3. UNCHANGED <<hashing, fileIndex, saved>>
    BY DEF Change, index
  <1>4. ASSUME NEW files \in FileIndex, NEW g \in Files, files[g] # None, Current(g, files[g])
        PROVE  Current(g, files[g])'
    <2>1. files[g].stamp \in Nat
      BY <1>4 DEF FileIndex, FileInfo
    <2> QED
      BY <1>1, <1>2, <1>4, <2>1 DEF Current
  <1>5. hashing # None => hashing.file \in Files /\ hashing.stamp \in Nat
    BY DEF TypeOK
  <1>6. \A g \in Files : fileIndex[g] # None => Current(g, fileIndex[g])'
    BY <1>3, <1>4 DEF TypeOK, EntriesCurrent
  <1>7. \A g \in Files : saved.files[g] # None => Current(g, saved.files[g])'
    BY <1>3, <1>4 DEF TypeOK, EntriesCurrent
  <1> QED
    BY <1>1, <1>2, <1>3, <1>5, <1>6, <1>7 DEF EntriesCurrent

(* What is read while the stamp stays the same is what the file holds. *)
LEMMA FinishHashCurrent ==
    ASSUME TypeOK, EntriesCurrent, FinishHash
    PROVE  EntriesCurrent'
  <1>1. PICK r \in Read(hashing.file, hashing.stamp) :
            fileIndex' = [fileIndex EXCEPT ![hashing.file] =
                            [root |-> r, stamp |-> hashing.stamp, used |-> TRUE]]
    BY DEF FinishHash
  <1>2. hashing \in HashingType /\ hashing.stamp =< stamp[hashing.file]
    BY DEF FinishHash, TypeOK, HashingType, EntriesCurrent
  <1>3. stamp[hashing.file] = hashing.stamp /\ r \in Contents => r = content[hashing.file]
    BY <1>2, HashStoreAssumption DEF Read
  <1>4. UNCHANGED <<content, stamp, saved>> /\ hashing' = None
    BY DEF FinishHash, disk
  <1>5. fileIndex'[hashing.file] = [root |-> r, stamp |-> hashing.stamp, used |-> TRUE]
    BY <1>1, <1>2 DEF TypeOK, FileIndex, HashingType
  <1>6. \A f \in Files : f # hashing.file => fileIndex'[f] = fileIndex[f]
    BY <1>1 DEF TypeOK, FileIndex
  <1> QED
    BY <1>2, <1>3, <1>4, <1>5, <1>6 DEF EntriesCurrent, Current

LEMMA HashStepCurrent ==
    ASSUME TypeOK, EntriesCurrent, HashStep
    PROVE  EntriesCurrent'
  <1> USE DEF disk, index, Had
  <1>1. ASSUME NEW f \in Files, StartHash(f) PROVE EntriesCurrent'
    <2>1. stamp[f] \in Nat
      BY DEF TypeOK
    <2> QED
      BY <1>1, <2>1 DEF StartHash, EntriesCurrent, Current
  <1>2. ASSUME NEW f \in Files, GetTTH(f) PROVE EntriesCurrent'
    <2>1. /\ fileIndex'[f].root = fileIndex[f].root
          /\ fileIndex'[f].stamp = fileIndex[f].stamp
          /\ \A g \in Files : g # f => fileIndex'[g] = fileIndex[g]
      BY <1>2 DEF GetTTH, TypeOK, FileIndex, FileInfo
    <2> QED
      BY <1>2, <2>1, EntriesKept DEF GetTTH
  <1>3. ASSUME NEW f \in Files, NEW time, CheckTTH(f, time) PROVE EntriesCurrent'
    <2>1. \A g \in Files : fileIndex'[g] \in {fileIndex[g], None}
      BY <1>3 DEF CheckTTH, TypeOK, FileIndex
    <2> QED
      BY <1>3, <2>1, EntriesKept DEF CheckTTH
  <1>4. CASE FinishHash
    BY <1>4, FinishHashCurrent
  <1>5. CASE GiveUp
    BY <1>5, EntriesKept DEF GiveUp
  <1>6. ASSUME NEW r \in Roots, PutTree(r) PROVE EntriesCurrent'
    BY <1>6, EntriesKept DEF PutTree
  <1> QED
    BY <1>1, <1>2, <1>3, <1>4, <1>5, <1>6 DEF HashStep

LEMMA StoreStepCurrent ==
    ASSUME TypeOK, EntriesCurrent, StoreStep
    PROVE  EntriesCurrent'
  <1> USE DEF disk, index, Had
  <1>1. CASE Save
    <2>1. \A f \in Files : saved'.files[f] # None =>
            /\ fileIndex[f] # None
            /\ saved'.files[f].root = fileIndex[f].root /\ saved'.files[f].stamp = fileIndex[f].stamp
      BY <1>1, WrittenType DEF Save, TypeOK
    <2> QED
      BY <1>1, <2>1, EntriesKept DEF Save
  <1>2. CASE SaveFails
    BY <1>2, EmptyType, EntriesKept DEF SaveFails
  <1>3. CASE RebuildFails
    BY <1>3, EntriesKept DEF RebuildFails
  <1>4. ASSUME NEW order \in Orders(Kept \ SmallRoots), Rebuild(order)
        PROVE  EntriesCurrent'
    <2>1. \A f \in Files : fileIndex'[f] # None => fileIndex'[f] = fileIndex[f]
      BY <1>4, RebuiltFilesType DEF Rebuild, TypeOK
    <2>2. \A f \in Files : Written(RebuiltFiles)[f] # None =>
            /\ fileIndex[f] # None
            /\ Written(RebuiltFiles)[f].root = fileIndex[f].root
            /\ Written(RebuiltFiles)[f].stamp = fileIndex[f].stamp
      BY RebuiltFilesType, WrittenType DEF TypeOK
    <2>3. \A f \in Files : saved'.files[f] # None => Had(f, saved'.files[f])
      BY <1>4, <2>2, EmptyType DEF Rebuild
    <2> QED
      BY <1>4, <2>1, <2>3, EntriesKept DEF Rebuild
  <1> QED
    BY <1>1, <1>2, <1>3, <1>4 DEF StoreStep

LEMMA RestartCurrent ==
    ASSUME TypeOK, EntriesCurrent, Restart
    PROVE  EntriesCurrent'
  <1>1. ASSUME NEW dat, NEW sav \in {saved, Empty}, NEW fits, Start(dat, sav, fits)
        PROVE  EntriesCurrent'
    BY <1>1, EntriesKept, EmptyType DEF Start, Had
  <1> QED
    BY <1>1 DEF Restart, Crash, CrashInSave, CrashInRebuild

(***************************************************************************)
(* What checkTTH accepts is current. That an entry's stamp is never ahead  *)
(* of its file's, also in the saved index, is what makes it inductive: a   *)
(* file that changes then leaves all its entries behind.                   *)
(***************************************************************************)
THEOREM AcceptsNothingStale == Spec => []AcceptedIsCurrent
  <1>1. Init => EntriesCurrent
    BY EmptyType DEF Init, EntriesCurrent
  <1>2. TypeOK /\ EntriesCurrent /\ [Next]_vars => EntriesCurrent'
    <2> SUFFICES ASSUME TypeOK, EntriesCurrent, [Next]_vars PROVE EntriesCurrent'
      OBVIOUS
    <2>1. CASE UNCHANGED vars
      BY <2>1 DEF vars, disk, index, EntriesCurrent, Current
    <2>2. CASE \E f \in Files : DiskStep(f)
      BY <2>2, ChangeCurrent DEF DiskStep
    <2> QED
      BY <2>1, <2>2, HashStepCurrent, StoreStepCurrent, RestartCurrent DEF Next
  <1>3. EntriesCurrent => AcceptedIsCurrent
    BY DEF EntriesCurrent, Current, AcceptedIsCurrent, Accepted
  <1> QED
    BY <1>1, <1>2, <1>3, TypeCorrect, PTL DEF Spec

-----------------------------------------------------------------------------
(* A tree is appended: whoever looks for it finds it, and whoever looks for another finds what he did. *)
LEMMA AppendLoads ==
    ASSUME DataType(data), NEW r \in Roots, data' = Append(data, r),
           NEW trees \in TreeIndex, NEW q \in Roots
    PROVE  /\ Loadable(trees, data, q) => Loadable(trees, data', q)
           /\ q # r => (Loadable(trees, data', q) => Loadable(trees, data, q))
           /\ trees[q] = Len(data) + 1 /\ q = r => Loadable(trees, data', q)
  <1>1. /\ Len(data) \in Nat
        /\ Len(data') = Len(data) + 1
        /\ \A i \in 1 .. Len(data) : data'[i] = data[i]
        /\ data'[Len(data) + 1] = r
    BY LenProperties DEF DataType
  <1>2. trees[q] \in 1 .. Len(data') => trees[q] \in 1 .. Len(data) \/ trees[q] = Len(data) + 1
    BY <1>1
  <1>3. Len(data) + 1 \in 1 .. Len(data') /\ 1 .. Len(data) \subseteq 1 .. Len(data')
    BY <1>1
  <1> QED
    BY <1>1, <1>2, <1>3 DEF Loadable

(* addTree, in terms of what can be loaded: by the index in memory, and by the saved one. *)
LEMMA AddTreeLoads ==
    ASSUME TypeOK, NEW r \in Roots, AddTree(r)
    PROVE  \/ UNCHANGED <<treeIndex, data>>
           \/ /\ \A q \in Roots \ {r} :
                  /\ treeIndex'[q] = treeIndex[q]
                  /\ Loadable(treeIndex', data', q) <=> Loadable(treeIndex, data, q)
                  /\ Loadable(saved.trees, data', q) <=> Loadable(saved.trees, data, q)
              /\ Loadable(treeIndex', data', r)
              /\ Loadable(saved.trees, data, r) => Loadable(saved.trees, data', r)
  <1>1. DataType(data) /\ treeIndex \in TreeIndex /\ saved.trees \in TreeIndex
    BY DEF TypeOK, DataType
  <1>2. CASE treeIndex' = [treeIndex EXCEPT ![r] = SMALL_TREE] /\ UNCHANGED data
    BY <1>1, <1>2 DEF Loadable, TreeIndex
  <1>3. CASE /\ data' = Append(data, r)
             /\ treeIndex' = [treeIndex EXCEPT ![r] = Len(data) + 1]
    <2>1. treeIndex'[r] = Len(data) + 1 /\ \A q \in Roots \ {r} : treeIndex'[q] = treeIndex[q]
      BY <1>1, <1>3 DEF TreeIndex
    <2>2. \A q \in Roots \ {r} : Loadable(treeIndex', data', q) <=> Loadable(treeIndex, data', q)
      BY <2>1 DEF Loadable
    <2>3. \A q \in Roots \ {r} : Loadable(treeIndex, data', q) <=> Loadable(treeIndex, data, q)
      BY <1>1, <1>3, AppendLoads
    <2>4. \A q \in Roots \ {r} : Loadable(saved.trees, data', q) <=> Loadable(saved.trees, data, q)
      BY <1>1, <1>3, AppendLoads
    <2>5. treeIndex' \in TreeIndex
      BY AddTreeType
    <2>6. Loadable(treeIndex', data', r)
      BY <1>1, <1>3, <2>1, <2>5, AppendLoads
    <2>7. Loadable(saved.trees, data, r) => Loadable(saved.trees, data', r)
      BY <1>1, <1>3, AppendLoads
    <2> QED
      BY <2>1, <2>2, <2>3, <2>4, <2>6, <2>7
  <1> QED
    BY <1>2, <1>3 DEF AddTree

LEMMA AddTreeKnown ==
    ASSUME TypeOK, KnownIsStored, NEW r \in Roots, AddTree(r), UNCHANGED <<saved, torn>>
    PROVE  KnownIsStored'
  <1>1. CASE UNCHANGED <<treeIndex, data>>
    BY <1>1 DEF KnownIsStored
  <1>2. CASE ~UNCHANGED <<treeIndex, data>>
    <2>1. \A q \in Roots \ {r} :
              /\ Known(treeIndex', q) <=> Known(treeIndex, q)
              /\ Loadable(treeIndex', data', q) <=> Loadable(treeIndex, data, q)
              /\ Loadable(saved.trees, data', q) <=> Loadable(saved.trees, data, q)
      BY <1>2, AddTreeLoads DEF Known
    <2>2. /\ Loadable(treeIndex', data', r)
          /\ Loadable(saved.trees, data, r) => Loadable(saved.trees, data', r)
      BY <1>2, AddTreeLoads
    <2> QED
      BY <2>1, <2>2 DEF KnownIsStored
  <1> QED
    BY <1>1, <1>2

LEMMA HashStepKnown ==
    ASSUME TypeOK, KnownIsStored, HashStep
    PROVE  KnownIsStored'
  <1>1. CASE UNCHANGED <<treeIndex, data, saved, torn>>
    BY <1>1 DEF KnownIsStored
  <1>2. CASE FinishHash
    <2>1. PICK r \in Read(hashing.file, hashing.stamp) : AddTree(r)
      BY <1>2 DEF FinishHash
    <2>2. hashing \in HashingType
      BY <1>2 DEF FinishHash, TypeOK, HashingType
    <2>3. r \in Roots
      BY <2>2 DEF Read, Roots, TypeOK, HashingType
    <2> QED
      BY <1>2, <2>1, <2>3, AddTreeKnown DEF FinishHash
  <1>3. ASSUME NEW r \in Roots, PutTree(r) PROVE KnownIsStored'
    BY <1>3, AddTreeKnown DEF PutTree
  <1> QED
    BY <1>1, <1>2, <1>3 DEF HashStep, StartHash, GetTTH, CheckTTH, GiveUp, index

LEMMA StoreStepKnown ==
    ASSUME TypeOK, KnownIsStored, StoreStep
    PROVE  KnownIsStored'
  <1>1. CASE Save
    BY <1>1 DEF Save, KnownIsStored, WithDisk
  <1>2. CASE SaveFails
    <2>1. "memory" \in torn' <=> "memory" \in torn
      BY <1>2 DEF SaveFails, WithDisk
    <2> QED
      BY <1>2, <2>1, EmptyType DEF SaveFails, KnownIsStored, index
  <1>3. CASE RebuildFails
    BY <1>3 DEF RebuildFails, KnownIsStored
  <1>4. ASSUME NEW order \in Orders(Kept \ SmallRoots), Rebuild(order)
        PROVE  KnownIsStored'
    <2>1. \A r \in Roots : Known(treeIndex', r) => Loadable(treeIndex', data', r)
      BY <1>4, RebuiltTreesType DEF Rebuild
    <2>2. "disk" \in torn' \/ saved'.trees = treeIndex' \/ saved' = Empty
      BY <1>4 DEF Rebuild
    <2> QED
      BY <2>1, <2>2, EmptyType DEF KnownIsStored
  <1> QED
    BY <1>1, <1>2, <1>3, <1>4 DEF StoreStep

LEMMA RestartKnown ==
    ASSUME KnownIsStored, Restart
    PROVE  KnownIsStored'
  <1>1. ASSUME NEW dat, NEW sav, NEW fits, Start(dat, sav, fits),
               fits => \A r \in Roots : Known(sav.trees, r) => Loadable(sav.trees, dat, r)
        PROVE  KnownIsStored'
    BY <1>1 DEF Start, KnownIsStored
  <1>2. \A dat : \A r \in Roots : Known(Empty.trees, r) => Loadable(Empty.trees, dat, r)
    BY EmptyType
  <1>3. "disk" \notin torn => \A r \in Roots : Known(saved.trees, r) => Loadable(saved.trees, data, r)
    BY DEF KnownIsStored
  <1>4. CASE Crash
    BY <1>1, <1>3, <1>4 DEF Crash
  <1>5. CASE CrashInSave
    BY <1>1, <1>2, <1>5 DEF CrashInSave
  <1>6. CASE \E order \in Orders(Kept \ SmallRoots) : CrashInRebuild(order)
    BY <1>1, <1>2, <1>6 DEF CrashInRebuild
  <1> QED
    BY <1>4, <1>5, <1>6 DEF Restart

(***************************************************************************)
(* What addTree passes over because it is known can be loaded, unless the  *)
(* index has outlived its data file. The invariant is inductive.           *)
(***************************************************************************)
THEOREM KnownTreesAreStored == Spec => []KnownIsStored
  <1>1. Init => KnownIsStored
    BY EmptyType DEF Init, KnownIsStored
  <1>2. TypeOK /\ KnownIsStored /\ [Next]_vars => KnownIsStored'
    <2> SUFFICES ASSUME TypeOK, KnownIsStored, [Next]_vars PROVE KnownIsStored'
      OBVIOUS
    <2>1. CASE UNCHANGED vars
      BY <2>1 DEF vars, disk, index, KnownIsStored
    <2>2. CASE \E f \in Files : DiskStep(f)
      BY <2>2 DEF DiskStep, Change, KnownIsStored, index
    <2> QED
      BY <2>1, <2>2, HashStepKnown, StoreStepKnown, RestartKnown DEF Next
  <1> QED
    BY <1>1, <1>2, TypeCorrect, PTL DEF Spec

-----------------------------------------------------------------------------
StoreStutter == UNCHANGED <<stored, durable>>

LEMMA AddTreeRefines ==
    ASSUME TypeOK, NEW r \in Roots, AddTree(r), UNCHANGED saved
    PROVE  StoreStutter \/ Store!Put(r)
  <1>1. CASE UNCHANGED <<treeIndex, data>>
    BY <1>1 DEF StoreStutter, stored, durable
  <1>2. CASE ~UNCHANGED <<treeIndex, data>>
    <2>1. \A q \in Roots \ {r} :
              /\ Loadable(treeIndex', data', q) <=> Loadable(treeIndex, data, q)
              /\ Loadable(saved'.trees, data', q) <=> Loadable(saved.trees, data, q)
      BY <1>2, AddTreeLoads
    <2>2. Loadable(treeIndex', data', r)
      BY <1>2, AddTreeLoads
    <2>3. Loadable(saved.trees, data, r) => Loadable(saved'.trees, data', r)
      BY <1>2, AddTreeLoads
    <2>4. stored' = stored \cup {r}
      BY <2>1, <2>2 DEF stored
    <2>5. durable' \in {durable, durable \cup {r}}
      BY <2>1, <2>3 DEF durable
    <2> QED
      BY <2>4, <2>5 DEF Store!Put
  <1> QED
    BY <1>1, <1>2

LEMMA HashStepRefines ==
    ASSUME TypeOK, HashStep
    PROVE  StoreStutter \/ Store!Next
  <1>1. CASE UNCHANGED <<treeIndex, data, saved>>
    BY <1>1 DEF StoreStutter, stored, durable
  <1>2. CASE FinishHash
    <2>1. PICK r \in Read(hashing.file, hashing.stamp) : AddTree(r)
      BY <1>2 DEF FinishHash
    <2>2. hashing \in HashingType
      BY <1>2 DEF FinishHash, TypeOK, HashingType
    <2>3. r \in Roots
      BY <2>2 DEF Read, Roots, TypeOK, HashingType
    <2> QED
      BY <1>2, <2>1, <2>3, AddTreeRefines DEF FinishHash, Store!Next
  <1>3. ASSUME NEW r \in Roots, PutTree(r) PROVE StoreStutter \/ Store!Next
    BY <1>3, AddTreeRefines DEF PutTree, Store!Next
  <1> QED
    BY <1>1, <1>2, <1>3 DEF HashStep, StartHash, GetTTH, CheckTTH, GiveUp, index

(* What an index without trees, or a new data file, is good for. *)
LEMMA NothingLoads ==
    ASSUME NEW dat, NEW r \in Roots
    PROVE  ~Loadable(Empty.trees, dat, r)
  BY DEF Loadable, Empty, SMALL_TREE, Unknown

LEMMA EmptyLoads ==
    ASSUME NEW trees, NEW r \in Roots, Loadable(trees, <<>>, r), NEW dat
    PROVE  Loadable(trees, dat, r)
  BY EmptySeq DEF Loadable

LEMMA OrderLoads ==
    ASSUME NEW order \in Orders(Kept \ SmallRoots), NEW trees \in TreeIndex,
           NEW r \in Roots, Loadable(trees, order, r)
    PROVE  r \in stored \/ Loadable(trees, data, r)
  <1>1. Kept \ SmallRoots \in SUBSET Roots
    BY DEF Kept, stored
  <1>2. \A i \in 1 .. Len(order) : order[i] \in Kept \ SmallRoots
    BY <1>1, OrdersAreData
  <1>3. CASE trees[r] = SMALL_TREE
    BY <1>3 DEF Loadable
  <1>4. CASE trees[r] \in 1 .. Len(order) /\ order[trees[r]] = r
    BY <1>2, <1>4 DEF Kept
  <1> QED
    BY <1>3, <1>4 DEF Loadable

LEMMA StoreStepRefines ==
    ASSUME TypeOK, StoreStep
    PROVE  Store!Next
  <1>1. CASE Save
    BY <1>1 DEF Save, stored, durable, Store!Flush, Store!Next
  <1>2. CASE SaveFails
    BY <1>2, NothingLoads DEF SaveFails, stored, durable, index, Store!LoseIndex, Store!Next
  <1>3. CASE RebuildFails
    <2>1. data' = <<>> /\ UNCHANGED <<treeIndex, saved>>
      BY <1>3 DEF RebuildFails, index
    <2>2. stored' \subseteq stored
      BY <2>1, EmptyLoads DEF stored
    <2>3. durable' \subseteq durable
      BY <2>1, EmptyLoads DEF durable
    <2> QED
      BY <2>2, <2>3 DEF Store!Rebuild, Store!Next
  <1>4. ASSUME NEW order \in Orders(Kept \ SmallRoots), Rebuild(order)
        PROVE  Store!Next
    <2>1. data' = order /\ treeIndex' = RebuiltTrees(order)
      BY <1>4 DEF Rebuild
    <2>2. \A r \in Roots : Loadable(RebuiltTrees(order), order, r) => r \in Kept
      BY RebuiltTreesType, HashStoreAssumption DEF Loadable, Known, Unknown, SMALL_TREE
    <2>3. stored' \subseteq stored
      BY <2>1, <2>2 DEF stored, Kept
    <2>4. durable' \subseteq stored \cup durable
      <3>1. CASE saved'.trees = RebuiltTrees(order)
        BY <2>1, <2>2, <3>1 DEF durable, Kept
      <3>2. CASE UNCHANGED saved
        BY <2>1, <3>2, OrderLoads DEF durable, TypeOK
      <3>3. CASE saved' = Empty
        BY <3>3, NothingLoads DEF durable
      <3> QED
        BY <1>4, <3>1, <3>2, <3>3 DEF Rebuild
    <2> QED
      BY <2>3, <2>4 DEF Store!Rebuild, Store!Next
  <1> QED
    BY <1>1, <1>2, <1>3, <1>4 DEF StoreStep

LEMMA RestartRefines ==
    ASSUME TypeOK, Restart
    PROVE  Store!Next
  <1>1. ASSUME NEW dat, NEW sav, NEW fits, Start(dat, sav, fits)
        PROVE  /\ stored' = durable'
               /\ durable' = {r \in Roots : Loadable(sav.trees, dat, r)}
    BY <1>1 DEF Start, stored, durable
  <1>2. CASE Crash
    BY <1>1, <1>2 DEF Crash, durable, Store!Crash, Store!Next
  <1>3. CASE CrashInSave
    <2>1. stored' = durable' /\ durable' = {}
      BY <1>1, <1>3, NothingLoads DEF CrashInSave
    <2> QED
      BY <2>1 DEF Store!CrashInside, Store!Next
  <1>4. ASSUME NEW order \in Orders(Kept \ SmallRoots), CrashInRebuild(order)
        PROVE  Store!Next
    <2>1. CASE Start(<<>>, saved, FALSE)
      <3>1. durable' \subseteq durable
        BY <1>1, <2>1, EmptyLoads DEF durable
      <3> QED
        BY <1>1, <2>1, <3>1 DEF Store!CrashInside, Store!Next
    <2>2. CASE Start(order, saved, FALSE)
      <3>1. saved.trees \in TreeIndex
        BY DEF TypeOK
      <3>2. \A r \in Roots : Loadable(saved.trees, order, r) => r \in stored \cup durable
        BY <3>1, OrderLoads DEF durable
      <3>3. durable' \subseteq stored \cup durable
        BY <1>1, <2>2, <3>2
      <3> QED
        BY <1>1, <2>2, <3>3 DEF Store!CrashInside, Store!Next
    <2>3. CASE Start(order, Empty, TRUE)
      <3>1. durable' = {}
        BY <1>1, <2>3, NothingLoads
      <3> QED
        BY <1>1, <2>3, <3>1 DEF Store!CrashInside, Store!Next
    <2> QED
      BY <1>4, <2>1, <2>2, <2>3 DEF CrashInRebuild
  <1> QED
    BY <1>2, <1>3, <1>4 DEF Restart

(***************************************************************************)
(* The store implements TreeStore: the index, the data file and what is in *)
(* memory lose a tree only in a rebuild, when the index cannot be          *)
(* replaced, or when the program ends before or during one of these.       *)
(***************************************************************************)
THEOREM Refinement == Spec => StoreSpec
  <1>1. Init => Store!Init
    BY NothingLoads DEF Init, Empty, stored, durable, Store!Init
  <1>2. TypeOK /\ [Next]_vars => [Store!Next]_<<stored, durable>>
    <2> SUFFICES ASSUME TypeOK, [Next]_vars PROVE StoreStutter \/ Store!Next
      BY DEF StoreStutter
    <2>1. CASE UNCHANGED vars
      BY <2>1 DEF vars, index, StoreStutter, stored, durable
    <2>2. CASE \E f \in Files : DiskStep(f)
      BY <2>2 DEF DiskStep, Change, index, StoreStutter, stored, durable
    <2> QED
      BY <2>1, <2>2, HashStepRefines, StoreStepRefines, RestartRefines DEF Next
  <1> QED
    BY <1>1, <1>2, TypeCorrect, PTL DEF Spec, StoreSpec, Store!Spec
=============================================================================
