------------------------------- MODULE HashStore -------------------------------
(***************************************************************************)
(* HashManager::HashStore: for each shared file the root of its hash tree  *)
(* and the time stamp it had, and for each root where its tree lies in the *)
(* data file. Both are saved together in the index file, now and then;     *)
(* trees are appended to the data file at once. The program may end at any *)
(* time.                                                                   *)
(*                                                                         *)
(* An action is what is done under HashManager::cs, and the end of the     *)
(* program in the middle of it. A tree is its root: loadTree compares.     *)
(***************************************************************************)
EXTENDS Integers, Sequences

CONSTANTS
    Files,          \* the paths that are shared
    None,           \* no file, no entry
    Contents,       \* the roots of what may be in a file; all are equally long
    Others,         \* the roots of other trees: of half a file, or of a download
    SmallRoots,     \* the roots of trees that are nothing but their root
    MaxStamp,       \* bound: a file is changed so often
    MaxTrees        \* bound: the data file has so many trees

Roots == Contents \cup Others

ASSUME HashStoreAssumption ==
    /\ SmallRoots \subseteq Roots
    /\ Contents \cap Others = {}
    /\ None \notin Contents
    /\ MaxStamp \in Nat \ {0} /\ MaxTrees \in Nat

VARIABLES
    content, stamp,     \* the files on the disk
    hashing,            \* the file that is hashed, and the stamp it had
    fileIndex, treeIndex, dirty,
    data,               \* HashData.dat, from position 1
    missing,            \* there is no HashData.dat
    saved,              \* HashIndex.xml; without one, nothing is loaded
    torn                \* history: the indexes for a data file that has been replaced

disk == <<content, stamp>>
index == <<fileIndex, treeIndex, dirty>>
vars == <<disk, hashing, index, data, missing, saved, torn>>

-----------------------------------------------------------------------------
SMALL_TREE == -1
Unknown == 0
Positions == {SMALL_TREE, Unknown} \cup 1 .. MaxTrees

FileInfo == [root : Roots, stamp : 1 .. MaxStamp, used : BOOLEAN]
FileIndex == [Files -> FileInfo \cup {None}]
TreeIndex == [Roots -> Positions]

Empty == [files |-> [f \in Files |-> None], trees |-> [r \in Roots |-> Unknown]]

ASSUME NoneAssumption == None \notin FileInfo \cup [file : Files, stamp : 1 .. MaxStamp]

Known(trees, r) == trees[r] # Unknown

(* loadTree *)
Loadable(trees, dat, r) ==
    \/ trees[r] = SMALL_TREE
    \/ trees[r] \in 1 .. Len(dat) /\ dat[trees[r]] = r

stored == {r \in Roots : Loadable(treeIndex, data, r)}
durable == {r \in Roots : Loadable(saved.trees, data, r)}

Init ==
    /\ content \in [Files -> Contents \cup {None}]
    /\ stamp = [f \in Files |-> 1]
    /\ hashing = None
    /\ fileIndex = Empty.files /\ treeIndex = Empty.trees /\ dirty = FALSE
    /\ data = <<>> /\ missing = FALSE
    /\ saved = Empty
    /\ torn = {}

-----------------------------------------------------------------------------
(* Somebody writes, replaces or deletes a file, later than the last time: it has another time stamp. *)
Change(f, c) ==
    /\ stamp[f] < MaxStamp
    /\ content' = [content EXCEPT ![f] = c]
    /\ stamp' = [stamp EXCEPT ![f] = @ + 1]
    /\ UNCHANGED <<hashing, index, data, missing, saved, torn>>

(* The hasher opens a file and asks for its time stamp. *)
StartHash(f) ==
    /\ hashing = None /\ content[f] # None
    /\ hashing' = [file |-> f, stamp |-> stamp[f]]
    /\ UNCHANGED <<disk, index, data, missing, saved, torn>>

(* What it may have read: the file, or when it is stopped a part; or, if the file was changed, anything. *)
Read(f, since) ==
    Others \cup (IF stamp[f] = since THEN {content[f]} \ {None} ELSE Contents)

(* Slip: the position is where the last tree begins. *)
AddTreeBefore(r) ==
    \/ /\ ~Known(treeIndex, r) /\ ~missing /\ r \notin SmallRoots /\ Len(data) < MaxTrees
       /\ data' = Append(data, r)
       /\ treeIndex' = [treeIndex EXCEPT ![r] = IF data = <<>> THEN 1 ELSE Len(data)]
    \/ UNCHANGED <<data, treeIndex>>

(***************************************************************************)
(* HashStore::addTree: only a root that is not known is written. A file    *)
(* that cannot be opened or written is passed over.                        *)
(***************************************************************************)
AddTree(r) ==
    \/ /\ ~Known(treeIndex, r) /\ ~missing
       /\ \/ /\ r \in SmallRoots
             /\ treeIndex' = [treeIndex EXCEPT ![r] = SMALL_TREE]
             /\ UNCHANGED data
          \/ /\ r \notin SmallRoots /\ Len(data) < MaxTrees
             /\ data' = Append(data, r)
             /\ treeIndex' = [treeIndex EXCEPT ![r] = Len(data) + 1]
    \/ UNCHANGED <<data, treeIndex>>

(* A tree that was downloaded. *)
PutTree(r) ==
    /\ AddTree(r) /\ treeIndex' # treeIndex
    /\ dirty' = TRUE
    /\ UNCHANGED <<disk, hashing, fileIndex, missing, saved, torn>>

(* Slip: the stamp that the file has now. *)
FinishHashLate ==
    /\ hashing # None
    /\ \E r \in Read(hashing.file, hashing.stamp) :
        /\ AddTree(r)
        /\ fileIndex' = [fileIndex EXCEPT ![hashing.file] =
                            [root |-> r, stamp |-> stamp[hashing.file], used |-> TRUE]]
    /\ dirty' = TRUE
    /\ hashing' = None
    /\ UNCHANGED <<disk, missing, saved, torn>>

(* hashDone, and addFile: the file is entered also when its tree could not be written. *)
FinishHash ==
    /\ hashing # None
    /\ \E r \in Read(hashing.file, hashing.stamp) :
        /\ AddTree(r)
        /\ fileIndex' = [fileIndex EXCEPT ![hashing.file] =
                            [root |-> r, stamp |-> hashing.stamp, used |-> TRUE]]
    /\ dirty' = TRUE
    /\ hashing' = None
    /\ UNCHANGED <<disk, missing, saved, torn>>

(* The file cannot be read. *)
GiveUp ==
    /\ hashing # None
    /\ hashing' = None
    /\ UNCHANGED <<disk, index, data, missing, saved, torn>>

-----------------------------------------------------------------------------
(* The root of a file, the length of the one that was hashed, and the time stamp must be right. *)
Accepted(f, time) ==
    LET entry == fileIndex[f]
    IN  Known(treeIndex, entry.root) /\ entry.root \in Contents /\ entry.stamp = time

(* Slip: the entry is not dropped but gets the time that was asked for. *)
CheckTTHAdopts(f, time) ==
    /\ fileIndex[f] # None /\ ~Accepted(f, time)
    /\ fileIndex' = [fileIndex EXCEPT ![f].stamp = time]
    /\ dirty' = TRUE
    /\ UNCHANGED <<disk, hashing, treeIndex, data, missing, saved, torn>>

(***************************************************************************)
(* checkTTH. The time is 0 for a file that has just been downloaded, and   *)
(* is hashed whatever the index says.                                      *)
(***************************************************************************)
CheckTTH(f, time) ==
    /\ fileIndex[f] # None /\ ~Accepted(f, time)
    /\ fileIndex' = [fileIndex EXCEPT ![f] = None]
    /\ dirty' = TRUE
    /\ UNCHANGED <<disk, hashing, treeIndex, data, missing, saved, torn>>

GetTTH(f) ==
    /\ fileIndex[f] # None /\ ~fileIndex[f].used
    /\ fileIndex' = [fileIndex EXCEPT ![f].used = TRUE]
    /\ UNCHANGED <<disk, hashing, treeIndex, dirty, data, missing, saved, torn>>

(* The index as it will be loaded: nothing is used yet. *)
Written(files) == [f \in Files |-> IF files[f] = None THEN None ELSE [files[f] EXCEPT !.used = FALSE]]

WithDisk(also) == IF also THEN torn \cup {"disk"} ELSE torn \ {"disk"}

(* save, on every minute and at the end. Nothing happens if the new file cannot be written. *)
Save ==
    /\ dirty
    /\ saved' = [files |-> Written(fileIndex), trees |-> treeIndex]
    /\ dirty' = FALSE
    /\ torn' = WithDisk("memory" \in torn)
    /\ UNCHANGED <<disk, hashing, fileIndex, treeIndex, data, missing>>

(* The old index is deleted, and the new one is not renamed. *)
SaveFails ==
    /\ dirty
    /\ saved' = Empty
    /\ torn' = WithDisk(FALSE)
    /\ UNCHANGED <<disk, hashing, index, data, missing>>

-----------------------------------------------------------------------------
(* The trees of files that are there and in use. *)
Kept ==
    {r \in stored : \E f \in Files :
        content[f] # None /\ fileIndex[f] # None /\ fileIndex[f].used /\ fileIndex[f].root = r}

(* The trees in any order. *)
Orders(S) ==
    {order \in UNION {[1 .. n -> S] : n \in 0 .. MaxTrees} :
        /\ \A r \in S : \E i \in DOMAIN order : order[i] = r
        /\ \A i, j \in DOMAIN order : order[i] = order[j] => i = j}

(* Slip: a tree stays where it was. *)
RebuiltTreesInPlace(order) ==
    [r \in Roots |-> IF r \in Kept THEN treeIndex[r] ELSE Unknown]

RebuiltTrees(order) ==
    [r \in Roots |-> IF r \notin Kept THEN Unknown
                     ELSE IF r \in SmallRoots THEN SMALL_TREE
                     ELSE CHOOSE i \in DOMAIN order : order[i] = r]

RebuiltFiles ==
    [f \in Files |-> IF fileIndex[f] # None /\ fileIndex[f].root \in Kept THEN fileIndex[f] ELSE None]

(* rebuild, by the hasher between two files, and its save, which may fail early or late. *)
Rebuild(order) ==
    /\ hashing = None /\ ~missing /\ order \in Orders(Kept \ SmallRoots)
    /\ data' = order
    /\ treeIndex' = RebuiltTrees(order)
    /\ fileIndex' = RebuiltFiles
    /\ \/ /\ saved' = [files |-> Written(RebuiltFiles), trees |-> RebuiltTrees(order)]
          /\ dirty' = FALSE
          /\ torn' = {}
       \/ dirty' = TRUE /\ UNCHANGED saved /\ torn' = {"disk"}
       \/ dirty' = TRUE /\ saved' = Empty /\ torn' = {}
    /\ UNCHANGED <<disk, hashing, missing>>

(* The data file is deleted, and the new one is not renamed. *)
RebuildFails ==
    /\ hashing = None /\ ~missing
    /\ missing' = TRUE
    /\ data' = <<>>
    /\ torn' = {"memory", "disk"}
    /\ UNCHANGED <<disk, hashing, index, saved>>

(* startup: the index is loaded, and a data file made if there is none. *)
Start(dat, sav, fits) ==
    /\ data' = dat /\ missing' = FALSE
    /\ saved' = sav
    /\ fileIndex' = sav.files /\ treeIndex' = sav.trees /\ dirty' = FALSE
    /\ hashing' = None
    /\ torn' = IF fits THEN {} ELSE {"memory", "disk"}
    /\ UNCHANGED disk

(* The program ends. *)
Crash == Start(data, saved, "disk" \notin torn)

(* It ends between the deletion of a file and the renaming of the new one. *)
CrashInSave == dirty /\ Start(data, Empty, TRUE)

CrashInRebuild(order) ==
    /\ hashing = None /\ ~missing /\ order \in Orders(Kept \ SmallRoots)
    /\ \/ Start(<<>>, saved, FALSE)
       \/ Start(order, saved, FALSE)
       \/ Start(order, Empty, TRUE)

DiskStep(f) == \E c \in Contents \cup {None} : Change(f, c)

HashStep ==
    \/ \E f \in Files : StartHash(f) \/ GetTTH(f)
    \/ \E f \in Files : \E time \in {stamp[f], 0} : CheckTTH(f, time)
    \/ FinishHash \/ GiveUp
    \/ \E r \in Roots : PutTree(r)

StoreStep ==
    \/ Save \/ SaveFails \/ RebuildFails
    \/ \E order \in Orders(Kept \ SmallRoots) : Rebuild(order)

Restart ==
    \/ Crash \/ CrashInSave
    \/ \E order \in Orders(Kept \ SmallRoots) : CrashInRebuild(order)

Next == (\E f \in Files : DiskStep(f)) \/ HashStep \/ StoreStep \/ Restart

Spec == Init /\ [][Next]_vars

-----------------------------------------------------------------------------
TypeOK ==
    /\ content \in [Files -> Contents \cup {None}]
    /\ stamp \in [Files -> 1 .. MaxStamp]
    /\ hashing \in [file : Files, stamp : 1 .. MaxStamp] \cup {None}
    /\ fileIndex \in FileIndex /\ treeIndex \in TreeIndex /\ dirty \in BOOLEAN
    /\ data \in Seq(Roots) /\ Len(data) =< MaxTrees /\ missing \in BOOLEAN
    /\ saved \in [files : FileIndex, trees : TreeIndex]
    /\ torn \subseteq {"memory", "disk"}

(***************************************************************************)
(* HashManager.h:67: "Check if the TTH tree associated with the filename   *)
(* is current." What checkTTH accepts for a file as it is now is the root  *)
(* of what is in it: whenever the file was changed, hashing was stopped,   *)
(* an old index was loaded or the store rebuilt.                           *)
(***************************************************************************)
AcceptedIsCurrent ==
    \A f \in Files : content[f] # None /\ fileIndex[f] # None /\ Accepted(f, stamp[f]) =>
        fileIndex[f].root = content[f]

(***************************************************************************)
(* addTree never writes a root that is known, so what is known must be     *)
(* there: in memory, and in the index that is saved. The exception is an   *)
(* index that has outlived its data file, after a rebuild was interrupted; *)
(* the next rebuild and the next save end it.                              *)
(***************************************************************************)
KnownIsStored ==
    \A r \in Roots :
        /\ "memory" \notin torn /\ Known(treeIndex, r) => Loadable(treeIndex, data, r)
        /\ "disk" \notin torn /\ Known(saved.trees, r) => Loadable(saved.trees, data, r)

(***************************************************************************)
(* The two files and what is in memory implement the abstract store: trees *)
(* are lost only where it says so, whatever the indexes look like.         *)
(***************************************************************************)
Store == INSTANCE TreeStore WITH Roots <- Roots, stored <- stored, durable <- durable

StoreSpec == Store!Spec
=============================================================================
