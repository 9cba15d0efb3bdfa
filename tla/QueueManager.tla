---------------------------- MODULE QueueManager ----------------------------
(***************************************************************************)
(* The download queue: QueueManager with its FileQueue and UserQueue, the  *)
(* QueueItems, and the Download objects that the socket threads of         *)
(* DownloadManager drive against it. Every action is one critical section  *)
(* of QueueManager::cs, or one step of a socket thread on its Download.    *)
(*                                                                         *)
(* A target is a path or, for a user's file list, the user itself          *)
(* (getListPath depends on nothing else). A Download is named by its user: *)
(* the model goes as far as the step in which a user gets a second one,    *)
(* see GetSecond. The order inside one (priority, user) list is not        *)
(* modelled: getNext takes any suitable item of the highest priority that  *)
(* has one.                                                                *)
(***************************************************************************)
EXTENDS Segments, FiniteSets

CONSTANTS
    Users,              \* the other clients, sources of the queued files
    Paths,              \* target paths of queued files
    Roots,              \* tree roots (TTH): what a file is
    Items,              \* QueueItem objects, allocated and freed
    NoItem, NoDownload, \* null pointers
    ListRoot,           \* the empty TTH of a file list
    Blocks,             \* tree blocks in a file
    LastPriority,       \* QueueItem::LAST - 1; 0 is PAUSED
    MaxSegments,        \* FileQueue::getMaxSegments of such a file
    Placements,         \* which file the user may queue at which path
    ListUsers,          \* whose file lists may be requested
    KeepFinishedFiles, MultiChunk, OverlapChunks,   \* settings
    BadData             \* may a block fail its hash check, or its write?

ASSUME QueueAssumption ==
    /\ NoItem \notin Items
    /\ Paths \cap Users = {}
    /\ ListRoot \notin Roots
    /\ Blocks \in Nat \ {0}
    /\ LastPriority \in Nat \ {0}
    /\ MaxSegments \in Nat \ {0}
    /\ Placements \subseteq Paths \X Roots
    /\ ListUsers \subseteq Users
    /\ {KeepFinishedFiles, MultiChunk, OverlapChunks, BadData} \subseteq BOOLEAN

VARIABLES
    fileQueue,  \* FileQueue::queue, from the queued items to their contents
    userQueue,  \* UserQueue::userQueue, as a set of <<priority, user, item>>
    running,    \* UserQueue::running
    dl,         \* the Download of each user's connection
    trees,      \* the roots whose tree HashManager has
    temp,       \* the verified blocks in the temporary file of a root, or Gone
    failed      \* the assertions of the code that have been violated, and "second": see GetSecond

vars == <<fileQueue, userQueue, running, dl, trees, temp, failed>>

-----------------------------------------------------------------------------
Targets == Paths \cup Users
Priorities == 0 .. LastPriority
Paused == 0
Whole == 0 .. Blocks - 1
Gone == {-1}

(* BadBlock can leave a position up to twice the size of the file. *)
Positions == 0 .. 2 * Blocks

QueueItem == [target : Targets, root : Roots \cup {ListRoot},
              prio : Priorities, sources : SUBSET Users, badSources : SUBSET Users,
              done : SUBSET (Positions \X Positions), downloads : SUBSET Users]

Download == [type : {"file", "tree", "list"}, path : Targets, root : Roots \cup {ListRoot},
             segment : Positions \X Positions,
             grain : {1, Blocks},   \* block size of the tree it is checked with
             pos : Positions,
             state : {"snd", "running"},
             overlap : BOOLEAN,     \* FLAG_OVERLAP: it runs over a slower download
             overlapped : BOOLEAN,  \* Segment::overlapped
             of : Items]            \* history: the item it was created for

ASSUME NullAssumption == NoItem \notin Users /\ NoDownload \notin Download

Queued == DOMAIN fileQueue
IsFile(i) == fileQueue[i].root # ListRoot
Finished(i) == Complete(fileQueue[i].done, Blocks)

(* FileQueue::find, by target and by root. *)
At(t) == {i \in Queued : fileQueue[i].target = t}
WithRoot(r) == {i \in Queued : fileQueue[i].root = r}

Entry(i, u) == <<fileQueue[i].prio, u, i>>
Entries(i) == {Entry(i, u) : u \in fileQueue[i].sources}

(* What UserQueue::remove asserts for each user it is called with. *)
Missing(es) == IF es \subseteq userQueue THEN {} ELSE {"userQueue.remove"}

(* What u's connection is doing. *)
Has(u, type, states) == dl[u] # NoDownload /\ dl[u].type = type /\ dl[u].state \in states

(* An object nothing points to. *)
Unused(i) ==
    /\ i \notin Queued
    /\ \A e \in userQueue : e[3] # i
    /\ \A u \in Users : running[u] # i /\ (dl[u] # NoDownload => dl[u].of # i)

(* The queue keeps a pointer for the user to an item that is freed, or that no longer has the user as a source. *)
Dangling(u) ==
    \/ running[u] \notin Queued \cup {NoItem}
    \/ \E e \in userQueue : e[2] = u /\ (e[3] \in Queued => u \notin fileQueue[e[3]].sources)

(* Slip: only what is running counts. *)
HasRunningBytes(i) == \E v \in fileQueue[i].downloads : dl[v].pos > 0

(* QueueItem::getDownloadedBytes() > 0 *)
HasBytes(i) ==
    \/ Covered(fileQueue[i].done) # {}
    \/ \E v \in fileQueue[i].downloads : dl[v].pos > 0

(* The temporary file is open in another socket thread: it can be neither deleted nor renamed. *)
OpenElsewhere(r, u) ==
    \E v \in Users \ {u} : Has(v, "file", {"running"}) /\ dl[v].root = r

(* Slip: an open file can be deleted. *)
DropTempOpen(r, u) == IF r = ListRoot THEN temp ELSE [temp EXCEPT ![r] = Gone]

(* What File::deleteFile and the move leave. *)
DropTemp(r, u) == IF r = ListRoot \/ OpenElsewhere(r, u) THEN temp ELSE [temp EXCEPT ![r] = Gone]

-----------------------------------------------------------------------------
(* Slip: a download that has not been granted yet holds no segment. *)
BusyGranted(i) == {dl[v].segment : v \in {w \in fileQueue[i].downloads : dl[w].state = "running"}}

(* QueueItem::getNextSegment: what it may return, for some speed of the connection. *)
Busy(i) == {dl[v].segment : v \in fileQueue[i].downloads}

FreeChunks(i, done, grain) ==
    IF ~MultiChunk THEN IF grain = Blocks THEN SingleWhole(done, Blocks) ELSE SingleChunk(done, Blocks)
    ELSE IF grain = Blocks THEN WholeFile(done, Busy(i), Blocks)
    ELSE UNION {NextChunk(done, Busy(i), Blocks, n) : n \in 1 .. Blocks}

(* The end, from a block boundary, of a slow running chunk that nobody has taken over. *)
SlowChunks(i, grain) ==
    {<<Begin(dl[v].segment) + (dl[v].pos - (dl[v].pos % grain)), End(dl[v].segment)>> :
        v \in {w \in fileQueue[i].downloads :
                 /\ dl[w].state = "running" /\ ~dl[w].overlapped
                 /\ dl[w].pos < Length(dl[w].segment)}}

MayStart(i) ==
    IF MultiChunk THEN Cardinality(fileQueue[i].downloads) < MaxSegments
                  ELSE fileQueue[i].downloads = {}

Overlapping(i, done, grain) ==
    IF MultiChunk /\ OverlapChunks /\ NoSegment \in FreeChunks(i, done, grain)
    THEN SlowChunks(i, grain) ELSE {}

GrainOf(i) == IF fileQueue[i].root \in trees THEN 1 ELSE Blocks

(* UserQueue::getNext's test of one item: idle, or with a segment to spare and no tree on its way. *)
Suitable(i) ==
    \/ fileQueue[i].downloads = {}
    \/ /\ \A v \in fileQueue[i].downloads : dl[v].type # "tree"
       /\ \/ ~IsFile(i)
          \/ /\ MayStart(i)
             /\ \/ FreeChunks(i, fileQueue[i].done, GrainOf(i)) # {NoSegment}
                \/ Overlapping(i, fileQueue[i].done, GrainOf(i)) # {}

(* UserQueue::getNext(u, LOWEST) may return i. *)
NextFor(u, i) ==
    /\ i \in Queued /\ Entry(i, u) \in userQueue
    /\ fileQueue[i].prio # Paused
    /\ Suitable(i)
    /\ \A e \in userQueue : e[2] = u /\ e[1] > fileQueue[i].prio => ~Suitable(e[3])

-----------------------------------------------------------------------------
Init ==
    /\ fileQueue = [i \in {} |-> NoItem]
    /\ userQueue = {}
    /\ running = [u \in Users |-> NoItem]
    /\ dl = [u \in Users |-> NoDownload]
    /\ trees = {}
    /\ temp = [r \in Roots |-> Gone]
    /\ failed = {}

(* QueueManager::add of a new item: FileQueue::add, then addSource. *)
AddItem(t, r, p, u) ==
    /\ At(t) = {}
    /\ \E i \in Items :
        /\ Unused(i)
        /\ fileQueue' = [j \in Queued \cup {i} |->
                            IF j = i
                            THEN [target |-> t, root |-> r, prio |-> p, sources |-> {u},
                                  badSources |-> {}, done |-> {}, downloads |-> {}]
                            ELSE fileQueue[j]]
        /\ userQueue' = userQueue \cup {<<p, u, i>>}
    /\ UNCHANGED <<running, dl, trees, temp, failed>>

AddFile(t, r, p, u) ==
    /\ <<t, r>> \in Placements /\ p # Paused
    /\ WithRoot(r) = {}
    /\ AddItem(t, r, p, u)

AddList(u) == u \in ListUsers /\ AddItem(u, ListRoot, LastPriority, u)

(* Slip: the user stays a bad source. *)
AddSourceStillBad(i, u) ==
    /\ IsFile(i) /\ u \notin fileQueue[i].sources
    /\ fileQueue' = [fileQueue EXCEPT ![i].sources = @ \cup {u}]
    /\ userQueue' = IF Finished(i) THEN userQueue ELSE userQueue \cup {Entry(i, u)}
    /\ UNCHANGED <<running, dl, trees, temp, failed>>

(* QueueManager::addSource. A finished item does not enter the user queue. *)
AddSource(i, u) ==
    /\ IsFile(i) /\ u \notin fileQueue[i].sources
    /\ fileQueue' = [fileQueue EXCEPT ![i].sources = @ \cup {u}, ![i].badSources = @ \ {u}]
    /\ userQueue' = IF Finished(i) THEN userQueue ELSE userQueue \cup {Entry(i, u)}
    /\ UNCHANGED <<running, dl, trees, temp, failed>>

(* QueueManager::add to an item that is there, at the target or elsewhere. *)
AddToItem(t, r, u) ==
    \E i \in IF At(t) # {} THEN At(t) ELSE WithRoot(r) :
        /\ fileQueue[i].root = r
        /\ ~Finished(i)
        /\ AddSource(i, u)

(* QueueManager::readd: a removed source is put back by hand. *)
Readd(t, u) == \E i \in At(t) : u \in fileQueue[i].badSources /\ AddSource(i, u)

(* on(SearchManagerListener::SR): a search result names a new source; a bad one is refused. *)
SearchResult(r, u) ==
    \E i \in WithRoot(r) : u \notin fileQueue[i].badSources /\ AddSource(i, u)

(* UserQueue::remove(i): every source's entry, and what every source is downloading of it. *)
LeaveUserQueue(i) ==
    /\ userQueue' = userQueue \ Entries(i)
    /\ running' = [v \in Users |-> IF running[v] = i /\ v \in fileQueue[i].sources
                                   THEN NoItem ELSE running[v]]
    /\ failed' = failed \cup Missing(Entries(i))

(***************************************************************************)
(* QueueManager::remove. Downloads in progress only get a request to       *)
(* disconnect; until it is carried out they keep running. A finished item  *)
(* is not taken out of the user queue: it is expected not to be there.     *)
(***************************************************************************)
Remove(t) ==
    \E i \in At(t) :
        /\ IF Finished(i) THEN UNCHANGED <<userQueue, running, failed>>
           ELSE LeaveUserQueue(i)
        /\ temp' = IF fileQueue[i].downloads # {} THEN temp ELSE DropTemp(fileQueue[i].root, NoItem)
        /\ fileQueue' = [j \in Queued \ {i} |-> fileQueue[j]]
        /\ UNCHANGED <<dl, trees>>

(* What UserQueue::remove(i, u) and QueueItem::removeSource leave of the contents of an item. *)
WithoutSource(i, u) ==
    [fileQueue[i] EXCEPT !.sources = @ \ {u}, !.badSources = @ \cup {u},
                         !.downloads = IF running[u] = i THEN @ \ {u} ELSE @]

(* QueueManager::removeSource(target, user): a running download is forgotten, then disconnected. *)
RemoveSource(t, u) ==
    \E i \in At(t) :
        /\ IsFile(i) /\ u \in fileQueue[i].sources
        /\ fileQueue' = [fileQueue EXCEPT ![i] = WithoutSource(i, u)]
        /\ running' = [running EXCEPT ![u] = IF @ = i THEN NoItem ELSE @]
        /\ IF Finished(i) THEN UNCHANGED <<userQueue, failed>>
           ELSE /\ userQueue' = userQueue \ {Entry(i, u)}
                /\ failed' = failed \cup Missing({Entry(i, u)})
        /\ UNCHANGED <<dl, trees, temp>>

(***************************************************************************)
(* QueueManager::removeSource(user): everything getNext offers for the     *)
(* user, whatever its priority, then what the user is downloading. An item *)
(* that others download and that has no segment to spare is passed over.   *)
(***************************************************************************)
RemoveUser(u) ==
    LET drop == {i \in Queued : Suitable(i) /\ \E p \in Priorities : <<p, u, i>> \in userQueue}
                    \cup ({running[u]} \ {NoItem})
        lists == {i \in drop : ~IsFile(i)}
        gone == {Entry(i, u) : i \in drop}
    IN  /\ ~Dangling(u)
        /\ drop # {} /\ drop \subseteq Queued
        /\ fileQueue' = [i \in Queued \ lists |->
                            IF i \in drop THEN WithoutSource(i, u) ELSE fileQueue[i]]
        /\ userQueue' = userQueue \ gone
        /\ running' = [running EXCEPT ![u] = NoItem]
        /\ failed' = failed \cup Missing(gone)
        /\ UNCHANGED <<dl, trees, temp>>

(* Slip: the entries under the old priority stay. *)
SetPriorityAlso(t, p) ==
    \E i \in At(t) :
        /\ fileQueue[i].prio # p
        /\ ~Finished(i)
        /\ fileQueue' = [fileQueue EXCEPT ![i].prio = p]
        /\ userQueue' = userQueue \cup {<<p, u, i>> : u \in fileQueue[i].sources}
        /\ UNCHANGED <<running, dl, trees, temp, failed>>

(* QueueManager::setPriority, by the user or by the automatic priority: UserQueue::setPriority. *)
SetPriority(t, p) ==
    \E i \in At(t) :
        /\ fileQueue[i].prio # p
        /\ ~Finished(i)
        /\ fileQueue' = [fileQueue EXCEPT ![i].prio = p]
        /\ userQueue' = (userQueue \ Entries(i)) \cup {<<p, u, i>> : u \in fileQueue[i].sources}
        /\ failed' = failed \cup Missing(Entries(i))
        /\ UNCHANGED <<running, dl, trees, temp>>

(* QueueManager::move to a free target. *)
Move(s, t) ==
    \E i \in At(s) :
        /\ IsFile(i)
        /\ fileQueue[i].downloads = {}
        /\ At(t) = {}
        /\ fileQueue' = [fileQueue EXCEPT ![i].target = t]
        /\ UNCHANGED <<userQueue, running, dl, trees, temp, failed>>

-----------------------------------------------------------------------------
(***************************************************************************)
(* Download::Download: what to ask the user for. The segment is worked out *)
(* a second time, and the conditions on time and speed that made getNext   *)
(* accept the item may be gone, which leaves a segment of no blocks.       *)
(* Without a tree the code passes a speed of 0, which rules out overlaps.  *)
(***************************************************************************)
Starts(i, done) ==
    LET grain == GrainOf(i)
        new(type, s, over) ==
            [type |-> type, path |-> fileQueue[i].target, root |-> fileQueue[i].root,
             segment |-> s, grain |-> grain, pos |-> 0, state |-> "snd",
             overlap |-> over, overlapped |-> over, of |-> i]
    IN  IF ~IsFile(i) THEN {new("list", NoSegment, FALSE)}
        ELSE {new("file", s, FALSE) : s \in FreeChunks(i, done, grain)}
             \cup {new("file", s, TRUE) : s \in IF grain = 1 THEN Overlapping(i, done, grain) ELSE {}}
             \cup {new("tree", NoSegment, FALSE) : x \in {1} \ {grain}}

(* Gives u the download d and marks, or unmarks, the download of v that d runs over. *)
Marked(d, u, v, mark) == [dl EXCEPT ![u] = d, ![v].overlapped = mark]

(* What UserQueue::addDownload asserts: the user downloads nothing else. *)
AlreadyRunning(u) == IF running[u] = NoItem THEN {} ELSE {"addDownload"}

(***************************************************************************)
(* QueueManager::getDownload, for a user who has no Download. A partial    *)
(* file whose temporary file vanished starts again.                        *)
(***************************************************************************)
GetDownload(u) ==
    \E i \in Items :
        /\ dl[u] = NoDownload /\ ~Dangling(u)
        /\ NextFor(u, i)
        /\ LET done == IF IsFile(i) /\ HasBytes(i) /\ temp[fileQueue[i].root] = Gone
                       THEN {} ELSE fileQueue[i].done
           IN  /\ \E d \in Starts(i, done) :
                    \/ ~d.overlap /\ dl' = [dl EXCEPT ![u] = d]
                    \/ /\ d.overlap
                       /\ \E v \in fileQueue[i].downloads :
                            Contains(dl[v].segment, d.segment) /\ dl' = Marked(d, u, v, TRUE)
               /\ fileQueue' = [fileQueue EXCEPT ![i].done = done, ![i].downloads = @ \cup {u}]
        /\ running' = [running EXCEPT ![u] = i]
        /\ failed' = failed \cup AlreadyRunning(u)
        /\ UNCHANGED <<userQueue, trees, temp>>

(***************************************************************************)
(* QueueManager::getDownload, for a user who has one. Nothing in the code  *)
(* rules it out: a lost connection keeps its Download until                *)
(* DownloadManager hears of it, and by then ConnectionManager may have     *)
(* made the user a new one (Transfers says when). What two Downloads of a  *)
(* user do to the queue is not modelled: the model ends here.              *)
(***************************************************************************)
GetSecond(u) ==
    /\ dl[u] # NoDownload /\ ~Dangling(u)
    /\ \E i \in Items : NextFor(u, i)
    /\ failed' = failed \cup AlreadyRunning(u) \cup {"second"}
    /\ UNCHANGED <<fileQueue, userQueue, running, dl, trees, temp>>

(* getNext follows a pointer to a freed item, or dereferences the end of its source list. *)
FollowDangling(u) ==
    /\ Dangling(u)
    /\ failed' = failed \cup {"getNext"}
    /\ UNCHANGED <<fileQueue, userQueue, running, dl, trees, temp>>

(***************************************************************************)
(* on(AdcCommand::SND), startData and setFile. An overlapping download     *)
(* still needs the slow one it runs over, and asks it to disconnect.       *)
(* Everything that makes startData refuse is FailDownload.                 *)
(***************************************************************************)
SetFile(u) ==
    /\ dl[u] # NoDownload /\ dl[u].state = "snd"
    /\ dl' = [dl EXCEPT ![u].state = "running", ![u].overlapped = FALSE]
    /\ \/ dl[u].type = "tree" /\ UNCHANGED temp
       \/ dl[u].type = "list" /\ At(dl[u].path) # {} /\ UNCHANGED temp
       \/ /\ dl[u].type = "file"
          /\ Length(dl[u].segment) >= 0
          /\ \E i \in At(dl[u].path) :
                /\ dl[u].overlapped => \E v \in fileQueue[i].downloads \ {u} :
                                            Contains(dl[v].segment, dl[u].segment)
                /\ HasBytes(i) => temp[dl[u].root] # Gone
                /\ temp' = [temp EXCEPT ![dl[u].root] = @ \ Gone]
    /\ UNCHANGED <<fileQueue, userQueue, running, trees, failed>>

(* Slip: nothing stops at the end of the segment. *)
ReceiveOn(u) ==
    LET d == dl[u]
        from == Begin(d.segment) + d.pos
    IN  /\ Has(u, "file", {"running"})
        /\ temp' = [temp EXCEPT ![d.root] = @ \cup BlocksOf(<<from, from + d.grain>>)]
        /\ dl' = [dl EXCEPT ![u].pos = @ + d.grain]
        /\ UNCHANGED <<fileQueue, userQueue, running, trees, failed>>

(* on(UserConnectionListener::Data): the next block arrives, is found good and written. *)
Receive(u) ==
    LET d == dl[u]
        from == Begin(d.segment) + d.pos
    IN  /\ Has(u, "file", {"running"})
        /\ d.pos < Length(d.segment)
        /\ temp' = [temp EXCEPT ![d.root] = @ \cup BlocksOf(<<from, from + d.grain>>)]
        /\ dl' = [dl EXCEPT ![u].pos = @ + d.grain]
        /\ UNCHANGED <<fileQueue, userQueue, running, trees, failed>>

(* Slip: the user is never free again. *)
StopNothing(u) == UNCHANGED running

(* UserQueue::removeDownload: the user runs nothing any more, whatever item that was. *)
StopRunning(u) == running' = [running EXCEPT ![u] = NoItem]

(* putDownload when the item has left the queue: the temporary file goes too. *)
PutOrphan(u) ==
    /\ dl[u] # NoDownload /\ At(dl[u].path) = {}
    /\ temp' = IF dl[u].type = "file" THEN DropTemp(dl[u].root, u) ELSE temp
    /\ dl' = [dl EXCEPT ![u] = NoDownload]
    /\ UNCHANGED <<fileQueue, userQueue, running, trees, failed>>

(* putDownload(finished) of a tree: HashManager::addTree, and the file itself can be asked for. *)
FinishTree(u) ==
    /\ Has(u, "tree", {"running"})
    /\ \E i \in At(dl[u].path) :
        /\ trees' = trees \cup {dl[u].root}
        /\ fileQueue' = [fileQueue EXCEPT ![i].downloads = @ \ {u}]
        /\ StopRunning(u)
        /\ dl' = [dl EXCEPT ![u] = NoDownload]
        /\ UNCHANGED <<userQueue, temp, failed>>

(* putDownload(finished) of a list, also when the user has none: the item is removed. *)
FinishList(u) ==
    /\ Has(u, "list", {"snd", "running"})
    /\ \E i \in At(dl[u].path) :
        /\ LeaveUserQueue(i)
        /\ fileQueue' = [j \in Queued \ {i} |-> fileQueue[j]]
        /\ dl' = [dl EXCEPT ![u] = NoDownload]
        /\ UNCHANGED <<trees, temp>>

(***************************************************************************)
(* putDownload(finished) of a segment, credited to the item now at the     *)
(* path. When it completes the file the other downloads are asked to       *)
(* disconnect, the temporary file is moved to the target unless one of     *)
(* them still has it open, and the item leaves the queue, or stays in it   *)
(* as a finished one.                                                      *)
(***************************************************************************)
FinishSegment(u) ==
    LET d == dl[u] IN
    /\ Has(u, "file", {"running"}) /\ d.pos = Length(d.segment)
    /\ \E i \in At(d.path) :
        /\ LET done == AddSegment(fileQueue[i].done, d.segment)
               mine == {v \in fileQueue[i].downloads :
                            running[v] = i /\ v \in fileQueue[i].sources}
           IN  \/ /\ ~Complete(done, Blocks)
                  /\ fileQueue' = [fileQueue EXCEPT ![i].done = done, ![i].downloads = @ \ {u}]
                  /\ StopRunning(u)
                  /\ UNCHANGED <<userQueue, temp, failed>>
               \/ /\ Complete(done, Blocks)
                  /\ LeaveUserQueue(i)
                  /\ temp' = DropTemp(d.root, u)
                  /\ fileQueue' = IF KeepFinishedFiles
                                  THEN [fileQueue EXCEPT ![i].done = done, ![i].downloads = @ \ mine]
                                  ELSE [j \in Queued \ {i} |-> fileQueue[j]]
        /\ dl' = [dl EXCEPT ![u] = NoDownload]
        /\ UNCHANGED trees

(***************************************************************************)
(* putDownload(not finished) with the download at position pos: the whole  *)
(* blocks it received count as done, and a download it ran over can be     *)
(* taken over again. The item is not looked at to see whether it is        *)
(* complete: the code asserts that the segment is not.                     *)
(***************************************************************************)
PutUnfinished(u, pos) ==
    LET d == dl[u]
        got == <<Begin(d.segment), Begin(d.segment) + pos>>
        partial == d.type = "file" /\ pos > 0
    IN  \E i \in At(d.path) :
            LET others == {v \in fileQueue[i].downloads \ {u} : Contains(dl[v].segment, d.segment)}
            IN  /\ fileQueue' = [fileQueue EXCEPT
                        ![i].done = IF partial THEN AddSegment(@, got) ELSE @,
                        ![i].downloads = @ \ {u}]
                /\ failed' = IF partial /\ pos >= Length(d.segment)
                             THEN failed \cup {"putDownload"} ELSE failed
                /\ StopRunning(u)
                /\ \/ d.overlap /\ \E v \in others : dl' = Marked(NoDownload, u, v, FALSE)
                   \/ (d.overlap => others = {}) /\ dl' = [dl EXCEPT ![u] = NoDownload]
                /\ UNCHANGED <<userQueue, trees, temp>>

(* failDownload: a refusal, a missing file, no slot, an error on disk, a lost or closed connection. *)
FailDownload(u) ==
    /\ dl[u] # NoDownload
    /\ Has(u, "file", {"running"}) => dl[u].pos < Length(dl[u].segment)
    /\ PutUnfinished(u, dl[u].pos)

(***************************************************************************)
(* The exception path of Data and endData: a block does not match the      *)
(* tree, or cannot be written or flushed. resetPos sets the position, an   *)
(* offset into the segment, to the segment's start, an offset into the     *)
(* file.                                                                   *)
(***************************************************************************)
BadBlock(u) ==
    /\ BadData
    /\ Has(u, "file", {"running"})
    /\ PutUnfinished(u, Begin(dl[u].segment) - (Begin(dl[u].segment) % dl[u].grain))

(* Someone deletes the temporary file while no download has it open. *)
TempVanishes(r) ==
    /\ temp[r] # Gone /\ ~OpenElsewhere(r, NoItem)
    /\ temp' = [temp EXCEPT ![r] = Gone]
    /\ UNCHANGED <<fileQueue, userQueue, running, dl, trees, failed>>

-----------------------------------------------------------------------------
(* After undefined behaviour there is nothing to say about the program. *)
Crashed == failed \cap {"userQueue.remove", "getNext"} # {}

(* Two Downloads of one user: what the model does not follow. *)
Doubled == "second" \in failed

UserStep ==
    \/ \E t \in Paths, r \in Roots, u \in Users :
            AddToItem(t, r, u) \/ \E p \in Priorities : AddFile(t, r, p, u)
    \/ \E u \in Users : AddList(u) \/ RemoveUser(u)
    \/ \E t \in Targets : Remove(t) \/ \E p \in Priorities : SetPriority(t, p)
    \/ \E t \in Paths, u \in Users : Readd(t, u) \/ RemoveSource(t, u)
    \/ \E s, t \in Paths : Move(s, t)
    \/ \E r \in Roots : TempVanishes(r)

SocketStep ==
    \/ \E r \in Roots, u \in Users : SearchResult(r, u)
    \/ \E u \in Users :
            \/ GetDownload(u) \/ GetSecond(u) \/ FollowDangling(u)
            \/ SetFile(u) \/ Receive(u)
            \/ FinishTree(u) \/ FinishList(u) \/ FinishSegment(u)
            \/ FailDownload(u) \/ BadBlock(u) \/ PutOrphan(u)

Next == ~Crashed /\ ~Doubled /\ (UserStep \/ SocketStep)

Spec == Init /\ [][Next]_vars

-----------------------------------------------------------------------------
TypeOK ==
    /\ Queued \subseteq Items
    /\ fileQueue \in [Queued -> QueueItem]
    /\ userQueue \subseteq Priorities \X Users \X Items
    /\ running \in [Users -> Items \cup {NoItem}]
    /\ dl \in [Users -> Download \cup {NoDownload}]
    /\ trees \subseteq Roots
    /\ temp \in [Roots -> (SUBSET Whole) \cup {Gone}]
    /\ failed \subseteq {"userQueue.remove", "getNext", "putDownload", "addDownload", "second"}

(* UserQueue::running, the items' download lists and the Downloads tell the same story. *)
RecordsAgree ==
    /\ \A i \in Queued, u \in Users : u \in fileQueue[i].downloads <=> running[u] = i
    /\ \A i \in Queued : fileQueue[i].downloads \subseteq fileQueue[i].sources
    /\ \A u \in Users : running[u] \in Queued => dl[u] # NoDownload /\ dl[u].of = running[u]

(***************************************************************************)
(* Through every forgotten, late or misdirected putDownload, and until a   *)
(* user asks a second time while he still has a Download: an item lists a  *)
(* user if and only if UserQueue::running says so, the user is a source of *)
(* it and really holds a Download of it. So no record of an earlier        *)
(* download is left when a user without one is given the next, and the     *)
(* assertion of addDownload can fail only for a user who asks twice, which *)
(* the code does not rule out.                                             *)
(***************************************************************************)
RunningConsistent ==
    /\ RecordsAgree
    /\ "addDownload" \in failed => Doubled

InBounds(u) ==
    /\ End(dl[u].segment) <= Blocks
    /\ dl[u].pos = 0 \/ dl[u].pos <= Length(dl[u].segment)
    /\ dl[u].grain = Blocks => dl[u].segment \in {NoSegment, <<0, Blocks>>} /\ dl[u].pos \in {0, Blocks}
    /\ dl[u].type # "list" => dl[u].root \in Roots
    /\ Has(u, "file", {"running"}) => temp[dl[u].root] # Gone /\ Length(dl[u].segment) >= 0

(***************************************************************************)
(* What makes the two hold: the item a user runs is the one its Download   *)
(* will be credited to, by path; a Download stays inside its segment and   *)
(* the segment inside the file; and its temporary file is there as long as *)
(* it is open.                                                             *)
(***************************************************************************)
DownloadsSound ==
    /\ \A u \in Users : running[u] \in Queued => dl[u].path = fileQueue[running[u]].target
    /\ \A u \in Users : dl[u] # NoDownload => InBounds(u)

(* No path and no file is queued twice (the assertion in add), and no user is a good and a bad source. *)
OneItemPerFile ==
    /\ \A i, j \in Queued :
        \/ fileQueue[i].target = fileQueue[j].target
        \/ fileQueue[i].root = fileQueue[j].root /\ IsFile(i)
        => i = j
    /\ \A i \in Queued : fileQueue[i].sources \cap fileQueue[i].badSources = {}

(***************************************************************************)
(* What the queue says is downloaded is in the temporary file and has      *)
(* passed its check, unless the file has been deleted (getDownload notices *)
(* that and starts again).                                                 *)
(***************************************************************************)
DoneIsReal ==
    \A i \in Queued : IsFile(i) /\ temp[fileQueue[i].root] # Gone =>
        Covered(fileQueue[i].done) \subseteq temp[fileQueue[i].root]

(***************************************************************************)
(* No other file is queued at the path of a download that still runs. The  *)
(* code does not see to it: putDownload looks for the path only, and would *)
(* credit the new file with what was received of the old one.              *)
(***************************************************************************)
PathsKeepTheirFile ==
    \A u \in Users : dl[u] # NoDownload =>
        \A i \in At(dl[u].path) : fileQueue[i].root = dl[u].root

(***************************************************************************)
(* putDownload moves the temporary file to its target only when every      *)
(* block of it has passed its check: whatever downloads were forgotten,    *)
(* overlapped or late, and though the file may have been deleted and       *)
(* begun again in the meantime.                                            *)
(***************************************************************************)
MovedFileIsWhole ==
    [][\A u \in Users : FinishSegment(u) /\ temp' # temp => temp[dl[u].root] = Whole]_vars

(* Apart from overlaps asked for, no two downloads of an item fetch the same block. *)
ChunksDisjoint ==
    \A i \in Queued : \A u, v \in fileQueue[i].downloads :
        u # v /\ ~dl[u].overlap /\ ~dl[v].overlap =>
            BlocksOf(dl[u].segment) \cap BlocksOf(dl[v].segment) = {}

(***************************************************************************)
(* QueueManager.h:320: the user queue is a cache of the file queue. It     *)
(* holds exactly the unfinished items, under each of their sources and     *)
(* their priority, so the code can follow it without looking.              *)
(***************************************************************************)
CacheExact ==
    /\ userQueue = UNION {Entries(i) : i \in {j \in Queued : ~Finished(j)}}
    /\ ~Crashed

(* A putDownload for an item that is complete already, or that completes it without being a whole segment. *)
LateCredit(u) ==
    /\ dl[u] # NoDownload
    /\ \E i \in At(dl[u].path) :
          \/ Finished(i) /\ (FinishSegment(u) \/ FailDownload(u) \/ BadBlock(u))
          \/ (FailDownload(u) \/ BadBlock(u)) /\ i \in Queued' /\ Finished(i)'

(* Nothing else ever makes the cache inexact. *)
CacheKept == [][CacheExact => CacheExact' \/ \E u \in Users : LateCredit(u)]_vars

(* Its weakest part: no pointer to an item that has been freed. *)
NoDanglingEntries == \A e \in userQueue : e[3] \in Queued

(* QueueManager.cpp:1440: an unfinished download has not received its whole segment. *)
UnfinishedIsPartial == "putDownload" \notin failed

(***************************************************************************)
(* The items and Downloads implement the abstract queue: whatever was      *)
(* forgotten, taken over or late, and through every path of putDownload,   *)
(* each step does to what is wanted, had and asked for what one of its     *)
(* steps may do, or nothing.                                               *)
(***************************************************************************)
Want(i) == [target |-> fileQueue[i].target, root |-> fileQueue[i].root,
            got |-> Covered(fileQueue[i].done), by |-> fileQueue[i].downloads]
Wants == [i \in Queued |-> Want(i)]
Asked == [u \in {v \in Users : dl[v] # NoDownload} |->
            [at |-> dl[u].path, blocks |-> BlocksOf(dl[u].segment)]]

Queue == INSTANCE DownloadQueue WITH queue <- Wants, asked <- Asked

QueueSpec == Queue!Spec
=============================================================================
