# RSX++ 1.21: a TLA+ development

RSX++ is a Windows client for the Direct Connect file-sharing network, built on
StrongDC++ / DC++. This directory holds TLA+ specifications of its core, the TLC
configurations that check them, and TLAPS proofs. Everything is translated from
`src/tags/1.21`, the newest of the repository's trees (`src/trunk` and the older
tags repeat it). Paths below are relative to `src/tags/1.21/client` unless they
say otherwise.

    tlc -config QueueChunks.cfg MCQueue.tla        (about 80 s)
    tlc -config UploadSlots.cfg UploadSlots.tla    (about 80 s)
    tlc -config Transfers.cfg Transfers.tla        (about 90 s)
    tlc -config Hasher.cfg Hasher.tla              (about 20 s)
    tlc -config HashStore.cfg HashStore.tla        (about 60 s)
    tlapm Segments_proof.tla                       (about 15 s)
    tlapm QueueManager_proof.tla                   (about 100 s)
    tlapm QueueContents_proof.tla                  (about 240 s)
    tlapm SegmentStates_proof.tla                  (about 15 s)
    tlapm UploadSlots_proof.tla                    (about 150 s)
    tlapm Transfers_proof.tla                      (about 75 s)
    tlapm Hasher_proof.tla                         (about 15 s)
    tlapm HashStore_proof.tla                      (about 15 s)

`PROJECT.json` lists the components, the runs, the lines each definition
translates, the findings, the hazards and the theorems.

## 1. The system

The managers are singletons, each with a recursive lock `cs`, that call each
other directly and fire synchronous listeners (`Speaker::fire`, under the
speaker's own lock). The threads are the user interface, one thread for every
`BufferedSocket`, the timer (`TimerManager`: a `Second` and a `Minute` event),
the hasher, and the short-lived workers `FileMover` and `Rechecker`.

| Component | State | Operations | Talks to |
|---|---|---|---|
| **Download queue** `QueueManager`, `FileQueue`, `UserQueue`, `QueueItem` | the queued items by target; per user and priority, the items he is a source of; what each user is downloading; each item's sources, bad sources, done segments, downloads | add, addList, readd, move, remove, removeSource (of an item; of a user), setPriority, getDownload, setFile, putDownload, search results, partial results, the timer, saveQueue, loadQueue, recheck | called by the interface and by the socket threads; asks `ConnectionManager` to connect and disconnect, `HashManager` for trees |
| **Segments** `Segment`, `QueueItem` | a set of segments that are done, those being downloaded | addSegment, getNextSegment, isFinished, isSource, getPartialInfo | used by the queue |
| **Download engine** `DownloadManager`, `Download` | running downloads, idle connections | addConnection, checkDownloads, SND, Data, endData, failDownload, checkIdle, abortDownload | the queue, the connections |
| **Connection manager** `ConnectionManager`, `UserConnection` | a queue item per user and direction with a state and the time of the last attempt; the connections; expected NMDC connections | getDownloadConnection, Second, accept, the two handshakes, addDownloadConnection, addUploadConnection, Failed, disconnect | the two transfer managers, the hubs |
| **Upload slots** `UploadManager` | uploads, delayed uploads, slot counters, reserved slots, connecting users, the waiting queue | prepareFile, removeUpload, removeConnection, reserve/unreserve, notifyQueuedUsers, the timers | the connections |
| **Hashing** `HashManager`, `Hasher`, `HashStore` | the files to hash, a semaphore, the pause counter; the index in memory and on disk, the data file | hashFile, pause, resume, instantPause, shutdown, rebuild; addTree, save, load | the share, the queue (trees) |
| **Share** `ShareManager` | the tree of shared directories, the generated file list | refresh, generate | the hasher |
| **Searches** `SearchQueue`, `SearchManager` | the searches to send, each with its owners | add, pop, cancelSearch | the hubs, the queue (results) |
| **Socket** `BufferedSocket` | a task queue, a mode, a state, line and data buffers | connect, accept, write, disconnect, threadRun | everything above |
| **Bandwidth** `ThrottleManager` | tokens for each direction | read, write, Second | the sockets |
| **DHT** `dht/` | the routing table, running searches, the published index | createNode, insert, checkExpiration, processSearches, publish | the searches, UDP |
| **Hubs and users** `ClientManager`, `Client`, `NmdcHub`, `AdcHub` | hubs, online users | protocol handlers | the managers |
| **RSX extensions** `rsx/`, `CommandQueue`, `RawManager`, detection | automatic searches, delayed commands, HTTP downloads, client profiles | timers over lists, text matching | the hubs |

### What is hard

* **Objects that outlive each other.** A `Download` belongs to a socket thread.
  The user removes the file, the source or the user while it runs; the queue
  forgets it at once but only *asks* the socket to disconnect, and what it
  received is credited, later, to whatever item is then at its path.
* **Overlapping downloads.** When no segment is left, a fast source gets the end
  of a slow source's segment. The slow download is asked to disconnect, when
  the fast one starts. Either may end first, well or badly.
* **Two structures that must agree without being compared.** The user queue is a
  cache of the file queue with raw pointers; `running` and the items' lists of
  downloads are two records of one fact.
* **Block arithmetic.** Segments are in bytes but meaningful in tree blocks, with
  a short last block, positions relative to a segment and positions relative to
  the file, and merge loops over ordered sets.
* **Slot accounting** across socket threads, **connection races** (a connection
  that fails is reported to two managers, one after the other), **lock order**
  between managers that call each other, **files replaced in two steps** (queue,
  hash index), **idle connections** that must be woken.

`PROJECT.json` lists each of these at its line, with the properties that would
catch it.

### What makes each part correct

| Component | Properties |
|---|---|
| Segments | the next segment is neither done nor being downloaded; addSegment adds exactly what it is given |
| Queue | a file or path is queued once; `running`, the download lists and the Downloads agree until a user gets a second Download; the user queue holds exactly the unfinished items; what is called done was received and passed its check; only a whole file is moved to its target; no two downloads fetch the same block unless an overlap was asked for |
| Transfers | a user's item is active exactly while one of his connections is used for it; two downloads of one user only while a lost connection is being dropped; what was announced is not forgotten; an idle connection is woken by new work; every attempt ends |
| Upload slots | the counters equal what the connections hold; no more is granted and promised than there is; a user being served does not wait; nobody waits for ever in front of a free slot |
| Hashing | no file is lost, whatever happens to the signals; a pause holds, and settles; the index never points to a tree that is not there, over crashes; a file that changed is never taken for the old one |
| Queue file, lock order, searches, DHT (not modelled) | what is loaded is what was saved last or before; no cycle of locks; a cancelled search is not sent; the expiry leaves nothing stale |

## 2. The modules

| Module | Models | Kind |
|---|---|---|
| `Segments` | `Segment.h`, the segment arithmetic of `QueueItem.cpp`, in blocks and in closed form | operators |
| `SegmentStates` | the segments of one file over time: done, being downloaded, forgotten | state machine |
| `SegmentStates_proof` | the invariants of `SegmentStates`, for files of any size | proofs |
| `SegmentChecks` | the same code as loops over bytes, compared in every state of `SegmentStates` with the closed forms | operators, TLC only |
| `DownloadQueue` | what the download queue promises | abstract specification |
| `QueueManager` | the download queue and the socket threads' steps on their downloads; implements `DownloadQueue` | state machine |
| `MCQueue` | instances for TLC | |
| `Segments_proof` | what addSegment and getNextSegment do, for files of any size | proofs |
| `QueueManager_proof` | that the records of the queue agree: the inductive invariant of `QueueManager` | proofs |
| `QueueContents_proof` | that what the queue counts as done, and moves, was received; that the user queue is an exact cache of the file queue, and until when; that `QueueManager` implements `DownloadQueue` | proofs |
| `UploadSlots` | `UploadManager`: grants, slot counters, reserved slots, the waiting queue, promises; the end of a connection in `ConnectionManager` and then here | state machine |
| `UploadSlots_proof` | the safety invariants of `UploadSlots` | proofs |
| `Transfers` | `ConnectionManager` (its items, attempts and handshakes) and `DownloadManager` (idle and running connections, download slots), over a queue reduced to one priority per user | state machine |
| `Transfers_proof` | the safety invariants of `Transfers` | proofs |
| `Hasher` | the hashing thread, its semaphore and its pauses | state machine |
| `Hasher_proof` | the safety invariants of `Hasher` | proofs |
| `TreeStore` | what a store of hash trees promises | abstract specification |
| `HashStore` | the index in memory, the index file and the data file, over crashes; implements `TreeStore` | state machine |
| `HashStore_proof` | the invariants of `HashStore`, and that it implements `TreeStore` | proofs |

The modules meet at narrow places. `Transfers` says when a user's connection asks the queue for work and
when it gives a Download back (`CheckDownloads`, `PutDownload`); `QueueManager` says what the queue does then,
and ends where a connection gives its user a second Download; `TwoOnlyWhileFailing` is about when that can be. `UploadSlots` has the end
of an upload connection in both managers' view, as `Transfers` has that of a download. `Hasher` decides when a
file is hashed and when the store is rebuilt, `HashStore` what these do to the files on the disk.

### How QueueManager corresponds to the code

| Variable | In the code |
|---|---|
| `fileQueue` | `FileQueue::queue`: a function from the queued `QueueItem` objects to their contents. An object is a member of `Items`, allocated by `AddItem` only while nothing points to it. |
| `userQueue` | `UserQueue::userQueue[priority][user]`, as triples `<<priority, user, item>>`. The item may be one that has been freed. |
| `running` | `UserQueue::running` |
| `dl` | the `Download` of each user's connection, owned by its socket thread |
| `trees` | the roots whose hash tree `HashManager` has |
| `temp` | the blocks of each file's temporary file that hold verified data, or `Gone` |
| `failed` | which assertions have been violated, or undefined behaviour met; and `"second"`, that a user has got a second Download |

Each action is one critical section of `QueueManager::cs`, or one step of a socket
thread. The interface and the hubs: `AddFile`, `AddList`, `AddToItem`, `Readd`,
`SearchResult`, `Remove`, `RemoveSource`, `RemoveUser`, `SetPriority`, `Move`. A
socket thread: `GetDownload` (the request), `SetFile` (the answer), `Receive` (a
block), then one of the paths of putDownload: `FinishTree`, `FinishList`,
`FinishSegment`, `FailDownload` and `BadBlock` (both `PutUnfinished`), and
`PutOrphan` when the item is gone. `TempVanishes` is the only external action: a
deletion of the temporary file outside the program, which `getDownload` and
`setFile` look for. `FollowDangling` stands for undefined behaviour (a pointer in
`userQueue` or `running` to a freed item) and `GetSecond` for a second Download of one
user; `Next` says nothing beyond either.

Modelling decisions:

* **Data.** A target is a path, or the user for a file list. A segment is a pair of
  block numbers; a tree has blocks, or is not there yet, in which case the
  only block is the whole file (`grain`). Speeds decide only the wanted
  size of a segment and whether a download is slow: both are chosen freely.
* **Order in a user's list.** getNext takes the first suitable item of the highest
  priority; the model takes any suitable one of that priority.
* **Disconnection.** A connection that was asked to disconnect goes on for an
  arbitrary time: a socket thread looks at its tasks between reads. So what the model shows holds
  for every delay.
* **A second Download of one user.** A Download is named by its user, and nothing in `getDownload`
  (`QueueManager.cpp:1096`) or `addDownload` (309) keeps a user from getting a second one: after
  ConnectionManager has heard of a lost connection (`ConnectionManager.cpp:761`) and before DownloadManager has
  (`DownloadManager.cpp:423`) he can be connected again. `TwoOnlyWhileFailing` in `Transfers` says that this
  window is the only one. `GetDownload` is the case of a user without a Download, `GetSecond` the other: it evaluates
  the assertion of `addDownload` (312), which may fail there, and ends the model. What follows in a release build, `running`
  overwritten and two items that list the user, is not modelled. So everything checked and proved of
  `QueueManager` is about the behaviours up to that step. What `RunningConsistent` shows is that nothing else can make
  that assertion fail: no forgotten, late or misdirected putDownload leaves a record of an earlier download behind.
* **Several handlers as sequences of actions.** matchListing is several addSource;
  FileNotAvailable and an invalid tree in endData are `RemoveSource`, then
  `FailDownload`: the code takes the lock for each.
* **Files.** Windows semantics: a file that is open can be neither deleted nor renamed
  (`File.cpp` opens it without sharing deletion).
* **Merging** in move() of two items of one file is not an action: `OneItemPerFile`,
  which is proved, says there never are two. The reason a source is bad, and which reasons
  readd forgives, are one set, `badSources`.
* **Bounds.** `MaxSegments` is the value the code computes from the file's size.
  Objects (`Items`) are the only resource bounded for TLC: an add needs a free one.

Not modelled in it yet: partial file sharing sources, partial file lists, directory
downloads, checks of clients (`FLAG_TESTSUR`, `FLAG_CHECK_FILE_LIST`), the limit
`FILE_SLOTS`, users going offline, the connection requests (their effect is in `Transfers`),
the `Second` and `Minute` timers, the Rechecker, the FileMover's own thread, and
the queue file.

### What DownloadQueue promises

`DownloadQueue` knows two things: what is wanted (for each item its target and root, the blocks got, the users it is fetched
from), and what each busy connection was asked for (a target and a piece). It has no priorities, no user queue, no trees or temporary
files, no segments and no positions. What it allows is what a caller may rely on:

* a file is wanted once and at one path, and a file that is being fetched keeps its path (`Add`, `Rename`);
* a connection is asked for a piece that nobody else was asked for, unless it lies in one user's piece, which it takes over (`Fetch`);
* what was got is given up only when all of it is, because the file is begun again (`Fetch`), or when an answer meets blocks that were
  there already (`Credit`: the merge of `addSegment`, and only with such an overlap);
* an answer credits no block the connection was not asked for, and nothing but the item at the path it was asked for
  (`Credit`, `Waste`); it takes a file off the queue, or calls it complete and fetched by nobody, only when all its blocks are there (`Complete`);
* removals and lost sources never touch the connections (`Remove`, `Drop`): these end later, one by one.

With `BadData` a block may fail its check, and finding 1 takes the fourth promise away: `Credit` then allows any blocks. The mapping
at the end of `QueueManager` reads the abstract state off the concrete one (`Wants`, `Asked`): the blocks got are those the done
segments cover. `FollowDangling`, which only records that the code has met undefined behaviour, is a stutter.

### How UploadSlots corresponds to the code

| Variable | In the code |
|---|---|
| `conn` | the `UserConnection` objects that `UploadManager` listens to: the user, the slot type, the upload (in `uploads`, or in `delayUploads`), and how far its end has come |
| `counters` | `running`, `extra`, `extraPartial`: bytes, so arithmetic is modulo 256 |
| `reserved` | `reservedSlots` |
| `connecting` | `connectingUsers`; the tick of the promise is counted in `Minute` events |
| `uploadQueue` | `uploadQueue`: the users, not their files |

`PrepareFile` is `prepareFile`, from the decision to the counters; `Connect` is
`addUploadConnection`; `TransmitDone`, `Second`, `Minute`, `ReserveSlot`, `UnreserveSlot` and
`UserDisconnected` are the handlers of those names. A connection ends in three steps, because the
code takes a lock only in the first two: `LetGo` (`ConnectionManager`'s Failed, which hears of it
first and removes a delayed upload of the user), `LoadCounter` and `StoreCounter`
(`UploadManager`'s Failed and removeConnection; the decrement is a load and a store without a lock).
When another thread changed the counter in between, either store may be the last one.
With `Exclusive` no two threads touch the counters at once: it is
what the properties that depend on the counters assume, and `upload_race` shows that the code
does not provide it.

Time: a promise expires after 90 s, at the second or third `Minute` event after it was made;
reserved slots and delayed uploads expire at any such event. Whether the upload speed allows an automatic slot is
chosen freely, where the settings and the number of slots allow one. `Slots` is constant: a change of
the settings is not modelled. A refused connection is asked to close and may ask again before it does.

### How Transfers corresponds to the code

| Variable | In the code |
|---|---|
| `downloads`, `uploads` | `ConnectionManager::downloads` and `uploads`: per user, the `ConnectionQueueItem`'s state and the age of its last attempt (less than 50 s, to 60 s, more, or `lastAttempt` = 0) |
| `conn` | the `UserConnection` objects and where their socket threads are: in a handshake, in `idlers`, in `DownloadManager::downloads`, between two critical sections, or over; whether `ConnectionManager` still listens; the tasks that wait in the socket's queue |
| `online`, `arrived`, `calling` | hub presence; a thread in `on(UserConnected)`; a thread on its way into `getDownloadConnection` |
| `offer`, `announced` | what `QueueManager::hasDownload` would return; and, a history variable, whether the change that made it so also asked for a connection |
| `others` | running downloads from other users, which use the slots |

`Second` is the whole of `on(Second)`: items of users that left, items with nothing to
download, the attempt or the lack of slots, and the timeout. `MyNick`, `Direction` and `Key` are the NMDC handshake, `INF` the ADC
one; `AddDownload` and `AddUpload` are what both end with. A failed connection is `Failed` (ConnectionManager) and then
`FailDownload` (DownloadManager), with other threads in between; `checkDownloads` is
`CheckDownloads` and `Enlist`, because the slots are looked at under one lock and taken under another.

Modelling decisions: an attempt's outcome is chosen freely, the other client can connect at any time and
without being asked; quiet changes of the queue (`OfferQuietly`: a tree arrives, an item is paused) ask for no
connection; all decisions of one `Second` use one view of the slots; the speed above which no
download is started (`MAX_DOWNLOAD_SPEED`) is 0, no limit, its default. Several connections tried within one second over
`DOWNCONN_PER_SEC` leave the rest for the next (`late`). Not modelled: ports and flood protection, expected
NMDC connections and hub tokens (their answers are free choices), checks of clients, abortDownload as
more than a request to disconnect, the shutdown.

### How Hasher corresponds to the code

`w`, `s`, `paused`, `stop`, `rebuild` are the members of those names. `at` is the thread's place in `run`, `fastHash`
and `instantPause`; `left`, how many pieces of the file are unread; `window`, what the window's thread is about to do
(the dialog's button looks first and acts later; `scheduleRebuild` and `shutdown` set their flag, then look at `paused`
and then signal, three steps without the lock: `Shutdown`, `Signals`, `Signal`); `pauser`, the two `HashPauser` objects that can be alive at once (a refresh of the
share, and the window's). `paused` is an `unsigned`, so `--paused` from 0 wraps: `Resume` adds `Wrap - 1` signals, and `Wrap`, 2^32
in the code, is a constant. `overruled` is a history variable. Hash results, progress and speed limit are left out.

### How HashStore corresponds to the code

`fileIndex`, `treeIndex`, `dirty` are the maps and the flag in memory; `saved` is `HashIndex.xml`, `data` is `HashData.dat` as a sequence of
trees, `missing` says it is gone after a failed rename; `content`, `stamp` are the shared files; `hashing`, the file being hashed with the time stamp
taken before. A tree is its root, and `Loadable` is what `loadTree` checks. The program can end at any
moment (`Crash`), between deletion and rename of the index (`CrashInSave`), and in every stage of a rebuild
(`CrashInRebuild`); then `Start` loads what is there. A stopped hashing that stores the root of half a file is one of the outcomes of
`Read`. `torn`, a history variable, says which index (in memory, on disk) is one for a data file that was
replaced since: this is what a rebuild that is cut short leaves behind, and `KnownIsStored` holds outside it. A crash
between the replacement of the data file and the save of the index (`HashManager.cpp:272`) is thus in the model, as an
exception that `KnownIsStored` and `TreeStore` make, and not something they would find.

`TreeStore` knows only which trees can be read now, and which could be after a restart. The refinement mapping is
`stored`, `durable`: the roots whose tree `loadTree` finds through each index. So no crash, failed save or failed rebuild
makes a tree appear that was never put, and trees are lost only in a rebuild, when an index could not be replaced, or by a crash.

Assumed: a file that is changed gets another time stamp, and a tree in the data file is
read as a whole (a read that is cut short is not modelled).

## 3. What is checked

| Run | Instance | Properties | Shows |
|---|---|---|---|
| `queue_chunks` | a file of 2 blocks, 2 users, 2 item objects, 2 priorities, 2 segments at a time, multi-chunk with overlaps | `TypeOK`, `RunningConsistent`, `OneItemPerFile`, `DoneIsReal`, `DownloadsSound`, `ChunksDisjoint`, `MovedFileIsWhole`, `CacheKept`, `QueueSpec` | under the default settings, and until a user gets a second Download, the queue stays consistent, and implements `DownloadQueue`, whatever is removed, re-added, overlapped, forgotten or late |
| `queue_cache` | a file of 1 block and a file list, 2 users, 2 paths, 3 priorities, blocks that fail their check | `CacheExact` | the user queue is the exact cache that the code takes it for |
| `queue_dangling` | that of `queue_chunks` | `NoDanglingEntries`: **violated** | for a file of two blocks it is not |
| `queue_bad_block` | that of `queue_chunks`, with blocks that fail | `UnfinishedIsPartial`: **violated** | see Findings |
| `upload_slots` | 3 users, 2 connections, 1 slot of each kind, one user a slot may be reserved for | `TypeOK`, `CountersExact`, `UploadIsListed`, `PromisesFit`, `ServedNotWaiting`, `WaitingEnds` | who gets a slot, who waits, and that waiting ends |
| `upload_race` | the same, with `Exclusive` false | `CountersExact`: **violated** | see Findings |
| `upload_promise` | that of `upload_slots` | `KeptUntilHeAsks`: **violated** | see Findings |
| `segment_loops` | 7 bytes in blocks of 2, 2 downloads and 1 late one | `TypeOK`, `AddSegmentAgrees`, `NextSegmentAgrees`, `NextSegmentIsFree`, `NothingMadeUp`, `NeededIsSource`, `PartialSegmentIsTheirs` | the closed forms are the loops; a partial source with a missing block is never turned away, and is asked for nothing but free blocks that it has |
| `transfers` | 1 user, 2 connections, 1 download slot and 1 extra, 1 download of somebody else, 1 attempt a second | `TypeOK`, `ActiveIsConnected`, `AnnouncedIsPending`, `TwoOnlyWhileFailing`, `AttemptsEnd`, `OffersAreTried`, `IdleIsNoticed` | items and connections agree; no attempt, announced file or idle connection waits for ever |
| `hasher` | 2 files of up to 2 pieces, `Wrap` 3, fast hashing | `TypeOK`, `NothingForgotten`, `PausersHold`, `FilesTaken`, `PauseSettles`, `ShutdownUnpaused` | there is a signal for all there is to do; what is not paused is done; what is paused stands |
| `hasher_exit` | 1 file of 1 piece | `ExitWhenPaused`: **violated** | see Findings |
| `hash_store` | 1 file, changed once, 2 contents, 1 partial root (a small tree), 3 trees in the data file | `TypeOK`, `AcceptedIsCurrent`, `KnownIsStored`, `StoreSpec` | nothing stale is accepted, what is known is there, over crashes |

**Bounds, and why they are enough.** Two users make every overlap (a slow download
and a faster one) and every race between a removal and a download. Two item objects let an item be removed and its successor be
at the same path while the old item's download still runs; one object is free only
when no pointer is left to it, so a dangling pointer is never mistaken for a good one. Two
blocks give segments that start at 0 and not at 0, partial segments, and both orders of
completion; four blocks with a short last one, in `segment_loops`, give every way two
segments can lie to each other, and a partial source is tried with every set of blocks another downloader may have
(`MaxParts`, the 255 parts that fit into what getPartialInfo sends, is more than a file of this size can have). For the invariants that are
proved, instances with two files at one path, file lists, kept finished files, blocks that fail and
the setting without segments were also checked (7 million states), outside these runs.

`DoneIsReal` and `MovedFileIsWhole` are checked with `BadData = FALSE`: with blocks that
fail, `queue_bad_block` shows what goes wrong. `CacheExact` is checked where it holds: in
a file of one block no download can end after another completed the file.
With two blocks it fails (`queue_dangling`).

One upload slot and two connections make a user wait, be promised the slot, and lose it to a
reservation; three users make one wait behind another who never comes; a connection object that
is freed and used again lets a user connect anew before his old connection has given back its slot.
Two slots with three connections were also checked (165 thousand states), without liveness.

In `transfers`, one user with two connections has every race between a connection that comes, one that is idle and one
that is lost; a second user would meet the first only in the slots, and there `others` stands for him. The proofs
cover any number of both. In `hasher`, two files let one be taken while another waits; two pieces let a pause fall between them; `Wrap` = 3 makes a
wrapped counter give a signal too many, often enough to be seen and few enough to be counted; `MaxSignals` bounds only what other
threads add. In `hash_store`, one file with one change is stale, current and gone in turn, and three places in the
data file let a tree be stored twice and move in a rebuild; several files and large rebuilds are covered by the proof.

**Symmetry** of users and items is used where no user is singled out (`ListUsers` empty);
no run with symmetry checks liveness. `CHECK_DEADLOCK FALSE`: a queue with nothing to do may stop.

**Fairness.** `QueueManager` has none: its properties are safety properties. `UploadSlots` assumes
weak fairness of `Second` and `Minute` (the timer thread does nothing but fire them, and neither waits for anything but
`cs`) and of `LoadCounter` and `StoreCounter` (straight-line code of a socket thread). No remote user has to do
anything: `WaitingEnds` holds although promised users may never come, because promises expire.

`Transfers` assumes that threads run: one that is about to look at the queue or to ask for a connection does (`UserConnected`,
`GetDownloadConnection`), and a socket thread does its own next step (`ThreadStep`). The `Second` timer is seen to advance the clock by one step
of its ageing again and again; an idle connection is disconnected by `Minute` (it has had no activity for three minutes), and a socket thread
carries out a request to disconnect. No other client has to connect, answer, or send anything. `AttemptsEnd` makes an exception for a user
who presses "force attempt" for ever, which restarts the clock.

`Hasher` assumes that its thread takes its steps, that the window's thread finishes what it has begun, and that a
`HashPauser` ends (it lives on a stack). Nobody has to press resume: the liveness properties say what happens if
hashing is, or is not, paused from some time on. `HashStore` has no fairness: its properties are safety properties.

`CacheKept` says precisely what the finding of `queue_dangling` leaves: as long as no download is credited late
(`LateCredit`), every step keeps an exact cache exact.

Each property of a passing run has a mutant, a slip in one operation (they
are the definitions whose comments begin with "Slip") under which TLC finds the property violated.

### Findings

1. **A failed block is credited** (`queue_bad_block`). `Transfer::resetPos` sets `pos`, an
   offset into the segment, to `getStartPos()`, an offset into the file. A download
   of a segment that starts at block *k* and whose first block fails is
   credited with *k* blocks. The assertion at `QueueManager.cpp:1440` fails when that is its whole segment.
2. **The cache is not exact** (`queue_dangling`). A slow download that was overtaken and
   fails after the faster one finished can complete the file; this path
   (`QueueManager.cpp:1424`) does not look. The complete item stays in both queues;
   `remove` (1565) takes it for one that has left the user queue and frees it.
3. **Slot counters race** (`upload_race`). `removeConnection` decrements the counters without the
   lock. An update is lost when a connection ends while another is granted a slot, and
   nothing ever puts it right.
4. **A promise that outlives the question** (`upload_promise`). A promised user who asks when the slot has
   gone to a reservation is refused and queued, and stays promised; when the promise expires he is
   removed from the queue.
5. **Exit when hashing is paused** (`hasher_exit`). `docs/cvs-changelog.txt:75` says that this was fixed: `shutdown`
   gives one signal more when `paused`. With `FAST_HASH`, the default, the thread can be held twice after `stop` is set:
   in `fastHash`, which then gives up, and in the slow loop that starts over. Both signals are spent on
   these, and the wait in `run` is the third: the join in `shutdown` never returns.

Met on the way, and not findings: a partial source with nothing new counts as needed when it has the short last block (`isSource`
counts it always), which costs a request; one that has a free block can be told there is none, as long as more than a block is
wanted, because a stretch of the wanted size that is partly taken is passed over as a whole; with finished files kept, a late download that ends on an item that is already complete
takes it out of the user queue once more, where the assertion of `UserQueue::remove` fails (a `LateCredit`); a wrapped `paused` (a HashPauser that ends after the user resumed)
gives signals for nothing, 2^32 of them, which the thread then takes one by one (`FilesTaken` and `PauseSettles` hold all the same, so they do not
say that it cannot happen).

## 4. What is proved

`QueueManager_proof` proves, for every value of the constants that meets
`QueueAssumption` (null pointers and names are distinct, a file has a block, at
least one priority besides Paused) and `NullAssumption` (`NoDownload` is no download):

| Theorem | Says |
|---|---|
| `Invariance` | `IInv` is invariant |
| `TypeCorrect` | `TypeOK`: also, no position or segment leaves `0 .. 2 * Blocks` whatever resetPos does |
| `RunningAgrees` | `RunningConsistent`: until a user gets a second Download (`GetSecond`, a step of the model), the records agree, and `addDownload`'s assertion fails for no user without one |
| `QueuedOnce` | `OneItemPerFile` |
| `DownloadsStaySound` | `DownloadsSound` |

`IInv` is the conjunction of those four invariants, with `RecordsAgree` for `RunningConsistent`, whose other part,
about the assertion, follows: an item a user runs is queued and his Download exists, so `running` has nothing for a user without one. None is inductive alone:

* putDownload finds the item by path and clears `running` whatever it was. That this
  keeps `RecordsAgree` needs the item at the path to be the one the user runs, if he runs
  one (`DownloadsSound`, first part), and that there is one item per path (`OneItemPerFile`).
* that `DownloadsSound` survives a move needs `RecordsAgree`: an item with no
  download is nobody's running item.
* that AddSegment and the overlap of a slow download yield segments in the file needs the downloads to
  be inside it (`DownloadsSound`, second part), and this in turn needs the temporary file of an open download not
  to be deleted by a late putDownload of another item.

The proof has a lemma per action. All paths of putDownload share `Ends(u)`, what any
of them does to a user: his `dl` is gone, he runs nothing, the item at the path no longer lists
him. `EndsSound` and `EndsConsistent` show that this keeps the two invariants; each path is then
shown to be an `Ends`.

`Segments_proof` is about the operators, for a file of any size: `AddSegmentCovers` (addSegment makes nothing up), `AddSegmentKeeps` (it forgets
nothing, unless a segment lies strictly inside another one), `AddSegmentSeparates` (what it leaves never adjoins) and
`NextChunkIsFree` (getNextSegment has exactly one answer, of free blocks from the first on, and an empty one only if nothing is free). The
merge loop is in closed form, as runs of adjoining segments. `RunHasNoHole` is the heart of the first: the last segment of a run that begins
at or before a block holds that block, or the next one would begin a run of its own.

`SegmentStates_proof` takes these facts to every state that a file of any size, with any number of downloads, can reach, from `StatesAssumption`:

| Theorem | Says |
|---|---|
| `SegmentsTyped` | `TypeOK`: no segment is empty or leaves the file |
| `NothingIsMadeUp` | `NothingMadeUp` |
| `NextSegmentStaysFree` | `NextSegmentIsFree`, in both modes |

The invariant is `SegInv`: `TypeOK`, and `Apart`, that no two done segments overlap or adjoin. Without `Apart`, `done` could hold a segment inside
another one, and then addSegment forgets blocks whatever it is given, outside the two cases `NothingMadeUp` names; a file whose blocks
are all covered might also not look finished to `isFinished`, which compares one segment, and the mode without segments would have nothing to give out.

`QueueContents_proof` has three parts. The first proves, from the invariant of `QueueManager_proof`:

| Theorem | Says |
|---|---|
| `ChunksStayDisjoint` | `ChunksDisjoint`, in every setting |
| `DoneStaysReal` | `DoneIsReal`, if no block fails its check and `PathsKeepTheirFile` always holds |
| `MovedIsAlwaysWhole` | `MovedFileIsWhole`, under the same conditions |
| `OneFileIsReal` | both without the second condition, when there is one file (at any number of paths) |

and the other two

| Theorem | Says |
|---|---|
| `CacheStaysKept` | `CacheKept`, in every setting |
| `OneBlockCacheExact` | `CacheExact`, for files of one block, none kept when complete |
| `QueueRefined` | `QueueSpec`, in every setting |

The two conditions of `DoneStaysReal` are what the code does not see to. A block that fails its check is credited with what was never received (finding 1), so `BadData` must
be false. And putDownload looks for the path only: when the file is removed, and another one is queued at the same path while the
download still runs, its segment is credited to the other file. `PathsKeepTheirFile` says that this does not happen. It is a condition on what
users do in that window, not an invariant; `OneFileIsReal` shows that it can be met, in the setting of `queue_chunks`.
`DoneIsReal` is inductive with `ReceivedIsReal`: what a download has received so far is in the temporary file, and only a download whose
file is open has received anything. Both are needed through a deletion of the temporary file, which is possible only when no
download has it open, and which `getDownload` and `setFile` notice. `StepKinds` divides the steps: those that end a
download (`Leaves`), those that start or advance one, and those that stand aside (`Aside`).

`CacheStaysKept` (`CacheKept`) holds in every setting, also with blocks that fail and with finished files kept;
`OneBlockCacheExact` is for the setting of `queue_cache`, with any users, paths,
priorities and items. The invariant adds `Listed`, that whatever a user runs has an entry in the user queue,
also when the item has been freed, so that with an exact cache getNext never follows a pointer to nothing; and `ListsAlone`, that a file list has no source but its
owner. `OneBlockCacheExact` adds that no item is complete while it is queued and that only a download whose file is open has a position: then no credit can be late.

`QueueRefined`: `QueueManager` implements `DownloadQueue`. A lemma for each action (`AddItemQueue` to `EndingQueue`, put together in
`StepQueue`) shows which step of the abstract queue it is, or that it changes nothing of what is wanted, had and asked for. All paths of
putDownload go through `Ended(u)`: nothing is at the path any more, or the item there is left with what `u` brought (`PutBack`), or it is
complete with that (`PutBack` or `TakenOut`); `CreditQueue`, `CompleteQueue` and `NothingQueue` map these.

`IInv` alone is not enough. That a user who is lost takes no file list with him but his own needs `ListsAlone`. That only a file list's
connection ends a file list needs `RightKind`: the path tells which of the two an item or a Download is. And that a credit
loses nothing without an overlap needs `ProperInv`: unless blocks may fail, every segment is a stretch of the file, an empty one lies at one
of the file's ends (one in between would cut off what is merged around it), and no two done segments of an item overlap or adjoin.
`ProperInv` is inductive with the other invariants: `AddSegmentProper` and `FreeChunksProper` say that addSegment and getNextSegment
keep to it, `EndingEnded` that what a download brings does.

`UploadSlots_proof` proves, from `UploadAssumption`, `ConnsAssumption` and `NoConnAssumption`:

| Theorem | Says |
|---|---|
| `TypeCorrect` | `TypeOK`: also, nobody is in the waiting queue twice |
| `ListedUploads` | `UploadIsListed` |
| `ExactCounters` | `CountersExact`, with `Exclusive` |
| `ServedNeverWaits` | `ServedNotWaiting` |
| `PromisesAlwaysFit` | `PromisesFit`, with `Exclusive` |

`ListedUploads`: `UploadIsListed` is invariant, for any number of users and connections, with or without `Exclusive`. The invariant adds
that `ConnectionManager` holds one upload connection for each user (`OneUploadEach`): `putCQI` removes *some* delayed
upload of the user, and this is the right one only if there is one. `UploadChanges` is the lemma for
the steps that change only uploads and slots.

`ExactCounters`: with `Exclusive`, and at most 255 connections (`ConnsAssumption`: the counters are
`uint8_t`), `CountersExact` is invariant. `Exclusive` says that nobody reads or changes a counter
between the load and the store of a connection that gives its slot back, which the code does not
ensure (the finding of `UploadRace`); the theorem shows that nothing else is wrong with the counting. The invariant adds
`LoadIsFresh`: one connection at a time is between its load and its store, and what it has loaded
is still what the counter is. `HoldersChange` relates the number of holders of a slot before and after one
connection's slot changes; `SlotsKept` is the lemma for all steps that change no slot.

`clearUserFiles` is in closed form in `UploadSlots` (the library's `SelectSeq` is recursive): the kept positions in increasing order. `ClearUserFilesKeeps`
shows that it removes exactly the users it is given and keeps the queue free of repetitions; it rests on `IncreasingExists` and `IncreasingOnto`, that a finite set of numbers can be
listed in order and that such a list leaves nothing out. `StepsThatTakeNothing` divides the steps: a request, the `Second` timer, and steps that give nobody
a slot, a place in the queue or a promise. `ServedNeverWaits` is then inductive with one upload connection for each user, and needs neither
`Exclusive` nor exact counters. `PromisesAlwaysFit` needs both: `NewPromisesBound` says that the timer promises no more
than the slots less the counter less the open promises, and a slot is granted as free only against a promise, or when there is none and the counter is below the number of slots.

`Transfers_proof` proves, from `TransfersAssumption` and `NoneAssumption`, for any users, connections, slots and priorities:

| Theorem | Says |
|---|---|
| `TypeCorrect` | `TypeOK`, with the role every step of a connection has |
| `ItemsAreConnected` | `ActiveIsConnected` |
| `TwoMeansFailing` | `TwoOnlyWhileFailing` |
| `AnnouncedHasItem` | `AnnouncedIsPending` |

Every step changes at most one connection (`Becomes`), and for the lists of ConnectionManager it matters only what becomes of `Serves`, whether
the connection is counted, for whom and for what: it is kept (`Keeps`), begins with an item that was not
active (`Joins`), or ends together with its item (`FailedLeaves`). `ActiveIsConnected` is inductive with `TypeOK` because the
roles are part of `TypeOK`: a connection that runs a download is marked as one. `TwoOnlyWhileFailing` follows: a
Download is held only by a connection that serves. `AnnouncedIsPending` needs in addition that what was announced is still on offer.

`Hasher_proof` proves, from `HasherAssumption`, `TypeCorrect` (`TypeOK`), `PausesHold` (`PausersHold`) and `NothingIsForgotten`
(`NothingForgotten`), for any finite set of files, any counter width and either setting. `PausersHold` is about the HashPauser that paused
the hashing itself; one that begins while it lives and outlives it is promised nothing, and hashing goes on when the first one ends. It is inductive only with `OneResumes`: of the
HashPausers at most one will resume, so no other can end its pause. `NothingForgotten` needs `Looked`: the signal with which
the thread begins a rebuild is that rebuild's own, and when it has seen that there is neither a rebuild nor a stop to do, a
request that came since has a signal of its own.

`HashStore_proof` proves, from `HashStoreAssumption` and its `NoneAssumption`, `TypeCorrect` (`TypeOK`), `AcceptsNothingStale` (`AcceptedIsCurrent`), `KnownTreesAreStored`
(`KnownIsStored`) and `Refinement` (`StoreSpec`): `HashStore` implements `TreeStore`. `AcceptedIsCurrent` is strengthened to both indexes, and to
entries that nobody asks about (`EntriesCurrent`): a stamp is never from the future, and one that is the file's goes with
the file's content. The refinement needs no more than `TypeOK`: each step maps to a step of `TreeStore` or a stutter, whatever the indexes
look like, also those that outlived their data file.

Model-checked only:

* liveness, everywhere: `WaitingEnds`, `AttemptsEnd`, `OffersAreTried`, `IdleIsNoticed`, `FilesTaken`, `PauseSettles`, `ShutdownUnpaused`;
* that the closed forms of `Segments` are the loops (`AddSegmentAgrees`, `NextSegmentAgrees`), and what is said of partial sources
  (`NeededIsSource`, `PartialSegmentIsTheirs`): the loops of `SegmentChecks` are recursive operators, out of the prover's reach.

## 5. Not modelled, and what could come next

Left of the plan, in order of importance:

1. `QueueFile`: saveQueue and loadQueue over crashes; the Rechecker,
   moveStuckFile and the Second timer's two halves as an extension of `QueueManager`.
2. `QueueManager` with `HashStore`: a rebuild drops the tree of a file that is still being downloaded.
3. `LockOrder`: which lock each call chain holds when it takes the next.
4. `SearchQueue`, `ThrottleManager`, the DHT's routing table and index expiry, the modes of `BufferedSocket`: small, and each apart
   from the rest. Until then a socket is a connection that may end at any time.

The number of runs is kept small, each with a question of its own; those above would each need one.

Not planned: text protocols and parsing (`NmdcHub`, `AdcHub`, XML), the share's tree and file list, settings and
logs, the RSX extensions, the interface, I/O, and third-party code: they hold little state, or state that only formatting
decides. The repository also holds every older release and several vendored libraries; only `tags/1.21` is
modelled, and only its managers, so the modelled lines are a small part of all there is.
