------------------------ MODULE QueueContents_proof -------------------------
(***************************************************************************)
(* What the queue holds, for any users, files, sizes and settings. No two  *)
(* downloads of a file fetch the same block, what is called done is in the *)
(* temporary file, and a whole file is moved. The user queue is a cache of *)
(* the file queue that only a late putDownload makes inexact. And all of   *)
(* it implements the abstract DownloadQueue.                               *)
(***************************************************************************)
EXTENDS QueueManager_proof, Segments_proof

-----------------------------------------------------------------------------
(***************************************************************************)
(* No two downloads of an item fetch the same block.                       *)
(***************************************************************************)

(* That stays true as long as nobody starts to run anything. *)
LEMMA ChunksKept ==
    ASSUME IInv, IInv', ChunksDisjoint,
           \A v \in Users : running'[v] \in Queued' =>
                /\ running'[v] = running[v] /\ running[v] \in Queued
                /\ dl'[v].segment = dl[v].segment /\ dl'[v].overlap = dl[v].overlap
    PROVE  ChunksDisjoint'
  <1> SUFFICES ASSUME NEW i \in Queued', NEW u \in fileQueue'[i].downloads,
                      NEW v \in fileQueue'[i].downloads,
                      u # v, ~dl'[u].overlap, ~dl'[v].overlap
               PROVE  BlocksOf(dl'[u].segment) \cap BlocksOf(dl'[v].segment) = {}
    BY DEF ChunksDisjoint
  <1>1. u \in Users /\ v \in Users
    BY DEF IInv, TypeOK, QueueItem
  <1>2. running'[u] = i /\ running'[v] = i
    BY <1>1 DEF IInv, RecordsAgree
  <1>3. i \in Queued /\ u \in fileQueue[i].downloads /\ v \in fileQueue[i].downloads
    BY <1>1, <1>2 DEF IInv, RecordsAgree
  <1> QED
    BY <1>1, <1>2, <1>3 DEF ChunksDisjoint

(* What getNextSegment offers of a file is being downloaded by nobody else. *)
LEMMA FreeIsFree ==
    ASSUME IInv, NEW i \in Queued, IsFile(i), Suitable(i),
           NEW done, NEW s \in FreeChunks(i, done, GrainOf(i)),
           NEW v \in fileQueue[i].downloads
    PROVE  BlocksOf(s) \cap BlocksOf(dl[v].segment) = {}
  <1> DEFINE grain == GrainOf(i)
  <1>1. /\ dl[v].segment \in Busy(i)
        /\ dl[v].segment \in Positions \X Positions
    BY DEF Busy, IInv, TypeOK, RecordsAgree, QueueItem, Download
  <1>2. MultiChunk
    BY DEF Suitable, MayStart
  <1>3. s = NoSegment => BlocksOf(s) = {}
    BY DEF NoSegment, BlocksOf, Begin, End
  <1>4. CASE grain = Blocks /\ s # NoSegment
    <2>1. s = <<0, Blocks>> /\ ~Overlaps(<<0, Blocks>>, dl[v].segment)
      BY <1>1, <1>2, <1>4 DEF FreeChunks, WholeFile
    <2> QED
      BY <1>1, <2>1, QueueAssumption DEF Overlaps, BlocksOf, Begin, End, Positions
  <1>5. CASE grain # Blocks /\ s # NoSegment
    <2>1. PICK n \in 1 .. Blocks : s \in NextChunk(done, Busy(i), Blocks, n)
      BY <1>2, <1>5 DEF FreeChunks
    <2>2. BlocksOf(s) \cap Covered(Busy(i)) = {}
      BY <1>5, <2>1 DEF NextChunk
    <2> QED
      BY <1>1, <2>2 DEF Covered
  <1> QED
    BY <1>3, <1>4, <1>5

(* What a new Download asks for, apart from overlaps: a free segment, or no blocks at all. *)
LEMMA StartsFree ==
    ASSUME NEW i \in Queued, NEW done, NEW d \in Starts(i, done), ~d.overlap
    PROVE  \/ d.segment = NoSegment
           \/ IsFile(i) /\ d.segment \in FreeChunks(i, done, GrainOf(i))
  BY DEF Starts

LEMMA GetDownloadChunks ==
    ASSUME IInv, IInv', ChunksDisjoint, NEW u \in Users, GetDownload(u)
    PROVE  ChunksDisjoint'
  <1> USE NullAssumption DEF IInv
  <1>1. PICK i, done, d :
            /\ i \in Queued /\ d \in Starts(i, done) /\ Suitable(i)
            /\ dl[u] = NoDownload
            /\ \/ dl' = [dl EXCEPT ![u] = d]
               \/ \E v \in fileQueue[i].downloads : dl' = Marked(d, u, v, TRUE)
            /\ fileQueue' = [fileQueue EXCEPT ![i].done = done, ![i].downloads = @ \cup {u}]
            /\ running' = [running EXCEPT ![u] = i]
    BY DEF GetDownload, NextFor
  <1>2. Queued' = Queued /\ \A v \in Users : running'[v] = IF v = u THEN i ELSE running[v]
    BY <1>1 DEF Queued, TypeOK
  <1>3. /\ dl'[u] = d
        /\ \A v \in Users \ {u} : dl[v] # NoDownload =>
                dl'[v].segment = dl[v].segment /\ dl'[v].overlap = dl[v].overlap
    <2>1. CASE dl' = [dl EXCEPT ![u] = d]
      BY <2>1 DEF TypeOK
    <2>2. ASSUME NEW v \in fileQueue[i].downloads, dl' = Marked(d, u, v, TRUE)
          PROVE  <1>3!:
      <3>1. v \in Users \ {u} /\ dl[v] # NoDownload /\ dl[v] \in Download
        BY <1>1 DEF RecordsAgree, TypeOK, QueueItem
      <3>2. dl' = [dl EXCEPT ![u] = d, ![v] = [dl[v] EXCEPT !.overlapped = TRUE]]
        BY <2>2, <3>1 DEF Marked, TypeOK
      <3>3. SameDownload([dl[v] EXCEPT !.overlapped = TRUE], dl[v])
        BY <3>1, MarkedDownload
      <3> QED
        BY <3>1, <3>2, <3>3 DEF TypeOK, SameDownload
    <2> QED
      BY <1>1, <2>1, <2>2
  <1>4. ASSUME NEW v \in fileQueue[i].downloads, ~d.overlap
        PROVE  BlocksOf(d.segment) \cap BlocksOf(dl[v].segment) = {}
    <2>1. d.segment = NoSegment \/ (IsFile(i) /\ d.segment \in FreeChunks(i, done, GrainOf(i)))
      BY <1>1, <1>4, StartsFree
    <2>2. BlocksOf(NoSegment) = {}
      BY DEF NoSegment, BlocksOf, Begin, End
    <2> QED
      BY <1>1, <2>1, <2>2, FreeIsFree
  <1> SUFFICES ASSUME NEW j \in Queued, NEW x \in fileQueue'[j].downloads,
                      NEW y \in fileQueue'[j].downloads,
                      x # y, ~dl'[x].overlap, ~dl'[y].overlap
               PROVE  BlocksOf(dl'[x].segment) \cap BlocksOf(dl'[y].segment) = {}
    BY <1>2 DEF ChunksDisjoint
  <1>5. /\ x \in Users /\ y \in Users
        /\ running'[x] = j /\ running'[y] = j
    BY <1>2 DEF RecordsAgree, TypeOK, QueueItem
  <1>6. \A v \in Users \ {u} : running'[v] = j =>
            /\ v \in fileQueue[j].downloads
            /\ dl'[v].segment = dl[v].segment /\ dl'[v].overlap = dl[v].overlap
    BY <1>2, <1>3 DEF RecordsAgree
  <1>7. CASE x # u /\ y # u
    BY <1>5, <1>6, <1>7 DEF ChunksDisjoint
  <1>8. CASE x = u
    BY <1>2, <1>3, <1>4, <1>5, <1>6, <1>8
  <1>9. CASE y = u
    BY <1>2, <1>3, <1>4, <1>5, <1>6, <1>9
  <1> QED
    BY <1>7, <1>8, <1>9

LEMMA ChunksStep == IInv /\ ChunksDisjoint /\ [Next]_vars => ChunksDisjoint'
  <1> SUFFICES ASSUME IInv, ChunksDisjoint, [Next]_vars PROVE ChunksDisjoint'
    OBVIOUS
  <1>1. IInv'
    BY NextIInv
  <1>2. CASE Aside
    <2>1. \A v \in Users : running'[v] \in Queued' =>
                /\ running'[v] = running[v] /\ running[v] \in Queued
                /\ dl'[v].segment = dl[v].segment /\ dl'[v].overlap = dl[v].overlap
      BY <1>2 DEF Aside
    <2> QED
      BY <1>1, <2>1, ChunksKept
  <1>3. ASSUME NEW u \in Users, Ending(u) PROVE ChunksDisjoint'
    <2>1. Leaves(u)
      BY <1>3, EndingLeaves
    <2>2. \A v \in Users : running'[v] \in Queued' =>
                /\ running'[v] = running[v] /\ running[v] \in Queued
                /\ dl'[v].segment = dl[v].segment /\ dl'[v].overlap = dl[v].overlap
      <3> TAKE v \in Users
      <3> HAVE running'[v] \in Queued'
      <3>1. dl'[v] # NoDownload /\ running'[v] # NoItem
        BY <1>1, QueueAssumption DEF IInv, RecordsAgree, TypeOK
      <3>2. v # u
        BY <2>1, <3>1 DEF Leaves
      <3> QED
        BY <2>1, <3>1, <3>2 DEF Leaves, SameDownload
    <2> QED
      BY <1>1, <2>2, ChunksKept
  <1>4. ASSUME NEW u \in Users, SetFile(u) \/ Receive(u) PROVE ChunksDisjoint'
    <2>1. /\ dl[u] \in Download /\ UNCHANGED <<fileQueue, running>>
          /\ \/ dl' = [dl EXCEPT ![u].state = "running", ![u].overlapped = FALSE]
             \/ dl' = [dl EXCEPT ![u].pos = @ + dl[u].grain]
      BY <1>4 DEF SetFile, Receive, Has, IInv, TypeOK
    <2>2. \A v \in Users : dl'[v].segment = dl[v].segment /\ dl'[v].overlap = dl[v].overlap
      <3>1. dl'[u].segment = dl[u].segment /\ dl'[u].overlap = dl[u].overlap
        BY <2>1 DEF Download, IInv, TypeOK
      <3>2. \A v \in Users \ {u} : dl'[v] = dl[v]
        BY <2>1 DEF IInv, TypeOK
      <3> QED
        BY <3>1, <3>2
    <2>3. Queued' = Queued
      BY <2>1 DEF Queued
    <2> QED
      BY <1>1, <2>1, <2>2, <2>3, ChunksKept
  <1> QED
    BY <1>1, <1>2, <1>3, <1>4, StepKinds, GetDownloadChunks

(***************************************************************************)
(* ChunksDisjoint: no two downloads of an item, however they were started, *)
(* forgotten or put back, fetch one block, unless one was asked to run     *)
(* over the other.                                                         *)
(***************************************************************************)
THEOREM ChunksStayDisjoint == Spec => []ChunksDisjoint
  <1>1. Init => ChunksDisjoint
    BY DEF Init, ChunksDisjoint, Queued
  <1> QED
    BY <1>1, Invariance, ChunksStep, PTL DEF Spec

-----------------------------------------------------------------------------
(***************************************************************************)
(* What is called done is in the temporary file. This needs what a         *)
(* download has received so far to be there as well.                       *)
(***************************************************************************)
GotSoFar(d) == <<Begin(d.segment), Begin(d.segment) + d.pos>>

Received(u) ==
    /\ dl[u].pos # 0 => Has(u, "file", {"running"})
    /\ Has(u, "file", {"running"}) => BlocksOf(GotSoFar(dl[u])) \subseteq temp[dl[u].root]

ReceivedIsReal == \A u \in Users : dl[u] # NoDownload => Received(u)

FileInv == ReceivedIsReal /\ DoneIsReal

(* The two are kept for who still has his file, and for an item that gets no new blocks. *)
LEMMA ReceivedKept ==
    ASSUME NEW v \in Users, dl[v] # NoDownload, Received(v), SameDownload(dl'[v], dl[v]),
           dl'[v] # NoDownload,
           Has(v, "file", {"running"}) => temp[dl[v].root] \subseteq temp'[dl[v].root]
    PROVE  Received(v)'
  BY DEF Received, SameDownload, GotSoFar, Has

LEMMA DoneKept ==
    ASSUME DoneIsReal, IInv,
           \A r \in Roots : temp'[r] = temp[r] \/ temp'[r] = Gone,
           \A i \in Queued' :
               \/ /\ i \in Queued
                  /\ fileQueue'[i].root = fileQueue[i].root
                  /\ fileQueue'[i].done = fileQueue[i].done
               \/ fileQueue'[i].done = {}
    PROVE  DoneIsReal'
  <1> SUFFICES ASSUME NEW i \in Queued', IsFile(i)', temp'[fileQueue'[i].root] # Gone
               PROVE  Covered(fileQueue'[i].done) \subseteq temp'[fileQueue'[i].root]
    BY DEF DoneIsReal
  <1>1. CASE fileQueue'[i].done = {}
    BY <1>1 DEF Covered
  <1>2. CASE /\ i \in Queued
             /\ fileQueue'[i].root = fileQueue[i].root
             /\ fileQueue'[i].done = fileQueue[i].done
    <2>1. IsFile(i) /\ fileQueue[i].root \in Roots
      BY <1>2 DEF IsFile, IInv, TypeOK, QueueItem
    <2> QED
      BY <1>2, <2>1 DEF DoneIsReal
  <1> QED
    BY <1>1, <1>2

LEMMA AsideFile ==
    ASSUME IInv, FileInv, Aside
    PROVE  FileInv'
  <1>1. DoneIsReal'
    BY DoneKept DEF Aside, FileInv
  <1>2. ReceivedIsReal'
    <2> SUFFICES ASSUME NEW v \in Users, dl'[v] # NoDownload PROVE Received(v)'
      BY DEF ReceivedIsReal
    <2>1. dl[v] = dl'[v] /\ Received(v) /\ SameDownload(dl'[v], dl[v])
      BY DEF Aside, FileInv, ReceivedIsReal, SameDownload
    <2>2. Has(v, "file", {"running"}) => temp'[dl[v].root] = temp[dl[v].root]
      BY <2>1 DEF Aside, IInv, DownloadsSound, InBounds, Has
    <2> QED
      BY <2>1, <2>2, ReceivedKept
  <1> QED
    BY <1>1, <1>2 DEF FileInv

LEMMA SetFileFile ==
    ASSUME IInv, FileInv, PathsKeepTheirFile, NEW u \in Users, SetFile(u)
    PROVE  FileInv'
  <1> USE QueueAssumption, NullAssumption DEF IInv
  <1>1. /\ dl[u] \in Download /\ dl[u].state = "snd" /\ dl[u] # NoDownload
        /\ dl' = [dl EXCEPT ![u].state = "running", ![u].overlapped = FALSE]
        /\ UNCHANGED <<fileQueue, userQueue, running, trees, failed>>
    BY DEF SetFile, TypeOK
  <1>2. Queued' = Queued
    BY <1>1 DEF Queued
  <1>3. /\ dl'[u] = [dl[u] EXCEPT !.state = "running", !.overlapped = FALSE]
        /\ dl'[u].pos = dl[u].pos /\ dl'[u].segment = dl[u].segment /\ dl'[u].root = dl[u].root
        /\ \A v \in Users \ {u} : dl'[v] = dl[v]
    BY <1>1 DEF TypeOK, Download
  <1>4. dl[u].pos = 0
    BY <1>1 DEF FileInv, ReceivedIsReal, Received, Has
  <1>5. ASSUME UNCHANGED temp, dl[u].type # "file"
        PROVE  DoneIsReal' /\ \A r \in Roots : temp[r] # Gone => temp'[r] = temp[r]
    <2>1. DoneIsReal'
      BY <1>1, <1>2, <1>5, DoneKept DEF FileInv
    <2> QED
      BY <1>5, <2>1
  <1>6. ASSUME dl[u].type = "file"
        PROVE  DoneIsReal' /\ \A r \in Roots : temp[r] # Gone => temp'[r] = temp[r]
    <2>1. PICK i \in At(dl[u].path) :
            /\ HasBytes(i) => temp[dl[u].root] # Gone
            /\ temp' = [temp EXCEPT ![dl[u].root] = @ \ Gone]
      BY <1>6 DEF SetFile
    <2>2. dl[u].root \in Roots /\ i \in Queued /\ fileQueue[i].root = dl[u].root
      BY <1>1, <1>6 DEF DownloadsSound, InBounds, At, PathsKeepTheirFile
    <2>3. /\ \A r \in Roots : temp[r] # Gone => temp'[r] = temp[r]
          /\ \A r \in Roots \ {dl[u].root} : temp'[r] = temp[r]
      <3>1. temp[dl[u].root] # Gone => temp[dl[u].root] \ Gone = temp[dl[u].root]
        BY <2>2 DEF TypeOK, Whole, Gone
      <3> QED
        BY <2>1, <3>1 DEF TypeOK
    <2>4. DoneIsReal'
      <3> SUFFICES ASSUME NEW j \in Queued, IsFile(j)
                   PROVE  \/ temp'[fileQueue[j].root] = Gone
                          \/ Covered(fileQueue[j].done) \subseteq temp'[fileQueue[j].root]
        BY <1>1, <1>2 DEF DoneIsReal, IsFile
      <3>1. fileQueue[j].root \in Roots
        BY DEF IsFile, TypeOK, QueueItem
      <3>2. CASE temp[fileQueue[j].root] # Gone
        BY <2>3, <3>1, <3>2 DEF FileInv, DoneIsReal
      <3>3. CASE temp[fileQueue[j].root] = Gone /\ j = i
        BY <2>1, <2>2, <3>3 DEF HasBytes
      <3>4. CASE temp[fileQueue[j].root] = Gone /\ j # i
        <4>1. fileQueue[j].root # dl[u].root
          BY <2>2, <3>4 DEF OneItemPerFile
        <4> QED
          BY <2>3, <3>1, <3>4, <4>1
      <3> QED
        BY <3>2, <3>3, <3>4
    <2> QED
      BY <2>3, <2>4
  <1>7. DoneIsReal' /\ \A r \in Roots : temp[r] # Gone => temp'[r] = temp[r]
    BY <1>5, <1>6 DEF SetFile
  <1>8. ReceivedIsReal'
    <2> SUFFICES ASSUME NEW v \in Users, dl'[v] # NoDownload PROVE Received(v)'
      BY DEF ReceivedIsReal
    <2>1. CASE v = u
      <3>1. BlocksOf(GotSoFar(dl'[u])) = {}
        BY <1>1, <1>3, <1>4 DEF BlocksOf, GotSoFar, Begin, End, Download, Positions
      <3> QED
        BY <1>3, <1>4, <2>1, <3>1 DEF Received
    <2>2. CASE v # u
      <3>1. dl[v] # NoDownload /\ Received(v) /\ SameDownload(dl'[v], dl[v])
        BY <1>3, <2>2 DEF FileInv, ReceivedIsReal, SameDownload
      <3>2. Has(v, "file", {"running"}) => temp'[dl[v].root] = temp[dl[v].root]
        BY <1>7, <3>1 DEF DownloadsSound, InBounds, Has
      <3> QED
        BY <3>1, <3>2, ReceivedKept
    <2> QED
      BY <2>1, <2>2
  <1> QED
    BY <1>7, <1>8 DEF FileInv

LEMMA ReceiveFile ==
    ASSUME IInv, FileInv, NEW u \in Users, Receive(u)
    PROVE  FileInv'
  <1> USE QueueAssumption, NullAssumption DEF IInv
  <1> DEFINE d == dl[u]
             from == Begin(d.segment) + d.pos
  <1>1. /\ d \in Download /\ d.type = "file" /\ d.state = "running" /\ d # NoDownload
        /\ temp' = [temp EXCEPT ![d.root] = @ \cup BlocksOf(<<from, from + d.grain>>)]
        /\ dl' = [dl EXCEPT ![u].pos = @ + d.grain]
        /\ UNCHANGED <<fileQueue, userQueue, running, trees, failed>>
    BY DEF Receive, Has, TypeOK
  <1>2. Queued' = Queued /\ d.root \in Roots /\ temp[d.root] # Gone
    BY <1>1 DEF Queued, DownloadsSound, InBounds, Has
  <1>3. /\ \A r \in Roots : temp[r] \subseteq temp'[r]
        /\ \A r \in Roots \ {d.root} : temp'[r] = temp[r]
        /\ temp'[d.root] = temp[d.root] \cup BlocksOf(<<from, from + d.grain>>)
    <2> HIDE DEF from, d
    <2> QED
      BY <1>1, <1>2 DEF TypeOK
  <1>4. DoneIsReal'
    <2> SUFFICES ASSUME NEW j \in Queued, IsFile(j), temp'[fileQueue[j].root] # Gone
                 PROVE  Covered(fileQueue[j].done) \subseteq temp'[fileQueue[j].root]
      BY <1>1, <1>2 DEF DoneIsReal, IsFile
    <2>1. fileQueue[j].root \in Roots
      BY DEF IsFile, TypeOK, QueueItem
    <2>2. temp[fileQueue[j].root] # Gone
      BY <1>2, <1>3, <2>1
    <2> QED
      BY <1>3, <2>1, <2>2 DEF FileInv, DoneIsReal
  <1>5. /\ dl'[u].pos = d.pos + d.grain /\ dl'[u].segment = d.segment /\ dl'[u].root = d.root
        /\ dl'[u].type = "file" /\ dl'[u].state = "running"
        /\ \A v \in Users \ {u} : dl'[v] = dl[v]
    BY <1>1 DEF TypeOK, Download
  <1>6. ReceivedIsReal'
    <2> SUFFICES ASSUME NEW v \in Users, dl'[v] # NoDownload PROVE Received(v)'
      BY DEF ReceivedIsReal
    <2>1. CASE v = u
      <3>1. BlocksOf(GotSoFar(dl[u])) \subseteq temp[d.root]
        BY <1>1 DEF FileInv, ReceivedIsReal, Received, Has
      <3>2. BlocksOf(GotSoFar(dl'[u])) \subseteq
                BlocksOf(GotSoFar(dl[u])) \cup BlocksOf(<<from, from + d.grain>>)
        BY <1>1, <1>5 DEF BlocksOf, GotSoFar, Begin, End, Download, Positions
      <3> QED
        BY <1>3, <1>5, <2>1, <3>1, <3>2 DEF Received, Has
    <2>2. CASE v # u
      <3>1. dl[v] # NoDownload /\ Received(v) /\ SameDownload(dl'[v], dl[v])
        BY <1>5, <2>2 DEF FileInv, ReceivedIsReal, SameDownload
      <3>2. Has(v, "file", {"running"}) => dl[v].root \in Roots
        BY <3>1 DEF DownloadsSound, InBounds, Has
      <3> QED
        BY <1>3, <3>1, <3>2, ReceivedKept
    <2> QED
      BY <2>1, <2>2
  <1> QED
    BY <1>4, <1>6 DEF FileInv

LEMMA GetDownloadFile ==
    ASSUME IInv, FileInv, NEW u \in Users, GetDownload(u)
    PROVE  FileInv'
  <1> USE QueueAssumption, NullAssumption DEF IInv
  <1>1. PICK i, done, d :
            /\ i \in Queued /\ done \in SUBSET (Positions \X Positions) /\ d \in Starts(i, done)
            /\ done = {} \/ done = fileQueue[i].done
            /\ dl[u] = NoDownload
            /\ \/ dl' = [dl EXCEPT ![u] = d]
               \/ \E v \in fileQueue[i].downloads : dl' = Marked(d, u, v, TRUE)
            /\ fileQueue' = [fileQueue EXCEPT ![i].done = done, ![i].downloads = @ \cup {u}]
            /\ UNCHANGED temp
    <2>1. PICK i \in Queued :
            LET done == IF IsFile(i) /\ HasBytes(i) /\ temp[fileQueue[i].root] = Gone
                        THEN {} ELSE fileQueue[i].done
            IN  /\ \E d \in Starts(i, done) :
                     \/ ~d.overlap /\ dl' = [dl EXCEPT ![u] = d]
                     \/ /\ d.overlap
                        /\ \E v \in fileQueue[i].downloads :
                             Contains(dl[v].segment, d.segment) /\ dl' = Marked(d, u, v, TRUE)
                /\ fileQueue' = [fileQueue EXCEPT ![i].done = done, ![i].downloads = @ \cup {u}]
      BY DEF GetDownload, NextFor
    <2>2. fileQueue[i].done \in SUBSET (Positions \X Positions)
      BY DEF TypeOK, QueueItem
    <2>3. dl[u] = NoDownload /\ UNCHANGED temp
      BY DEF GetDownload
    <2> QED
      BY <2>1, <2>2, <2>3
  <1>2. Queued' = Queued /\ fileQueue[i] \in QueueItem
    BY <1>1 DEF Queued, TypeOK
  <1>3. d \in Download /\ d.state = "snd" /\ d.pos = 0
    BY <1>1, StartsType
  <1>4. \A j \in Queued : /\ fileQueue'[j].root = fileQueue[j].root
                          /\ fileQueue'[j].done = fileQueue[j].done \/ fileQueue'[j].done = {}
    <2>1. fileQueue'[i] = [fileQueue[i] EXCEPT !.done = done, !.downloads = fileQueue[i].downloads \cup {u}]
      BY <1>1 DEF TypeOK
    <2>2. fileQueue'[i].root = fileQueue[i].root /\ fileQueue'[i].done = done
      BY <1>2, <2>1, ItemKept
    <2>3. \A j \in Queued \ {i} : fileQueue'[j] = fileQueue[j]
      BY <1>1 DEF TypeOK
    <2> QED
      BY <1>1, <2>2, <2>3
  <1>5. DoneIsReal'
    BY <1>1, <1>2, <1>4, DoneKept DEF FileInv
  <1>6. /\ dl'[u] = d
        /\ \A v \in Users \ {u} : dl'[v] # NoDownload =>
                dl[v] # NoDownload /\ SameDownload(dl'[v], dl[v])
    <2>1. CASE dl' = [dl EXCEPT ![u] = d]
      BY <2>1 DEF TypeOK, SameDownload
    <2>2. ASSUME NEW v \in fileQueue[i].downloads, dl' = Marked(d, u, v, TRUE)
          PROVE  <1>6!:
      <3>1. v \in Users \ {u} /\ dl[v] # NoDownload /\ dl[v] \in Download
        BY <1>1, <1>2 DEF RecordsAgree, TypeOK, QueueItem
      <3>2. dl' = [dl EXCEPT ![u] = d, ![v] = [dl[v] EXCEPT !.overlapped = TRUE]]
        BY <2>2, <3>1 DEF Marked, TypeOK
      <3>3. SameDownload([dl[v] EXCEPT !.overlapped = TRUE], dl[v])
        BY <3>1, MarkedDownload
      <3> QED
        BY <3>1, <3>2, <3>3 DEF TypeOK, SameDownload
    <2> QED
      BY <1>1, <2>1, <2>2
  <1>7. ReceivedIsReal'
    <2> SUFFICES ASSUME NEW v \in Users, dl'[v] # NoDownload PROVE Received(v)'
      BY DEF ReceivedIsReal
    <2>1. CASE v = u
      BY <1>3, <1>6, <2>1 DEF Received, Has
    <2>2. CASE v # u
      <3>1. dl[v] # NoDownload /\ Received(v) /\ SameDownload(dl'[v], dl[v])
        BY <1>6, <2>2 DEF FileInv, ReceivedIsReal
      <3> QED
        BY <1>1, <3>1, ReceivedKept
    <2> QED
      BY <2>1, <2>2
  <1> QED
    BY <1>5, <1>7 DEF FileInv

(* Ending a Download does nothing to what the others have received. *)
LEMMA LeavesReceived ==
    ASSUME IInv, FileInv, NEW u \in Users, Leaves(u)
    PROVE  ReceivedIsReal'
  <1> SUFFICES ASSUME NEW v \in Users, dl'[v] # NoDownload PROVE Received(v)'
    BY DEF ReceivedIsReal
  <1>1. v # u /\ dl[v] # NoDownload /\ SameDownload(dl'[v], dl[v]) /\ Received(v)
    BY DEF Leaves, FileInv, ReceivedIsReal
  <1>2. Has(v, "file", {"running"}) => temp'[dl[v].root] = temp[dl[v].root]
    BY <1>1 DEF Leaves, IInv, DownloadsSound, InBounds, Has
  <1> QED
    BY <1>1, <1>2, ReceivedKept

(* Blocks that are in the temporary file may be added to what is done. *)
LEMMA DoneAdded ==
    ASSUME IInv, FileInv, NEW i \in Queued, Queued' \subseteq Queued,
           \A j \in Queued' : fileQueue'[j].root = fileQueue[j].root,
           \A j \in Queued' \ {i} : fileQueue'[j].done = fileQueue[j].done,
           \A r \in Roots : temp'[r] = temp[r] \/ temp'[r] = Gone,
           NEW seg \in Positions \X Positions,
           i \in Queued' => fileQueue'[i].done = AddSegment(fileQueue[i].done, seg),
           BlocksOf(seg) \subseteq temp[fileQueue[i].root], fileQueue[i].root \in Roots
    PROVE  DoneIsReal'
  <1> SUFFICES ASSUME NEW j \in Queued', IsFile(j)', temp'[fileQueue'[j].root] # Gone
               PROVE  Covered(fileQueue'[j].done) \subseteq temp'[fileQueue'[j].root]
    BY DEF DoneIsReal
  <1>1. j \in Queued /\ IsFile(j) /\ fileQueue[j].root \in Roots
    BY DEF IsFile, IInv, TypeOK, QueueItem
  <1>2. /\ temp[fileQueue[j].root] # Gone /\ temp'[fileQueue'[j].root] = temp[fileQueue[j].root]
        /\ Covered(fileQueue[j].done) \subseteq temp[fileQueue[j].root]
    BY <1>1 DEF FileInv, DoneIsReal
  <1>3. CASE j = i
    <2>1. 2 * Blocks \in Nat
      BY QueueAssumption
    <2>2. fileQueue[i].done \in SUBSET (Positions \X Positions)
      BY DEF IInv, TypeOK, QueueItem
    <2>3. Covered(AddSegment(fileQueue[i].done, seg)) \subseteq Covered(fileQueue[i].done) \cup BlocksOf(seg)
      BY <2>1, <2>2, AddSegmentCovers DEF Positions
    <2> QED
      BY <1>2, <1>3, <2>3
  <1>4. CASE j # i
    BY <1>2, <1>4
  <1> QED
    BY <1>3, <1>4

(* A download that has received something is of a file, and of the one that is queued at its path. *)
LEMMA ReceivedOfItem ==
    ASSUME IInv, FileInv, PathsKeepTheirFile, NEW u \in Users, dl[u] # NoDownload,
           NEW i \in At(dl[u].path), Has(u, "file", {"running"})
    PROVE  /\ i \in Queued /\ fileQueue[i].root = dl[u].root /\ dl[u].root \in Roots
           /\ temp[dl[u].root] # Gone
           /\ BlocksOf(GotSoFar(dl[u])) \subseteq temp[dl[u].root]
           /\ GotSoFar(dl[u]) \in Positions \X Positions
           /\ dl[u].segment \in Positions \X Positions
           /\ dl[u].pos = Length(dl[u].segment) => BlocksOf(dl[u].segment) = BlocksOf(GotSoFar(dl[u]))
  <1>1. /\ i \in Queued /\ fileQueue[i].root = dl[u].root /\ dl[u].root \in Roots
        /\ InBounds(u) /\ dl[u] \in Download
        /\ BlocksOf(GotSoFar(dl[u])) \subseteq temp[dl[u].root]
    BY DEF At, PathsKeepTheirFile, FileInv, ReceivedIsReal, Received, IInv, DownloadsSound, InBounds, TypeOK, Has
  <1>2. temp[dl[u].root] # Gone
    BY <1>1 DEF InBounds
  <1>3. /\ dl[u].segment \in Positions \X Positions /\ dl[u].pos \in Positions
        /\ End(dl[u].segment) <= Blocks
        /\ dl[u].pos = 0 \/ dl[u].pos <= Length(dl[u].segment)
    BY <1>1 DEF InBounds, Download
  <1>4. GotSoFar(dl[u]) \in Positions \X Positions
    BY <1>3, QueueAssumption DEF GotSoFar, Begin, End, Length, Positions
  <1>5. dl[u].pos = Length(dl[u].segment) => BlocksOf(dl[u].segment) = BlocksOf(GotSoFar(dl[u]))
    BY <1>3, QueueAssumption DEF GotSoFar, Begin, End, Length, Positions, BlocksOf
  <1> QED
    BY <1>1, <1>2, <1>3, <1>4, <1>5

LEMMA FinishSegmentFile ==
    ASSUME IInv, FileInv, PathsKeepTheirFile, NEW u \in Users, FinishSegment(u)
    PROVE  FileInv'
  <1> USE DEF IInv
  <1> DEFINE done(i) == AddSegment(fileQueue[i].done, dl[u].segment)
             mine(i) == {v \in fileQueue[i].downloads :
                            running[v] = i /\ v \in fileQueue[i].sources}
  <1>1. /\ dl[u] # NoDownload /\ Has(u, "file", {"running"}) /\ dl[u].pos = Length(dl[u].segment)
        /\ Leaves(u)
    BY EndingLeaves DEF FinishSegment, Has, Ending
  <1>2. PICK i \in At(dl[u].path) :
            \/ fileQueue' = [fileQueue EXCEPT ![i].done = done(i), ![i].downloads = @ \ {u}]
            \/ fileQueue' = IF KeepFinishedFiles
                            THEN [fileQueue EXCEPT ![i].done = done(i), ![i].downloads = @ \ mine(i)]
                            ELSE [j \in Queued \ {i} |-> fileQueue[j]]
    BY DEF FinishSegment
  <1> HIDE DEF done, mine
  <1>3. /\ i \in Queued /\ fileQueue[i].root \in Roots
        /\ dl[u].segment \in Positions \X Positions
        /\ BlocksOf(dl[u].segment) \subseteq temp[fileQueue[i].root]
    BY <1>1, <1>2, ReceivedOfItem
  <1>4. /\ Queued' \subseteq Queued
        /\ \A j \in Queued' : fileQueue'[j].root = fileQueue[j].root
        /\ \A r \in Roots : temp'[r] = temp[r] \/ temp'[r] = Gone
    BY <1>1 DEF Leaves, Lessened
  <1>5. /\ \A j \in Queued' \ {i} : fileQueue'[j] = fileQueue[j]
        /\ i \in Queued' => \E w : fileQueue'[i] = [fileQueue[i] EXCEPT !.done = done(i), !.downloads = w]
    <2>1. CASE fileQueue' = [fileQueue EXCEPT ![i].done = done(i), ![i].downloads = @ \ {u}]
      BY <1>3, <1>4, <2>1 DEF TypeOK
    <2>2. CASE fileQueue' = [fileQueue EXCEPT ![i].done = done(i), ![i].downloads = @ \ mine(i)]
      BY <1>3, <1>4, <2>2 DEF TypeOK
    <2>3. CASE fileQueue' = [j \in Queued \ {i} |-> fileQueue[j]]
      BY <2>3 DEF Queued
    <2> QED
      BY <1>2, <2>1, <2>2, <2>3
  <1>6. i \in Queued' => fileQueue'[i].done = done(i)
    <2>1. fileQueue[i] \in QueueItem
      BY <1>3 DEF TypeOK
    <2> QED
      BY <1>5, <2>1 DEF QueueItem
  <1>7. DoneIsReal'
    BY <1>3, <1>4, <1>5, <1>6, DoneAdded DEF done
  <1> QED
    BY <1>1, <1>7, LeavesReceived DEF FileInv

LEMMA FailDownloadFile ==
    ASSUME IInv, FileInv, PathsKeepTheirFile, NEW u \in Users, FailDownload(u)
    PROVE  FileInv'
  <1> USE DEF IInv
  <1> DEFINE got == GotSoFar(dl[u])
             partial == dl[u].type = "file" /\ dl[u].pos > 0
             done(i) == IF partial THEN AddSegment(fileQueue[i].done, got) ELSE fileQueue[i].done
  <1>1. dl[u] # NoDownload /\ Leaves(u)
    BY EndingLeaves DEF FailDownload, Ending
  <1>2. PICK i \in At(dl[u].path) :
            fileQueue' = [fileQueue EXCEPT ![i].done = IF partial THEN AddSegment(@, got) ELSE @,
                                           ![i].downloads = @ \ {u}]
    BY DEF FailDownload, PutUnfinished, GotSoFar
  <1>3. /\ i \in Queued /\ Queued' = Queued
        /\ fileQueue'[i] = [fileQueue[i] EXCEPT !.done = done(i), !.downloads = fileQueue[i].downloads \ {u}]
        /\ \A j \in Queued \ {i} : fileQueue'[j] = fileQueue[j]
    BY <1>2 DEF At, TypeOK, Queued
  <1>4. fileQueue'[i].done = done(i)
    <2>1. fileQueue[i] \in QueueItem
      BY <1>3 DEF TypeOK
    <2> HIDE DEF done
    <2> QED
      BY <1>3, <2>1, ItemKept
  <1>5. /\ \A j \in Queued' : fileQueue'[j].root = fileQueue[j].root
        /\ \A r \in Roots : temp'[r] = temp[r] \/ temp'[r] = Gone
    BY <1>1 DEF Leaves, Lessened
  <1>6. DoneIsReal'
    <2>1. CASE ~partial
      BY <1>3, <1>4, <1>5, <2>1, DoneKept DEF FileInv
    <2>2. CASE partial
      <3>1. dl[u] \in Download
        BY <1>1 DEF TypeOK
      <3>2. Has(u, "file", {"running"})
        BY <1>1, <2>2, <3>1, QueueAssumption DEF FileInv, ReceivedIsReal, Received, Download, Positions
      <3>3. /\ fileQueue[i].root \in Roots /\ got \in Positions \X Positions
            /\ BlocksOf(got) \subseteq temp[fileQueue[i].root]
        BY <1>1, <3>2, ReceivedOfItem
      <3> HIDE DEF got
      <3> QED
        BY <1>3, <1>4, <1>5, <2>2, <3>3, DoneAdded
    <2> QED
      BY <2>1, <2>2
  <1> QED
    BY <1>1, <1>6, LeavesReceived DEF FileInv

LEMMA NothingDoneFile ==
    ASSUME IInv, FileInv, NEW u \in Users, PutOrphan(u) \/ FinishTree(u) \/ FinishList(u)
    PROVE  FileInv'
  <1>1. Leaves(u)
    BY EndingLeaves DEF Ending
  <1>2. \A j \in Queued' : j \in Queued /\ fileQueue'[j].done = fileQueue[j].done
    <2>1. CASE PutOrphan(u)
      BY <2>1 DEF PutOrphan, Queued
    <2>2. CASE FinishTree(u)
      <3>1. PICK i \in Queued : fileQueue' = [fileQueue EXCEPT ![i].downloads = @ \ {u}]
        BY <2>2 DEF FinishTree, At
      <3>2. fileQueue[i] \in QueueItem /\ Queued' = Queued
        BY <3>1 DEF IInv, TypeOK, Queued
      <3> QED
        BY <3>1, <3>2 DEF IInv, TypeOK, QueueItem
    <2>3. CASE FinishList(u)
      <3>1. PICK i \in Queued : fileQueue' = [j \in Queued \ {i} |-> fileQueue[j]]
        BY <2>3 DEF FinishList, At
      <3>2. Queued' = Queued \ {i}
        BY <3>1 DEF Queued
      <3> QED
        BY <3>1, <3>2
    <2> QED
      BY <2>1, <2>2, <2>3
  <1>3. DoneIsReal'
    BY <1>1, <1>2, DoneKept DEF Leaves, Lessened, FileInv
  <1> QED
    BY <1>1, <1>3, LeavesReceived DEF FileInv

LEMMA FileStep ==
    ASSUME ~BadData, IInv, FileInv, PathsKeepTheirFile, [Next]_vars
    PROVE  FileInv'
  <1>1. ASSUME NEW u \in Users, Ending(u) PROVE FileInv'
    <2>1. ~BadBlock(u)
      BY DEF BadBlock
    <2> QED
      BY <1>1, <2>1, NothingDoneFile, FinishSegmentFile, FailDownloadFile DEF Ending
  <1> QED
    BY <1>1, StepKinds, AsideFile, SetFileFile, ReceiveFile, GetDownloadFile

LEMMA InitFileInv == Init => FileInv
  BY DEF Init, FileInv, ReceivedIsReal, DoneIsReal, Queued

(***************************************************************************)
(* DoneIsReal: as long as no block fails its check and no other file is    *)
(* queued at the path of a download that still runs, every block the queue *)
(* counts as done is in the temporary file, verified, in whatever order    *)
(* the downloads of the file end, whichever of them are forgotten, and     *)
(* however often the file is deleted and started again.                    *)
(***************************************************************************)
THEOREM DoneStaysReal ==
    ASSUME ~BadData
    PROVE  Spec /\ []PathsKeepTheirFile => []DoneIsReal
  <1>1. IInv /\ FileInv /\ PathsKeepTheirFile /\ [Next]_vars => FileInv'
    BY FileStep
  <1>2. FileInv => DoneIsReal
    BY DEF FileInv
  <1> QED
    BY <1>1, <1>2, InitFileInv, Invariance, PTL DEF Spec

(* When the last segment arrives and the file is moved, all its blocks are in it. *)
LEMMA MovedIsWhole ==
    ASSUME IInv, FileInv, PathsKeepTheirFile, NEW u \in Users, FinishSegment(u), temp' # temp
    PROVE  temp[dl[u].root] = Whole
  <1>1. PICK i \in At(dl[u].path) : Complete(AddSegment(fileQueue[i].done, dl[u].segment), Blocks)
    BY DEF FinishSegment
  <1>2. /\ dl[u] # NoDownload /\ Has(u, "file", {"running"})
        /\ dl[u].pos = Length(dl[u].segment)
    BY DEF FinishSegment, Has
  <1>3. /\ i \in Queued /\ fileQueue[i].root = dl[u].root /\ dl[u].root \in Roots
        /\ temp[dl[u].root] # Gone
        /\ dl[u].segment \in Positions \X Positions
        /\ BlocksOf(dl[u].segment) \subseteq temp[dl[u].root]
    BY <1>1, <1>2, ReceivedOfItem
  <1>4. Covered(fileQueue[i].done) \subseteq temp[dl[u].root]
    BY <1>3, QueueAssumption DEF FileInv, DoneIsReal, IsFile
  <1>5. Covered(AddSegment(fileQueue[i].done, dl[u].segment)) \subseteq
            Covered(fileQueue[i].done) \cup BlocksOf(dl[u].segment)
    <2>1. fileQueue[i].done \in SUBSET (Positions \X Positions) /\ 2 * Blocks \in Nat
      BY <1>3, QueueAssumption DEF IInv, TypeOK, QueueItem
    <2> QED
      BY <1>3, <2>1, AddSegmentCovers DEF Positions
  <1>6. Covered(AddSegment(fileQueue[i].done, dl[u].segment)) = Whole
    BY <1>1 DEF Complete, Covered, BlocksOf, Begin, End, Whole
  <1>7. temp[dl[u].root] \subseteq Whole
    BY <1>3 DEF IInv, TypeOK
  <1> QED
    BY <1>3, <1>4, <1>5, <1>6, <1>7

(***************************************************************************)
(* MovedFileIsWhole, under the same conditions: what putDownload moves to  *)
(* the target is the whole file.                                           *)
(***************************************************************************)
THEOREM MovedIsAlwaysWhole ==
    ASSUME ~BadData
    PROVE  Spec /\ []PathsKeepTheirFile => MovedFileIsWhole
  <1>1. IInv /\ FileInv /\ PathsKeepTheirFile /\ [Next]_vars => FileInv'
    BY FileStep
  <1>2. IInv /\ FileInv /\ PathsKeepTheirFile =>
            [\A u \in Users : FinishSegment(u) /\ temp' # temp => temp[dl[u].root] = Whole]_vars
    BY MovedIsWhole
  <1> QED
    BY <1>1, <1>2, InitFileInv, Invariance, PTL DEF Spec, MovedFileIsWhole

-----------------------------------------------------------------------------
(***************************************************************************)
(* When there is one file, it is queued at every path it is ever at.       *)
(***************************************************************************)
RightKind ==
    /\ \A i \in Queued : Placed(fileQueue[i].target, fileQueue[i].root)
    /\ \A u \in Users : dl[u] # NoDownload =>
            /\ Placed(dl[u].path, dl[u].root)
            /\ dl[u].type = "list" <=> dl[u].path \notin Paths

LEMMA PlacedFile ==
    ASSUME NEW t, NEW r, Placed(t, r)
    PROVE  t \in Paths <=> r # ListRoot
  BY QueueAssumption DEF Placed

LEMMA AsideKind ==
    ASSUME IInv, RightKind, Aside
    PROVE  RightKind'
  <1>1. ASSUME NEW i \in Queued' PROVE Placed(fileQueue'[i].target, fileQueue'[i].root)
    BY DEF Aside, RightKind, Placed
  <1> QED
    BY <1>1 DEF Aside, RightKind, Placed

LEMMA LeavesKind ==
    ASSUME RightKind, NEW u \in Users, Leaves(u)
    PROVE  RightKind'
  BY DEF Leaves, Lessened, SameDownload, RightKind, Placed

LEMMA GetDownloadKind ==
    ASSUME IInv, RightKind, NEW u \in Users, GetDownload(u)
    PROVE  RightKind'
  <1> USE QueueAssumption, NullAssumption DEF IInv
  <1>1. PICK i, done, d :
            /\ i \in Queued /\ d \in Starts(i, done)
            /\ \/ dl' = [dl EXCEPT ![u] = d]
               \/ \E v \in fileQueue[i].downloads : dl' = Marked(d, u, v, TRUE)
            /\ fileQueue' = [fileQueue EXCEPT ![i].done = done, ![i].downloads = @ \cup {u}]
            /\ dl[u] = NoDownload
    BY DEF GetDownload, NextFor
  <1>2. /\ d.path = fileQueue[i].target /\ d.root = fileQueue[i].root
        /\ d.type = "list" <=> ~IsFile(i)
    BY <1>1 DEF Starts
  <1>3. \A v \in Users : dl'[v] # NoDownload =>
            IF v = u THEN dl'[v] = d ELSE dl[v] # NoDownload /\ SameDownload(dl'[v], dl[v])
    <2>1. CASE dl' = [dl EXCEPT ![u] = d]
      BY <2>1 DEF TypeOK, SameDownload
    <2>2. ASSUME NEW v \in fileQueue[i].downloads, dl' = Marked(d, u, v, TRUE)
          PROVE  <1>3!:
      <3>1. v \in Users \ {u} /\ dl[v] # NoDownload /\ dl[v] \in Download
        BY <1>1 DEF RecordsAgree, TypeOK, QueueItem
      <3>2. dl' = [dl EXCEPT ![u] = d, ![v] = [dl[v] EXCEPT !.overlapped = TRUE]]
        BY <2>2, <3>1 DEF Marked, TypeOK
      <3>3. SameDownload([dl[v] EXCEPT !.overlapped = TRUE], dl[v])
        BY <3>1, MarkedDownload
      <3> QED
        BY <3>1, <3>2, <3>3 DEF TypeOK, SameDownload
    <2> QED
      BY <1>1, <2>1, <2>2
  <1>4. /\ Queued' = Queued
        /\ \A j \in Queued : /\ fileQueue'[j].target = fileQueue[j].target
                             /\ fileQueue'[j].root = fileQueue[j].root
    BY <1>1 DEF Queued, TypeOK, QueueItem
  <1>5. Placed(fileQueue[i].target, fileQueue[i].root)
    BY <1>1 DEF RightKind
  <1>6. d.type = "list" <=> d.path \notin Paths
    BY <1>2, <1>5, PlacedFile DEF IsFile
  <1> QED
    BY <1>2, <1>3, <1>4, <1>5, <1>6 DEF RightKind, SameDownload, Placed

LEMMA KindStep == IInv /\ RightKind /\ [Next]_vars => RightKind'
  <1> SUFFICES ASSUME IInv, RightKind, [Next]_vars PROVE RightKind'
    OBVIOUS
  <1>1. ASSUME NEW u \in Users, SetFile(u) \/ Receive(u) PROVE RightKind'
    <2>1. /\ dl[u] \in Download /\ UNCHANGED <<fileQueue, running>>
          /\ \/ dl' = [dl EXCEPT ![u].state = "running", ![u].overlapped = FALSE]
             \/ dl' = [dl EXCEPT ![u].pos = @ + dl[u].grain]
          /\ dl[u] # NoDownload
      BY <1>1 DEF SetFile, Receive, Has, IInv, TypeOK
    <2>2. /\ dl'[u].path = dl[u].path /\ dl'[u].root = dl[u].root /\ dl'[u].type = dl[u].type
          /\ \A v \in Users \ {u} : dl'[v] = dl[v]
      BY <2>1 DEF Download, IInv, TypeOK
    <2> QED
      BY <2>1, <2>2 DEF RightKind, Queued, Placed
  <1>2. ASSUME NEW u \in Users, Ending(u) PROVE RightKind'
    BY <1>2, EndingLeaves, LeavesKind
  <1> QED
    BY <1>1, <1>2, StepKinds, AsideKind, GetDownloadKind

LEMMA KindInvariant == Spec => []RightKind
  <1>1. Init => RightKind
    BY DEF Init, RightKind, Queued
  <1> QED
    BY <1>1, Invariance, KindStep, PTL DEF Spec

LEMMA OneFileKeepsPaths ==
    ASSUME \A p, q \in Placements : p[2] = q[2]
    PROVE  RightKind => PathsKeepTheirFile
  BY DEF RightKind, PathsKeepTheirFile, Placed, At

(***************************************************************************)
(* With one file, at any number of paths, the condition of DoneStaysReal   *)
(* always holds.                                                           *)
(***************************************************************************)
THEOREM OneFileIsReal ==
    ASSUME ~BadData, \A p, q \in Placements : p[2] = q[2]
    PROVE  Spec => []DoneIsReal /\ MovedFileIsWhole
  <1>1. RightKind => PathsKeepTheirFile
    BY OneFileKeepsPaths
  <1>2. Spec /\ []PathsKeepTheirFile => []DoneIsReal
    BY DoneStaysReal
  <1>3. Spec /\ []PathsKeepTheirFile => MovedFileIsWhole
    BY MovedIsAlwaysWhole
  <1> QED
    BY <1>1, <1>2, <1>3, KindInvariant, PTL

-----------------------------------------------------------------------------
(***************************************************************************)
(* The user queue as a cache of the file queue.                            *)
(***************************************************************************)
(* The user queue, one entry at a time. *)
InCache(p, u, i) ==
    /\ i \in Queued /\ ~Finished(i)
    /\ u \in fileQueue[i].sources /\ p = fileQueue[i].prio

Exactly ==
    \A p \in Priorities, u \in Users, i \in Items :
        <<p, u, i>> \in userQueue <=> InCache(p, u, i)

LEMMA CacheExactly == TypeOK => (CacheExact <=> Exactly /\ ~Crashed)
  <1> SUFFICES ASSUME TypeOK
               PROVE  userQueue = UNION {Entries(i) : i \in {j \in Queued : ~Finished(j)}} <=> Exactly
    BY DEF CacheExact
  <1> DEFINE cache == UNION {Entries(i) : i \in {j \in Queued : ~Finished(j)}}
  <1>1. \A i \in Queued : i \in Items /\ fileQueue[i].prio \in Priorities /\ fileQueue[i].sources \subseteq Users
    BY DEF TypeOK, QueueItem
  <1>2. cache \subseteq Priorities \X Users \X Items
    BY <1>1 DEF Entries, Entry
  <1>3. \A p \in Priorities, u \in Users, i \in Items : <<p, u, i>> \in cache <=> InCache(p, u, i)
    BY <1>1 DEF Entries, Entry, InCache
  <1>4. userQueue \subseteq Priorities \X Users \X Items
    BY DEF TypeOK
  <1> HIDE DEF cache
  <1>5. userQueue = cache <=> Exactly
    BY <1>2, <1>3, <1>4 DEF Exactly
  <1> QED
    BY <1>5 DEF cache

LEMMA CacheExactlyNext == TypeOK' => (CacheExact' <=> Exactly' /\ ~Crashed')
  BY CacheExactly, PTL

(***************************************************************************)
(* Whatever a user runs has an entry in the user queue, also when the item *)
(* has been freed; this is why an exact cache keeps getNext from following *)
(* a pointer to nothing.                                                   *)
(***************************************************************************)
Listed ==
    /\ \A i \in Queued : \A u \in fileQueue[i].downloads : Entry(i, u) \in userQueue
    /\ \A u \in Users : running[u] \notin Queued \cup {NoItem} =>
            \E p \in Priorities : <<p, u, running[u]>> \in userQueue

(* A file list has no blocks, and no source but its owner. *)
ListsAlone ==
    \A i \in Queued : ~IsFile(i) =>
        fileQueue[i].done = {} /\ fileQueue[i].sources \subseteq {fileQueue[i].target}

CacheInv == IInv /\ RightKind /\ Listed /\ ListsAlone

CacheGood == Listed' /\ ListsAlone' /\ (CacheExact => CacheExact')

(* With an exact cache, an entry is of a queued item that is not complete, and lists one of its sources. *)
LEMMA ExactEntry ==
    ASSUME TypeOK, CacheExact, NEW p, NEW u, NEW i, <<p, u, i>> \in userQueue
    PROVE  InCache(p, u, i) /\ Entry(i, u) = <<p, u, i>>
  <1>1. p \in Priorities /\ u \in Users /\ i \in Items
    BY DEF TypeOK
  <1> QED
    BY <1>1, CacheExactly DEF Exactly, InCache, Entry

(* Nothing is missing from it. *)
LEMMA ExactEntries ==
    ASSUME TypeOK, CacheExact, NEW i \in Queued, ~Finished(i)
    PROVE  Entries(i) \subseteq userQueue /\ Missing(Entries(i)) = {}
  BY DEF CacheExact, Missing

LEMMA AddItemCache ==
    ASSUME CacheInv, IInv', NEW t, NEW r, NEW p \in Priorities, NEW u \in Users,
           r = ListRoot => t = u, AddItem(t, r, p, u)
    PROVE  CacheGood
  <1> USE QueueAssumption DEF CacheInv, IInv
  <1>1. PICK i \in Items :
            /\ Unused(i)
            /\ fileQueue' = [j \in Queued \cup {i} |->
                                IF j = i
                                THEN [target |-> t, root |-> r, prio |-> p, sources |-> {u},
                                      badSources |-> {}, done |-> {}, downloads |-> {}]
                                ELSE fileQueue[j]]
            /\ userQueue' = userQueue \cup {<<p, u, i>>}
            /\ UNCHANGED <<running, dl, trees, temp, failed>>
    BY DEF AddItem
  <1>2. Queued' = Queued \cup {i} /\ i \notin Queued
    BY <1>1 DEF Queued, Unused
  <1>3. Listed'
    BY <1>1, <1>2 DEF Listed, Unused, Entry
  <1>4. ListsAlone'
    BY <1>1, <1>2 DEF ListsAlone, IsFile
  <1>5. ASSUME CacheExact PROVE CacheExact'
    <2>1. Exactly /\ ~Crashed
      BY <1>5, CacheExactly
    <2>2. ~Finished(i)'
      BY <1>1, <1>2 DEF Finished, Complete
    <2>3. \A j \in Queued : fileQueue'[j] = fileQueue[j] /\ (Finished(j)' <=> Finished(j))
      BY <1>1, <1>2 DEF Finished
    <2>4. ASSUME NEW q \in Priorities, NEW v \in Users, NEW j \in Items
          PROVE  <<q, v, j>> \in userQueue' <=> InCache(q, v, j)'
      <3>1. CASE j = i
        <4>1. <<q, v, i>> \notin userQueue
          BY <1>1 DEF Unused
        <4>2. fileQueue'[i].prio = p /\ fileQueue'[i].sources = {u}
          BY <1>1
        <4> QED
          BY <1>1, <1>2, <2>2, <3>1, <4>1, <4>2 DEF InCache
      <3>2. CASE j # i
        <4>1. <<q, v, j>> \in userQueue' <=> <<q, v, j>> \in userQueue
          BY <1>1, <3>2
        <4> QED
          BY <1>2, <2>1, <2>3, <3>2, <4>1 DEF InCache, Exactly
      <3> QED
        BY <3>1, <3>2
    <2> QED
      BY <1>1, <2>1, <2>4, CacheExactlyNext DEF Exactly, Crashed
  <1> QED
    BY <1>3, <1>4, <1>5 DEF CacheGood

LEMMA AddSourceCache ==
    ASSUME CacheInv, IInv', NEW i \in Queued, NEW u \in Users, AddSource(i, u)
    PROVE  CacheGood
  <1> USE QueueAssumption DEF CacheInv, IInv
  <1>1. /\ IsFile(i) /\ u \notin fileQueue[i].sources
        /\ fileQueue' = [fileQueue EXCEPT ![i].sources = @ \cup {u}, ![i].badSources = @ \ {u}]
        /\ userQueue' = IF Finished(i) THEN userQueue ELSE userQueue \cup {Entry(i, u)}
        /\ UNCHANGED <<running, dl, trees, temp, failed>>
    BY DEF AddSource
  <1>2. Queued' = Queued /\ fileQueue[i] \in QueueItem
    BY <1>1 DEF Queued, TypeOK
  <1>3. /\ fileQueue'[i].sources = fileQueue[i].sources \cup {u}
        /\ fileQueue'[i].prio = fileQueue[i].prio
        /\ fileQueue'[i].done = fileQueue[i].done /\ fileQueue'[i].root = fileQueue[i].root
        /\ fileQueue'[i].downloads = fileQueue[i].downloads
        /\ \A j \in Queued \ {i} : fileQueue'[j] = fileQueue[j]
    BY <1>1, <1>2 DEF TypeOK, QueueItem
  <1>4. Listed'
    <2>1. userQueue \subseteq userQueue'
      BY <1>1
    <2>2. \A j \in Queued : /\ fileQueue'[j].downloads = fileQueue[j].downloads
                            /\ fileQueue'[j].prio = fileQueue[j].prio
      BY <1>3
    <2> QED
      BY <1>1, <1>2, <2>1, <2>2 DEF Listed, Entry
  <1>5. ListsAlone'
    BY <1>1, <1>2, <1>3 DEF ListsAlone, IsFile
  <1>6. ASSUME CacheExact PROVE CacheExact'
    <2>1. Exactly /\ ~Crashed
      BY <1>6, CacheExactly
    <2>2. \A j \in Queued : Finished(j)' <=> Finished(j)
      BY <1>3 DEF Finished
    <2>3. ASSUME NEW q \in Priorities, NEW v \in Users, NEW j \in Items
          PROVE  <<q, v, j>> \in userQueue' <=> InCache(q, v, j)'
      <3>1. <<q, v, j>> \in userQueue' <=>
                \/ <<q, v, j>> \in userQueue
                \/ ~Finished(i) /\ j = i /\ v = u /\ q = fileQueue[i].prio
        BY <1>1 DEF Entry
      <3> QED
        BY <1>2, <1>3, <2>1, <2>2, <3>1 DEF InCache, Exactly
    <2> QED
      BY <1>1, <2>1, <2>3, CacheExactlyNext DEF Exactly, Crashed
  <1> QED
    BY <1>4, <1>5, <1>6 DEF CacheGood

(* What leaves the user queue with an item, and what stays. *)
LEMMA LeaveListed ==
    ASSUME IInv, NEW i \in Queued, LeaveUserQueue(i),
           NEW q, NEW v, NEW j, <<q, v, j>> \in userQueue, j # i
    PROVE  <<q, v, j>> \in userQueue'
  BY DEF LeaveUserQueue, Entries, Entry

(* When the only item that goes, or is complete, is one whose entries leave, the cache stays exact. *)
LEMMA LeaveExact ==
    ASSUME IInv, IInv', CacheExact, NEW i \in Queued, ~Finished(i), LeaveUserQueue(i),
           \/ Queued' = Queued \ {i}
           \/ Queued' = Queued /\ Finished(i)',
           \A j \in Queued \ {i} : fileQueue'[j] = fileQueue[j]
    PROVE  CacheExact'
  <1> USE DEF IInv
  <1>1. Exactly /\ ~Crashed
    BY CacheExactly
  <1>2. /\ userQueue' = userQueue \ Entries(i)
        /\ failed' = failed
    BY ExactEntries DEF LeaveUserQueue
  <1>3. \A j \in Queued \ {i} : Finished(j)' <=> Finished(j)
    BY DEF Finished
  <1>4. ASSUME NEW q \in Priorities, NEW v \in Users, NEW j \in Items
        PROVE  <<q, v, j>> \in userQueue' <=> InCache(q, v, j)'
    <2>1. CASE j = i
      <3>1. ~InCache(q, v, i)'
        BY DEF InCache
      <3>2. <<q, v, i>> \in userQueue => <<q, v, i>> \in Entries(i)
        BY ExactEntry DEF InCache, Entries, Entry
      <3> QED
        BY <1>2, <2>1, <3>1, <3>2
    <2>2. CASE j # i
      <3>1. <<q, v, j>> \in userQueue' <=> <<q, v, j>> \in userQueue
        BY <1>2, <2>2 DEF Entries, Entry
      <3>2. InCache(q, v, j)' <=> InCache(q, v, j)
        BY <1>3, <2>2 DEF InCache
      <3> QED
        BY <1>1, <3>1, <3>2 DEF Exactly
    <2> QED
      BY <2>1, <2>2
  <1> QED
    BY <1>1, <1>2, <1>4, CacheExactlyNext DEF Exactly, Crashed

LEMMA RemoveCache ==
    ASSUME CacheInv, IInv', NEW t \in Targets, Remove(t)
    PROVE  CacheGood
  <1> USE QueueAssumption DEF CacheInv, IInv
  <1>1. PICK i \in Queued :
            /\ IF Finished(i) THEN UNCHANGED <<userQueue, running, failed>> ELSE LeaveUserQueue(i)
            /\ fileQueue' = [j \in Queued \ {i} |-> fileQueue[j]]
    BY DEF Remove, At
  <1>2. Queued' = Queued \ {i} /\ \A j \in Queued \ {i} : fileQueue'[j] = fileQueue[j]
    BY <1>1 DEF Queued
  <1>3. ListsAlone'
    BY <1>2 DEF ListsAlone, IsFile
  <1>4. CASE Finished(i)
    <2>1. UNCHANGED <<userQueue, running, failed>>
      BY <1>1, <1>4
    <2>2. Listed'
      <3>1. \A j \in Queued' : \A v \in fileQueue'[j].downloads : Entry(j, v)' \in userQueue'
        BY <1>2, <2>1 DEF Listed, Entry
      <3>2. ASSUME NEW v \in Users, running[v] \notin Queued' \cup {NoItem}
            PROVE  \E p \in Priorities : <<p, v, running[v]>> \in userQueue
        <4>1. CASE running[v] = i
          <5>1. Entry(i, v) \in userQueue /\ fileQueue[i].prio \in Priorities
            BY <4>1 DEF Listed, RecordsAgree, TypeOK, QueueItem
          <5> QED
            BY <4>1, <5>1 DEF Entry
        <4>2. CASE running[v] # i
          BY <1>2, <3>2, <4>2 DEF Listed
        <4> QED
          BY <4>1, <4>2
      <3> QED
        BY <2>1, <3>1, <3>2 DEF Listed
    <2>3. ASSUME CacheExact PROVE CacheExact'
      <3>1. Exactly /\ ~Crashed
        BY <2>3, CacheExactly
      <3>2. \A j \in Queued \ {i} : Finished(j)' <=> Finished(j)
        BY <1>2 DEF Finished
      <3>3. \A q \in Priorities, v \in Users, j \in Items : InCache(q, v, j)' <=> InCache(q, v, j)
        BY <1>2, <1>4, <3>2 DEF InCache
      <3> QED
        BY <2>1, <3>1, <3>3, CacheExactlyNext DEF Exactly, Crashed
    <2> QED
      BY <1>3, <2>2, <2>3 DEF CacheGood
  <1>5. CASE ~Finished(i)
    <2>1. LeaveUserQueue(i)
      BY <1>1, <1>5
    <2>2. \A v \in Users : running'[v] = IF running[v] = i THEN NoItem ELSE running[v]
      BY <2>1, LeaveUserQueueRunning
    <2>3. Listed'
      BY <1>2, <2>1, <2>2, LeaveListed DEF Listed, Entry
    <2>4. CacheExact => CacheExact'
      BY <1>2, <1>5, <2>1, LeaveExact
    <2> QED
      BY <1>3, <2>3, <2>4 DEF CacheGood
  <1> QED
    BY <1>4, <1>5

LEMMA RemoveSourceCache ==
    ASSUME CacheInv, IInv', NEW t \in Paths, NEW u \in Users, RemoveSource(t, u)
    PROVE  CacheGood
  <1> USE QueueAssumption DEF CacheInv, IInv
  <1>1. PICK i \in Queued :
            /\ u \in fileQueue[i].sources
            /\ fileQueue' = [fileQueue EXCEPT ![i] = WithoutSource(i, u)]
            /\ running' = [running EXCEPT ![u] = IF @ = i THEN NoItem ELSE @]
            /\ IF Finished(i) THEN UNCHANGED <<userQueue, failed>>
               ELSE /\ userQueue' = userQueue \ {Entry(i, u)}
                    /\ failed' = failed \cup Missing({Entry(i, u)})
    BY DEF RemoveSource, At
  <1>2. Queued' = Queued /\ fileQueue[i] \in QueueItem
    BY <1>1 DEF Queued, TypeOK
  <1>3. /\ LostSource(fileQueue'[i], i, u) /\ fileQueue'[i].prio = fileQueue[i].prio
        /\ fileQueue'[i].done = fileQueue[i].done
        /\ \A j \in Queued \ {i} : fileQueue'[j] = fileQueue[j]
    <2>1. fileQueue'[i] = WithoutSource(i, u) /\ \A j \in Queued \ {i} : fileQueue'[j] = fileQueue[j]
      BY <1>1 DEF TypeOK
    <2>2. WithoutSource(i, u).prio = fileQueue[i].prio /\ WithoutSource(i, u).done = fileQueue[i].done
      BY <1>2 DEF WithoutSource, QueueItem
    <2> QED
      BY <2>1, <2>2, WithoutSourceType
  <1>4. \A v \in Users : running'[v] = IF v = u /\ running[u] = i THEN NoItem ELSE running[v]
    BY <1>1 DEF TypeOK
  <1>5. /\ userQueue' \subseteq userQueue
        /\ \A e \in userQueue : e # Entry(i, u) => e \in userQueue'
    BY <1>1
  <1>6. u \notin fileQueue'[i].downloads
    <2>1. u \in fileQueue[i].downloads <=> running[u] = i
      BY DEF RecordsAgree
    <2> QED
      BY <1>3, <2>1 DEF LostSource
  <1>7. Listed'
    <2>1. ASSUME NEW j \in Queued, NEW v \in fileQueue'[j].downloads
          PROVE  Entry(j, v)' \in userQueue'
      <3>1. v \in fileQueue[j].downloads /\ fileQueue'[j].prio = fileQueue[j].prio
        BY <1>3 DEF LostSource
      <3>2. Entry(j, v) \in userQueue /\ Entry(j, v)' = Entry(j, v)
        BY <3>1 DEF Listed, Entry
      <3>3. Entry(j, v) # Entry(i, u)
        BY <1>6 DEF Entry
      <3> QED
        BY <1>5, <3>2, <3>3
    <2>2. ASSUME NEW v \in Users, running'[v] \notin Queued \cup {NoItem}
          PROVE  \E p \in Priorities : <<p, v, running'[v]>> \in userQueue'
      <3>1. running'[v] = running[v] /\ running[v] # i
        BY <1>4, <2>2
      <3>2. PICK p \in Priorities : <<p, v, running[v]>> \in userQueue
        BY <2>2, <3>1 DEF Listed
      <3> QED
        BY <1>5, <3>1, <3>2 DEF Entry
    <2> QED
      BY <1>2, <2>1, <2>2 DEF Listed
  <1>8. ListsAlone'
    BY <1>2, <1>3 DEF ListsAlone, IsFile, LostSource
  <1>9. ASSUME CacheExact PROVE CacheExact'
    <2>1. Exactly /\ ~Crashed
      BY <1>9, CacheExactly
    <2>2. \A j \in Queued : Finished(j)' <=> Finished(j)
      BY <1>3 DEF Finished
    <2>3. failed' = failed
      BY <1>1, <1>9, ExactEntries DEF Missing, Entries
    <2>4. ASSUME NEW q \in Priorities, NEW v \in Users, NEW j \in Items
          PROVE  <<q, v, j>> \in userQueue' <=> InCache(q, v, j)'
      <3>1. CASE j = i /\ v = u
        <4>1. ~InCache(q, v, j)'
          BY <1>3, <3>1 DEF InCache, LostSource
        <4>2. <<q, v, j>> \notin userQueue'
          <5>1. CASE Finished(i)
            BY <1>5, <2>1, <3>1, <5>1 DEF Exactly, InCache
          <5>2. CASE ~Finished(i)
            <6>1. <<q, v, j>> \in userQueue => <<q, v, j>> = Entry(i, u)
              BY <2>1, <3>1 DEF Exactly, InCache, Entry
            <6> QED
              BY <1>1, <5>2, <6>1
          <5> QED
            BY <5>1, <5>2
        <4> QED
          BY <4>1, <4>2
      <3>2. CASE ~(j = i /\ v = u)
        <4>1. <<q, v, j>> \in userQueue' <=> <<q, v, j>> \in userQueue
          BY <1>5, <3>2 DEF Entry
        <4>2. InCache(q, v, j)' <=> InCache(q, v, j)
          BY <1>2, <1>3, <2>2, <3>2 DEF InCache, LostSource
        <4> QED
          BY <2>1, <4>1, <4>2 DEF Exactly
      <3> QED
        BY <3>1, <3>2
    <2> QED
      BY <2>1, <2>3, <2>4, CacheExactlyNext DEF Exactly, Crashed
  <1> QED
    BY <1>7, <1>8, <1>9 DEF CacheGood

LEMMA SetPriorityCache ==
    ASSUME CacheInv, IInv', NEW t \in Targets, NEW p \in Priorities, SetPriority(t, p)
    PROVE  CacheGood
  <1> USE QueueAssumption DEF CacheInv, IInv
  <1>1. PICK i \in Queued :
            /\ ~Finished(i)
            /\ fileQueue' = [fileQueue EXCEPT ![i].prio = p]
            /\ userQueue' = (userQueue \ Entries(i)) \cup {<<p, u, i>> : u \in fileQueue[i].sources}
            /\ failed' = failed \cup Missing(Entries(i))
            /\ UNCHANGED <<running, dl, trees, temp>>
    BY DEF SetPriority, At
  <1>2. Queued' = Queued /\ fileQueue[i] \in QueueItem
    BY <1>1 DEF Queued, TypeOK
  <1>3. /\ fileQueue'[i].sources = fileQueue[i].sources
        /\ fileQueue'[i].prio = p /\ fileQueue'[i].target = fileQueue[i].target
        /\ fileQueue'[i].done = fileQueue[i].done /\ fileQueue'[i].root = fileQueue[i].root
        /\ fileQueue'[i].downloads = fileQueue[i].downloads
        /\ \A j \in Queued \ {i} : fileQueue'[j] = fileQueue[j]
    BY <1>1, <1>2 DEF TypeOK, QueueItem
  <1>4. \A q, v, j : j # i => (<<q, v, j>> \in userQueue' <=> <<q, v, j>> \in userQueue)
    BY <1>1 DEF Entries, Entry
  <1>5. Listed'
    <2>1. ASSUME NEW j \in Queued, NEW v \in fileQueue'[j].downloads
          PROVE  Entry(j, v)' \in userQueue'
      <3>1. CASE j = i
        <4>1. v \in fileQueue[i].sources
          BY <1>3, <3>1 DEF RecordsAgree
        <4> QED
          BY <1>1, <1>3, <3>1, <4>1 DEF Entry
      <3>2. CASE j # i
        BY <1>3, <1>4, <3>2 DEF Listed, Entry
      <3> QED
        BY <3>1, <3>2
    <2>2. ASSUME NEW v \in Users, running[v] \notin Queued \cup {NoItem}
          PROVE  \E q \in Priorities : <<q, v, running[v]>> \in userQueue'
      BY <1>4, <2>2 DEF Listed
    <2> QED
      BY <1>1, <1>2, <2>1, <2>2 DEF Listed
  <1>6. ListsAlone'
    BY <1>2, <1>3 DEF ListsAlone, IsFile
  <1>7. ASSUME CacheExact PROVE CacheExact'
    <2>1. Exactly /\ ~Crashed
      BY <1>7, CacheExactly
    <2>2. \A j \in Queued : Finished(j)' <=> Finished(j)
      BY <1>3 DEF Finished
    <2>3. failed' = failed
      BY <1>1, <1>7, ExactEntries
    <2>4. ASSUME NEW q \in Priorities, NEW v \in Users, NEW j \in Items
          PROVE  <<q, v, j>> \in userQueue' <=> InCache(q, v, j)'
      <3>1. CASE j = i
        <4>1. <<q, v, i>> \in userQueue => <<q, v, i>> \in Entries(i)
          BY <1>7, ExactEntry DEF InCache, Entries, Entry
        <4>2. <<q, v, i>> \in userQueue' <=> q = p /\ v \in fileQueue[i].sources
          BY <1>1, <4>1
        <4> QED
          BY <1>1, <1>2, <1>3, <2>2, <3>1, <4>2 DEF InCache
      <3>2. CASE j # i
        BY <1>2, <1>3, <1>4, <2>1, <2>2, <3>2 DEF InCache, Exactly
      <3> QED
        BY <3>1, <3>2
    <2> QED
      BY <2>1, <2>3, <2>4, CacheExactlyNext DEF Exactly, Crashed
  <1> QED
    BY <1>5, <1>6, <1>7 DEF CacheGood

LEMMA RemoveUserCache ==
    ASSUME CacheInv, IInv', NEW u \in Users, RemoveUser(u)
    PROVE  CacheGood
  <1> USE QueueAssumption DEF CacheInv, IInv
  <1> DEFINE drop == {i \in Queued : Suitable(i) /\ \E p \in Priorities : <<p, u, i>> \in userQueue}
                        \cup ({running[u]} \ {NoItem})
             lists == {i \in drop : ~IsFile(i)}
             gone == {Entry(i, u) : i \in drop}
  <1>1. /\ drop \subseteq Queued
        /\ running[u] \in Queued => running[u] \in drop
        /\ fileQueue' = [i \in Queued \ lists |->
                            IF i \in drop THEN WithoutSource(i, u) ELSE fileQueue[i]]
        /\ userQueue' = userQueue \ gone
        /\ running' = [running EXCEPT ![u] = NoItem]
        /\ failed' = failed \cup Missing(gone)
    BY DEF RemoveUser, TypeOK
  <1>2. Queued' = Queued \ lists
    BY <1>1 DEF Queued
  <1>3. \A i \in drop : u \in fileQueue[i].sources
    <2> SUFFICES ASSUME NEW i \in drop PROVE u \in fileQueue[i].sources
      OBVIOUS
    <2>1. CASE running[u] = i
      BY <1>1, <2>1 DEF RecordsAgree
    <2>2. CASE running[u] # i
      <3>1. PICK p \in Priorities : <<p, u, i>> \in userQueue
        BY <2>2
      <3>2. ~Dangling(u)
        BY DEF RemoveUser
      <3> QED
        BY <1>1, <3>1, <3>2 DEF Dangling
    <2> QED
      BY <2>1, <2>2
  <1>4. \A i \in lists : fileQueue[i].sources = {u}
    BY <1>1, <1>3 DEF ListsAlone
  <1>5. \A i \in drop : InCache(fileQueue[i].prio, u, i) \/ ~CacheExact
    <2> SUFFICES ASSUME NEW i \in drop, CacheExact PROVE InCache(fileQueue[i].prio, u, i)
      OBVIOUS
    <2>1. CASE running[u] = i
      <3>1. Entry(i, u) \in userQueue
        BY <1>1, <2>1 DEF RecordsAgree, Listed
      <3> QED
        BY <3>1, ExactEntry DEF Entry
    <2>2. CASE running[u] # i
      <3>1. PICK p \in Priorities : <<p, u, i>> \in userQueue
        BY <2>2
      <3> QED
        BY <3>1, ExactEntry DEF InCache
    <2> QED
      BY <2>1, <2>2
  <1>6. lists \subseteq drop /\ \A i \in Queued : i \in lists <=> i \in drop /\ ~IsFile(i)
    OBVIOUS
  <1>7. \A q, v, j : <<q, v, j>> \in gone <=> j \in drop /\ v = u /\ q = fileQueue[j].prio
    BY DEF Entry
  <1> HIDE DEF drop, lists, gone
  <1>8. \A i \in Queued \ lists :
            /\ fileQueue'[i].prio = fileQueue[i].prio
            /\ fileQueue'[i].done = fileQueue[i].done
            /\ IF i \in drop THEN LostSource(fileQueue'[i], i, u) ELSE fileQueue'[i] = fileQueue[i]
    <2> TAKE i \in Queued \ lists
    <2>1. fileQueue'[i] = IF i \in drop THEN WithoutSource(i, u) ELSE fileQueue[i]
      BY <1>1
    <2>2. fileQueue[i] \in QueueItem
      BY DEF TypeOK
    <2>3. WithoutSource(i, u).prio = fileQueue[i].prio /\ WithoutSource(i, u).done = fileQueue[i].done
      BY <2>2 DEF WithoutSource, QueueItem
    <2> QED
      BY <2>1, <2>3, WithoutSourceType
  <1>9. \A v \in Users : running'[v] = IF v = u THEN NoItem ELSE running[v]
    BY <1>1 DEF TypeOK
  <1>10. Listed'
    <2>1. ASSUME NEW j \in Queued \ lists, NEW v \in fileQueue'[j].downloads
          PROVE  Entry(j, v)' \in userQueue'
      <3>1. v \in Users /\ running'[v] = j
        BY <1>2, <2>1 DEF RecordsAgree, TypeOK, QueueItem
      <3>2. v # u /\ running[v] = j /\ j \in Queued
        BY <1>9, <3>1 DEF TypeOK
      <3>3. Entry(j, v) \in userQueue
        BY <3>1, <3>2 DEF RecordsAgree, Listed
      <3>4. Entry(j, v)' = Entry(j, v)
        BY <1>8 DEF Entry
      <3> QED
        BY <1>1, <1>7, <3>2, <3>3, <3>4 DEF Entry
    <2>2. ASSUME NEW v \in Users, running'[v] \notin Queued' \cup {NoItem}
          PROVE  \E p \in Priorities : <<p, v, running'[v]>> \in userQueue'
      <3>1. v # u /\ running'[v] = running[v]
        BY <1>9, <2>2
      <3>2. running[v] \notin lists
        <4>1. ASSUME running[v] \in lists PROVE v \in fileQueue[running[v]].sources
          BY <1>1, <1>6, <4>1 DEF RecordsAgree
        <4> QED
          BY <1>4, <3>1, <4>1
      <3>3. PICK p \in Priorities : <<p, v, running[v]>> \in userQueue
        BY <1>2, <2>2, <3>1, <3>2 DEF Listed
      <3> QED
        BY <1>1, <1>7, <3>1, <3>3
    <2> QED
      BY <1>2, <2>1, <2>2 DEF Listed
  <1>11. ListsAlone'
    BY <1>2, <1>8 DEF ListsAlone, IsFile, LostSource
  <1>12. ASSUME CacheExact PROVE CacheExact'
    <2>1. Exactly /\ ~Crashed
      BY <1>12, CacheExactly
    <2>2. \A j \in Queued \ lists : Finished(j)' <=> Finished(j)
      BY <1>8 DEF Finished
    <2>3. failed' = failed
      <3>1. \A i \in drop : Entry(i, u) \in userQueue
        <4> TAKE i \in drop
        <4>1. InCache(fileQueue[i].prio, u, i) /\ i \in Items /\ fileQueue[i].prio \in Priorities
          BY <1>1, <1>5, <1>12 DEF TypeOK, QueueItem
        <4> QED
          BY <2>1, <4>1 DEF Exactly, Entry
      <3>2. gone \subseteq userQueue
        BY <3>1 DEF gone
      <3> QED
        BY <1>1, <3>2 DEF Missing
    <2>4. ASSUME NEW q \in Priorities, NEW v \in Users, NEW j \in Items
          PROVE  <<q, v, j>> \in userQueue' <=> InCache(q, v, j)'
      <3>1. <<q, v, j>> \in userQueue' <=>
                <<q, v, j>> \in userQueue /\ ~(j \in drop /\ v = u /\ q = fileQueue[j].prio)
        BY <1>1, <1>7
      <3>2. CASE j \in lists
        <4>1. ~InCache(q, v, j)'
          BY <1>2, <3>2 DEF InCache
        <4>2. InCache(q, v, j) => j \in drop /\ v = u /\ q = fileQueue[j].prio
          BY <1>4, <1>6, <3>2 DEF InCache
        <4> QED
          BY <2>1, <3>1, <4>1, <4>2 DEF Exactly
      <3>3. CASE j \notin lists
        <4>1. InCache(q, v, j)' <=> InCache(q, v, j) /\ ~(j \in drop /\ v = u)
          BY <1>2, <1>8, <2>2, <3>3 DEF InCache, LostSource
        <4>2. InCache(q, v, j) => q = fileQueue[j].prio
          BY DEF InCache
        <4> QED
          BY <2>1, <3>1, <4>1, <4>2 DEF Exactly
      <3> QED
        BY <3>2, <3>3
    <2> QED
      BY <2>1, <2>3, <2>4, CacheExactlyNext DEF Exactly, Crashed
  <1> QED
    BY <1>10, <1>11, <1>12 DEF CacheGood

(***************************************************************************)
(* A step that leaves the user queue, the sources and the priorities       *)
(* alone, and lets nobody run an item that has no entry for him, keeps the *)
(* cache exact unless some item becomes complete, or incomplete again.     *)
(***************************************************************************)
LEMMA SameCache ==
    ASSUME CacheInv, IInv', UNCHANGED userQueue, Queued' = Queued,
           \A j \in Queued :
                /\ fileQueue'[j].root = fileQueue[j].root
                /\ fileQueue'[j].sources = fileQueue[j].sources
                /\ fileQueue'[j].prio = fileQueue[j].prio
                /\ \/ IsFile(j)
                   \/ /\ fileQueue'[j].target = fileQueue[j].target
                      /\ fileQueue'[j].done = fileQueue[j].done
                /\ \A v \in fileQueue'[j].downloads : Entry(j, v) \in userQueue,
           \A v \in Users : running'[v] = running[v] \/ running'[v] \in Queued \cup {NoItem}
    PROVE  /\ Listed' /\ ListsAlone'
           /\ CacheExact /\ (Crashed' => Crashed) /\ (\A j \in Queued : Finished(j)' <=> Finished(j))
                => CacheExact'
  <1> USE DEF CacheInv, IInv
  <1>1. Listed'
    <2>1. \A j \in Queued : \A v \in fileQueue'[j].downloads : Entry(j, v)' \in userQueue
      BY DEF Entry
    <2>2. ASSUME NEW v \in Users, running'[v] \notin Queued \cup {NoItem}
          PROVE  \E p \in Priorities : <<p, v, running'[v]>> \in userQueue
      BY <2>2 DEF Listed
    <2> QED
      BY <2>1, <2>2 DEF Listed
  <1>2. ListsAlone'
    BY DEF ListsAlone, IsFile
  <1>3. ASSUME CacheExact, Crashed' => Crashed, \A j \in Queued : Finished(j)' <=> Finished(j)
        PROVE  CacheExact'
    <2>1. Exactly /\ ~Crashed
      BY <1>3, CacheExactly
    <2>2. \A q \in Priorities, v \in Users, j \in Items : InCache(q, v, j)' <=> InCache(q, v, j)
      BY <1>3 DEF InCache
    <2> QED
      BY <1>3, <2>1, <2>2, CacheExactlyNext DEF Exactly
  <1> QED
    BY <1>1, <1>2, <1>3

(* Steps that do not touch the items at all. *)
LEMMA ItemsSameCache ==
    ASSUME CacheInv, IInv', UNCHANGED <<fileQueue, userQueue, running>>
    PROVE  Listed' /\ ListsAlone' /\ (CacheExact /\ UNCHANGED failed => CacheExact')
  <1> USE DEF CacheInv, IInv
  <1>1. Queued' = Queued
    BY DEF Queued
  <1>2. \A j \in Queued : \A v \in fileQueue[j].downloads : Entry(j, v) \in userQueue
    BY DEF Listed
  <1>3. \A j \in Queued : Finished(j)' <=> Finished(j)
    BY DEF Finished
  <1>4. UNCHANGED failed => (Crashed' => Crashed)
    BY DEF Crashed
  <1> QED
    BY <1>1, <1>2, <1>3, <1>4, SameCache

LEMMA MoveCache ==
    ASSUME CacheInv, IInv', NEW s \in Paths, NEW t \in Paths, Move(s, t)
    PROVE  CacheGood
  <1> USE DEF CacheInv, IInv
  <1>1. PICK i \in Queued :
            /\ IsFile(i)
            /\ fileQueue' = [fileQueue EXCEPT ![i].target = t]
            /\ UNCHANGED <<userQueue, running, dl, trees, temp, failed>>
    BY DEF Move, At
  <1>2. Queued' = Queued /\ fileQueue[i] \in QueueItem
    BY <1>1 DEF Queued, TypeOK
  <1>3. \A j \in Queued : /\ fileQueue'[j].root = fileQueue[j].root
                          /\ fileQueue'[j].sources = fileQueue[j].sources
                          /\ fileQueue'[j].prio = fileQueue[j].prio
                          /\ fileQueue'[j].done = fileQueue[j].done
                          /\ fileQueue'[j].downloads = fileQueue[j].downloads
                          /\ IsFile(j) \/ fileQueue'[j].target = fileQueue[j].target
    BY <1>1, <1>2 DEF TypeOK, QueueItem
  <1>4. \A j \in Queued : \A v \in fileQueue'[j].downloads : Entry(j, v) \in userQueue
    BY <1>3 DEF Listed
  <1>5. (\A j \in Queued : Finished(j)' <=> Finished(j)) /\ (Crashed' => Crashed)
    BY <1>1, <1>3 DEF Finished, Crashed
  <1> QED
    BY <1>1, <1>2, <1>3, <1>4, <1>5, SameCache DEF CacheGood

(* With an exact cache there is no dangling pointer to follow. *)
LEMMA FollowDanglingCache ==
    ASSUME CacheInv, IInv', NEW u \in Users, FollowDangling(u)
    PROVE  CacheGood
  <1> USE DEF CacheInv, IInv
  <1>1. Dangling(u) /\ UNCHANGED <<fileQueue, userQueue, running>>
    BY DEF FollowDangling
  <1>2. ASSUME CacheExact PROVE FALSE
    <2>1. CASE running[u] \notin Queued \cup {NoItem}
      <3>1. PICK p \in Priorities : <<p, u, running[u]>> \in userQueue
        BY <2>1 DEF Listed
      <3> QED
        BY <1>2, <2>1, <3>1, ExactEntry DEF InCache
    <2>2. ASSUME NEW e \in userQueue, e[2] = u, e[3] \in Queued => u \notin fileQueue[e[3]].sources
          PROVE  FALSE
      <3>1. e = <<e[1], u, e[3]>>
        BY <2>2 DEF TypeOK
      <3>2. InCache(e[1], u, e[3])
        BY <1>2, <3>1, ExactEntry
      <3> QED
        BY <2>2, <3>2 DEF InCache
    <2> QED
      BY <1>1, <2>1, <2>2 DEF Dangling
  <1> QED
    BY <1>1, <1>2, ItemsSameCache DEF CacheGood

(* A second Download is the last step, and leaves the user queue as it is. *)
LEMMA GetSecondCache ==
    ASSUME CacheInv, IInv', NEW u \in Users, GetSecond(u)
    PROVE  CacheGood
  <1>1. UNCHANGED <<fileQueue, userQueue, running>>
    BY DEF GetSecond
  <1>2. Crashed' => Crashed
    BY DEF GetSecond, AlreadyRunning, Crashed
  <1>3. (\A j \in Queued : Finished(j)' <=> Finished(j)) /\ Queued' = Queued
    BY <1>1 DEF Finished, Queued
  <1>4. CacheExact => CacheExact'
    BY <1>1, <1>2, <1>3 DEF CacheExact, Entries, Entry
  <1> QED
    BY <1>1, <1>4, ItemsSameCache DEF CacheGood

(* getDownload starts what the user queue offers, and may find that the blocks of the file are gone. *)
LEMMA GetDownloadCache ==
    ASSUME CacheInv, IInv', NEW u \in Users, GetDownload(u)
    PROVE  CacheGood
  <1> USE QueueAssumption DEF CacheInv, IInv
  <1>1. PICK i, done :
            /\ i \in Queued /\ Entry(i, u) \in userQueue
            /\ done = fileQueue[i].done \/ (done = {} /\ IsFile(i))
            /\ fileQueue' = [fileQueue EXCEPT ![i].done = done, ![i].downloads = @ \cup {u}]
            /\ running' = [running EXCEPT ![u] = i]
            /\ UNCHANGED <<userQueue, trees, temp, failed>>
    BY GetDownloadAsserts DEF GetDownload, NextFor
  <1>2. /\ Queued' = Queued
        /\ fileQueue'[i] = [fileQueue[i] EXCEPT !.done = done, !.downloads = fileQueue[i].downloads \cup {u}]
        /\ \A j \in Queued \ {i} : fileQueue'[j] = fileQueue[j]
    BY <1>1 DEF Queued, TypeOK
  <1>3. fileQueue[i] \in QueueItem
    BY <1>1 DEF TypeOK
  <1>4. /\ fileQueue'[i].target = fileQueue[i].target /\ fileQueue'[i].root = fileQueue[i].root
        /\ fileQueue'[i].sources = fileQueue[i].sources /\ fileQueue'[i].prio = fileQueue[i].prio
        /\ fileQueue'[i].done = done /\ fileQueue'[i].downloads = fileQueue[i].downloads \cup {u}
    BY <1>2, <1>3 DEF QueueItem
  <1>5. \A j \in Queued : \A v \in fileQueue'[j].downloads : Entry(j, v) \in userQueue
    <2>1. \A v \in fileQueue[i].downloads \cup {u} : Entry(i, v) \in userQueue
      BY <1>1 DEF Listed
    <2>2. \A j \in Queued \ {i} : \A v \in fileQueue[j].downloads : Entry(j, v) \in userQueue
      BY DEF Listed
    <2> QED
      BY <1>2, <1>4, <2>1, <2>2
  <1>6. \A v \in Users : running'[v] = running[v] \/ running'[v] \in Queued \cup {NoItem}
    BY <1>1 DEF TypeOK
  <1>7. \A j \in Queued : /\ fileQueue'[j].root = fileQueue[j].root
                          /\ fileQueue'[j].sources = fileQueue[j].sources
                          /\ fileQueue'[j].prio = fileQueue[j].prio
                          /\ \/ IsFile(j)
                             \/ /\ fileQueue'[j].target = fileQueue[j].target
                                /\ fileQueue'[j].done = fileQueue[j].done
    BY <1>1, <1>2, <1>4
  <1>8. ASSUME CacheExact PROVE \A j \in Queued : Finished(j)' <=> Finished(j)
    <2>1. ~Finished(i)
      BY <1>1, <1>8, ExactEntry DEF Entry, InCache
    <2>2. ~Finished(i)'
      BY <1>1, <1>4, <2>1 DEF Finished, Complete
    <2>3. \A j \in Queued \ {i} : Finished(j)' <=> Finished(j)
      BY <1>2 DEF Finished
    <2> QED
      BY <2>1, <2>2, <2>3
  <1>9. Crashed' => Crashed
    BY <1>1 DEF Crashed
  <1> QED
    BY <1>1, <1>2, <1>5, <1>6, <1>7, <1>8, <1>9, SameCache DEF CacheGood

-----------------------------------------------------------------------------
(* Ending a Download, when the user queue does not change. *)
LEMMA LeavesCache ==
    ASSUME CacheInv, IInv', NEW u \in Users, Leaves(u), UNCHANGED userQueue, Queued' = Queued,
           \A j \in Queued : IsFile(j) \/ fileQueue'[j].done = fileQueue[j].done
    PROVE  /\ Listed' /\ ListsAlone'
           /\ CacheExact /\ (Crashed' => Crashed) /\ (\A j \in Queued : Finished(j)' <=> Finished(j))
                => CacheExact'
  <1>1. \A j \in Queued : /\ fileQueue'[j].root = fileQueue[j].root
                          /\ fileQueue'[j].target = fileQueue[j].target
                          /\ fileQueue'[j].sources = fileQueue[j].sources
                          /\ fileQueue'[j].prio = fileQueue[j].prio
                          /\ fileQueue'[j].downloads \subseteq fileQueue[j].downloads
    BY DEF Leaves, Lessened
  <1>2. \A j \in Queued : \A v \in fileQueue'[j].downloads : Entry(j, v) \in userQueue
    BY <1>1 DEF CacheInv, Listed
  <1>3. \A v \in Users : running'[v] = running[v] \/ running'[v] \in Queued \cup {NoItem}
    BY DEF Leaves
  <1> QED
    BY <1>1, <1>2, <1>3, SameCache

(* What a Download of a file is credited to is a file. *)
LEMMA CreditedFile ==
    ASSUME RightKind, NEW u \in Users, dl[u] # NoDownload, NEW i \in At(dl[u].path)
    PROVE  dl[u].type = "list" <=> ~IsFile(i)
  <1>1. i \in Queued /\ fileQueue[i].target = dl[u].path /\ Placed(fileQueue[i].target, fileQueue[i].root)
    BY DEF At, RightKind
  <1>2. dl[u].type = "list" <=> dl[u].path \notin Paths
    BY DEF RightKind
  <1> QED
    BY <1>1, <1>2, PlacedFile DEF IsFile

LEMMA PutOrphanCache ==
    ASSUME CacheInv, IInv', NEW u \in Users, PutOrphan(u)
    PROVE  CacheGood
  BY ItemsSameCache DEF PutOrphan, CacheGood

LEMMA FinishTreeCache ==
    ASSUME CacheInv, IInv', NEW u \in Users, FinishTree(u)
    PROVE  CacheGood
  <1>1. Leaves(u)
    BY EndingLeaves DEF Ending, CacheInv
  <1>2. PICK i \in Queued :
            /\ fileQueue' = [fileQueue EXCEPT ![i].downloads = @ \ {u}]
            /\ UNCHANGED <<userQueue, failed>>
    BY DEF FinishTree, At
  <1>3. /\ Queued' = Queued
        /\ \A j \in Queued : fileQueue'[j].done = fileQueue[j].done
    BY <1>2 DEF Queued, TypeOK, QueueItem, CacheInv, IInv
  <1>4. (\A j \in Queued : Finished(j)' <=> Finished(j)) /\ (Crashed' => Crashed)
    BY <1>2, <1>3 DEF Finished, Crashed
  <1> QED
    BY <1>1, <1>2, <1>3, <1>4, LeavesCache DEF CacheGood

(***************************************************************************)
(* An item that leaves the user queue, with everything that is running of  *)
(* it, whether or not it also leaves the queue.                            *)
(***************************************************************************)
LEMMA LeaveCache ==
    ASSUME CacheInv, IInv', NEW i \in Queued, LeaveUserQueue(i),
           \/ Queued' = Queued \ {i}
           \/ Queued' = Queued /\ IsFile(i)',
           \A j \in Queued \ {i} : fileQueue'[j] = fileQueue[j]
    PROVE  Listed' /\ ListsAlone'
  <1> USE DEF CacheInv, IInv
  <1>1. \A v \in Users : running'[v] = IF running[v] = i THEN NoItem ELSE running[v]
    BY LeaveUserQueueRunning
  <1>2. ASSUME NEW j \in Queued', NEW v \in fileQueue'[j].downloads
        PROVE  Entry(j, v)' \in userQueue'
    <2>1. v \in Users /\ running'[v] = j /\ j # NoItem
      BY QueueAssumption DEF RecordsAgree, TypeOK, QueueItem
    <2>2. j # i /\ j \in Queued
      BY <1>1, <2>1
    <2>3. Entry(j, v) \in userQueue /\ Entry(j, v)' = Entry(j, v)
      BY <2>2 DEF Listed, Entry
    <2> QED
      BY <2>2, <2>3, LeaveListed DEF Entry
  <1>3. ASSUME NEW v \in Users, running'[v] \notin Queued' \cup {NoItem}
        PROVE  \E p \in Priorities : <<p, v, running'[v]>> \in userQueue'
    <2>1. running'[v] = running[v] /\ running[v] # i
      BY <1>1, <1>3
    <2>2. PICK p \in Priorities : <<p, v, running[v]>> \in userQueue
      BY <1>3, <2>1 DEF Listed
    <2> QED
      BY <2>1, <2>2, LeaveListed
  <1>4. ListsAlone'
    BY DEF ListsAlone, IsFile
  <1> QED
    BY <1>2, <1>3, <1>4 DEF Listed

LEMMA FinishListCache ==
    ASSUME CacheInv, IInv', NEW u \in Users, FinishList(u)
    PROVE  CacheGood
  <1>1. PICK i \in At(dl[u].path) :
            /\ LeaveUserQueue(i)
            /\ fileQueue' = [j \in Queued \ {i} |-> fileQueue[j]]
    BY DEF FinishList
  <1>2. i \in Queued /\ Queued' = Queued \ {i} /\ \A j \in Queued \ {i} : fileQueue'[j] = fileQueue[j]
    BY <1>1 DEF Queued, At
  <1>3. ~IsFile(i)
    BY CreditedFile DEF FinishList, Has, CacheInv
  <1>4. ~Finished(i)
    BY <1>2, <1>3 DEF CacheInv, ListsAlone, Finished, Complete
  <1> QED
    BY <1>1, <1>2, <1>4, LeaveCache, LeaveExact DEF CacheGood, CacheInv

(* The last segment: the item is complete, and leaves the user queue; any other: it is not. *)
LEMMA FinishSegmentCache ==
    ASSUME CacheInv, IInv', NEW u \in Users, FinishSegment(u)
    PROVE  Listed' /\ ListsAlone' /\ (CacheExact => CacheExact' \/ LateCredit(u))
  <1> USE DEF CacheInv, IInv
  <1> DEFINE done(i) == AddSegment(fileQueue[i].done, dl[u].segment)
             mine(i) == {v \in fileQueue[i].downloads :
                            running[v] = i /\ v \in fileQueue[i].sources}
  <1>1. dl[u] # NoDownload /\ dl[u].type = "file"
    BY DEF FinishSegment, Has
  <1>2. PICK i \in At(dl[u].path) :
            \/ /\ ~Complete(done(i), Blocks)
               /\ fileQueue' = [fileQueue EXCEPT ![i].done = done(i), ![i].downloads = @ \ {u}]
               /\ UNCHANGED <<userQueue, temp, failed>>
            \/ /\ Complete(done(i), Blocks)
               /\ LeaveUserQueue(i)
               /\ fileQueue' = IF KeepFinishedFiles
                               THEN [fileQueue EXCEPT ![i].done = done(i), ![i].downloads = @ \ mine(i)]
                               ELSE [j \in Queued \ {i} |-> fileQueue[j]]
    BY DEF FinishSegment
  <1> HIDE DEF done, mine
  <1>3. i \in Queued /\ IsFile(i) /\ fileQueue[i] \in QueueItem
    BY <1>1, <1>2, CreditedFile DEF At, TypeOK
  <1>4. Finished(i) => LateCredit(u)
    BY <1>1 DEF LateCredit
  <1>5. CASE ~Complete(done(i), Blocks)
    <2>1. /\ Queued' = Queued
          /\ fileQueue'[i] = [fileQueue[i] EXCEPT !.done = done(i), !.downloads = fileQueue[i].downloads \ {u}]
          /\ \A j \in Queued \ {i} : fileQueue'[j] = fileQueue[j]
          /\ UNCHANGED <<userQueue, failed>>
      BY <1>2, <1>3, <1>5 DEF Queued, TypeOK
    <2>2. fileQueue'[i].done = done(i)
      BY <1>3, <2>1, ItemKept
    <2>3. ~Finished(i)' /\ \A j \in Queued \ {i} : Finished(j)' <=> Finished(j)
      BY <1>5, <2>1, <2>2 DEF Finished
    <2>4. Leaves(u)
      BY EndingLeaves DEF Ending
    <2>5. Crashed' => Crashed
      BY <2>1 DEF Crashed
    <2>6. \A j \in Queued : IsFile(j) \/ fileQueue'[j].done = fileQueue[j].done
      BY <1>3, <2>1
    <2> QED
      BY <1>4, <2>1, <2>3, <2>4, <2>5, <2>6, LeavesCache
  <1>6. CASE Complete(done(i), Blocks)
    <2>1. /\ LeaveUserQueue(i)
          /\ \A j \in Queued \ {i} : fileQueue'[j] = fileQueue[j]
          /\ \/ Queued' = Queued \ {i}
             \/ Queued' = Queued /\ IsFile(i)' /\ Finished(i)'
      <3>1. LeaveUserQueue(i)
        BY <1>2, <1>6
      <3>2. CASE KeepFinishedFiles
        <4>1. fileQueue' = [fileQueue EXCEPT ![i].done = done(i), ![i].downloads = @ \ mine(i)]
          BY <1>2, <1>6, <3>2
        <4>2. /\ Queued' = Queued
              /\ fileQueue'[i] = [fileQueue[i] EXCEPT !.done = done(i),
                                        !.downloads = fileQueue[i].downloads \ mine(i)]
              /\ \A j \in Queued \ {i} : fileQueue'[j] = fileQueue[j]
          BY <1>3, <4>1 DEF Queued, TypeOK
        <4>3. fileQueue'[i].done = done(i) /\ fileQueue'[i].root = fileQueue[i].root
          BY <1>3, <4>2, ItemKept
        <4> QED
          BY <1>3, <1>6, <3>1, <4>2, <4>3 DEF Finished, IsFile
      <3>3. CASE ~KeepFinishedFiles
        <4>1. fileQueue' = [j \in Queued \ {i} |-> fileQueue[j]]
          BY <1>2, <1>6, <3>3
        <4> QED
          BY <3>1, <4>1 DEF Queued
      <3> QED
        BY <3>2, <3>3
    <2>2. Listed' /\ ListsAlone'
      BY <1>3, <2>1, LeaveCache
    <2>3. CacheExact /\ ~Finished(i) => CacheExact'
      BY <1>3, <2>1, LeaveExact
    <2> QED
      BY <1>4, <2>2, <2>3
  <1> QED
    BY <1>5, <1>6

(* Any other end: the item was complete, or is now, or the user queue does not have to change. *)
LEMMA PutUnfinishedCache ==
    ASSUME CacheInv, IInv', NEW u \in Users, dl[u] # NoDownload, NEW pos, PutUnfinished(u, pos)
    PROVE  /\ Listed' /\ ListsAlone'
           /\ \/ CacheExact => CacheExact'
              \/ \E i \in At(dl[u].path) : i \in Queued' /\ (Finished(i) \/ Finished(i)')
  <1> USE DEF CacheInv, IInv
  <1> DEFINE got == <<Begin(dl[u].segment), Begin(dl[u].segment) + pos>>
             partial == dl[u].type = "file" /\ pos > 0
             done(i) == IF partial THEN AddSegment(fileQueue[i].done, got) ELSE fileQueue[i].done
  <1>1. PICK i \in At(dl[u].path) :
            /\ fileQueue' = [fileQueue EXCEPT ![i].done = IF partial THEN AddSegment(@, got) ELSE @,
                                              ![i].downloads = @ \ {u}]
            /\ failed' = failed \/ failed' = failed \cup {"putDownload"}
            /\ UNCHANGED userQueue
    BY DEF PutUnfinished
  <1>2. /\ i \in Queued /\ Queued' = Queued
        /\ fileQueue'[i] = [fileQueue[i] EXCEPT !.done = done(i), !.downloads = fileQueue[i].downloads \ {u}]
        /\ \A j \in Queued \ {i} : fileQueue'[j] = fileQueue[j]
    BY <1>1 DEF At, Queued, TypeOK
  <1>3. IsFile(i) \/ done(i) = fileQueue[i].done
    BY <1>1, CreditedFile
  <1> HIDE DEF done, partial, got
  <1>4. fileQueue[i] \in QueueItem
    BY <1>2 DEF TypeOK
  <1>5. fileQueue'[i].done = done(i)
    BY <1>2, <1>4, ItemKept
  <1>6. \A j \in Queued : IsFile(j) \/ fileQueue'[j].done = fileQueue[j].done
    BY <1>2, <1>3, <1>5
  <1>7. \A j \in Queued \ {i} : Finished(j)' <=> Finished(j)
    BY <1>2 DEF Finished
  <1>8. Crashed' => Crashed
    BY <1>1 DEF Crashed
  <1>9. Leaves(u)
    BY PutUnfinishedLeaves
  <1> QED
    BY <1>1, <1>2, <1>6, <1>7, <1>8, <1>9, LeavesCache

LEMMA UnfinishedCache ==
    ASSUME CacheInv, IInv', NEW u \in Users, FailDownload(u) \/ BadBlock(u)
    PROVE  Listed' /\ ListsAlone' /\ (CacheExact => CacheExact' \/ LateCredit(u))
  <1>1. PICK pos : dl[u] # NoDownload /\ PutUnfinished(u, pos)
    BY DEF FailDownload, BadBlock, Has
  <1> QED
    BY <1>1, PutUnfinishedCache DEF LateCredit

-----------------------------------------------------------------------------
LEMMA UserStepCache == CacheInv /\ UserStep /\ IInv' => CacheGood
  <1> SUFFICES ASSUME CacheInv, UserStep, IInv' PROVE CacheGood
    OBVIOUS
  <1>1. ASSUME NEW t \in Paths, NEW r \in Roots, NEW u \in Users, AddToItem(t, r, u)
        PROVE  CacheGood
    BY <1>1, AddSourceCache DEF AddToItem, At, WithRoot
  <1>2. ASSUME NEW t \in Paths, NEW u \in Users, Readd(t, u)
        PROVE  CacheGood
    BY <1>2, AddSourceCache DEF Readd, At
  <1>3. ASSUME NEW t \in Paths, NEW r \in Roots, NEW u \in Users, NEW p \in Priorities,
               AddFile(t, r, p, u)
        PROVE  CacheGood
    <2>1. r \in Roots /\ AddItem(t, r, p, u)
      BY <1>3 DEF AddFile
    <2> QED
      BY <2>1, AddItemCache, QueueAssumption
  <1>4. ASSUME NEW u \in Users, AddList(u)
        PROVE  CacheGood
    <2>1. LastPriority \in Priorities /\ AddItem(u, ListRoot, LastPriority, u)
      BY <1>4, QueueAssumption DEF AddList, Priorities
    <2> QED
      BY <2>1, AddItemCache
  <1>5. ASSUME NEW r \in Roots, TempVanishes(r)
        PROVE  CacheGood
    BY <1>5, ItemsSameCache DEF TempVanishes, CacheGood
  <1> QED
    BY <1>1, <1>2, <1>3, <1>4, <1>5, RemoveCache, RemoveSourceCache, RemoveUserCache,
       SetPriorityCache, MoveCache DEF UserStep

LEMMA CacheStep ==
    ASSUME CacheInv, [Next]_vars
    PROVE  /\ Listed' /\ ListsAlone'
           /\ CacheExact => CacheExact' \/ \E u \in Users : LateCredit(u)
  <1>1. IInv'
    BY NextIInv DEF CacheInv
  <1>2. ASSUME NEW r \in Roots, NEW u \in Users, SearchResult(r, u)
        PROVE  CacheGood
    BY <1>1, <1>2, AddSourceCache DEF SearchResult, WithRoot
  <1>3. ASSUME NEW u \in Users, SetFile(u) \/ Receive(u)
        PROVE  CacheGood
    BY <1>1, <1>3, ItemsSameCache DEF SetFile, Receive, CacheGood
  <1>4. ASSUME UNCHANGED vars
        PROVE  CacheGood
    BY <1>1, <1>4, ItemsSameCache DEF vars, CacheGood
  <1> QED
    BY <1>1, <1>2, <1>3, <1>4, UserStepCache, GetDownloadCache, GetSecondCache, FollowDanglingCache, FinishTreeCache,
       FinishListCache, FinishSegmentCache, UnfinishedCache, PutOrphanCache
       DEF Next, SocketStep, CacheGood

LEMMA CacheInvariant == Spec => []CacheInv
  <1>1. Init => Listed /\ ListsAlone
    BY DEF Init, Listed, ListsAlone, Queued
  <1>2. IInv /\ RightKind /\ Listed /\ ListsAlone /\ [Next]_vars => Listed' /\ ListsAlone'
    BY CacheStep DEF CacheInv
  <1>3. IInv /\ RightKind /\ Listed /\ ListsAlone => CacheInv
    BY DEF CacheInv
  <1> QED
    BY <1>1, <1>2, <1>3, Invariance, KindInvariant, PTL DEF Spec

(***************************************************************************)
(* CacheKept: whatever the user, the searches and the socket threads do,   *)
(* the user queue stays the exact cache of the file queue that getNext     *)
(* takes it for, until a download is credited to an item that is complete  *)
(* already, or completes one without having its whole segment.             *)
(***************************************************************************)
THEOREM CacheStaysKept == Spec => CacheKept
  <1>1. CacheInv /\ [Next]_vars => [CacheExact => CacheExact' \/ \E u \in Users : LateCredit(u)]_vars
    BY CacheStep
  <1> QED
    BY <1>1, CacheInvariant, PTL DEF Spec, CacheKept

-----------------------------------------------------------------------------
(***************************************************************************)
(* Files of one block, whose items are not kept when they are complete:    *)
(* no download can be late, so the cache is always exact.                  *)
(***************************************************************************)
NoneFinished == \A i \in Queued : ~Finished(i)

(* Only a file that is being received has a position. *)
PosRunning == \A u \in Users : dl[u] # NoDownload /\ dl[u].pos # 0 => Has(u, "file", {"running"})

LEMMA GetDownloadPos ==
    ASSUME IInv, PosRunning, NEW u \in Users, GetDownload(u)
    PROVE  PosRunning'
  <1> USE NullAssumption DEF IInv
  <1>1. PICK i, done, d :
            /\ i \in Queued /\ d \in Starts(i, done)
            /\ \/ dl' = [dl EXCEPT ![u] = d]
               \/ \E v \in fileQueue[i].downloads : dl' = Marked(d, u, v, TRUE)
            /\ dl[u] = NoDownload
    BY DEF GetDownload, NextFor
  <1>2. d.pos = 0
    BY <1>1 DEF Starts
  <1>3. dl'[u] = d /\ \A v \in Users \ {u} : \/ dl'[v] = dl[v]
                                             \/ dl[v] # NoDownload /\ SameDownload(dl'[v], dl[v])
    <2>1. CASE dl' = [dl EXCEPT ![u] = d]
      BY <2>1 DEF TypeOK
    <2>2. ASSUME NEW v \in fileQueue[i].downloads, dl' = Marked(d, u, v, TRUE)
          PROVE  <1>3!:
      <3>1. v \in Users \ {u} /\ dl[v] # NoDownload /\ dl[v] \in Download
        BY <1>1 DEF RecordsAgree, TypeOK, QueueItem
      <3>2. dl' = [dl EXCEPT ![u] = d, ![v] = [dl[v] EXCEPT !.overlapped = TRUE]]
        BY <2>2, <3>1 DEF Marked, TypeOK
      <3>3. SameDownload([dl[v] EXCEPT !.overlapped = TRUE], dl[v])
        BY <3>1, MarkedDownload
      <3> QED
        BY <3>1, <3>2, <3>3 DEF TypeOK
    <2> QED
      BY <1>1, <2>1, <2>2
  <1> QED
    BY <1>2, <1>3 DEF PosRunning, SameDownload, Has

LEMMA PosStep == IInv /\ PosRunning /\ [Next]_vars => PosRunning'
  <1> SUFFICES ASSUME IInv, PosRunning, [Next]_vars PROVE PosRunning'
    OBVIOUS
  <1>1. ASSUME Aside PROVE PosRunning'
    BY <1>1 DEF Aside, PosRunning, Has
  <1>2. ASSUME NEW u \in Users, SetFile(u) PROVE PosRunning'
    <2>1. /\ dl[u] # NoDownload /\ dl[u].state = "snd" /\ dl[u] \in Download
          /\ dl' = [dl EXCEPT ![u].state = "running", ![u].overlapped = FALSE]
      BY <1>2 DEF SetFile, IInv, TypeOK
    <2>2. dl[u].pos = 0
      BY <2>1 DEF PosRunning, Has
    <2>3. dl'[u].pos = 0 /\ \A v \in Users \ {u} : dl'[v] = dl[v]
      BY <2>1, <2>2 DEF IInv, TypeOK, Download
    <2> QED
      BY <2>3 DEF PosRunning, Has
  <1>3. ASSUME NEW u \in Users, Receive(u) PROVE PosRunning'
    <2>1. /\ Has(u, "file", {"running"}) /\ dl[u] # NoDownload /\ dl[u] \in Download
          /\ dl' = [dl EXCEPT ![u].pos = @ + dl[u].grain]
      BY <1>3 DEF Receive, Has, IInv, TypeOK
    <2>2. /\ dl'[u].type = dl[u].type /\ dl'[u].state = dl[u].state
          /\ \A v \in Users \ {u} : dl'[v] = dl[v]
      BY <2>1 DEF IInv, TypeOK, Download
    <2>3. dl'[u] # NoDownload => Has(u, "file", {"running"})'
      BY <2>1, <2>2 DEF Has
    <2> QED
      BY <2>2, <2>3 DEF PosRunning, Has
  <1>4. ASSUME NEW u \in Users, Ending(u) PROVE PosRunning'
    <2>1. Leaves(u)
      BY <1>4, EndingLeaves
    <2> QED
      BY <2>1 DEF Leaves, SameDownload, PosRunning, Has
  <1> QED
    BY <1>1, <1>2, <1>3, <1>4, StepKinds, GetDownloadPos

(* A download of a file of one block ends with the block, or with nothing. *)
LEMMA OneBlockPut ==
    ASSUME Blocks = 1, IInv, PosRunning, NEW u \in Users, FailDownload(u) \/ BadBlock(u)
    PROVE  dl[u] # NoDownload /\ \E pos : PutUnfinished(u, pos) /\ (dl[u].type = "file" => pos = 0)
  <1>1. dl[u] # NoDownload /\ dl[u] \in Download
    BY DEF FailDownload, BadBlock, Has, IInv, TypeOK
  <1>2. dl[u].segment \in {NoSegment, <<0, 1>>} /\ dl[u].pos \in {0, 1} /\ dl[u].grain = 1
    BY <1>1 DEF IInv, DownloadsSound, InBounds, Download
  <1>3. CASE FailDownload(u)
    <2>1. dl[u].type = "file" => dl[u].pos = 0
      BY <1>1, <1>2, <1>3 DEF FailDownload, PosRunning, Has, Length, NoSegment
    <2> QED
      BY <1>1, <1>3, <2>1 DEF FailDownload
  <1>4. CASE BadBlock(u)
    <2>1. Begin(dl[u].segment) - (Begin(dl[u].segment) % dl[u].grain) = 0
      BY <1>2 DEF Begin, NoSegment
    <2> QED
      BY <1>1, <1>4, <2>1 DEF BadBlock
  <1> QED
    BY <1>3, <1>4

(* So it never completes an item, and the whole block removes it. *)
LEMMA OneBlockDone ==
    ASSUME Blocks = 1, ~KeepFinishedFiles, IInv, PosRunning, NoneFinished, NEW u \in Users, Ending(u)
    PROVE  NoneFinished'
  <1> USE DEF IInv
  <1> SUFFICES ASSUME ~NoneFinished' PROVE FALSE
    OBVIOUS
  <1>1. ASSUME Queued' \subseteq Queued, \A j \in Queued' : fileQueue'[j].done = fileQueue[j].done
        PROVE  NoneFinished'
    BY <1>1 DEF NoneFinished, Finished
  <1>2. CASE PutOrphan(u)
    BY <1>1, <1>2 DEF PutOrphan, Queued
  <1>3. CASE FinishTree(u)
    <2>1. PICK i \in Queued : fileQueue' = [fileQueue EXCEPT ![i].downloads = @ \ {u}]
      BY <1>3 DEF FinishTree, At
    <2> QED
      BY <1>1, <2>1 DEF Queued, TypeOK, QueueItem
  <1>4. CASE FinishList(u)
    <2>1. PICK i \in Queued : fileQueue' = [j \in Queued \ {i} |-> fileQueue[j]]
      BY <1>4 DEF FinishList, At
    <2> QED
      BY <1>1, <2>1 DEF Queued
  <1>5. CASE FinishSegment(u)
    <2> DEFINE done(i) == AddSegment(fileQueue[i].done, dl[u].segment)
    <2>1. PICK i \in Queued :
            \/ /\ ~Complete(done(i), Blocks)
               /\ fileQueue' = [fileQueue EXCEPT ![i].done = done(i), ![i].downloads = @ \ {u}]
            \/ fileQueue' = [j \in Queued \ {i} |-> fileQueue[j]]
      BY <1>5 DEF FinishSegment, At
    <2> HIDE DEF done
    <2>2. CASE fileQueue' = [j \in Queued \ {i} |-> fileQueue[j]]
      BY <1>1, <2>2 DEF Queued
    <2>3. CASE /\ ~Complete(done(i), Blocks)
               /\ fileQueue' = [fileQueue EXCEPT ![i].done = done(i), ![i].downloads = @ \ {u}]
      <3>1. /\ Queued' = Queued /\ fileQueue[i] \in QueueItem
            /\ fileQueue'[i] = [fileQueue[i] EXCEPT !.done = done(i), !.downloads = fileQueue[i].downloads \ {u}]
            /\ \A j \in Queued \ {i} : fileQueue'[j] = fileQueue[j]
        BY <2>3 DEF Queued, TypeOK
      <3>2. fileQueue'[i].done = done(i)
        BY <3>1, ItemKept
      <3> QED
        BY <2>3, <3>1, <3>2 DEF NoneFinished, Finished
    <2> QED
      BY <2>1, <2>2, <2>3
  <1>6. CASE FailDownload(u) \/ BadBlock(u)
    <2>1. PICK pos : PutUnfinished(u, pos) /\ (dl[u].type = "file" => pos = 0)
      BY <1>6, OneBlockPut
    <2> DEFINE got == <<Begin(dl[u].segment), Begin(dl[u].segment) + pos>>
               partial == dl[u].type = "file" /\ pos > 0
    <2>2. PICK i \in Queued :
            fileQueue' = [fileQueue EXCEPT ![i].done = IF partial THEN AddSegment(@, got) ELSE @,
                                           ![i].downloads = @ \ {u}]
      BY <2>1 DEF PutUnfinished, At
    <2>3. ~partial
      BY <2>1
    <2> HIDE DEF partial, got
    <2>4. /\ Queued' = Queued /\ fileQueue[i] \in QueueItem
          /\ fileQueue'[i] = [fileQueue[i] EXCEPT !.done = fileQueue[i].done,
                                                 !.downloads = fileQueue[i].downloads \ {u}]
          /\ \A j \in Queued \ {i} : fileQueue'[j] = fileQueue[j]
      BY <2>2, <2>3 DEF Queued, TypeOK
    <2>5. fileQueue'[i].done = fileQueue[i].done
      BY <2>4, ItemKept
    <2> QED
      BY <1>1, <2>4, <2>5
  <1> QED
    BY <1>2, <1>3, <1>4, <1>5, <1>6 DEF Ending

LEMMA OneBlockStep ==
    ASSUME Blocks = 1, ~KeepFinishedFiles
    PROVE  IInv /\ PosRunning /\ NoneFinished /\ [Next]_vars => NoneFinished'
  <1> SUFFICES ASSUME IInv, PosRunning, NoneFinished, [Next]_vars PROVE NoneFinished'
    OBVIOUS
  <1>1. ASSUME Aside PROVE NoneFinished'
    BY <1>1 DEF Aside, NoneFinished, Finished, Complete
  <1>2. ASSUME NEW u \in Users, GetDownload(u) PROVE NoneFinished'
    <2>1. PICK i, done :
            /\ i \in Queued /\ done \in {fileQueue[i].done, {}}
            /\ fileQueue' = [fileQueue EXCEPT ![i].done = done, ![i].downloads = @ \cup {u}]
      BY <1>2 DEF GetDownload, NextFor
    <2>2. /\ Queued' = Queued /\ fileQueue[i] \in QueueItem
          /\ fileQueue'[i] = [fileQueue[i] EXCEPT !.done = done, !.downloads = fileQueue[i].downloads \cup {u}]
          /\ \A j \in Queued \ {i} : fileQueue'[j] = fileQueue[j]
      BY <2>1 DEF Queued, IInv, TypeOK
    <2>3. fileQueue'[i].done = done
      BY <2>2, ItemKept
    <2> QED
      BY <2>1, <2>2, <2>3 DEF NoneFinished, Finished, Complete
  <1>3. ASSUME NEW u \in Users, SetFile(u) \/ Receive(u) PROVE NoneFinished'
    BY <1>3 DEF SetFile, Receive, NoneFinished, Finished, Queued
  <1> QED
    BY <1>1, <1>2, <1>3, StepKinds, OneBlockDone

(* With nothing complete, and no download that completes anything but by its whole segment, none is late. *)
LEMMA OneBlockNotLate ==
    ASSUME Blocks = 1, ~KeepFinishedFiles
    PROVE  IInv /\ PosRunning /\ NoneFinished /\ [Next]_vars => ~\E u \in Users : LateCredit(u)
  BY OneBlockStep DEF NoneFinished, LateCredit, At

(***************************************************************************)
(* CacheExact, for files of one block that leave the queue when they are   *)
(* complete: the user queue and the file queue always agree, and neither   *)
(* UserQueue::remove nor getNext ever misses an entry.                     *)
(***************************************************************************)
THEOREM OneBlockCacheExact ==
    ASSUME Blocks = 1, ~KeepFinishedFiles
    PROVE  Spec => []CacheExact
  <1>1. Init => CacheExact /\ PosRunning /\ NoneFinished
    BY DEF Init, CacheExact, Crashed, PosRunning, NoneFinished, Queued
  <1>2. IInv /\ PosRunning /\ NoneFinished /\ [Next]_vars => NoneFinished'
    BY OneBlockStep
  <1>3. CacheInv /\ PosRunning /\ NoneFinished /\ CacheExact /\ [Next]_vars => CacheExact'
    BY CacheStep, OneBlockNotLate DEF CacheInv
  <1> QED
    BY <1>1, <1>2, <1>3, PosStep, Invariance, CacheInvariant, PTL DEF Spec

-----------------------------------------------------------------------------
(***************************************************************************)
(* QueueManager implements DownloadQueue. For its promise that a new piece *)
(* is lost only where it meets what was there already, the segments must   *)
(* lie apart, and an empty one at an end of the file: one in between would *)
(* cut off what is merged around it.                                       *)
(***************************************************************************)
Proper(s) ==
    /\ Begin(s) <= End(s) /\ End(s) <= Blocks
    /\ Begin(s) = End(s) => End(s) \in {0, Blocks}

ApartIn(S) == \A s, t \in S : s # t => End(s) < Begin(t) \/ End(t) < Begin(s)

ProperInv ==
    BadData \/ /\ \A i \in Queued : /\ \A s \in fileQueue[i].done : Proper(s)
                                    /\ ApartIn(fileQueue[i].done)
               /\ \A u \in Users : dl[u] # NoDownload => Proper(dl[u].segment)

(* What addSegment makes of such segments. *)
LEMMA AddSegmentProper ==
    ASSUME NEW done \in SUBSET (Positions \X Positions), NEW seg \in Positions \X Positions,
           \A s \in done \cup {seg} : Proper(s)
    PROVE  /\ \A s \in AddSegment(done, seg) : Proper(s)
           /\ ApartIn(AddSegment(done, seg))
  <1> DEFINE S == done \cup {seg}
             Runs == {q \in S \X S : IsRun(S, q[1], q[2])}
  <1>1. 2 * Blocks \in Nat
    BY QueueAssumption
  <1>2. ApartIn(AddSegment(done, seg))
    BY <1>1, AddSegmentSeparates DEF ApartIn, Positions
  <1>3. ASSUME NEW d \in AddSegment(done, seg) PROVE Proper(d)
    <2>1. AddSegment(done, seg) = {<<Begin(q[1]), End(q[2])>> : q \in Runs}
      BY AddSegmentRuns
    <2>2. PICK q \in Runs : d = <<Begin(q[1]), End(q[2])>>
      <3> HIDE DEF Runs
      <3> QED
        BY <2>1
    <2>3. q[1] \in S /\ q[2] \in S /\ ~Before(q[2], q[1])
      BY DEF IsRun
    <2>4. Begin(d) = Begin(q[1]) /\ End(d) = End(q[2])
      BY <2>2 DEF Begin, End
    <2>5. Proper(q[1]) /\ Proper(q[2])
      BY <2>3
    <2>6. /\ Begin(q[1]) \in Nat /\ End(q[1]) \in Nat /\ Begin(q[2]) \in Nat /\ End(q[2]) \in Nat
          /\ Blocks \in Nat
      BY <1>1, <2>3, QueueAssumption DEF Positions, Begin, End
    <2>7. Begin(q[1]) <= Begin(q[2])
      BY <2>3, <2>6 DEF Before
    <2> HIDE DEF S, Runs
    <2> QED
      BY <2>4, <2>5, <2>6, <2>7 DEF Proper
  <1> QED
    BY <1>2, <1>3

LEMMA AddSegmentLossless ==
    ASSUME NEW done \in SUBSET (Positions \X Positions), NEW seg \in Positions \X Positions,
           \A s \in done \cup {seg} : Proper(s), ApartIn(done),
           BlocksOf(seg) \cap Covered(done) = {}
    PROVE  Covered(AddSegment(done, seg)) = Covered(done) \cup BlocksOf(seg)
  <1>1. 2 * Blocks \in Nat /\ Blocks \in Nat
    BY QueueAssumption
  <1>2. ASSUME NEW s \in done \cup {seg}, NEW t \in done \cup {seg},
               Begin(s) < Begin(t), End(t) < End(s)
        PROVE  FALSE
    <2>1. /\ Begin(s) \in Nat /\ End(s) \in Nat /\ Begin(t) \in Nat /\ End(t) \in Nat
      BY <1>1 DEF Positions, Begin, End
    <2>2. Proper(s) /\ Proper(t)
      OBVIOUS
    <2>3. CASE s \in done /\ t \in done
      <3>1. s = t \/ End(s) < Begin(t) \/ End(t) < Begin(s)
        BY <2>3 DEF ApartIn
      <3> QED
        BY <1>2, <2>1, <2>2, <3>1 DEF Proper
    <2>4. Begin(t) < End(t)
      BY <1>1, <1>2, <2>1, <2>2 DEF Proper
    <2>5. Begin(t) \in BlocksOf(s) /\ Begin(t) \in BlocksOf(t)
      BY <1>2, <2>1, <2>4 DEF BlocksOf
    <2>6. s # t
      BY <1>2, <2>1
    <2> QED
      BY <2>3, <2>5, <2>6 DEF Covered
  <1> QED
    BY <1>1, <1>2, AddSegmentKeeps DEF Positions

(* What getNextSegment gives out. *)
LEMMA FreeChunksProper ==
    ASSUME NEW i, NEW done \in SUBSET (Positions \X Positions),
           \A s \in done : Proper(s), ApartIn(done),
           NEW s \in FreeChunks(i, done, GrainOf(i))
    PROVE  Proper(s)
  <1> DEFINE grain == GrainOf(i)
  <1>1. Blocks \in Nat /\ Blocks > 0
    BY QueueAssumption
  <1>2. Proper(NoSegment) /\ Proper(<<0, Blocks>>)
    BY <1>1 DEF Proper, NoSegment, Begin, End
  <1>3. CASE ~MultiChunk /\ grain = Blocks
    <2>1. s \in {NoSegment, <<0, Blocks>>}
      BY <1>3 DEF FreeChunks, SingleWhole
    <2> QED
      BY <1>2, <2>1
  <1>4. CASE MultiChunk /\ grain = Blocks
    <2>1. s \in {NoSegment, <<0, Blocks>>}
      BY <1>4 DEF FreeChunks, WholeFile
    <2> QED
      BY <1>2, <2>1
  <1>5. CASE MultiChunk /\ grain # Blocks
    <2>1. PICK n \in 1 .. Blocks : s \in NextChunk(done, Busy(i), Blocks, n)
      BY <1>5 DEF FreeChunks
    <2>2. s = NoSegment \/ (s \in (0 .. Blocks) \X (0 .. Blocks) /\ Begin(s) < End(s))
      BY <2>1 DEF NextChunk
    <2> QED
      BY <1>1, <1>2, <2>2 DEF Proper, Begin, End
  <1>6. CASE ~MultiChunk /\ grain # Blocks
    <2> DEFINE firsts == {x \in done : ~\E y \in done : Before(y, x)}
               AtZero == {x \in firsts : Begin(x) = 0}
               UpTo(e) == IF e < Blocks THEN e ELSE Blocks
    <2>1. s \in SingleChunk(done, Blocks)
      BY <1>6 DEF FreeChunks
    <2>2. \/ s = <<0, Blocks>>
          \/ \E f \in firsts \ AtZero : s = <<0, UpTo(Begin(f))>>
          \/ \E f \in AtZero : s = <<End(f), Blocks>>
          \/ \E f \in AtZero, t \in done : Precedes(done, f, t) /\ s = <<End(f), UpTo(Begin(t))>>
      BY <2>1 DEF SingleChunk
    <2>3. \A x \in done : /\ Begin(x) \in Nat /\ End(x) \in Nat
                          /\ Begin(x) <= End(x) /\ End(x) <= Blocks
      BY <1>1 DEF Positions, Begin, End, Proper
    <2>4. ASSUME NEW f \in firsts \ AtZero, s = <<0, UpTo(Begin(f))>> PROVE Proper(s)
      <3>1. f \in done /\ Begin(f) # 0
        OBVIOUS
      <3>2. s[1] = 0 /\ s[2] \in Nat /\ s[2] <= Blocks /\ s[2] > 0
        BY <1>1, <2>3, <2>4, <3>1
      <3> QED
        BY <1>1, <3>2 DEF Proper, Begin, End
    <2>5. ASSUME NEW f \in AtZero, s = <<End(f), Blocks>> PROVE Proper(s)
      <3>1. f \in done
        OBVIOUS
      <3>2. s[1] = End(f) /\ s[2] = Blocks
        BY <2>5
      <3>3. End(f) \in Nat /\ End(f) <= Blocks
        BY <2>3, <3>1
      <3> QED
        BY <1>1, <3>2, <3>3 DEF Proper, Begin, End
    <2>6. ASSUME NEW f \in AtZero, NEW t \in done, Precedes(done, f, t), s = <<End(f), UpTo(Begin(t))>>
          PROVE  Proper(s)
      <3>1. f \in done /\ Begin(f) = 0 /\ Before(f, t)
        BY <2>6 DEF Precedes
      <3>2. f # t
        BY <2>3, <3>1 DEF Before
      <3>3. End(f) < Begin(t) \/ End(t) < Begin(f)
        BY <3>1, <3>2 DEF ApartIn
      <3>4. End(f) < Begin(t) /\ Begin(t) <= Blocks
        BY <1>1, <2>3, <3>1, <3>3
      <3>5. s[1] = End(f) /\ s[2] = Begin(t)
        BY <1>1, <2>3, <2>6, <3>4
      <3> QED
        BY <1>1, <2>3, <3>1, <3>4, <3>5 DEF Proper, Begin, End
    <2> HIDE DEF firsts, AtZero, UpTo
    <2> QED
      BY <1>2, <2>2, <2>4, <2>5, <2>6
  <1> QED
    BY <1>3, <1>4, <1>5, <1>6

-----------------------------------------------------------------------------
(***************************************************************************)
(* How a Download begins, and the ways in which one may end.               *)
(***************************************************************************)
OthersKept(u) ==
    \A v \in Users \ {u} : IF dl[v] = NoDownload THEN dl'[v] = NoDownload
                           ELSE dl'[v] # NoDownload /\ SameDownload(dl'[v], dl[v])

LEMMA GetDownloadStarts ==
    ASSUME IInv, NEW u \in Users, GetDownload(u)
    PROVE  \E i, done, d :
            /\ i \in Queued /\ d \in Starts(i, done) /\ Suitable(i)
            /\ done \in {fileQueue[i].done, {}}
            /\ dl[u] = NoDownload /\ dl'[u] = d /\ OthersKept(u)
            /\ d.overlap => \E v \in fileQueue[i].downloads : Contains(dl[v].segment, d.segment)
            /\ Queued' = Queued
            /\ fileQueue'[i] = [fileQueue[i] EXCEPT !.done = done,
                                                    !.downloads = fileQueue[i].downloads \cup {u}]
            /\ \A j \in Queued \ {i} : fileQueue'[j] = fileQueue[j]
  <1> USE NullAssumption DEF IInv
  <1>1. PICK i, done, d :
            /\ i \in Queued /\ d \in Starts(i, done) /\ Suitable(i)
            /\ done \in {fileQueue[i].done, {}}
            /\ dl[u] = NoDownload
            /\ \/ ~d.overlap /\ dl' = [dl EXCEPT ![u] = d]
               \/ \E v \in fileQueue[i].downloads :
                    Contains(dl[v].segment, d.segment) /\ dl' = Marked(d, u, v, TRUE)
            /\ fileQueue' = [fileQueue EXCEPT ![i].done = done, ![i].downloads = @ \cup {u}]
    BY DEF GetDownload, NextFor
  <1>2. d.overlap => \E v \in fileQueue[i].downloads : Contains(dl[v].segment, d.segment)
    BY <1>1
  <1>3. dl'[u] = d /\ OthersKept(u)
    <2>1. CASE dl' = [dl EXCEPT ![u] = d]
      BY <2>1 DEF TypeOK, OthersKept, SameDownload
    <2>2. ASSUME NEW v \in fileQueue[i].downloads, dl' = Marked(d, u, v, TRUE)
          PROVE  <1>3!:
      <3>1. v \in Users \ {u} /\ dl[v] # NoDownload /\ dl[v] \in Download
        BY <1>1 DEF RecordsAgree, TypeOK, QueueItem
      <3>2. dl' = [dl EXCEPT ![u] = d, ![v] = [dl[v] EXCEPT !.overlapped = TRUE]]
        BY <2>2, <3>1 DEF Marked, TypeOK
      <3>3. /\ [dl[v] EXCEPT !.overlapped = TRUE] \in Download
            /\ SameDownload([dl[v] EXCEPT !.overlapped = TRUE], dl[v])
        BY <3>1, MarkedDownload
      <3> QED
        BY <3>1, <3>2, <3>3 DEF TypeOK, SameDownload, OthersKept
    <2> QED
      BY <1>1, <2>1, <2>2
  <1>4. /\ Queued' = Queued
        /\ fileQueue'[i] = [fileQueue[i] EXCEPT !.done = done,
                                                !.downloads = fileQueue[i].downloads \cup {u}]
        /\ \A j \in Queued \ {i} : fileQueue'[j] = fileQueue[j]
    BY <1>1 DEF Queued, TypeOK
  <1> QED
    BY <1>1, <1>2, <1>3, <1>4

(* Of a file that u downloaded, s may count as done. *)
Brought(u, s) ==
    /\ s \in Positions \X Positions
    /\ BadData \/ (Proper(s) /\ BlocksOf(s) \subseteq BlocksOf(dl[u].segment))

(* i is left with b done, and not downloaded by the users in w any more. *)
PutBack(i, b, w) ==
    /\ Queued' = Queued
    /\ \A j \in Queued \ {i} : fileQueue'[j] = fileQueue[j]
    /\ fileQueue'[i].target = fileQueue[i].target /\ fileQueue'[i].root = fileQueue[i].root
    /\ fileQueue'[i].done = b /\ fileQueue'[i].downloads = fileQueue[i].downloads \ w

TakenOut(i) ==
    /\ Queued' = Queued \ {i}
    /\ \A j \in Queued' : fileQueue'[j] = fileQueue[j]

Ended(u) ==
    \/ At(dl[u].path) = {} /\ UNCHANGED fileQueue
    \/ \E i \in At(dl[u].path) :
        \/ PutBack(i, fileQueue[i].done, {u})
        \/ \E s : Brought(u, s) /\ PutBack(i, AddSegment(fileQueue[i].done, s), {u})
        \/ /\ IsFile(i) /\ Brought(u, dl[u].segment)
           /\ Complete(AddSegment(fileQueue[i].done, dl[u].segment), Blocks)
           /\ \/ PutBack(i, {<<0, Blocks>>}, fileQueue[i].downloads)
              \/ TakenOut(i)
        \/ ~IsFile(i) /\ TakenOut(i)

(* A contents changed in what is done and who downloads it. *)
LEMMA PutBackItem ==
    ASSUME IInv, NEW i \in Queued, NEW b, NEW w, Queued' = Queued,
           fileQueue'[i] = [fileQueue[i] EXCEPT !.done = b, !.downloads = fileQueue[i].downloads \ w],
           \A j \in Queued \ {i} : fileQueue'[j] = fileQueue[j]
    PROVE  PutBack(i, b, w)
  <1>1. fileQueue[i] \in QueueItem
    BY DEF IInv, TypeOK
  <1> QED
    BY <1>1, ItemKept DEF PutBack

LEMMA WholeSegmentBrought ==
    ASSUME IInv, ProperInv, NEW u \in Users, dl[u] # NoDownload
    PROVE  Brought(u, dl[u].segment)
  BY DEF IInv, TypeOK, Download, Brought, ProperInv

LEMMA FinishSegmentEnded ==
    ASSUME IInv, RightKind, ProperInv, NEW u \in Users, FinishSegment(u)
    PROVE  Ended(u)
  <1> DEFINE done(i) == AddSegment(fileQueue[i].done, dl[u].segment)
             mine(i) == {v \in fileQueue[i].downloads :
                            running[v] = i /\ v \in fileQueue[i].sources}
  <1>1. dl[u] # NoDownload /\ dl[u].type = "file"
    BY DEF FinishSegment, Has
  <1>2. PICK i \in At(dl[u].path) :
            \/ fileQueue' = [fileQueue EXCEPT ![i].done = done(i), ![i].downloads = @ \ {u}]
            \/ /\ Complete(done(i), Blocks)
               /\ fileQueue' = IF KeepFinishedFiles
                               THEN [fileQueue EXCEPT ![i].done = done(i), ![i].downloads = @ \ mine(i)]
                               ELSE [j \in Queued \ {i} |-> fileQueue[j]]
    BY DEF FinishSegment
  <1>3. Brought(u, dl[u].segment)
    BY <1>1, WholeSegmentBrought
  <1>4. i \in Queued /\ IsFile(i)
    BY <1>1, <1>2, CreditedFile DEF At
  <1>5. mine(i) = fileQueue[i].downloads
    BY <1>4 DEF IInv, RecordsAgree, TypeOK, QueueItem
  <1> HIDE DEF mine
  <1>6. CASE fileQueue' = [fileQueue EXCEPT ![i].done = done(i), ![i].downloads = @ \ {u}]
    <2> HIDE DEF done
    <2>1. /\ Queued' = Queued
          /\ fileQueue'[i] = [fileQueue[i] EXCEPT !.done = done(i), !.downloads = fileQueue[i].downloads \ {u}]
          /\ \A j \in Queued \ {i} : fileQueue'[j] = fileQueue[j]
      BY <1>4, <1>6 DEF Queued, IInv, TypeOK
    <2>2. PutBack(i, done(i), {u})
      BY <1>4, <2>1, PutBackItem
    <2> QED
      BY <1>2, <1>3, <2>2 DEF Ended, done
  <1>7. CASE /\ Complete(done(i), Blocks)
             /\ fileQueue' = [fileQueue EXCEPT ![i].done = done(i), ![i].downloads = @ \ mine(i)]
    <2> HIDE DEF done
    <2>1. /\ Queued' = Queued
          /\ fileQueue'[i] = [fileQueue[i] EXCEPT !.done = done(i), !.downloads = fileQueue[i].downloads \ mine(i)]
          /\ \A j \in Queued \ {i} : fileQueue'[j] = fileQueue[j]
      BY <1>4, <1>7 DEF Queued, IInv, TypeOK
    <2>2. PutBack(i, done(i), mine(i))
      BY <1>4, <2>1, PutBackItem
    <2>3. PutBack(i, {<<0, Blocks>>}, fileQueue[i].downloads)
      BY <1>5, <1>7, <2>2 DEF Complete
    <2> QED
      BY <1>2, <1>3, <1>4, <1>7, <2>3 DEF Ended, done
  <1>8. CASE /\ Complete(done(i), Blocks)
             /\ fileQueue' = [j \in Queued \ {i} |-> fileQueue[j]]
    <2>1. TakenOut(i)
      BY <1>8 DEF Queued, TakenOut
    <2> QED
      BY <1>2, <1>3, <1>4, <1>8, <2>1 DEF Ended
  <1> QED
    BY <1>2, <1>6, <1>7, <1>8

LEMMA PutUnfinishedEnded ==
    ASSUME IInv, NEW u \in Users, NEW pos, PutUnfinished(u, pos),
           dl[u].type = "file" /\ pos > 0 =>
                Brought(u, <<Begin(dl[u].segment), Begin(dl[u].segment) + pos>>)
    PROVE  Ended(u)
  <1> DEFINE got == <<Begin(dl[u].segment), Begin(dl[u].segment) + pos>>
             partial == dl[u].type = "file" /\ pos > 0
             done(i) == IF partial THEN AddSegment(fileQueue[i].done, got) ELSE fileQueue[i].done
  <1>1. PICK i \in At(dl[u].path) :
            fileQueue' = [fileQueue EXCEPT ![i].done = IF partial THEN AddSegment(@, got) ELSE @,
                                           ![i].downloads = @ \ {u}]
    BY DEF PutUnfinished
  <1>2. /\ i \in Queued /\ Queued' = Queued
        /\ fileQueue'[i] = [fileQueue[i] EXCEPT !.done = done(i), !.downloads = fileQueue[i].downloads \ {u}]
        /\ \A j \in Queued \ {i} : fileQueue'[j] = fileQueue[j]
    BY <1>1 DEF At, IInv, TypeOK, Queued
  <1>3. PutBack(i, done(i), {u})
    <2> HIDE DEF done
    <2> QED
      BY <1>2, PutBackItem
  <1> HIDE DEF got
  <1>4. CASE partial
    <2>1. Brought(u, got)
      BY <1>4 DEF got
    <2> QED
      BY <1>1, <1>3, <1>4, <2>1 DEF Ended
  <1> QED
    BY <1>1, <1>3, <1>4 DEF Ended

LEMMA FailDownloadEnded ==
    ASSUME IInv, NEW u \in Users, FailDownload(u)
    PROVE  Ended(u)
  <1> DEFINE d == dl[u]
             b == Begin(d.segment)
             got == <<b, b + d.pos>>
  <1>1. d # NoDownload /\ d \in Download /\ InBounds(u) /\ PutUnfinished(u, d.pos)
    BY DEF FailDownload, IInv, TypeOK, DownloadsSound
  <1>2. ASSUME d.pos > 0 PROVE Brought(u, got)
    <2>1. d.segment \in Positions \X Positions /\ d.pos \in Nat /\ Blocks \in Nat
      BY <1>1, QueueAssumption DEF Download, Positions
    <2>2. b \in Nat /\ End(d.segment) \in Nat
      BY <2>1 DEF Positions, Begin, End
    <2>3. d.pos <= End(d.segment) - b /\ End(d.segment) <= Blocks
      BY <1>1, <1>2, <2>1 DEF InBounds, Length, Begin, End
    <2> HIDE DEF b
    <2>4. b + d.pos \in 0 .. Blocks /\ b \in 0 .. Blocks
      BY <1>2, <2>1, <2>2, <2>3
    <2> HIDE DEF d
    <2>5. got \in Positions \X Positions
      BY <2>1, <2>4 DEF Positions
    <2>6. Begin(got) = b /\ End(got) = b + d.pos
      BY DEF Begin, End
    <2>7. Proper(got)
      BY <1>2, <2>1, <2>2, <2>4, <2>6 DEF Proper
    <2>8. BlocksOf(got) \subseteq b .. End(d.segment) - 1
      BY <2>1, <2>2, <2>3, <2>6 DEF BlocksOf
    <2> QED
      BY <2>5, <2>7, <2>8 DEF Brought, BlocksOf, b, d
  <1> QED
    BY <1>1, <1>2, PutUnfinishedEnded

LEMMA BadBlockEnded ==
    ASSUME IInv, NEW u \in Users, BadBlock(u)
    PROVE  Ended(u)
  <1> DEFINE b == Begin(dl[u].segment)
             pos == b - (b % dl[u].grain)
  <1>1. dl[u] # NoDownload /\ dl[u] \in Download /\ PutUnfinished(u, pos) /\ BadData
    BY DEF BadBlock, IInv, TypeOK, Has
  <1>2. InBounds(u) /\ Has(u, "file", {"running"})
    BY <1>1 DEF BadBlock, IInv, DownloadsSound
  <1>3. b \in 0 .. Blocks /\ dl[u].grain \in Nat \ {0} /\ Blocks \in Nat
    BY <1>1, <1>2, QueueAssumption DEF InBounds, Download, Positions, Length, Begin, End
  <1> HIDE DEF b
  <1>4. pos \in 0 .. Blocks
    <2>1. b % dl[u].grain \in 0 .. b
      BY <1>3
    <2> QED
      BY <1>3, <2>1
  <1> HIDE DEF pos
  <1>5. b \in Positions /\ b + pos \in Positions
    BY <1>3, <1>4 DEF Positions
  <1>6. Brought(u, <<Begin(dl[u].segment), Begin(dl[u].segment) + pos>>)
    BY <1>1, <1>5 DEF Brought, b
  <1> QED
    BY <1>1, <1>6, PutUnfinishedEnded

LEMMA EndingEnded ==
    ASSUME IInv, RightKind, ProperInv, NEW u \in Users, Ending(u)
    PROVE  Ended(u)
  <1>1. CASE PutOrphan(u)
    BY <1>1 DEF PutOrphan, Ended
  <1>2. CASE FinishTree(u)
    <2>1. PICK i \in At(dl[u].path) : fileQueue' = [fileQueue EXCEPT ![i].downloads = @ \ {u}]
      BY <1>2 DEF FinishTree
    <2>2. i \in Queued /\ Queued' = Queued /\ fileQueue[i] \in QueueItem
      BY <2>1 DEF At, Queued, IInv, TypeOK
    <2>3. PutBack(i, fileQueue[i].done, {u})
      BY <2>1, <2>2 DEF PutBack, IInv, TypeOK, QueueItem
    <2> QED
      BY <2>1, <2>3 DEF Ended
  <1>3. CASE FinishList(u)
    <2>1. PICK i \in At(dl[u].path) : fileQueue' = [j \in Queued \ {i} |-> fileQueue[j]]
      BY <1>3 DEF FinishList
    <2>2. TakenOut(i)
      BY <2>1 DEF Queued, TakenOut
    <2>3. ~IsFile(i)
      BY <1>3, <2>1, CreditedFile DEF FinishList, Has
    <2> QED
      BY <2>1, <2>2, <2>3 DEF Ended
  <1> QED
    BY <1>1, <1>2, <1>3, FinishSegmentEnded, FailDownloadEnded, BadBlockEnded DEF Ending

-----------------------------------------------------------------------------
(* The segments stay proper and apart. *)
LEMMA AsideProper ==
    ASSUME ProperInv, Aside
    PROVE  ProperInv'
  <1>1. \A i \in Queued' : fileQueue'[i].done = {} \/ (i \in Queued /\ fileQueue'[i].done = fileQueue[i].done)
    BY DEF Aside
  <1>2. UNCHANGED dl
    BY DEF Aside
  <1> QED
    BY <1>1, <1>2 DEF ProperInv, ApartIn

LEMMA SocketProper ==
    ASSUME IInv, ProperInv, NEW u \in Users, SetFile(u) \/ Receive(u)
    PROVE  ProperInv'
  <1>1. /\ dl[u] # NoDownload /\ dl[u] \in Download /\ UNCHANGED fileQueue
        /\ \/ dl' = [dl EXCEPT ![u].state = "running", ![u].overlapped = FALSE]
           \/ dl' = [dl EXCEPT ![u].pos = @ + dl[u].grain]
    BY DEF SetFile, Receive, Has, IInv, TypeOK
  <1>2. \A v \in Users : (dl'[v] # NoDownload => dl[v] # NoDownload) /\ dl'[v].segment = dl[v].segment
    <2>1. dl'[u].segment = dl[u].segment
      BY <1>1 DEF Download, IInv, TypeOK
    <2>2. \A v \in Users \ {u} : dl'[v] = dl[v]
      BY <1>1 DEF IInv, TypeOK
    <2> QED
      BY <1>1, <2>1, <2>2
  <1>3. Queued' = Queued
    BY <1>1 DEF Queued
  <1> QED
    BY <1>1, <1>2, <1>3 DEF ProperInv

LEMMA OthersProper ==
    ASSUME NEW u \in Users, OthersKept(u), NEW v \in Users \ {u}, dl'[v] # NoDownload
    PROVE  dl[v] # NoDownload /\ dl'[v].segment = dl[v].segment
  BY DEF OthersKept, SameDownload

LEMMA GetDownloadProper ==
    ASSUME IInv, ProperInv, NEW u \in Users, GetDownload(u)
    PROVE  ProperInv'
  <1> SUFFICES ASSUME ~BadData PROVE ProperInv'
    BY DEF ProperInv
  <1>1. PICK i, done, d :
            /\ i \in Queued /\ d \in Starts(i, done)
            /\ done \in {fileQueue[i].done, {}}
            /\ dl'[u] = d /\ OthersKept(u)
            /\ Queued' = Queued
            /\ fileQueue'[i] = [fileQueue[i] EXCEPT !.done = done,
                                                    !.downloads = fileQueue[i].downloads \cup {u}]
            /\ \A j \in Queued \ {i} : fileQueue'[j] = fileQueue[j]
    BY GetDownloadStarts
  <1>2. fileQueue[i] \in QueueItem
    BY <1>1 DEF IInv, TypeOK
  <1>3. fileQueue'[i].done = done
    BY <1>1, <1>2, ItemKept
  <1>4. done \in SUBSET (Positions \X Positions) /\ ApartIn(done) /\ \A s \in done : Proper(s)
    BY <1>1, <1>2 DEF ProperInv, ApartIn, QueueItem
  <1>5. \/ d.segment = NoSegment
        \/ d.segment \in FreeChunks(i, done, GrainOf(i))
        \/ d.segment \in Overlapping(i, done, 1)
    BY <1>1 DEF Starts
  <1>6. Proper(d.segment)
    <2>1. Proper(NoSegment)
      BY QueueAssumption DEF Proper, NoSegment, Begin, End
    <2>2. ASSUME d.segment \in Overlapping(i, done, 1) PROVE Proper(d.segment)
      <3>1. d.segment \in Positions \X Positions /\ End(d.segment) <= Blocks /\ Begin(d.segment) < End(d.segment)
        BY <1>1, <2>2, OverlappingType
      <3> QED
        BY <3>1, QueueAssumption DEF Proper, Positions, Begin, End
    <2> QED
      BY <1>4, <1>5, <2>1, <2>2, FreeChunksProper
  <1>7. \A j \in Queued' : (\A s \in fileQueue'[j].done : Proper(s)) /\ ApartIn(fileQueue'[j].done)
    BY <1>1, <1>3, <1>4 DEF ProperInv
  <1>8. \A v \in Users : dl'[v] # NoDownload => Proper(dl'[v].segment)
    BY <1>1, <1>6, OthersProper DEF ProperInv
  <1> QED
    BY <1>7, <1>8 DEF ProperInv

LEMMA EndingProper ==
    ASSUME IInv, RightKind, ProperInv, NEW u \in Users, Ending(u)
    PROVE  ProperInv'
  <1> SUFFICES ASSUME ~BadData PROVE ProperInv'
    BY DEF ProperInv
  <1>1. Leaves(u) /\ Ended(u)
    BY EndingLeaves, EndingEnded
  <1>2. \A v \in Users : dl'[v] # NoDownload => Proper(dl'[v].segment)
    BY <1>1, OthersProper DEF Leaves, OthersKept, ProperInv
  <1>3. Queued' \subseteq Queued
    BY <1>1 DEF Leaves
  <1> SUFFICES ASSUME NEW j \in Queued'
               PROVE  (\A s \in fileQueue'[j].done : Proper(s)) /\ ApartIn(fileQueue'[j].done)
    BY <1>2 DEF ProperInv
  <1>4. \/ fileQueue'[j].done = fileQueue[j].done
        \/ \E s : Brought(u, s) /\ fileQueue'[j].done = AddSegment(fileQueue[j].done, s)
    BY <1>1, <1>3 DEF Ended, PutBack, TakenOut, Complete, At
  <1>5. fileQueue[j].done \in SUBSET (Positions \X Positions)
    BY <1>3 DEF IInv, TypeOK, QueueItem
  <1>6. (\A s \in fileQueue[j].done : Proper(s)) /\ ApartIn(fileQueue[j].done)
    BY <1>3 DEF ProperInv
  <1>7. ASSUME NEW s, Brought(u, s), fileQueue'[j].done = AddSegment(fileQueue[j].done, s)
        PROVE  (\A x \in fileQueue'[j].done : Proper(x)) /\ ApartIn(fileQueue'[j].done)
    <2>1. s \in Positions \X Positions /\ Proper(s)
      BY <1>7 DEF Brought
    <2>2. \A x \in fileQueue[j].done \cup {s} : Proper(x)
      BY <1>6, <2>1
    <2> QED
      BY <1>5, <1>7, <2>1, <2>2, AddSegmentProper
  <1> QED
    BY <1>4, <1>6, <1>7

LEMMA ProperInvariant == Spec => []ProperInv
  <1>1. Init => ProperInv
    BY DEF Init, ProperInv, Queued
  <1>2. IInv /\ RightKind /\ ProperInv /\ [Next]_vars => ProperInv'
    BY StepKinds, AsideProper, SocketProper, GetDownloadProper, EndingProper
  <1> QED
    BY <1>1, <1>2, Invariance, KindInvariant, PTL DEF Spec

-----------------------------------------------------------------------------
(***************************************************************************)
(* The refinement. What is wanted and asked for, before and after a step.  *)
(***************************************************************************)
LEMMA Mapped ==
    /\ Queue!Wanted = Queued
    /\ \A t : Queue!At(t) = At(t)
    /\ \A i \in Queued : /\ Wants[i].target = fileQueue[i].target /\ Wants[i].root = fileQueue[i].root
                         /\ Wants[i].got = Covered(fileQueue[i].done)
                         /\ Wants[i].by = fileQueue[i].downloads
    /\ DOMAIN Asked = {v \in Users : dl[v] # NoDownload}
    /\ \A u \in Users : dl[u] # NoDownload =>
            Asked[u].at = dl[u].path /\ Asked[u].blocks = BlocksOf(dl[u].segment)
  BY DEF Wants, Want, Asked, Queue!Wanted, Queue!At, At

(* A connection that is asked for nothing else. *)
SameAsked(v) ==
    IF dl[v] = NoDownload THEN dl'[v] = NoDownload
    ELSE dl'[v] # NoDownload /\ dl'[v].path = dl[v].path /\ dl'[v].segment = dl[v].segment

LEMMA AskedKept ==
    ASSUME \A v \in Users : SameAsked(v)
    PROVE  Asked' = Asked
  BY DEF Asked, SameAsked

LEMMA OthersAsked ==
    ASSUME NEW u, OthersKept(u), NEW v \in Users \ {u}
    PROVE  SameAsked(v)
  BY DEF OthersKept, SameDownload, SameAsked

LEMMA AnsweredStep ==
    ASSUME NEW u \in Users, dl[u] # NoDownload, dl'[u] = NoDownload, OthersKept(u)
    PROVE  Queue!Answered(u)
  <1>1. \A v \in Users \ {u} : SameAsked(v)
    BY OthersAsked
  <1>2. Asked' = [v \in {x \in Users : dl[x] # NoDownload} \ {u} |-> Asked[v]]
    BY <1>1 DEF Asked, SameAsked
  <1> QED
    BY <1>2, Mapped DEF Queue!Answered

(* The contents of an item that the abstract queue sees. *)
SameWant(i) ==
    /\ fileQueue'[i].target = fileQueue[i].target /\ fileQueue'[i].root = fileQueue[i].root
    /\ fileQueue'[i].done = fileQueue[i].done /\ fileQueue'[i].downloads = fileQueue[i].downloads

LEMMA WantsKept ==
    ASSUME Queued' = Queued, \A i \in Queued : SameWant(i)
    PROVE  Wants' = Wants
  BY DEF Wants, Want, SameWant

LEMMA WantsLess ==
    ASSUME NEW i, Queued' = Queued \ {i}, \A j \in Queued' : fileQueue'[j] = fileQueue[j]
    PROVE  Wants' = [j \in Queue!Wanted \ {i} |-> Wants[j]]
  BY Mapped DEF Wants, Want

LEMMA WantsOne ==
    ASSUME NEW i \in Queued, Queued' = Queued, \A j \in Queued \ {i} : fileQueue'[j] = fileQueue[j]
    PROVE  Wants' = [Wants EXCEPT ![i] = Queue!Want(fileQueue'[i].target, fileQueue'[i].root,
                                                   Covered(fileQueue'[i].done), fileQueue'[i].downloads)]
  BY DEF Wants, Want, Queue!Want

LEMMA WantsStill ==
    ASSUME NEW i \in Queued, NEW b, NEW w, Queued' = Queued, \A j \in Queued \ {i} : fileQueue'[j] = fileQueue[j],
           fileQueue'[i].target = fileQueue[i].target, fileQueue'[i].root = fileQueue[i].root,
           fileQueue'[i].done = b, fileQueue'[i].downloads = w
    PROVE  Wants' = [Wants EXCEPT ![i] = Queue!Still(i, Covered(b), w)]
  <1>1. Wants' = [Wants EXCEPT ![i] = Queue!Want(fileQueue[i].target, fileQueue[i].root, Covered(b), w)]
    BY WantsOne
  <1>2. Wants[i].target = fileQueue[i].target /\ Wants[i].root = fileQueue[i].root
    BY Mapped
  <1> QED
    BY <1>1, <1>2 DEF Queue!Still

(* What the abstract queue may do in one step. *)
QueueStep == Queue!Next \/ UNCHANGED <<Wants, Asked>>

LEMMA UserActs ==
    /\ \A t \in Paths \cup Users, r \in Roots \cup {ListRoot} : Queue!Add(t, r) => QueueStep
    /\ \A i \in Queued : /\ Queue!Remove(i) => QueueStep
                         /\ \A t \in Paths : Queue!Rename(i, t) => QueueStep
    /\ \A u \in Users : Queue!Drop(u) => QueueStep
  BY Mapped DEF QueueStep, Queue!Next

LEMMA SocketActs ==
    ASSUME NEW u \in Users
    PROVE  /\ Queue!Waste(u) => QueueStep
           /\ \A i \in Queued :
                /\ Queue!Complete(u, i) => QueueStep
                /\ Queue!TakeList(u, i) => QueueStep
                /\ \A piece \in Queue!Pieces : Queue!Fetch(u, i, piece) \/ Queue!Credit(u, i, piece) => QueueStep
  BY Mapped DEF QueueStep, Queue!Next

-----------------------------------------------------------------------------
(* What the user and the searches do. *)
LEMMA AddSourceQueue ==
    ASSUME IInv, NEW i \in Queued, NEW u \in Users, AddSource(i, u)
    PROVE  UNCHANGED <<Wants, Asked>>
  <1>1. Queued' = Queued /\ fileQueue[i] \in QueueItem
    BY DEF AddSource, Queued, IInv, TypeOK
  <1>2. \A j \in Queued : SameWant(j)
    BY <1>1 DEF AddSource, SameWant, QueueItem, IInv, TypeOK
  <1>3. \A v \in Users : SameAsked(v)
    BY DEF AddSource, SameAsked
  <1> QED
    BY <1>1, <1>2, <1>3, WantsKept, AskedKept

LEMMA AddItemQueue ==
    ASSUME IInv, NEW t \in Targets, NEW r \in Roots \cup {ListRoot}, NEW p, NEW u,
           (t \in Paths /\ r \in Roots /\ WithRoot(r) = {}) \/ (t \in Users /\ r = ListRoot),
           AddItem(t, r, p, u)
    PROVE  Queue!Add(t, r)
  <1>1. PICK i \in Items :
            /\ Unused(i)
            /\ fileQueue' = [j \in Queued \cup {i} |->
                                IF j = i
                                THEN [target |-> t, root |-> r, prio |-> p, sources |-> {u},
                                      badSources |-> {}, done |-> {}, downloads |-> {}]
                                ELSE fileQueue[j]]
            /\ UNCHANGED <<running, dl, trees, temp, failed>>
            /\ At(t) = {}
    BY DEF AddItem
  <1>2. Queued' = Queued \cup {i} /\ i \in Items \ Queued
    BY <1>1 DEF Queued, Unused
  <1>3. Wants' = [j \in Queued \cup {i} |->
                    IF j = i THEN Queue!Want(t, r, {}, {}) ELSE Wants[j]]
    <2>1. \A j \in Queued \cup {i} :
            /\ j = i => Want(j)' = Queue!Want(t, r, {}, {})
            /\ j # i => Want(j)' = Want(j)
      BY <1>1 DEF Want, Covered, Queue!Want
    <2> QED
      BY <1>2, <2>1 DEF Wants
  <1>4. Asked' = Asked
    BY <1>1, AskedKept DEF SameAsked
  <1>5. r # ListRoot => \A j \in Queued : Wants[j].root # r
    BY Mapped DEF WithRoot
  <1> QED
    BY <1>1, <1>2, <1>3, <1>4, <1>5, Mapped DEF Queue!Add

LEMMA RemoveQueue ==
    ASSUME IInv, NEW t \in Targets, Remove(t)
    PROVE  QueueStep
  <1>1. PICK i \in Queued : fileQueue' = [j \in Queued \ {i} |-> fileQueue[j]] /\ UNCHANGED dl
    BY DEF Remove, At
  <1>2. Queued' = Queued \ {i}
    BY <1>1 DEF Queued
  <1>3. Wants' = [j \in Queue!Wanted \ {i} |-> Wants[j]]
    BY <1>1, <1>2, WantsLess
  <1>4. Asked' = Asked
    BY <1>1, AskedKept DEF SameAsked
  <1>5. Queue!Remove(i)
    BY <1>3, <1>4 DEF Queue!Remove
  <1> QED
    BY <1>1, <1>5, UserActs

(* A user loses his download, and file lists of his their place in the queue. *)
LEMMA DropQueue ==
    ASSUME IInv, NEW u \in Users, NEW lists \in SUBSET At(u), Queued' = Queued \ lists, UNCHANGED dl,
           \A j \in Queued' :
                /\ fileQueue'[j].target = fileQueue[j].target /\ fileQueue'[j].root = fileQueue[j].root
                /\ fileQueue'[j].done = fileQueue[j].done
                /\ fileQueue'[j].downloads = fileQueue[j].downloads \ {u}
    PROVE  QueueStep
  <1>1. Wants' = [j \in Queued \ lists |->
                    Queue!Still(j, Wants[j].got, Wants[j].by \ {u})]
    BY Mapped DEF Wants, Want, Queue!Still, Queue!Want
  <1>2. Asked' = Asked
    BY AskedKept DEF SameAsked
  <1>3. Queue!Drop(u)
    BY <1>1, <1>2, Mapped DEF Queue!Drop
  <1> QED
    BY <1>3, UserActs

LEMMA RemoveSourceQueue ==
    ASSUME IInv, NEW t \in Paths, NEW u \in Users, RemoveSource(t, u)
    PROVE  QueueStep
  <1> USE QueueAssumption DEF IInv
  <1>1. PICK i \in Queued : fileQueue' = [fileQueue EXCEPT ![i] = WithoutSource(i, u)] /\ UNCHANGED dl
    BY DEF RemoveSource, At
  <1>2. /\ Queued' = Queued /\ fileQueue'[i] = WithoutSource(i, u)
        /\ \A j \in Queued \ {i} : fileQueue'[j] = fileQueue[j]
    BY <1>1 DEF Queued, TypeOK
  <1>3. LostSource(WithoutSource(i, u), i, u)
    BY WithoutSourceType
  <1>4. CASE running[u] = i
    <2>1. \A j \in Queued \ {i} : u \notin fileQueue[j].downloads
      BY <1>4 DEF RecordsAgree
    <2>2. \A j \in Queued' :
                /\ fileQueue'[j].target = fileQueue[j].target /\ fileQueue'[j].root = fileQueue[j].root
                /\ fileQueue'[j].done = fileQueue[j].done
                /\ fileQueue'[j].downloads = fileQueue[j].downloads \ {u}
      BY <1>2, <1>3, <1>4, <2>1 DEF LostSource
    <2>3. {} \in SUBSET At(u) /\ Queued' = Queued \ {}
      BY <1>2
    <2> QED
      BY <1>1, <2>2, <2>3, DropQueue
  <1>5. CASE running[u] # i
    <2>1. \A j \in Queued : SameWant(j)
      BY <1>2, <1>3, <1>5 DEF LostSource, SameWant
    <2> QED
      BY <1>1, <1>2, <2>1, WantsKept, AskedKept DEF SameAsked, QueueStep
  <1> QED
    BY <1>4, <1>5

LEMMA RemoveUserQueue ==
    ASSUME CacheInv, NEW u \in Users, RemoveUser(u)
    PROVE  QueueStep
  <1> USE QueueAssumption DEF IInv, CacheInv
  <1> DEFINE drop == {i \in Queued : Suitable(i) /\ \E p \in Priorities : <<p, u, i>> \in userQueue}
                        \cup ({running[u]} \ {NoItem})
             lists == {i \in drop : ~IsFile(i)}
  <1>1. /\ drop \subseteq Queued /\ ~Dangling(u)
        /\ fileQueue' = [i \in Queued \ lists |-> IF i \in drop THEN WithoutSource(i, u) ELSE fileQueue[i]]
        /\ UNCHANGED dl
    BY DEF RemoveUser
  <1>2. running[u] \in Queued => running[u] \in drop
    BY DEF TypeOK
  <1>3. Queued' = Queued \ lists
    BY <1>1 DEF Queued
  <1>4. \A i \in drop : i \in Queued /\ u \in fileQueue[i].sources
    <2> SUFFICES ASSUME NEW i \in drop PROVE u \in fileQueue[i].sources
      BY <1>1
    <2>1. CASE i = running[u]
      BY <1>1, <2>1 DEF RecordsAgree
    <2>2. ASSUME NEW p \in Priorities, <<p, u, i>> \in userQueue PROVE u \in fileQueue[i].sources
      BY <1>1, <2>2 DEF Dangling
    <2> QED
      BY <2>1, <2>2
  <1>5. lists \in SUBSET At(u)
    BY <1>4 DEF ListsAlone, At
  <1> HIDE DEF drop, lists
  <1>6. ASSUME NEW j \in Queued'
        PROVE  /\ fileQueue'[j].target = fileQueue[j].target /\ fileQueue'[j].root = fileQueue[j].root
               /\ fileQueue'[j].done = fileQueue[j].done
               /\ fileQueue'[j].downloads = fileQueue[j].downloads \ {u}
    <2>1. j \in Queued /\ fileQueue'[j] = IF j \in drop THEN WithoutSource(j, u) ELSE fileQueue[j]
      BY <1>1, <1>3
    <2>2. LostSource(WithoutSource(j, u), j, u)
      BY <2>1, WithoutSourceType
    <2>3. u \in fileQueue[j].downloads => running[u] = j /\ j \in drop
      BY <1>2, <2>1 DEF RecordsAgree
    <2> QED
      BY <2>1, <2>2, <2>3 DEF LostSource
  <1> QED
    BY <1>1, <1>3, <1>5, <1>6, DropQueue

LEMMA SetPriorityQueue ==
    ASSUME IInv, NEW t \in Targets, NEW p \in Priorities, SetPriority(t, p)
    PROVE  UNCHANGED <<Wants, Asked>>
  <1>1. PICK i \in Queued : fileQueue' = [fileQueue EXCEPT ![i].prio = p] /\ UNCHANGED dl
    BY DEF SetPriority, At
  <1>2. Queued' = Queued /\ fileQueue[i] \in QueueItem
    BY <1>1 DEF Queued, IInv, TypeOK
  <1>3. \A j \in Queued : SameWant(j)
    BY <1>1, <1>2 DEF SameWant, QueueItem, IInv, TypeOK
  <1> QED
    BY <1>1, <1>2, <1>3, WantsKept, AskedKept DEF SameAsked

LEMMA MoveQueue ==
    ASSUME IInv, NEW s \in Paths, NEW t \in Paths, Move(s, t)
    PROVE  QueueStep
  <1>1. PICK i \in Queued :
            /\ IsFile(i) /\ fileQueue[i].downloads = {} /\ At(t) = {}
            /\ fileQueue' = [fileQueue EXCEPT ![i].target = t]
            /\ UNCHANGED dl
    BY DEF Move, At
  <1>2. Queued' = Queued /\ fileQueue[i] \in QueueItem
    BY <1>1 DEF Queued, IInv, TypeOK
  <1>3. \A j \in Queued \ {i} : fileQueue'[j] = fileQueue[j]
    BY <1>1 DEF IInv, TypeOK
  <1>4. /\ fileQueue'[i].target = t /\ fileQueue'[i].root = fileQueue[i].root
        /\ fileQueue'[i].done = fileQueue[i].done /\ fileQueue'[i].downloads = {}
    BY <1>1, <1>2 DEF QueueItem, IInv, TypeOK
  <1>5. Wants' = [Wants EXCEPT ![i] = Queue!Want(t, fileQueue[i].root, Covered(fileQueue[i].done), {})]
    BY <1>2, <1>3, <1>4, WantsOne
  <1>6. Asked' = Asked
    BY <1>1, AskedKept DEF SameAsked
  <1>7. Wants[i].root # ListRoot /\ Wants[i].by = {} /\ Queue!At(t) = {}
    BY <1>1, Mapped DEF IsFile
  <1>8. Queue!Rename(i, t)
    BY <1>5, <1>6, <1>7, Mapped DEF Queue!Rename
  <1> QED
    BY <1>1, <1>8, UserActs

LEMMA UserStepQueue == CacheInv /\ UserStep => QueueStep
  <1> SUFFICES ASSUME CacheInv, UserStep PROVE QueueStep
    OBVIOUS
  <1> USE DEF CacheInv
  <1>1. ASSUME NEW t \in Paths, NEW r \in Roots, NEW u \in Users, AddToItem(t, r, u)
        PROVE  QueueStep
    BY <1>1, AddSourceQueue DEF AddToItem, At, WithRoot, QueueStep
  <1>2. ASSUME NEW t \in Paths, NEW u \in Users, Readd(t, u)
        PROVE  QueueStep
    BY <1>2, AddSourceQueue DEF Readd, At, QueueStep
  <1>3. ASSUME NEW t \in Paths, NEW r \in Roots, NEW u \in Users, NEW p \in Priorities,
               AddFile(t, r, p, u)
        PROVE  QueueStep
    <2>1. Queue!Add(t, r)
      BY <1>3, AddItemQueue DEF AddFile, Targets
    <2> QED
      BY <2>1, UserActs
  <1>4. ASSUME NEW u \in Users, AddList(u)
        PROVE  QueueStep
    <2>1. Queue!Add(u, ListRoot)
      BY <1>4, AddItemQueue DEF AddList, Targets
    <2> QED
      BY <2>1, UserActs
  <1>5. ASSUME NEW r \in Roots, TempVanishes(r)
        PROVE  QueueStep
    <2>1. UNCHANGED fileQueue /\ UNCHANGED dl
      BY <1>5 DEF TempVanishes
    <2> QED
      BY <2>1, WantsKept, AskedKept DEF SameWant, SameAsked, Queued, QueueStep
  <1> QED
    BY <1>1, <1>2, <1>3, <1>4, <1>5, RemoveQueue, RemoveSourceQueue, RemoveUserQueue, SetPriorityQueue,
       MoveQueue DEF UserStep, QueueStep

-----------------------------------------------------------------------------
(* What the socket threads do. *)
LEMMA SocketQueue ==
    ASSUME IInv, NEW u \in Users, SetFile(u) \/ Receive(u)
    PROVE  QueueStep
  <1>1. /\ dl[u] # NoDownload /\ dl[u] \in Download /\ UNCHANGED fileQueue
        /\ \/ dl' = [dl EXCEPT ![u].state = "running", ![u].overlapped = FALSE]
           \/ dl' = [dl EXCEPT ![u].pos = @ + dl[u].grain]
    BY DEF SetFile, Receive, Has, IInv, TypeOK
  <1>2. dl'[u].segment = dl[u].segment /\ dl'[u].path = dl[u].path /\ dl'[u].of = dl[u].of
    BY <1>1 DEF Download, IInv, TypeOK
  <1>3. dl'[u] # NoDownload
    <2>1. CASE SetFile(u)
      <3>1. dl'[u] = [dl[u] EXCEPT !.state = "running", !.overlapped = FALSE]
        BY <1>1, <2>1 DEF SetFile, IInv, TypeOK
      <3>2. dl'[u] \in Download
        BY <1>1, <3>1 DEF Download
      <3> QED
        BY <3>2, NullAssumption
    <2>2. CASE Receive(u)
      <3>1. dl[u].pos + dl[u].grain \in Positions
        BY <2>2, ReceiveFits
      <3>2. dl'[u] = [dl[u] EXCEPT !.pos = @ + dl[u].grain]
        BY <1>1, <2>2 DEF Receive, IInv, TypeOK
      <3>3. dl'[u] \in Download
        BY <1>1, <3>1, <3>2 DEF Download
      <3> QED
        BY <3>3, NullAssumption
    <2> QED
      BY <2>1, <2>2
  <1>4. \A v \in Users : SameAsked(v)
    <2>1. \A v \in Users \ {u} : dl'[v] = dl[v]
      BY <1>1 DEF IInv, TypeOK
    <2> QED
      BY <1>1, <1>2, <1>3, <2>1 DEF SameAsked
  <1>5. UNCHANGED Wants
    BY <1>1, WantsKept DEF SameWant, Queued
  <1> QED
    BY <1>4, <1>5, AskedKept DEF QueueStep

LEMMA BlocksArePieces ==
    ASSUME NEW s \in Positions \X Positions
    PROVE  BlocksOf(s) \in Queue!Pieces
  BY DEF Queue!Pieces, Positions, BlocksOf, Begin, End

LEMMA GetDownloadQueue ==
    ASSUME IInv, NEW u \in Users, GetDownload(u)
    PROVE  QueueStep
  <1> USE NullAssumption
  <1>1. PICK i, done, d :
            /\ i \in Queued /\ d \in Starts(i, done) /\ Suitable(i)
            /\ done \in {fileQueue[i].done, {}}
            /\ dl[u] = NoDownload /\ dl'[u] = d /\ OthersKept(u)
            /\ d.overlap => \E v \in fileQueue[i].downloads : Contains(dl[v].segment, d.segment)
            /\ Queued' = Queued
            /\ fileQueue'[i] = [fileQueue[i] EXCEPT !.done = done,
                                                    !.downloads = fileQueue[i].downloads \cup {u}]
            /\ \A j \in Queued \ {i} : fileQueue'[j] = fileQueue[j]
    BY GetDownloadStarts
  <1>2. fileQueue[i] \in QueueItem
    BY <1>1 DEF IInv, TypeOK
  <1>3. /\ fileQueue'[i].target = fileQueue[i].target /\ fileQueue'[i].root = fileQueue[i].root
        /\ fileQueue'[i].done = done /\ fileQueue'[i].downloads = fileQueue[i].downloads \cup {u}
    BY <1>1, <1>2, ItemKept
  <1>4. d \in Download /\ d.path = fileQueue[i].target
    <2>1. done \in SUBSET (Positions \X Positions)
      BY <1>1, <1>2 DEF QueueItem
    <2> QED
      BY <1>1, <2>1, StartsType
  <1> DEFINE piece == BlocksOf(d.segment)
  <1>5. d.segment \in Positions \X Positions /\ piece \in Queue!Pieces
    BY <1>4, BlocksArePieces DEF Download
  <1>6. \A v \in fileQueue[i].downloads :
            v \in Users /\ dl[v] # NoDownload /\ dl[v].segment \in Positions \X Positions
    BY <1>1, <1>2 DEF IInv, RecordsAgree, TypeOK, QueueItem, Download
  <1>7. \/ \A v \in Wants[i].by : piece \cap Asked[v].blocks = {}
        \/ \E v \in Wants[i].by : piece \subseteq Asked[v].blocks
    <2>1. CASE d.overlap
      <3>1. PICK v \in fileQueue[i].downloads : Contains(dl[v].segment, d.segment)
        BY <1>1, <2>1
      <3>2. piece \subseteq BlocksOf(dl[v].segment)
        BY <1>5, <1>6, <3>1, QueueAssumption DEF Contains, BlocksOf, Begin, End, Positions
      <3> QED
        BY <1>1, <1>6, <3>2, Mapped
    <2>2. CASE ~d.overlap
      <3>1. d.segment = NoSegment \/ (IsFile(i) /\ d.segment \in FreeChunks(i, done, GrainOf(i)))
        BY <1>1, <2>2, StartsFree
      <3>2. BlocksOf(NoSegment) = {}
        BY DEF NoSegment, BlocksOf, Begin, End
      <3>3. \A v \in fileQueue[i].downloads : piece \cap BlocksOf(dl[v].segment) = {}
        BY <1>1, <3>1, <3>2, FreeIsFree
      <3> QED
        BY <1>1, <1>6, <3>3, Mapped
    <2> QED
      BY <2>1, <2>2
  <1> HIDE DEF piece
  <1>8. Covered(done) \in {Wants[i].got, {}}
    BY <1>1, Mapped DEF Covered
  <1>9. Wants' = [Wants EXCEPT ![i] = Queue!Still(i, Covered(done), Wants[i].by \cup {u})]
    <2>1. Wants' = [Wants EXCEPT ![i] = Queue!Still(i, Covered(done), fileQueue[i].downloads \cup {u})]
      BY <1>1, <1>3, WantsStill
    <2> QED
      BY <1>1, <2>1, Mapped
  <1>10. Asked' = [v \in DOMAIN Asked \cup {u} |->
                    IF v = u THEN [at |-> Wants[i].target, blocks |-> piece] ELSE Asked[v]]
    <2>1. \A v \in Users \ {u} : SameAsked(v)
      BY <1>1, OthersAsked
    <2>2. dl'[u] # NoDownload /\ dl'[u].path = Wants[i].target /\ BlocksOf(dl'[u].segment) = piece
      BY <1>1, <1>4, Mapped DEF piece
    <2>3. {v \in Users : dl'[v] # NoDownload} = {v \in Users : dl[v] # NoDownload} \cup {u}
      BY <1>1, <2>1, <2>2 DEF SameAsked
    <2>4. \A v \in Users \ {u} : dl[v] # NoDownload =>
            [at |-> dl'[v].path, blocks |-> BlocksOf(dl'[v].segment)]
                = [at |-> dl[v].path, blocks |-> BlocksOf(dl[v].segment)]
      BY <2>1 DEF SameAsked
    <2> QED
      BY <2>2, <2>3, <2>4 DEF Asked
  <1>11. u \notin DOMAIN Asked
    BY <1>1, Mapped
  <1>12. Queue!Fetch(u, i, piece)
    BY <1>7, <1>8, <1>9, <1>10, <1>11 DEF Queue!Fetch
  <1> QED
    BY <1>1, <1>5, <1>12, SocketActs

-----------------------------------------------------------------------------
(* An answer. *)
LEMMA PutBackWants ==
    ASSUME NEW i \in Queued, NEW b, NEW w, PutBack(i, b, w)
    PROVE  Wants' = [Wants EXCEPT ![i] = Queue!Still(i, Covered(b), fileQueue[i].downloads \ w)]
  <1> DEFINE left == fileQueue[i].downloads \ w
  <1>1. /\ Queued' = Queued /\ \A j \in Queued \ {i} : fileQueue'[j] = fileQueue[j]
        /\ fileQueue'[i].target = fileQueue[i].target /\ fileQueue'[i].root = fileQueue[i].root
        /\ fileQueue'[i].done = b /\ fileQueue'[i].downloads = left
    BY DEF PutBack
  <1> HIDE DEF left
  <1>2. Wants' = [Wants EXCEPT ![i] = Queue!Still(i, Covered(b), left)]
    BY <1>1, WantsStill
  <1> QED
    BY <1>2 DEF left

LEMMA CreditQueue ==
    ASSUME IInv, ProperInv, NEW u \in Users, Queue!Answered(u), NEW i \in At(dl[u].path),
           dl[u] # NoDownload, NEW s, Brought(u, s),
           PutBack(i, AddSegment(fileQueue[i].done, s), {u})
    PROVE  QueueStep
  <1> DEFINE old == fileQueue[i].done
             new == AddSegment(old, s)
             got == Covered(new)
             piece == BlocksOf(s)
  <1>1. i \in Queued /\ s \in Positions \X Positions /\ old \in SUBSET (Positions \X Positions)
    BY DEF At, Brought, IInv, TypeOK, QueueItem
  <1>2. piece \in Queue!Pieces
    BY <1>1, BlocksArePieces
  <1>3. got \in SUBSET (Covered(old) \cup piece)
    <2>1. 2 * Blocks \in Nat
      BY QueueAssumption
    <2> QED
      BY <1>1, <2>1, AddSegmentCovers DEF Positions
  <1>4. BadData \/ piece \cap Covered(old) # {} \/ got = Covered(old) \cup piece
    <2> SUFFICES ASSUME ~BadData, piece \cap Covered(old) = {} PROVE got = Covered(old) \cup piece
      OBVIOUS
    <2>1. (\A x \in old \cup {s} : Proper(x)) /\ ApartIn(old)
      BY <1>1 DEF ProperInv, Brought
    <2> QED
      BY <1>1, <2>1, AddSegmentLossless
  <1>5. BadData \/ piece \subseteq Asked[u].blocks
    BY Mapped DEF Brought
  <1>6. Wants' = [Wants EXCEPT ![i] = Queue!Still(i, got, Wants[i].by \ {u})]
    <2>1. Wants' = [Wants EXCEPT ![i] = Queue!Still(i, got, fileQueue[i].downloads \ {u})]
      BY <1>1, PutBackWants
    <2> QED
      BY <1>1, <2>1, Mapped
  <1>7. i \in Queue!At(Asked[u].at) /\ Wants[i].got = Covered(old)
    BY <1>1, Mapped
  <1> HIDE DEF old, new, got, piece
  <1>8. Queue!Credit(u, i, piece)
    BY <1>3, <1>4, <1>5, <1>6, <1>7 DEF Queue!Credit
  <1> QED
    BY <1>1, <1>2, <1>8, SocketActs

LEMMA NothingQueue ==
    ASSUME IInv, NEW u \in Users, Queue!Answered(u), NEW i \in At(dl[u].path), dl[u] # NoDownload,
           PutBack(i, fileQueue[i].done, {u})
    PROVE  QueueStep
  <1>1. i \in Queued
    BY DEF At
  <1>2. {} \in Queue!Pieces
    <2>1. NoSegment \in Positions \X Positions /\ BlocksOf(NoSegment) = {}
      BY QueueAssumption DEF NoSegment, Positions, BlocksOf, Begin, End
    <2> QED
      BY <2>1, BlocksArePieces
  <1>3. Wants' = [Wants EXCEPT ![i] = Queue!Still(i, Wants[i].got, Wants[i].by \ {u})]
    <2>1. Wants' = [Wants EXCEPT ![i] =
                        Queue!Still(i, Covered(fileQueue[i].done), fileQueue[i].downloads \ {u})]
      BY <1>1, PutBackWants
    <2> QED
      BY <1>1, <2>1, Mapped
  <1>4. i \in Queue!At(Asked[u].at)
    BY Mapped
  <1>5. Queue!Credit(u, i, {})
    BY <1>3, <1>4 DEF Queue!Credit
  <1> QED
    BY <1>1, <1>2, <1>5, SocketActs

LEMMA CompleteQueue ==
    ASSUME IInv, NEW u \in Users, Queue!Answered(u), NEW i \in At(dl[u].path), dl[u] # NoDownload,
           IsFile(i), Brought(u, dl[u].segment),
           Complete(AddSegment(fileQueue[i].done, dl[u].segment), Blocks),
           PutBack(i, {<<0, Blocks>>}, fileQueue[i].downloads) \/ TakenOut(i)
    PROVE  QueueStep
  <1>1. i \in Queued /\ fileQueue[i].done \in SUBSET (Positions \X Positions)
        /\ dl[u].segment \in Positions \X Positions
    BY DEF At, Brought, IInv, TypeOK, QueueItem
  <1>2. Covered({<<0, Blocks>>}) = Queue!Whole
    BY DEF Covered, BlocksOf, Begin, End, Queue!Whole
  <1>3. Queue!Whole \subseteq Wants[i].got \cup Asked[u].blocks
    <2>1. 2 * Blocks \in Nat
      BY QueueAssumption
    <2>2. Covered(AddSegment(fileQueue[i].done, dl[u].segment))
            \subseteq Covered(fileQueue[i].done) \cup BlocksOf(dl[u].segment)
      BY <1>1, <2>1, AddSegmentCovers DEF Positions
    <2> QED
      BY <1>1, <1>2, <2>2, Mapped DEF Complete
  <1>4. i \in Queue!At(Asked[u].at) /\ Wants[i].root # ListRoot
    BY <1>1, Mapped DEF IsFile
  <1>5. CASE PutBack(i, {<<0, Blocks>>}, fileQueue[i].downloads)
    <2>1. fileQueue[i].downloads \ fileQueue[i].downloads = {}
      OBVIOUS
    <2>2. Wants' = [Wants EXCEPT ![i] = Queue!Still(i, Queue!Whole, {})]
      BY <1>1, <1>2, <1>5, <2>1, PutBackWants
    <2>3. Queue!Complete(u, i)
      BY <1>3, <1>4, <2>2 DEF Queue!Complete
    <2> QED
      BY <1>1, <2>3, SocketActs
  <1>6. CASE TakenOut(i)
    <2>1. Wants' = [j \in Queue!Wanted \ {i} |-> Wants[j]]
      BY <1>6, WantsLess DEF TakenOut
    <2>2. Queue!Complete(u, i)
      BY <1>3, <1>4, <2>1 DEF Queue!Complete
    <2> QED
      BY <1>1, <2>2, SocketActs
  <1> QED
    BY <1>5, <1>6

LEMMA EndingQueue ==
    ASSUME IInv, RightKind, ProperInv, NEW u \in Users, Ending(u)
    PROVE  QueueStep
  <1>1. dl[u] # NoDownload /\ dl'[u] = NoDownload /\ OthersKept(u)
    BY EndingLeaves DEF Leaves, OthersKept
  <1>2. Queue!Answered(u)
    BY <1>1, AnsweredStep
  <1>3. Ended(u)
    BY EndingEnded
  <1>4. CASE At(dl[u].path) = {} /\ UNCHANGED fileQueue
    <2>1. Wants' = Wants
      BY <1>4, WantsKept DEF SameWant, Queued
    <2>2. Queue!Waste(u)
      BY <1>1, <1>2, <1>4, <2>1, Mapped DEF Queue!Waste
    <2> QED
      BY <2>2, SocketActs
  <1>5. ASSUME NEW i \in At(dl[u].path), ~IsFile(i), TakenOut(i)
        PROVE  QueueStep
    <2>1. i \in Queued /\ i \in Queue!At(Asked[u].at) /\ Wants[i].root = ListRoot
      BY <1>1, <1>5, Mapped DEF At, IsFile
    <2>2. Wants' = [j \in Queue!Wanted \ {i} |-> Wants[j]]
      BY <1>5, WantsLess DEF TakenOut
    <2>3. Queue!TakeList(u, i)
      BY <1>2, <2>1, <2>2 DEF Queue!TakeList
    <2> QED
      BY <2>1, <2>3, SocketActs
  <1> QED
    BY <1>1, <1>2, <1>3, <1>4, <1>5, CreditQueue, NothingQueue, CompleteQueue DEF Ended

-----------------------------------------------------------------------------
LEMMA StepQueue == CacheInv /\ ProperInv /\ [Next]_vars => QueueStep
  <1> SUFFICES ASSUME CacheInv, ProperInv, [Next]_vars PROVE QueueStep
    OBVIOUS
  <1> USE DEF CacheInv
  <1>1. ASSUME UNCHANGED <<fileQueue, dl>> PROVE QueueStep
    BY <1>1, WantsKept, AskedKept DEF SameWant, SameAsked, Queued, QueueStep
  <1>2. CASE UNCHANGED vars
    BY <1>1, <1>2 DEF vars
  <1>3. ASSUME NEW u \in Users, FollowDangling(u) \/ GetSecond(u) PROVE QueueStep
    BY <1>1, <1>3 DEF FollowDangling, GetSecond
  <1>4. ASSUME NEW r \in Roots, NEW u \in Users, SearchResult(r, u) PROVE QueueStep
    BY <1>4, AddSourceQueue DEF SearchResult, WithRoot, QueueStep
  <1> QED
    BY <1>2, <1>3, <1>4, UserStepQueue, SocketQueue, GetDownloadQueue, EndingQueue
       DEF Next, SocketStep, Ending

LEMMA InitQueue == Init => Queue!Init
  BY DEF Init, Queued, Wants, Asked, Queue!Init

(***************************************************************************)
(* QueueSpec: the items and the Downloads, with everything that the user,  *)
(* the searches and the socket threads do to them, implement the abstract  *)
(* queue.                                                                  *)
(***************************************************************************)
THEOREM QueueRefined == Spec => QueueSpec
  <1>1. CacheInv /\ ProperInv /\ [Next]_vars => [Queue!Next]_<<Wants, Asked>>
    BY StepQueue DEF QueueStep
  <1> QED
    BY <1>1, InitQueue, CacheInvariant, ProperInvariant, PTL DEF Spec, QueueSpec, Queue!Spec
=============================================================================
